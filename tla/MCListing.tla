----------------------------- MODULE MCListing -----------------------------
(* Small instances of Listing. *)
EXTENDS Listing

\* Two times in one second, and one in the next with fewer nanoseconds than the later.
OneSecond == {[sec |-> 1, nsec |-> 2], [sec |-> 1, nsec |-> 5]}
TwoSeconds == OneSecond \cup {[sec |-> 2, nsec |-> 3]}

=============================================================================
