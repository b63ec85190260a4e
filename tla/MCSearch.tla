----------------------------- MODULE MCSearch ------------------------------
(* Small instances of Search. *)
EXTENDS Search, TLC

CONSTANTS f1, f2, f3, f4, f5, n1, n2, n3, n4, n5

Date(day, month, year) == [style |-> "digits", day |-> day, month |-> month, year |-> year]

MCToday == [day |-> 15, month |-> 4, year |-> 2024]

Born(y) == DayNumber(Date(1, 3, y))
Plain(name, long, ext, above, size, y) ==
    [name |-> name, long |-> long, ext |-> ext, above |-> above, size |-> size, birth |-> Born(y)]

\* Two files of one name, the first empty; a short name; names without a period, one of
\* them below a directory with one.
MCFile ==
    (f1 :> Plain(n1, TRUE, ".txt", "none", 0, 1999)) @@
    (f2 :> Plain(n1, TRUE, ".txt", "none", 3, 2001)) @@
    (f3 :> Plain(n2, FALSE, ".c", "none", 7, 2023)) @@
    (f4 :> Plain(n3, TRUE, "none", ".d/name", 1, 2023)) @@
    (f5 :> Plain(n4, TRUE, "none", "none", 6, 2024))

\* Within an int, at its limit, behind it and around; and one that ends with a letter.
MCSizeTexts == {[value |-> v, digits |-> TRUE] :
                    v \in {0, 1, 3, IntHalf - 1, IntHalf, 2 * IntHalf, 2 * IntHalf + 3}}
               \cup {[value |-> 3, digits |-> FALSE]}

\* As users type them, and as the path of a file without a period ends.
MCExtTexts == {".txt", ".c", "c", ".d/name"}

\* The ends of the months that differ, the leap years, today and the days around it, and
\* what no calendar has.
MCDateTexts ==
    {Date(d, 2, y) : d \in 28 .. 30, y \in {1900, 2000, 2023, 2024}}
    \cup {Date(d, m, 2023) : d \in {30, 31, 32}, m \in {3, 4, 12}}
    \cup {Date(d, 4, 2024) : d \in 14 .. 16}
    \cup {Date(1, m, 2024) : m \in {3, 5, 13}}
    \cup {Date(1, 1, 2025), Date(0, 1, 2000)}
    \cup {[Date(1, 1, 2023) EXCEPT !.style = "iso"], [Date(31, 3, 2023) EXCEPT !.style = "month"]}

=============================================================================
