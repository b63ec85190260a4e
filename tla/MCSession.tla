----------------------------- MODULE MCSession -----------------------------
(* Small instances of Session. *)
EXTENDS Session

\* The shortest line there is, a new line, and one that does not fit the client's buffer
\* together with what follows it.
MCLines == {1, 6}

\* Archives of nothing, of less than a block, of one block, and of more than one.
MCArchiveSizes == {0, 1, Block, Block + 1, 2 * Block + 1}

=============================================================================
