----------------------------- MODULE MCArchive -----------------------------
(* Small instances of Archive. *)
EXTENDS Archive, TLC

CONSTANTS a1, a2, b1, A, B

\* Two files of one name and different lengths, and an empty one of another name.
MCName == (a1 :> A) @@ (a2 :> A) @@ (b1 :> B)
MCBlocks == (a1 :> 2) @@ (a2 :> 1) @@ (b1 :> 0)

Ext(files) == [ext |-> TRUE, files |-> files]
Plain(files) == [ext |-> FALSE, files |-> files]

\* Both files of one name, one of each name, and nothing, by both ways to search.
MCSearches == {Ext({a1, a2}), Plain({a2, b1}), Plain({})}

\* One search of each way, for different names.
MCTwoSearches == {Ext({a1}), Plain({b1})}

=============================================================================
