----------------------------- MODULE BlockCopy -----------------------------
(***************************************************************************)
(* What copy_file (fileutil.h) promises, by blocks: the view the module    *)
(* Archive has of it.  Copies follow one another to the same destination;  *)
(* each writes its blocks in order, from the first position on, and leaves *)
(* what lies behind them as it was.                                        *)
(***************************************************************************)
EXTENDS Naturals, Sequences

CONSTANTS
    Lengths,    \* the numbers of blocks of the sources
    MayStop     \* may a copy end early, unnoticed

VARIABLES
    content,  \* the blocks of the destination: <<copy, position in its source>>
    copy,     \* the number of this copy
    blocks,   \* the blocks of its source
    off,      \* the blocks it has copied, 0 when it is not copying
    stage     \* "idle" or "copy"

vars == <<content, copy, blocks, off, stage>>

Init == content = <<>> /\ copy = 0 /\ blocks = 0 /\ off = 0 /\ stage = "idle"

Start ==
    /\ stage = "idle"
    /\ copy' = copy + 1
    /\ blocks' \in Lengths
    /\ off' = 0
    /\ stage' = IF blocks' = 0 THEN "idle" ELSE "copy"
    /\ UNCHANGED content

CopyBlock ==
    /\ stage = "copy"
    /\ content' = SubSeq(content, 1, off) \o <<<<copy, off + 1>>>>
                      \o SubSeq(content, off + 2, Len(content))
    /\ off' = IF off + 1 = blocks THEN 0 ELSE off + 1
    /\ stage' = IF off + 1 = blocks THEN "idle" ELSE "copy"
    /\ UNCHANGED <<copy, blocks>>

Stop ==
    /\ MayStop
    /\ stage = "copy"
    /\ stage' = "idle"
    /\ off' = 0
    /\ UNCHANGED <<content, copy, blocks>>

Next == Start \/ CopyBlock \/ Stop

\* What the copies may do, without what they must.
Safety == Init /\ [][Next]_vars

Spec == Safety /\ WF_vars(CopyBlock \/ Stop)

=============================================================================
