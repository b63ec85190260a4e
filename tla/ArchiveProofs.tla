--------------------------- MODULE ArchiveProofs ---------------------------
(***************************************************************************)
(* Theorems about Archive, for any number of children, any tree of files   *)
(* and any searches: what the copies of all children make of the storage   *)
(* directory, and what a child that nobody disturbs sends.                 *)
(***************************************************************************)
EXTENDS Archive, SequenceTheorems, TLAPS

At == {"stat", "mkdir", "walk", "copy", "tar", "send"}

\* The match f of p's search has a file in the directory, as long as f if its copy was not cut.
Stored(p, f) ==
    /\ Name[f] \in stored
    /\ f \notin lost[p] => Len(content[Name[f]]) >= Blocks[f]

\* How far a child is with its search: what it has to do no more is stored; while it copies
\* its position is behind no gap of the file, and before the end of its source.
Progress(p) ==
    /\ todo[p] \subseteq search[p].files
    /\ pc[p] \in At => \A f \in search[p].files \ todo[p] : Stored(p, f)
    /\ pc[p] \in {"tar", "send"} => todo[p] = {}
    /\ pc[p] = "copy" =>
          /\ current[p] \in todo[p]
          /\ Name[current[p]] \in stored
          /\ off[p] < Blocks[current[p]]
          /\ off[p] <= Len(content[Name[current[p]]])
    /\ pc[p] \in {"idle", "stat", "mkdir", "walk"} => off[p] = 0

Inv == TypeOK /\ BlocksInPlace /\ \A p \in Children : Progress(p)

\* The file f is stored under its name, undisturbed by others of that name.
Whole(f) == \A k \in 1 .. Blocks[f] : content[Name[f]][k] = <<f, k>>

\* A member of an archive made by p of the directory as it is.
Fresh(m, p) == m.name \in Names /\ m = [name |-> m.name, data |-> content[m.name], by |-> p]

\* What a child that is alone is done with is whole: for every name of a match, one match,
\* unless one of its copies was cut.
DoneWhole(p) == pc[p] \in At => \A f \in search[p].files \ todo[p] :
    \/ pc[p] = "copy" /\ Name[f] = Name[current[p]]
    \/ LostName(p, Name[f])
    \/ \E g \in search[p].files : Name[g] = Name[f] /\ Whole(g)

\* The file it copies is whole up to its position.
CopiedSoFar(p) == pc[p] = "copy" =>
    \A k \in 1 .. off[p] : content[Name[current[p]]][k] = <<current[p], k>>

\* The archive is its own and as the directory is; what is sent is what is in it.
OwnArchive(p) ==
    /\ pc[p] \in {"tar", "send"} => \A i \in 1 .. Len(archive) : Fresh(archive[i], p)
    /\ pc[p] = "tar" =>
          /\ off[p] = Len(archive)
          /\ \A n \in stored \ members[p] : \E i \in 1 .. Len(archive) : archive[i].name = n
    /\ pc[p] = "send" =>
          /\ \A n \in stored : \E i \in 1 .. Len(archive) : archive[i].name = n
          /\ off[p] <= Len(archive)
          /\ Len(reply[p].sent) = off[p]
          /\ \A i \in 1 .. off[p] : reply[p].sent[i] = archive[i]

\* A child is alone while no other searches.
Solo(p) == pc[p] \in At => \A d \in Children \ {p} : pc[d] \notin At

Undisturbed(p) == alone[p] => Solo(p) /\ DoneWhole(p) /\ CopiedSoFar(p) /\ OwnArchive(p)

\* ServedAlone of one child: its own members, and for every name of a match one of them whole.
Carries(sent, files, cut, p) ==
    /\ \A m \in sent : m.by = p
    /\ \A f \in files : (\E h \in cut : Name[h] = Name[f]) \/ \E m \in sent, g \in files :
          /\ m.name = Name[f]
          /\ m.name = Name[g]
          /\ \A k \in 1 .. Blocks[g] : m.data[k] = <<g, k>>
Served(p) == alone[p] /\ Answered(p) => Carries(Sent(p), search[p].files, lost[p], p)

AloneInv == Inv /\ \A p \in Children : Undisturbed(p) /\ Served(p)

-----------------------------------------------------------------------------
(***************************************************************************)
(* Sequences of blocks.                                                    *)
(***************************************************************************)
LEMMA Constants ==
    /\ \A f \in Files : Name[f] \in Names /\ Blocks[f] \in Nat
    /\ MaxSearches \in Nat
    /\ Searches \subseteq [ext : BOOLEAN, files : SUBSET Files]
  BY ArchiveAssumption

\* A function on 1 .. m is a sequence of length m.
LEMMA FunctionIsSeq ==
    ASSUME NEW S, NEW m \in Nat, NEW e \in [1 .. m -> S]
    PROVE  e \in Seq(S) /\ Len(e) = m
<1>1. e \in Seq(S)
  BY SeqDef
<1>2. Len(e) \in Nat /\ 1 .. Len(e) = 1 .. m
  BY <1>1, LenProperties
<1> QED BY <1>1, <1>2

\* The sequence w is data with x at i; what was behind the gap it leaves is as it was.
IsWritten(w, S, data, i, x) ==
    /\ w \in Seq(S \cup {Hole})
    /\ Len(w) = IF i > Len(data) THEN i ELSE Len(data)
    /\ w[i] = x
    /\ \A k \in 1 .. Len(data) : k # i => w[k] = data[k]

\* That is what WriteAt makes.
LEMMA Written ==
    ASSUME NEW S, NEW data \in Seq(S \cup {Hole}), NEW i \in Nat \ {0}, NEW x \in S \cup {Hole}
    PROVE  IsWritten(WriteAt(data, i, x), S, data, i, x)
<1> DEFINE m == IF i > Len(data) THEN i ELSE Len(data)
           e == [k \in 1 .. m |-> IF k = i THEN x ELSE IF k <= Len(data) THEN data[k] ELSE Hole]
<1>1. Len(data) \in Nat /\ data \in [1 .. Len(data) -> S \cup {Hole}]
  BY LenProperties
<1>2. m \in Nat /\ i <= m /\ Len(data) <= m
  BY <1>1
<1>3. e \in [1 .. m -> S \cup {Hole}]
  <2>1. ASSUME NEW k \in 1 .. m
        PROVE  (IF k = i THEN x ELSE IF k <= Len(data) THEN data[k] ELSE Hole) \in S \cup {Hole}
    BY <1>1
  <2> QED BY <2>1
<1>4. WriteAt(data, i, x) = e
  BY DEF WriteAt
<1>5. e \in Seq(S \cup {Hole}) /\ Len(e) = m
  <2> HIDE DEF m, e
  <2> QED BY <1>2, <1>3, FunctionIsSeq
<1>6. e[i] = x /\ \A k \in 1 .. Len(data) : k # i => e[k] = data[k]
  BY <1>1, <1>2
<1> QED BY <1>4, <1>5, <1>6 DEF IsWritten

\* What tar reads of a stored file are blocks: no copy has left a gap.
LEMMA NoHoles ==
    ASSUME TypeOK, BlocksInPlace, NEW n \in Names
    PROVE  content[n] \in Seq(Block)
<1>1. content[n] \in Seq(Block \cup {Hole}) /\ Len(content[n]) \in Nat
  BY LenProperties DEF TypeOK
<1>2. content[n] \in [1 .. Len(content[n]) -> Block \cup {Hole}]
  BY <1>1, LenProperties
<1>3. ASSUME NEW k \in 1 .. Len(content[n]) PROVE content[n][k] \in Block
  <2>1. PICK f \in Files : content[n][k] = <<f, k>>
    BY DEF BlocksInPlace
  <2>2. k \in Nat \ {0}
    BY <1>1
  <2> QED BY <2>1, <2>2 DEF Block
<1>4. content[n] \in [1 .. Len(content[n]) -> Block]
  BY <1>2, <1>3
<1> QED BY <1>1, <1>4, FunctionIsSeq

\* A member is not what a read finds in a gap.
LEMMA MemberIsNoHole == Hole \notin Member
<1>1. Seq(Block) \subseteq Seq(Files \X Nat)
  <2>1. ASSUME NEW s \in Seq(Block) PROVE s \in Seq(Files \X Nat)
    <3>1. Len(s) \in Nat /\ s \in [1 .. Len(s) -> Block]
      BY LenProperties
    <3>2. s \in [1 .. Len(s) -> Files \X Nat]
      BY <3>1 DEF Block
    <3> QED BY <3>1, <3>2, FunctionIsSeq
  <2> QED BY <2>1
<1>2. Member \subseteq [name : Names, data : Seq(Files \X Nat), by : Children]
  BY <1>1 DEF Member
<1> QED BY <1>2, ArchiveAssumption

-----------------------------------------------------------------------------
(***************************************************************************)
(* Types, blocks in their places and the progress of every child.          *)
(***************************************************************************)
\* What a child is done with stays done while others add to the directory.
LEMMA OthersProgress ==
    ASSUME Inv, NEW c \in Children,
           pc'[c] = pc[c], search'[c] = search[c], todo'[c] = todo[c],
           current'[c] = current[c], off'[c] = off[c], lost'[c] = lost[c],
           stored \subseteq stored',
           \A n \in Names : Len(content'[n]) \in Nat /\ Len(content'[n]) >= Len(content[n])
    PROVE  Progress(c)'
<1>1. Progress(c) /\ todo[c] \subseteq Files /\ search[c].files \subseteq Files
  BY DEF Inv, TypeOK
<1>2. \A n \in Names : Len(content[n]) \in Nat
  BY LenProperties DEF Inv, TypeOK
<1>3. \A f \in Files : Stored(c, f) => Stored(c, f)'
  BY <1>2, Constants DEF Stored
<1>4. off[c] \in Nat
  BY DEF Inv, TypeOK
<1> QED BY <1>1, <1>2, <1>3, <1>4, Constants DEF Progress

\* The same when the directory is as it was.
LEMMA OthersKeep ==
    ASSUME Inv, NEW c \in Children,
           pc'[c] = pc[c], search'[c] = search[c], todo'[c] = todo[c],
           current'[c] = current[c], off'[c] = off[c], lost'[c] = lost[c],
           UNCHANGED <<stored, content>>
    PROVE  Progress(c)'
<1>1. \A n \in Names : Len(content[n]) \in Nat
  BY LenProperties DEF Inv, TypeOK
<1> QED BY <1>1, OthersProgress

LEMMA InvInit == Init => Inv
<1> SUFFICES ASSUME Init PROVE Inv
  OBVIOUS
<1>1. TypeOK
  <2>1. <<>> \in Seq(Block \cup {Hole}) /\ <<>> \in Seq(Member \cup {Hole})
    OBVIOUS
  <2>2. reply \in [Children -> [tag : {"none", "TAR", "404", "bare"},
                                sent : Seq(Member \cup {Hole})]]
    BY <2>1 DEF Init, NoReply
  <2>3. search \in [Children -> [ext : BOOLEAN, files : SUBSET Files]]
    <3>1. [ext |-> FALSE, files |-> {}] \in [ext : BOOLEAN, files : SUBSET Files]
      OBVIOUS
    <3> QED BY <3>1 DEF Init
  <2>4. content \in [Names -> Seq(Block \cup {Hole})]
    BY <2>1 DEF Init
  <2> QED BY <2>1, <2>2, <2>3, <2>4, Constants DEF Init, TypeOK
<1>2. BlocksInPlace
  BY DEF Init, BlocksInPlace
<1>3. \A p \in Children : Progress(p)
  BY DEF Init, Progress, At
<1> QED BY <1>1, <1>2, <1>3 DEF Inv

\* A request begins with nothing done.
LEMMA BeginInv == ASSUME Inv, NEW p \in Children, Begin(p) PROVE Inv'
<1>1. PICK q \in Searches : BeginWith(p, q)
  BY DEF Begin
<1>2. q \in [ext : BOOLEAN, files : SUBSET Files]
  BY Constants
<1>3. PICK place \in {"stat", "walk", "dead"} : Goto(p, place)
  BY <1>1 DEF BeginWith, Entered
<1>4. TypeOK'
  <2>1. NoReply \in [tag : {"none", "TAR", "404", "bare"}, sent : Seq(Member \cup {Hole})]
    BY DEF NoReply
  <2>2. alone' \in [Children -> BOOLEAN]
    <3>1. \A c \in Children : alone[c] \in BOOLEAN
      BY DEF Inv, TypeOK
    <3> QED BY <1>1, <3>1 DEF BeginWith, Busy
  <2>3. reply' \in [Children -> [tag : {"none", "TAR", "404", "bare"},
                                 sent : Seq(Member \cup {Hole})]]
    BY <1>1, <2>1 DEF Inv, TypeOK, BeginWith
  <2>4. UNCHANGED <<stored, content, dir, archive, current, off, members>>
    BY <1>1 DEF BeginWith, storageVars
  <2>5. done' \in 0 .. MaxSearches
    BY <1>1, Constants DEF Inv, TypeOK, BeginWith
  <2> QED BY <1>1, <1>2, <1>3, <2>2, <2>3, <2>4, <2>5 DEF Inv, TypeOK, BeginWith, Goto
<1>5. BlocksInPlace'
  BY <1>1 DEF Inv, BlocksInPlace, BeginWith, storageVars
<1>6. Progress(p)'
  BY <1>1, <1>2, <1>3 DEF Inv, TypeOK, Progress, BeginWith, Goto
<1>7. ASSUME NEW c \in Children, c # p PROVE Progress(c)'
  BY <1>1, <1>3, <1>7, OthersKeep DEF Inv, TypeOK, BeginWith, Goto, storageVars
<1> QED BY <1>4, <1>5, <1>6, <1>7 DEF Inv

\* Before the walk, and where it ends the search.
LEMMA AroundInv ==
    ASSUME Inv, NEW p \in Children,
           StatStorage(p) \/ MakeStorage(p) \/ CopyFails(p) \/ WalkFails(p)
    PROVE  Inv'
<1> USE DEF StatStorage, MakeStorage, CopyFails, WalkFails, Goto, storageVars
<1>1. UNCHANGED <<stored, content, archive, search, todo, current, off, members, done, alone,
                  lost>>
  OBVIOUS
<1>2. TypeOK'
  <2> DEFINE Reply == [tag : {"none", "TAR", "404", "bare"}, sent : Seq(Member \cup {Hole})]
  <2>1. reply \in [Children -> Reply]
    BY DEF Inv, TypeOK
  <2>2. CASE WalkFails(p)
    <3>1. PICK t \in {"none", "TAR", "404", "bare"} : reply' = [reply EXCEPT ![p].tag = t]
      <4>1. reply[p].tag \in {"none", "TAR", "404", "bare"}
        BY <2>1
      <4> QED BY <2>2, <4>1
    <3>2. [reply[p] EXCEPT !.tag = t] \in Reply
      BY <2>1, <3>1
    <3>3. reply' \in [Children -> Reply]
      BY <2>1, <3>1, <3>2
    <3> QED BY <1>1, <3>3 DEF Inv, TypeOK
  <2>3. CASE UNCHANGED reply
    BY <1>1, <2>3 DEF Inv, TypeOK
  <2> QED BY <2>2, <2>3
<1>3. BlocksInPlace'
  BY <1>1 DEF Inv, BlocksInPlace
<1>4. Progress(p)'
  BY <1>1 DEF Inv, TypeOK, Progress, At, Stored
<1>5. ASSUME NEW c \in Children, c # p PROVE Progress(c)'
  BY <1>1, <1>5, OthersKeep DEF Inv, TypeOK
<1> QED BY <1>2, <1>3, <1>4, <1>5 DEF Inv

\* A file is opened in the directory, and what it holds stays.
LEMMA CopyFileInv == ASSUME Inv, NEW p \in Children, CopyFile(p) PROVE Inv'
<1>1. PICK f \in todo[p] :
        /\ pc[p] = "walk"
        /\ stored' = stored \cup {Name[f]}
        /\ content' = [content EXCEPT ![Name[f]] = @]
        /\ AfterBlock(p, f, 0)
        /\ UNCHANGED <<dir, archive, dangling, search, members, reply, done, alone, lost>>
  BY DEF CopyFile, Opened
<1>2. f \in Files /\ Name[f] \in Names /\ Blocks[f] \in Nat
  BY Constants DEF Inv, TypeOK
<1>3. content' = content
  BY <1>1 DEF Inv, TypeOK
<1>4. /\ pc' = [pc EXCEPT ![p] = IF 0 = Blocks[f] THEN "walk" ELSE "copy"]
      /\ todo' = [todo EXCEPT ![p] = IF 0 = Blocks[f] THEN todo[p] \ {f} ELSE todo[p]]
      /\ off' = [off EXCEPT ![p] = 0]
      /\ current' = [current EXCEPT ![p] = IF 0 = Blocks[f] THEN "none" ELSE f]
  BY <1>1 DEF AfterBlock, Goto, Inv, TypeOK
<1>5. TypeOK'
  BY <1>1, <1>2, <1>3, <1>4 DEF Inv, TypeOK
<1>6. BlocksInPlace'
  BY <1>3 DEF Inv, BlocksInPlace
<1>7. \A n \in Names : Len(content[n]) \in Nat
  BY LenProperties DEF Inv, TypeOK
<1>8. Progress(p)'
  <2>1. Progress(p) /\ todo[p] \subseteq Files /\ search[p].files \subseteq Files
    BY DEF Inv, TypeOK
  <2>2. \A g \in Files : Stored(p, g) => Stored(p, g)'
    BY <1>1, <1>3 DEF Stored
  <2>3. Blocks[f] = 0 => Stored(p, f)'
    BY <1>1, <1>2, <1>3, <1>7 DEF Stored
  <2>4. pc'[p] = (IF 0 = Blocks[f] THEN "walk" ELSE "copy") /\ off'[p] = 0
        /\ current'[p] = (IF 0 = Blocks[f] THEN "none" ELSE f)
        /\ todo'[p] = (IF 0 = Blocks[f] THEN todo[p] \ {f} ELSE todo[p]) /\ search' = search
    BY <1>1, <1>4 DEF Inv, TypeOK
  <2>5. \A g \in search[p].files \ todo'[p] : Stored(p, g)'
    BY <1>1, <2>1, <2>2, <2>3, <2>4 DEF Progress, At
  <2> QED BY <1>1, <1>2, <1>3, <1>7, <2>1, <2>4, <2>5 DEF Progress
<1>9. ASSUME NEW c \in Children, c # p PROVE Progress(c)'
  <2>1. /\ pc'[c] = pc[c] /\ search'[c] = search[c] /\ todo'[c] = todo[c]
        /\ current'[c] = current[c] /\ off'[c] = off[c] /\ lost'[c] = lost[c]
    BY <1>1, <1>4, <1>9 DEF Inv, TypeOK
  <2>2. \A n \in Names : Len(content'[n]) \in Nat /\ Len(content'[n]) >= Len(content[n])
    BY <1>3, <1>7
  <2> QED BY <1>1, <2>1, <2>2, OthersProgress
<1> QED BY <1>5, <1>6, <1>8, <1>9 DEF Inv

\* A block is written at the position behind those already there, so that no gap arises.
LEMMA CopyBlockInv == ASSUME Inv, NEW p \in Children, CopyBlock(p) PROVE Inv'
<1>f. PICK f : f = current[p]
  OBVIOUS
<1> DEFINE w == WriteAt(content[Name[f]], off[p] + 1, NextBlock(p))
<1>1. Progress(p) /\ pc[p] = "copy" /\ off[p] \in Nat /\ todo[p] \subseteq Files
  BY DEF Inv, TypeOK, CopyBlock
<1>2. /\ f \in todo[p] /\ f \in Files /\ Name[f] \in Names /\ Blocks[f] \in Nat
      /\ off[p] < Blocks[f] /\ off[p] <= Len(content[Name[f]]) /\ Name[f] \in stored
  BY <1>f, <1>1, Constants DEF Progress
<1>3. /\ content' = [content EXCEPT ![Name[f]] = w]
      /\ AfterBlock(p, f, off[p] + 1)
      /\ UNCHANGED <<stored, dir, archive, dangling, search, members, reply, done, alone, lost>>
  BY <1>f DEF CopyBlock
<1>4. NextBlock(p) = <<f, off[p] + 1>> /\ NextBlock(p) \in Block
  BY <1>f, <1>1, <1>2 DEF NextBlock, Block
<1>5. content[Name[f]] \in Seq(Block \cup {Hole}) /\ Len(content[Name[f]]) \in Nat
  BY <1>2, LenProperties DEF Inv, TypeOK
<1>6. /\ w \in Seq(Block \cup {Hole})
      /\ Len(w) = (IF off[p] + 1 > Len(content[Name[f]]) THEN off[p] + 1
                                                         ELSE Len(content[Name[f]]))
      /\ w[off[p] + 1] = NextBlock(p)
      /\ \A k \in 1 .. Len(content[Name[f]]) : k # off[p] + 1 => w[k] = content[Name[f]][k]
  <2>1. off[p] + 1 \in Nat \ {0} /\ NextBlock(p) \in Block \cup {Hole}
    BY <1>1, <1>4
  <2>2. IsWritten(w, Block, content[Name[f]], off[p] + 1, NextBlock(p))
    BY <1>5, <2>1, Written
  <2> QED BY <2>2 DEF IsWritten
<1>7. /\ content'[Name[f]] = w
      /\ \A n \in Names : n # Name[f] => content'[n] = content[n]
  BY <1>2, <1>3 DEF Inv, TypeOK
<1> HIDE DEF w
<1>8. /\ pc' = [pc EXCEPT ![p] = IF off[p] + 1 = Blocks[f] THEN "walk" ELSE "copy"]
      /\ todo' = [todo EXCEPT ![p] = IF off[p] + 1 = Blocks[f] THEN todo[p] \ {f} ELSE todo[p]]
      /\ off' = [off EXCEPT ![p] = IF off[p] + 1 = Blocks[f] THEN 0 ELSE off[p] + 1]
      /\ current' = [current EXCEPT ![p] = IF off[p] + 1 = Blocks[f] THEN "none" ELSE f]
  BY <1>3 DEF AfterBlock, Goto, Inv, TypeOK
<1>9. TypeOK'
  <2>1. content' \in [Names -> Seq(Block \cup {Hole})]
    BY <1>3, <1>6 DEF Inv, TypeOK
  <2>2. off' \in [Children -> Nat]
    BY <1>1, <1>8 DEF Inv, TypeOK
  <2>3. todo' \in [Children -> SUBSET Files]
    BY <1>8 DEF Inv, TypeOK
  <2>4. pc' \in [Children -> {"idle", "stat", "mkdir", "walk", "copy", "tar", "send", "dead"}]
    BY <1>8 DEF Inv, TypeOK
  <2>5. current' \in [Children -> Files \cup {"none"}]
    BY <1>2, <1>8 DEF Inv, TypeOK
  <2> QED BY <1>3, <2>1, <2>2, <2>3, <2>4, <2>5 DEF Inv, TypeOK
<1>10. BlocksInPlace'
  <2> SUFFICES ASSUME NEW n \in Names, NEW k \in 1 .. Len(content'[n])
               PROVE  \E g \in Files :
                        Name[g] = n /\ k <= Blocks[g] /\ content'[n][k] = <<g, k>>
    BY DEF BlocksInPlace
  <2>1. CASE n # Name[f]
    BY <1>7, <2>1 DEF Inv, BlocksInPlace
  <2>2. CASE n = Name[f] /\ k = off[p] + 1
    <3>1. content'[n][k] = <<f, k>> /\ k <= Blocks[f]
      BY <1>1, <1>2, <1>4, <1>6, <1>7, <2>2
    <3> QED BY <1>2, <2>2, <3>1
  <2>3. CASE n = Name[f] /\ k # off[p] + 1
    <3>1. k \in 1 .. Len(content[n]) /\ content'[n][k] = content[n][k]
      BY <1>1, <1>2, <1>5, <1>6, <1>7, <2>3
    <3> QED BY <3>1 DEF Inv, BlocksInPlace
  <2> QED BY <2>1, <2>2, <2>3
<1>11. \A n \in Names : Len(content'[n]) \in Nat /\ Len(content'[n]) >= Len(content[n])
  <2>1. \A n \in Names : Len(content[n]) \in Nat
    BY LenProperties DEF Inv, TypeOK
  <2> QED BY <1>1, <1>5, <1>6, <1>7, <2>1
<1>12. Progress(p)'
  <2>1. /\ pc'[p] = (IF off[p] + 1 = Blocks[f] THEN "walk" ELSE "copy")
        /\ todo'[p] = (IF off[p] + 1 = Blocks[f] THEN todo[p] \ {f} ELSE todo[p])
        /\ off'[p] = (IF off[p] + 1 = Blocks[f] THEN 0 ELSE off[p] + 1)
        /\ current'[p] = (IF off[p] + 1 = Blocks[f] THEN "none" ELSE f)
        /\ search'[p] = search[p] /\ stored' = stored /\ lost' = lost
    BY <1>3, <1>8 DEF Inv, TypeOK
  <2>2. \A g \in search[p].files : Stored(p, g) => Stored(p, g)'
    <3>1. search[p].files \subseteq Files
      BY DEF Inv, TypeOK
    <3>2. \A n \in Names : Len(content[n]) \in Nat
      BY LenProperties DEF Inv, TypeOK
    <3> QED BY <1>11, <2>1, <3>1, <3>2, Constants DEF Stored
  <2>3. off[p] + 1 = Blocks[f] => Stored(p, f)'
    <3>1. Len(content'[Name[f]]) >= off[p] + 1
      BY <1>1, <1>5, <1>6, <1>7
    <3> QED BY <1>2, <2>1, <3>1 DEF Stored
  <2>4. \A g \in search[p].files \ todo'[p] : Stored(p, g)'
    <3>1. \A g \in search[p].files \ todo[p] : Stored(p, g)
      BY <1>1 DEF Progress, At
    <3> QED BY <2>1, <2>2, <2>3, <3>1
  <2>5. Len(content'[Name[f]]) >= off[p] + 1
    BY <1>1, <1>5, <1>6, <1>7
  <2> QED BY <1>1, <1>2, <2>1, <2>4, <2>5 DEF Progress
<1>13. ASSUME NEW c \in Children, c # p PROVE Progress(c)'
  <2>1. /\ pc'[c] = pc[c] /\ search'[c] = search[c] /\ todo'[c] = todo[c]
        /\ current'[c] = current[c] /\ off'[c] = off[c] /\ lost'[c] = lost[c]
    BY <1>3, <1>8, <1>13 DEF Inv, TypeOK
  <2> QED BY <1>3, <1>11, <2>1, OthersProgress
<1> QED BY <1>9, <1>10, <1>12, <1>13 DEF Inv

\* A copy is cut: its file stays, as long as it is by then, and counts as lost.
LEMMA CopyCutInv == ASSUME Inv, NEW p \in Children, CopyCut(p) PROVE Inv'
<1>f. PICK f : f = current[p]
  OBVIOUS
<1>1. Progress(p) /\ pc[p] = "copy" /\ f \in todo[p] /\ Name[f] \in stored
  BY <1>f DEF Inv, CopyCut, Progress
<1>2. /\ pc' = [pc EXCEPT ![p] = "walk"]
      /\ todo' = [todo EXCEPT ![p] = todo[p] \ {f}]
      /\ off' = [off EXCEPT ![p] = 0]
      /\ current' = [current EXCEPT ![p] = "none"]
      /\ lost' = [lost EXCEPT ![p] = lost[p] \cup {f}]
      /\ UNCHANGED <<stored, content, dir, archive, dangling, search, members, reply, done, alone>>
  BY <1>f DEF CopyCut, Goto, Inv, TypeOK, storageVars
<1>3. TypeOK'
  <2>1. f \in Files /\ todo[p] \in SUBSET Files /\ lost[p] \in SUBSET Files
    BY <1>1 DEF Inv, TypeOK
  <2>2. lost' \in [Children -> SUBSET Files] /\ todo' \in [Children -> SUBSET Files]
    BY <1>2, <2>1 DEF Inv, TypeOK
  <2> QED BY <1>2, <2>2 DEF Inv, TypeOK
<1>4. BlocksInPlace'
  BY <1>2 DEF Inv, BlocksInPlace
<1>5. Progress(p)'
  <2>1. /\ pc'[p] = "walk" /\ todo'[p] = todo[p] \ {f} /\ off'[p] = 0
        /\ lost'[p] = lost[p] \cup {f} /\ search'[p] = search[p]
    BY <1>2 DEF Inv, TypeOK
  <2>2. \A g \in search[p].files : Stored(p, g) => Stored(p, g)'
    BY <1>2, <2>1 DEF Stored
  <2>3. Stored(p, f)'
    BY <1>1, <1>2, <2>1 DEF Stored
  <2>4. \A g \in search[p].files \ todo[p] : Stored(p, g)
    BY <1>1 DEF Progress, At
  <2>5. \A g \in search[p].files \ todo'[p] : Stored(p, g)'
    BY <2>1, <2>2, <2>3, <2>4
  <2> QED BY <1>1, <2>1, <2>5 DEF Progress
<1>6. ASSUME NEW c \in Children, c # p PROVE Progress(c)'
  <2>1. /\ pc'[c] = pc[c] /\ search'[c] = search[c] /\ todo'[c] = todo[c]
        /\ current'[c] = current[c] /\ off'[c] = off[c] /\ lost'[c] = lost[c]
    BY <1>2, <1>6 DEF Inv, TypeOK
  <2> QED BY <1>2, <2>1, OthersKeep
<1> QED BY <1>3, <1>4, <1>5, <1>6 DEF Inv

\* The archive: what the directory holds is read, and read only.
LEMMA ArchiveInv ==
    ASSUME Inv, NEW p \in Children,
           \/ TarBegin(p) \/ TarAdd(p) \/ TarEnd(p) \/ TarFails(p)
           \/ SendMember(p) \/ SendEnd(p) \/ SendFails(p)
    PROVE  Inv'
<1> DEFINE Reply == [tag : {"none", "TAR", "404", "bare"}, sent : Seq(Member \cup {Hole})]
<1>1. UNCHANGED <<stored, content, dir, search, todo, current, done, alone>>
  BY DEF TarBegin, TarAdd, TarEnd, TarFails, Unpathed, SendMember, SendEnd, SendFails,
         storageVars
<1>2. archive' \in Seq(Member \cup {Hole})
  <2>1. CASE TarBegin(p)
    BY <2>1 DEF TarBegin
  <2>2. CASE TarAdd(p)
    <3>1. PICK n \in members[p] :
            archive' = WriteAt(archive, off[p] + 1, [name |-> n, data |-> content[n], by |-> p])
      BY <2>2 DEF TarAdd
    <3>2. n \in Names /\ off[p] + 1 \in Nat \ {0} /\ archive \in Seq(Member \cup {Hole})
      BY <3>1 DEF Inv, TypeOK
    <3>3. [name |-> n, data |-> content[n], by |-> p] \in Member \cup {Hole}
      BY <3>2, NoHoles DEF Inv, Member
    <3> QED BY <3>1, <3>2, <3>3, Written DEF IsWritten
  <2>3. CASE UNCHANGED archive
    BY <2>3 DEF Inv, TypeOK
  <2> QED BY <2>1, <2>2, <2>3
        DEF TarEnd, TarFails, Unpathed, SendMember, SendEnd, SendFails, storageVars
<1>3. reply' \in [Children -> Reply]
  <2>1. reply \in [Children -> Reply]
    BY DEF Inv, TypeOK
  <2>2. CASE TarEnd(p)
    <3>1. [tag |-> "TAR", sent |-> <<>>] \in Reply
      OBVIOUS
    <3> QED BY <2>1, <2>2, <3>1 DEF TarEnd
  <2>3. CASE TarFails(p)
    <3>1. PICK t \in {"bare", "404"} : reply' = [reply EXCEPT ![p].tag = t]
      BY <2>3 DEF TarFails, Unpathed
    <3>2. [reply[p] EXCEPT !.tag = t] \in Reply
      BY <2>1, <3>1
    <3> QED BY <2>1, <3>1, <3>2
  <2>4. CASE SendMember(p)
    <3>1. off[p] + 1 \in 1 .. Len(archive)
      BY <2>4, LenProperties DEF SendMember, MoreToSend, Inv, TypeOK
    <3>2. archive[off[p] + 1] \in Member \cup {Hole}
      BY <3>1, ElementOfSeq DEF Inv, TypeOK
    <3>3. Append(reply[p].sent, archive[off[p] + 1]) \in Seq(Member \cup {Hole})
      BY <2>1, <3>2, AppendProperties
    <3>4. [reply[p] EXCEPT !.sent = Append(reply[p].sent, archive[off[p] + 1])] \in Reply
      BY <2>1, <3>3
    <3>5. reply' = [reply EXCEPT ![p].sent = Append(reply[p].sent, archive[off[p] + 1])]
      BY <2>4 DEF SendMember
    <3> QED BY <2>1, <3>4, <3>5
  <2> QED BY <2>1, <2>2, <2>3, <2>4 DEF TarBegin, TarAdd, SendEnd, SendFails
<1>4. /\ pc' \in [Children -> {"idle", "stat", "mkdir", "walk", "copy", "tar", "send", "dead"}]
      /\ off' \in [Children -> Nat]
      /\ dangling' \in [Children -> BOOLEAN]
      /\ members' \in [Children -> SUBSET Names]
  <2> USE DEF Inv, TypeOK, Unpathed, Goto
  <2>1. CASE TarBegin(p)
    BY <2>1 DEF TarBegin
  <2>2. CASE TarAdd(p)
    BY <2>2 DEF TarAdd
  <2>3. CASE TarEnd(p)
    BY <2>3 DEF TarEnd
  <2>4. CASE TarFails(p)
    <3>1. Unpathed(p)
      BY <2>4 DEF TarFails
    <3> QED BY <3>1
  <2>5. CASE SendMember(p)
    BY <2>5 DEF SendMember
  <2>6. CASE SendEnd(p)
    BY <2>6 DEF SendEnd
  <2>7. CASE SendFails(p)
    BY <2>7 DEF SendFails
  <2> QED BY <2>1, <2>2, <2>3, <2>4, <2>5, <2>6, <2>7
<1>lost. /\ lost' \in [Children -> SUBSET Files]
         /\ pc'[p] = "idle" \/ lost' = lost
         /\ \A c \in Children \ {p} : lost'[c] = lost[c]
  <2>1. CASE SendFails(p)
    <3>1. search[p].files \in SUBSET Files
      BY DEF Inv, TypeOK
    <3> QED BY <2>1, <3>1 DEF SendFails, Goto, Inv, TypeOK
  <2>2. CASE UNCHANGED lost
    BY <2>2 DEF Inv, TypeOK
  <2> QED BY <2>1, <2>2 DEF TarBegin, TarAdd, TarEnd, TarFails, Unpathed, SendMember, SendEnd
<1>5. TypeOK'
  BY <1>1, <1>2, <1>3, <1>4, <1>lost DEF Inv, TypeOK
<1>6. BlocksInPlace'
  BY <1>1 DEF Inv, BlocksInPlace
<1>7. Progress(p)'
  <2>1. Progress(p) /\ (lost' = lost => \A f \in Files : Stored(p, f) <=> Stored(p, f)')
    BY <1>1 DEF Inv, Stored
  <2>2. search[p].files \subseteq Files
    BY DEF Inv, TypeOK
  <2>3. /\ pc[p] \in {"walk", "tar", "send"} /\ todo[p] = {}
        /\ pc'[p] \in {"tar", "send", "idle"}
        /\ pc'[p] = "idle" => off'[p] = 0
    BY <2>1 DEF Inv, TypeOK, Progress, TarBegin, TarAdd, TarEnd, TarFails, Unpathed, SendMember,
                SendEnd, SendFails, Goto
  <2> QED BY <1>1, <1>lost, <2>1, <2>2, <2>3 DEF Progress, At
<1>8. ASSUME NEW c \in Children, c # p PROVE Progress(c)'
  <2>1. pc'[c] = pc[c] /\ off'[c] = off[c]
    BY <1>8 DEF Inv, TypeOK, TarBegin, TarAdd, TarEnd, TarFails, Unpathed, SendMember, SendEnd,
                SendFails, Goto
  <2> QED BY <1>1, <1>8, <1>lost, <2>1, OthersKeep
<1> QED BY <1>5, <1>6, <1>7, <1>8 DEF Inv

LEMMA InvNext == Inv /\ [Next]_vars => Inv'
<1> SUFFICES ASSUME Inv, [Next]_vars PROVE Inv'
  OBVIOUS
<1>1. CASE UNCHANGED vars
  BY <1>1 DEF vars, storageVars, Inv, TypeOK, BlocksInPlace, Progress, Stored
<1>2. ASSUME NEW p \in Children, Begin(p) PROVE Inv'
  BY <1>2, BeginInv
<1>3. ASSUME NEW p \in Children, Work(p) PROVE Inv'
  BY <1>3, AroundInv, CopyFileInv, CopyBlockInv, CopyCutInv, ArchiveInv DEF Work
<1> QED BY <1>1, <1>2, <1>3 DEF Next

LEMMA InvAlways == Spec => []Inv
<1> QED BY InvInit, InvNext, PTL DEF Spec

-----------------------------------------------------------------------------
(***************************************************************************)
(* A child that nobody disturbs.                                           *)
(***************************************************************************)
LEMMA AloneInit == Init => AloneInv
<1> SUFFICES ASSUME Init PROVE AloneInv
  OBVIOUS
<1>1. \A p \in Children : ~alone[p]
  BY DEF Init
<1> QED BY <1>1, InvInit DEF AloneInv, Undisturbed, Served

\* A request makes those alone who begin when nobody searches, and those no more who do.
LEMMA BeginAlone ==
    ASSUME AloneInv, NEW p \in Children, Begin(p)
    PROVE  \A c \in Children : Undisturbed(c)' /\ Served(c)'
<1>1. PICK q \in Searches : BeginWith(p, q)
  BY DEF Begin
<1>2. q \in [ext : BOOLEAN, files : SUBSET Files]
  BY Constants
<1>3. PICK place \in {"stat", "walk", "dead"} : pc' = [pc EXCEPT ![p] = place]
  BY <1>1 DEF BeginWith, Entered, Goto
<1>4. /\ \A c \in Children : alone'[c] = IF c = p THEN \A d \in Children : ~Busy(d)
                                                  ELSE alone[c] /\ ~Busy(c)
      /\ search'[p] = q /\ todo'[p] = q.files
      /\ \A c \in Children \ {p} :
            search'[c] = search[c] /\ reply'[c] = reply[c] /\ lost'[c] = lost[c]
  BY <1>1 DEF BeginWith, AloneInv, Inv, TypeOK
<1>5. pc'[p] = place /\ \A c \in Children \ {p} : pc'[c] = pc[c]
  BY <1>3 DEF AloneInv, Inv, TypeOK
<1>6. \A c \in Children : ~Busy(c) => pc[c] \notin At
  BY DEF Busy, At
<1>7. Undisturbed(p)'
  <2>1. alone'[p] => Solo(p)'
    BY <1>4, <1>5, <1>6 DEF Solo
  <2>2. DoneWhole(p)' /\ CopiedSoFar(p)' /\ OwnArchive(p)'
    BY <1>4, <1>5 DEF DoneWhole, CopiedSoFar, OwnArchive
  <2> QED BY <2>1, <2>2 DEF Undisturbed
<1>8. Served(p)'
  BY <1>5 DEF Served, Answered
<1>9. ASSUME NEW c \in Children \ {p} PROVE Undisturbed(c)' /\ Served(c)'
  <2>1. alone'[c] => alone[c] /\ pc'[c] \notin At
    BY <1>4, <1>5, <1>6, <1>9
  <2>2. Undisturbed(c)'
    BY <2>1 DEF Undisturbed, Solo, DoneWhole, CopiedSoFar, OwnArchive, At
  <2>3. Served(c)'
    <3>1. (Answered(c)' <=> Answered(c)) /\ Sent(c)' = Sent(c)
      BY <1>4, <1>5, <1>9 DEF Answered, Sent
    <3>2. Served(c) /\ search'[c] = search[c]
      BY <1>4, <1>9 DEF AloneInv
    <3>3. lost'[c] = lost[c]
      BY <1>4, <1>9
    <3> QED BY <2>1, <3>1, <3>2, <3>3 DEF Served
  <2> QED BY <2>2, <2>3
<1> QED BY <1>7, <1>8, <1>9

\* While a child searches and is alone no other does anything, and those who search with it
\* are not alone.
LEMMA WorkOthers ==
    ASSUME AloneInv, NEW p \in Children, Work(p)
    PROVE  /\ alone' = alone
           /\ search' = search
           /\ pc[p] \in At
           /\ alone[p] => Solo(p)'
           /\ \A c \in Children \ {p} : Undisturbed(c)' /\ Served(c)'
<1>1. alone' = alone /\ search' = search /\ pc[p] \in At
  BY DEF Work, StatStorage, MakeStorage, CopyFile, CopyFails, CopyBlock, CopyCut, WalkFails,
         TarBegin, TarAdd, TarEnd, TarFails, Unpathed, SendMember, SendEnd, SendFails, At
<1>2. \A c \in Children \ {p} : pc'[c] = pc[c]
  BY DEF AloneInv, Inv, TypeOK, Goto, AfterBlock,
         Work, StatStorage, MakeStorage, CopyFile, CopyFails, CopyBlock, CopyCut, WalkFails,
         TarBegin, TarAdd, TarEnd, TarFails, Unpathed, SendMember, SendEnd, SendFails
<1>3. \A c \in Children \ {p} : reply'[c] = reply[c] /\ lost'[c] = lost[c]
  BY DEF AloneInv, Inv, TypeOK,
         Work, StatStorage, MakeStorage, CopyFile, CopyFails, CopyBlock, CopyCut, WalkFails,
         TarBegin, TarAdd, TarEnd, TarFails, Unpathed, SendMember, SendEnd, SendFails
<1>4. alone[p] => Solo(p)'
  BY <1>1, <1>2 DEF AloneInv, Undisturbed, Solo
<1>5. ASSUME NEW c \in Children \ {p} PROVE Undisturbed(c)' /\ Served(c)'
  <2>1. alone'[c] => pc'[c] \notin At
    BY <1>1, <1>2, <1>5 DEF AloneInv, Undisturbed, Solo
  <2>2. Undisturbed(c)'
    BY <2>1 DEF Undisturbed, Solo, DoneWhole, CopiedSoFar, OwnArchive, At
  <2>3. Served(c)'
    <3>1. (Answered(c)' <=> Answered(c)) /\ Sent(c)' = Sent(c)
      BY <1>2, <1>3, <1>5 DEF Answered, Sent
    <3>2. Served(c)
      BY <1>5 DEF AloneInv
    <3> QED BY <1>1, <1>3, <1>5, <3>1, <3>2 DEF Served
  <2> QED BY <2>2, <2>3
<1> QED BY <1>1, <1>4, <1>5

\* What remains to show for the child that works, when it is alone.
LEMMA OwnStep ==
    ASSUME AloneInv, NEW p \in Children, Work(p),
           alone[p] /\ Solo(p) /\ DoneWhole(p) /\ CopiedSoFar(p) /\ OwnArchive(p) =>
              DoneWhole(p)' /\ CopiedSoFar(p)' /\ OwnArchive(p)' /\ Served(p)'
    PROVE  \A c \in Children : Undisturbed(c)' /\ Served(c)'
<1>1. alone' = alone /\ (alone[p] => Solo(p)') /\ Undisturbed(p)
  BY WorkOthers DEF AloneInv
<1>2. Undisturbed(p)'
  BY <1>1 DEF Undisturbed
<1>3. Served(p)'
  <2>1. CASE alone[p]
    BY <1>1, <2>1 DEF Undisturbed
  <2>2. CASE ~alone[p]
    BY <1>1, <2>2 DEF Served
  <2> QED BY <2>1, <2>2
<1> QED BY <1>2, <1>3, WorkOthers

\* Before the walk, and where it ends the search.
LEMMA AroundAlone ==
    ASSUME AloneInv, NEW p \in Children,
           StatStorage(p) \/ MakeStorage(p) \/ CopyFails(p) \/ WalkFails(p) \/ TarFails(p)
    PROVE  \A c \in Children : Undisturbed(c)' /\ Served(c)'
<1>1. UNCHANGED <<stored, content, archive, search, todo, current, done, alone, lost>>
  BY DEF StatStorage, MakeStorage, CopyFails, WalkFails, TarFails, Unpathed, storageVars
<1>2. pc[p] \in {"stat", "mkdir", "walk", "tar"} /\ pc'[p] \in {"walk", "mkdir", "dead", "idle"}
  BY DEF StatStorage, MakeStorage, CopyFails, WalkFails, TarFails, Unpathed, Goto, AloneInv, Inv,
         TypeOK
<1>3. DoneWhole(p) => DoneWhole(p)'
  <2>1. \A g : Whole(g) <=> Whole(g)'
    BY <1>1 DEF Whole
  <2>2. \A n : LostName(p, n) <=> LostName(p, n)'
    BY <1>1 DEF LostName
  <2> QED BY <1>1, <1>2, <2>1, <2>2 DEF DoneWhole, At
<1>4. CopiedSoFar(p)' /\ OwnArchive(p)'
  BY <1>2 DEF CopiedSoFar, OwnArchive
<1>5. ~Answered(p)'
  <2>1. CASE StatStorage(p) \/ MakeStorage(p) \/ CopyFails(p)
    BY <2>1 DEF StatStorage, MakeStorage, CopyFails, Goto, Answered, AloneInv, Inv, TypeOK
  <2>2. CASE WalkFails(p) \/ TarFails(p)
    BY <2>2 DEF WalkFails, TarFails, Unpathed, Goto, Answered, AloneInv, Inv, TypeOK
  <2> QED BY <2>1, <2>2
<1>6. Work(p)
  BY DEF Work
<1> QED BY <1>3, <1>4, <1>5, <1>6, OwnStep DEF Served

\* A file is opened: it is whole when it has no blocks, and begun otherwise.
LEMMA CopyFileAlone ==
    ASSUME AloneInv, NEW p \in Children, CopyFile(p)
    PROVE  \A c \in Children : Undisturbed(c)' /\ Served(c)'
<1>1. PICK f \in todo[p] :
        /\ pc[p] = "walk"
        /\ content' = [content EXCEPT ![Name[f]] = @]
        /\ AfterBlock(p, f, 0)
        /\ UNCHANGED <<search, lost>>
  BY DEF CopyFile, Opened
<1>2. f \in search[p].files /\ Blocks[f] \in Nat
  BY Constants DEF AloneInv, Inv, TypeOK, Progress
<1>3. content' = content
  BY <1>1 DEF AloneInv, Inv, TypeOK
<1>4. /\ pc'[p] = (IF 0 = Blocks[f] THEN "walk" ELSE "copy")
      /\ todo'[p] = (IF 0 = Blocks[f] THEN todo[p] \ {f} ELSE todo[p])
      /\ off'[p] = 0 /\ (0 # Blocks[f] => current'[p] = f)
  BY <1>1 DEF AfterBlock, Goto, AloneInv, Inv, TypeOK
<1>5. \A g \in Files : Whole(g) <=> Whole(g)'
  BY <1>3 DEF Whole
<1>6. DoneWhole(p) => DoneWhole(p)'
  <2> SUFFICES ASSUME DoneWhole(p), NEW g \in search[p].files \ todo'[p]
               PROVE  \/ pc'[p] = "copy" /\ Name[g] = Name[current'[p]]
                      \/ LostName(p, Name[g])'
                      \/ \E h \in search[p].files : Name[h] = Name[g] /\ Whole(h)'
    BY <1>1 DEF DoneWhole
  <2>1. search[p].files \subseteq Files
    BY DEF AloneInv, Inv, TypeOK
  <2>2. CASE g \in todo[p]
    <3>1. g = f /\ Blocks[f] = 0
      BY <1>4, <2>2
    <3>2. Whole(f)'
      BY <3>1 DEF Whole
    <3> QED BY <1>2, <3>1, <3>2
  <2>3. CASE g \notin todo[p]
    BY <1>1, <1>5, <2>1, <2>3 DEF DoneWhole, At, LostName
  <2> QED BY <2>2, <2>3
<1>7. CopiedSoFar(p)' /\ OwnArchive(p)'
  BY <1>4 DEF CopiedSoFar, OwnArchive
<1>8. Served(p)' /\ Work(p)
  BY <1>4 DEF Served, Answered, Work
<1> QED BY <1>6, <1>7, <1>8, OwnStep

\* A block is written: the file is whole up to it, and files of other names stay as they are.
LEMMA CopyBlockAlone ==
    ASSUME AloneInv, NEW p \in Children, CopyBlock(p)
    PROVE  \A c \in Children : Undisturbed(c)' /\ Served(c)'
<1>f. PICK f : f = current[p]
  OBVIOUS
<1> DEFINE w == WriteAt(content[Name[f]], off[p] + 1, NextBlock(p))
<1>1. Progress(p) /\ pc[p] = "copy" /\ off[p] \in Nat /\ todo[p] \subseteq search[p].files
  BY DEF AloneInv, Inv, TypeOK, CopyBlock, Progress
<1>2. /\ f \in search[p].files /\ f \in Files /\ Name[f] \in Names /\ Blocks[f] \in Nat
      /\ off[p] <= Len(content[Name[f]]) /\ search[p].files \subseteq Files
  BY <1>f, <1>1, Constants DEF Progress, AloneInv, Inv, TypeOK
<1>3. /\ content' = [content EXCEPT ![Name[f]] = w]
      /\ AfterBlock(p, f, off[p] + 1)
      /\ UNCHANGED <<search, reply, lost>>
  BY <1>f DEF CopyBlock
<1>4. content[Name[f]] \in Seq(Block \cup {Hole}) /\ Len(content[Name[f]]) \in Nat
  BY <1>2, LenProperties DEF AloneInv, Inv, TypeOK
<1>5. /\ w[off[p] + 1] = <<f, off[p] + 1>>
      /\ \A k \in 1 .. Len(content[Name[f]]) : k # off[p] + 1 => w[k] = content[Name[f]][k]
  <2>1. NextBlock(p) = <<f, off[p] + 1>>
    BY <1>f DEF NextBlock
  <2>2. off[p] + 1 \in Nat \ {0} /\ NextBlock(p) \in Block \cup {Hole}
    BY <1>1, <1>2, <2>1 DEF Block
  <2>3. IsWritten(w, Block, content[Name[f]], off[p] + 1, NextBlock(p))
    BY <1>4, <2>2, Written
  <2> QED BY <2>1, <2>3 DEF IsWritten
<1>6. /\ content'[Name[f]] = w
      /\ \A n \in Names : n # Name[f] => content'[n] = content[n]
  BY <1>2, <1>3 DEF AloneInv, Inv, TypeOK
<1> HIDE DEF w
<1>7. /\ pc'[p] = (IF off[p] + 1 = Blocks[f] THEN "walk" ELSE "copy")
      /\ todo'[p] = (IF off[p] + 1 = Blocks[f] THEN todo[p] \ {f} ELSE todo[p])
      /\ off'[p] = (IF off[p] + 1 = Blocks[f] THEN 0 ELSE off[p] + 1)
      /\ off[p] + 1 # Blocks[f] => current'[p] = f
  BY <1>3 DEF AfterBlock, Goto, AloneInv, Inv, TypeOK
<1>8. CopiedSoFar(p) => \A k \in 1 .. off[p] + 1 : content'[Name[f]][k] = <<f, k>>
  <2> SUFFICES ASSUME CopiedSoFar(p), NEW k \in 1 .. off[p] + 1
               PROVE  content'[Name[f]][k] = <<f, k>>
    OBVIOUS
  <2>1. CASE k = off[p] + 1
    BY <1>5, <1>6, <2>1
  <2>2. CASE k # off[p] + 1
    <3>1. k \in 1 .. off[p] /\ k \in 1 .. Len(content[Name[f]])
      BY <1>1, <1>2, <1>4, <2>2
    <3> QED BY <1>f, <1>1, <1>5, <1>6, <2>2, <3>1 DEF CopiedSoFar
  <2> QED BY <2>1, <2>2
<1>9. CopiedSoFar(p) /\ DoneWhole(p) => DoneWhole(p)'
  <2> SUFFICES ASSUME CopiedSoFar(p), DoneWhole(p), NEW g \in search[p].files \ todo'[p]
               PROVE  \/ pc'[p] = "copy" /\ Name[g] = Name[current'[p]]
                      \/ LostName(p, Name[g])'
                      \/ \E h \in search[p].files : Name[h] = Name[g] /\ Whole(h)'
    BY <1>3 DEF DoneWhole
  <2>1. CASE Name[g] = Name[f]
    <3>1. CASE off[p] + 1 = Blocks[f]
      <4>1. Whole(f)'
        BY <1>8, <3>1 DEF Whole
      <4> QED BY <1>2, <2>1, <4>1
    <3>2. CASE off[p] + 1 # Blocks[f]
      BY <1>7, <2>1, <3>2
    <3> QED BY <3>1, <3>2
  <2>2. CASE Name[g] # Name[f]
    <3>1. g \in search[p].files \ todo[p]
      BY <1>7, <2>2
    <3>2. CASE LostName(p, Name[g])
      BY <1>3, <3>2 DEF LostName
    <3>3. CASE ~LostName(p, Name[g])
      <4>1. PICK h \in search[p].files : Name[h] = Name[g] /\ Whole(h)
        BY <1>f, <1>1, <2>2, <3>1, <3>3 DEF DoneWhole, At
      <4>2. Whole(h)'
        BY <1>2, <1>6, <2>2, <4>1, Constants DEF Whole
      <4> QED BY <4>1, <4>2
    <3> QED BY <3>2, <3>3
  <2> QED BY <2>1, <2>2
<1>10. CopiedSoFar(p) => CopiedSoFar(p)'
  BY <1>f, <1>3, <1>7, <1>8 DEF CopiedSoFar
<1>11. OwnArchive(p)' /\ Served(p)' /\ Work(p)
  BY <1>7 DEF OwnArchive, Served, Answered, Work
<1> QED BY <1>9, <1>10, <1>11, OwnStep

\* A copy is cut: its name is lost, and all others are as they were.
LEMMA CopyCutAlone ==
    ASSUME AloneInv, NEW p \in Children, CopyCut(p)
    PROVE  \A c \in Children : Undisturbed(c)' /\ Served(c)'
<1>1. /\ pc[p] = "copy" /\ pc'[p] = "walk"
      /\ todo'[p] = todo[p] \ {current[p]}
      /\ lost'[p] = lost[p] \cup {current[p]}
      /\ UNCHANGED <<content, search>>
  BY DEF CopyCut, Goto, AloneInv, Inv, TypeOK, storageVars
<1>2. DoneWhole(p) => DoneWhole(p)'
  <2> SUFFICES ASSUME DoneWhole(p), NEW g \in search[p].files \ todo'[p]
               PROVE  \/ LostName(p, Name[g])'
                      \/ \E h \in search[p].files : Name[h] = Name[g] /\ Whole(h)'
    BY <1>1 DEF DoneWhole
  <2>1. CASE Name[g] = Name[current[p]] \/ LostName(p, Name[g])
    BY <1>1, <2>1 DEF LostName
  <2>2. CASE Name[g] # Name[current[p]] /\ ~LostName(p, Name[g])
    <3>1. \E h \in search[p].files : Name[h] = Name[g] /\ Whole(h)
      BY <1>1, <2>2 DEF DoneWhole, At
    <3> QED BY <1>1, <3>1 DEF Whole
  <2> QED BY <2>1, <2>2
<1>3. CopiedSoFar(p)' /\ OwnArchive(p)' /\ Served(p)' /\ Work(p)
  BY <1>1 DEF CopiedSoFar, OwnArchive, Served, Answered, Work
<1> QED BY <1>2, <1>3, OwnStep

\* tar finds what is stored, and puts one member after another.
LEMMA TarAlone ==
    ASSUME AloneInv, NEW p \in Children, TarBegin(p) \/ TarAdd(p) \/ TarEnd(p)
    PROVE  \A c \in Children : Undisturbed(c)' /\ Served(c)'
<1>1. UNCHANGED <<stored, content, search, todo, lost>>
  BY DEF TarBegin, TarAdd, TarEnd, storageVars
<1>2. pc[p] \in {"walk", "tar"} /\ pc'[p] \in {"tar", "send"}
  BY DEF TarBegin, TarAdd, TarEnd, Goto, AloneInv, Inv, TypeOK
<1>3. DoneWhole(p) => DoneWhole(p)'
  <2>1. \A h : Whole(h) <=> Whole(h)'
    BY <1>1 DEF Whole
  <2>2. \A n : LostName(p, n) <=> LostName(p, n)'
    BY <1>1 DEF LostName
  <2>3. QED
    BY <1>1, <1>2, <2>1, <2>2 DEF DoneWhole, At
<1>4. \A m : Fresh(m, p) <=> Fresh(m, p)'
  BY <1>1 DEF Fresh
<1>5. OwnArchive(p) => OwnArchive(p)'
  <2>1. CASE TarBegin(p)
    <3>1. /\ pc'[p] = "tar" /\ off'[p] = 0 /\ archive' = <<>> /\ members'[p] = stored
          /\ stored' = stored
      BY <2>1 DEF TarBegin, Goto, AloneInv, Inv, TypeOK, Progress
    <3> QED BY <3>1 DEF OwnArchive
  <2>2. CASE TarAdd(p)
    <3> SUFFICES ASSUME OwnArchive(p) PROVE OwnArchive(p)'
      OBVIOUS
    <3> DEFINE L == Len(archive)
    <3>1. PICK n \in members[p] :
            /\ archive' = WriteAt(archive, off[p] + 1,
                                  [name |-> n, data |-> content[n], by |-> p])
            /\ members' = [members EXCEPT ![p] = @ \ {n}]
      BY <2>2 DEF TarAdd
    <3> DEFINE m == [name |-> n, data |-> content[n], by |-> p]
    <3>2. /\ n \in Names /\ archive \in Seq(Member \cup {Hole}) /\ L \in Nat /\ off[p] = L
          /\ off'[p] = L + 1 /\ pc[p] = "tar" /\ pc'[p] = "tar"
          /\ members'[p] = members[p] \ {n}
      <4>1. archive \in Seq(Member \cup {Hole}) /\ L \in Nat
        BY LenProperties DEF AloneInv, Inv, TypeOK
      <4> QED BY <2>2, <3>1, <4>1 DEF TarAdd, AloneInv, Inv, TypeOK, OwnArchive
    <3>3. m \in Member \cup {Hole}
      BY <3>2, NoHoles DEF AloneInv, Inv, Member
    <3>4. /\ Len(archive') = L + 1 /\ archive'[L + 1] = m
          /\ \A i \in 1 .. L : archive'[i] = archive[i]
      <4>1. IsWritten(archive', Member, archive, off[p] + 1, m)
        BY <3>1, <3>2, <3>3, Written
      <4> QED BY <3>2, <4>1 DEF IsWritten
    <3>5. Fresh(m, p) /\ m.name = n
      BY <3>2 DEF Fresh
    <3> HIDE DEF m
    <3>6. \A i \in 1 .. Len(archive') : Fresh(archive'[i], p)
      BY <3>2, <3>4, <3>5 DEF OwnArchive
    <3>7. \A k \in stored \ members'[p] : \E i \in 1 .. Len(archive') : archive'[i].name = k
      <4> SUFFICES ASSUME NEW k \in stored \ members'[p]
                   PROVE  \E i \in 1 .. Len(archive') : archive'[i].name = k
        OBVIOUS
      <4>1. CASE k = n
        BY <3>2, <3>4, <3>5, <4>1
      <4>2. CASE k # n
        <5>1. PICK i \in 1 .. L : archive[i].name = k
          BY <3>2, <4>2 DEF OwnArchive
        <5> QED BY <3>2, <3>4, <5>1
      <4> QED BY <4>1, <4>2
    <3>8. \A i \in 1 .. Len(archive') : Fresh(archive[i], p)'
      BY <1>1, <3>6 DEF Fresh
    <3> QED BY <1>1, <3>2, <3>4, <3>7, <3>8 DEF OwnArchive
  <2>3. CASE TarEnd(p)
    <3>1. /\ pc[p] = "tar" /\ pc'[p] = "send" /\ off'[p] = 0 /\ archive' = archive
          /\ members[p] = {} /\ reply'[p].sent = <<>>
      BY <2>3 DEF TarEnd, Goto, AloneInv, Inv, TypeOK, storageVars
    <3>2. Len(archive) \in Nat
      BY LenProperties DEF AloneInv, Inv, TypeOK
    <3> QED BY <1>1, <1>4, <3>1, <3>2 DEF OwnArchive
  <2> QED BY <2>1, <2>2, <2>3
<1>6. CopiedSoFar(p)' /\ Served(p)' /\ Work(p)
  BY <1>2 DEF CopiedSoFar, Served, Answered, Work
<1> QED BY <1>3, <1>5, <1>6, OwnStep

\* The members are sent one after another.
LEMMA SendMemberAlone ==
    ASSUME AloneInv, NEW p \in Children, SendMember(p)
    PROVE  \A c \in Children : Undisturbed(c)' /\ Served(c)'
<1>1. UNCHANGED <<stored, content, archive, pc, search, todo, current, lost>>
  BY DEF SendMember, storageVars
<1>2. /\ pc[p] = "send" /\ off[p] < Len(archive)
      /\ off'[p] = off[p] + 1 /\ reply'[p].sent = Append(reply[p].sent, archive[off[p] + 1])
  BY DEF SendMember, MoreToSend, AloneInv, Inv, TypeOK
<1>3. /\ off[p] \in Nat /\ Len(archive) \in Nat
      /\ reply[p].sent \in Seq(Member \cup {Hole})
      /\ archive[off[p] + 1] \in Member \cup {Hole}
  <2>1. off[p] \in Nat /\ archive \in Seq(Member \cup {Hole}) /\ Len(archive) \in Nat
        /\ reply[p].sent \in Seq(Member \cup {Hole})
    BY LenProperties DEF AloneInv, Inv, TypeOK
  <2>2. off[p] + 1 \in 1 .. Len(archive)
    BY <1>2, <2>1
  <2> QED BY <2>1, <2>2, ElementOfSeq
<1>4. DoneWhole(p) => DoneWhole(p)'
  <2>1. \A g : (Whole(g) <=> Whole(g)') /\ (LostName(p, Name[g]) <=> LostName(p, Name[g])')
    BY <1>1 DEF Whole, LostName
  <2> QED BY <1>1, <2>1 DEF DoneWhole
<1>5. \A m : Fresh(m, p) <=> Fresh(m, p)'
  BY <1>1 DEF Fresh
<1>6. OwnArchive(p) => OwnArchive(p)'
  <2> SUFFICES ASSUME OwnArchive(p) PROVE OwnArchive(p)'
    OBVIOUS
  <2>1. /\ Len(reply'[p].sent) = off[p] + 1
        /\ \A i \in 1 .. off[p] + 1 : reply'[p].sent[i] = archive[i]
    BY <1>2, <1>3, AppendProperties DEF OwnArchive
  <2>2. archive' = archive /\ stored' = stored /\ pc'[p] = "send"
    BY <1>1, <1>2
  <2>3. /\ \A i \in 1 .. Len(archive) : Fresh(archive[i], p)'
        /\ \A n \in stored : \E i \in 1 .. Len(archive) : archive[i].name = n
    BY <1>2, <1>5, <2>2 DEF OwnArchive
  <2> QED BY <1>2, <1>3, <2>1, <2>2, <2>3 DEF OwnArchive
<1>7. CopiedSoFar(p)' /\ Served(p)' /\ Work(p)
  BY <1>1, <1>2 DEF CopiedSoFar, Served, Answered, Work
<1> QED BY <1>4, <1>6, <1>7, OwnStep

\* The archive is cut: nothing of it counts, but what was sent is the child's own.
LEMMA SendFailsAlone ==
    ASSUME AloneInv, NEW p \in Children, SendFails(p)
    PROVE  \A c \in Children : Undisturbed(c)' /\ Served(c)'
<1>1. /\ pc[p] = "send" /\ pc'[p] = "idle"
      /\ lost'[p] = search[p].files
      /\ UNCHANGED <<search, reply>>
  BY DEF SendFails, Goto, AloneInv, Inv, TypeOK
<1>2. DoneWhole(p)' /\ CopiedSoFar(p)' /\ OwnArchive(p)' /\ Work(p)
  BY <1>1 DEF DoneWhole, CopiedSoFar, OwnArchive, At, Work
<1>3. ASSUME OwnArchive(p) PROVE Carries(Sent(p), search[p].files, lost[p], p)'
  <2>1. off[p] \in Nat /\ Len(archive) \in Nat
    BY LenProperties DEF AloneInv, Inv, TypeOK
  <2>2. \A m \in Sent(p) : Fresh(m, p)
    BY <1>1, <1>3, <2>1 DEF OwnArchive, Sent
  <2>3. \A m \in Sent(p) : m.by = p
    BY <2>2 DEF Fresh
  <2>4. Sent(p)' = Sent(p)
    BY <1>1 DEF Sent
  <2> QED BY <1>1, <2>3, <2>4 DEF Carries
<1>4. OwnArchive(p) => Served(p)'
  BY <1>3 DEF Served
<1> QED BY <1>2, <1>4, OwnStep

\* When all of them are sent, every match is among them.
LEMMA SendEndAlone ==
    ASSUME AloneInv, NEW p \in Children, SendEnd(p)
    PROVE  \A c \in Children : Undisturbed(c)' /\ Served(c)'
<1>1. UNCHANGED <<stored, content, archive, search, todo, reply, lost>> /\ pc[p] = "send"
      /\ pc'[p] = "idle"
  BY DEF SendEnd, Goto, storageVars, AloneInv, Inv, TypeOK
<1>2. Len(archive) \in Nat /\ off[p] \in Nat /\ off[p] >= Len(archive)
  BY LenProperties DEF SendEnd, MoreToSend, AloneInv, Inv, TypeOK
<1>3. ASSUME DoneWhole(p), OwnArchive(p) PROVE Carries(Sent(p), search[p].files, lost[p], p)
  <2>1. \A i \in 1 .. Len(archive) : archive[i] \in Sent(p) \cup {Hole}
    BY <1>1, <1>2, <1>3 DEF OwnArchive, Sent
  <2>2. \A m \in Sent(p) : Fresh(m, p)
    BY <1>1, <1>2, <1>3 DEF OwnArchive, Sent
  <2>3. ASSUME NEW f \in search[p].files, ~\E h \in lost[p] : Name[h] = Name[f]
        PROVE  \E m \in Sent(p), g \in search[p].files :
                  /\ m.name = Name[f] /\ m.name = Name[g]
                  /\ \A k \in 1 .. Blocks[g] : m.data[k] = <<g, k>>
    <3>1. f \in search[p].files \ todo[p] /\ Name[f] \in stored
      BY <1>1, <2>3 DEF AloneInv, Inv, Progress, At, Stored
    <3>2. PICK g \in search[p].files : Name[g] = Name[f] /\ Whole(g)
      BY <1>1, <1>3, <2>3, <3>1 DEF DoneWhole, LostName, At
    <3>3. PICK i \in 1 .. Len(archive) : archive[i].name = Name[f]
      BY <1>1, <1>3, <3>1 DEF OwnArchive
    <3> DEFINE m == archive[i]
    <3>4. Fresh(m, p)
      BY <1>1, <1>3, <3>3 DEF OwnArchive
    <3>5. m \in Member
      <4>1. content[m.name] \in Seq(Block) /\ m.name \in Names
        BY <3>4, NoHoles DEF Fresh, AloneInv, Inv
      <4> QED BY <3>4, <4>1 DEF Fresh, Member
    <3>6. m \in Sent(p)
      BY <2>1, <3>3, <3>5, MemberIsNoHole
    <3>7. \A k \in 1 .. Blocks[g] : m.data[k] = <<g, k>>
      BY <3>2, <3>3, <3>4 DEF Fresh, Whole
    <3> QED BY <3>2, <3>3, <3>6, <3>7
  <2>4. \A m \in Sent(p) : m.by = p
    BY <2>2 DEF Fresh
  <2> QED BY <2>3, <2>4 DEF Carries
<1>4. DoneWhole(p)' /\ CopiedSoFar(p)' /\ OwnArchive(p)'
  BY <1>1 DEF DoneWhole, CopiedSoFar, OwnArchive, At
<1>5. DoneWhole(p) /\ OwnArchive(p) => Served(p)'
  <2>1. Sent(p)' = Sent(p) /\ search'[p] = search[p]
    BY <1>1 DEF Sent
  <2> QED BY <1>1, <1>3, <2>1 DEF Served
<1>6. Work(p)
  BY DEF Work
<1> QED BY <1>4, <1>5, <1>6, OwnStep

LEMMA AloneNext == AloneInv /\ [Next]_vars => AloneInv'
<1> SUFFICES ASSUME AloneInv, [Next]_vars PROVE AloneInv'
  OBVIOUS
<1>1. Inv'
  BY InvNext DEF AloneInv
<1>2. CASE UNCHANGED vars
  <2>1. ASSUME NEW p \in Children PROVE Undisturbed(p)'
    <3>1. UNCHANGED <<stored, content, archive, pc, search, todo, current, off, members, reply,
                      alone, lost>>
      BY <1>2 DEF vars, storageVars
    <3>2. (Solo(p) => Solo(p)') /\ (CopiedSoFar(p) => CopiedSoFar(p)')
      BY <3>1 DEF Solo, CopiedSoFar
    <3>3. DoneWhole(p) => DoneWhole(p)'
      <4>1. \A g : (Whole(g) <=> Whole(g)') /\ (LostName(p, Name[g]) <=> LostName(p, Name[g])')
        BY <3>1 DEF Whole, LostName
      <4> QED BY <3>1, <4>1 DEF DoneWhole
    <3>4. OwnArchive(p) => OwnArchive(p)'
      BY <3>1 DEF OwnArchive, Fresh
    <3> QED BY <2>1, <3>1, <3>2, <3>3, <3>4 DEF AloneInv, Undisturbed
  <2>2. ASSUME NEW p \in Children PROVE Served(p)'
    BY <1>2 DEF vars, storageVars, AloneInv, Served, Answered, Sent
  <2> QED BY <1>1, <2>1, <2>2 DEF AloneInv
<1>3. ASSUME NEW p \in Children, Begin(p) PROVE AloneInv'
  BY <1>1, <1>3, BeginAlone DEF AloneInv
<1>4. ASSUME NEW p \in Children, Work(p) PROVE AloneInv'
  BY <1>1, <1>4, AroundAlone, CopyFileAlone, CopyBlockAlone, CopyCutAlone, TarAlone,
     SendMemberAlone, SendFailsAlone, SendEndAlone DEF Work, AloneInv
<1> QED BY <1>2, <1>3, <1>4 DEF Next

-----------------------------------------------------------------------------
(***************************************************************************)
(* The theorems.                                                           *)
(***************************************************************************)
\* The variables keep their types, whatever children do at the same time: no member of an
\* archive has a gap.
THEOREM ArchiveTypes == Spec => []TypeOK
<1>1. Inv => TypeOK
  BY DEF Inv
<1> QED BY <1>1, InvAlways, PTL

\* For any number of children copying to one directory at once, every block of a stored
\* file is the block at that position of some file of that name (copy_file, fileutil.h).
THEOREM CopiesInPlace == Spec => []BlocksInPlace
<1>1. Inv => BlocksInPlace
  BY DEF Inv
<1> QED BY <1>1, InvAlways, PTL

\* When a child makes or sends its archive, every file that matches is stored, in a length that
\* no other child's copy has made shorter unless a failing call has cut its own: copy_file never
\* truncates (fileutil.h:489), and goes on to the next file wherever its loop has ended.
THEOREM MatchesStored == Spec => []StoredWhole
<1>1. Inv => StoredWhole
  BY DEF Inv, StoredWhole, Progress, At, Stored
<1> QED BY <1>1, InvAlways, PTL

\* A child with which no other searches sends an archive of its own that has, for every name of
\* which no call cut a copy, a whole match, though the directory keeps what earlier searches
\* left, whole or cut.
THEOREM AloneIsServed == Spec => []ServedAlone
<1>1. AloneInv => ServedAlone
  BY DEF AloneInv, Served, Carries, ServedAlone, LostName
<1>2. Spec => []AloneInv
  BY AloneInit, AloneNext, PTL DEF Spec
<1> QED BY <1>1, <1>2, PTL

=============================================================================
