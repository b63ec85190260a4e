--------------------------- MODULE SessionProofs ---------------------------
(***************************************************************************)
(* Theorems about Session, for every size of the buffers, every length of  *)
(* the lines and the archives, any number of commands and all hazards: as  *)
(* long as nothing happens that the protocol does not provide for, both    *)
(* sides agree on where they are in an exchange.                           *)
(***************************************************************************)
EXTENDS Session, SequenceTheorems, TLAPS

Times(k) == Block * k

\* The size of the last block of the archive, when it is not full.
Rest == due.size % Block

(***************************************************************************)
(* Where an exchange can be.  While the tag is not yet read h = 3 bytes    *)
(* are ahead of the text or file, afterwards none.                         *)
(***************************************************************************)
\* No exchange is going on, and the last one has been received whole.
Idle ==
    /\ client = "prompt" /\ server = "read"
    /\ out = <<>> /\ c2s = <<>> /\ s2c = <<>>
    /\ due.answer = "text" => shown = due.size
    /\ due.answer = "tar" => saved = due.size

\* One request is on its way.
Asked ==
    /\ client = "reply" /\ server = "read"
    /\ out = <<>> /\ s2c = <<>>
    /\ \E r \in Request : c2s = <<r>>
    /\ shown = 0 /\ saved = 0

\* The reply is made, and its tag the next thing to send.
Untagged(tag) ==
    /\ client = "reply" /\ server = "send"
    /\ c2s = <<>> /\ s2c = <<>>
    /\ Len(out) > 1 /\ out[1] = tag
    /\ shown = 0 /\ saved = 0

Tagged(tag) ==
    /\ client = "reply"
    /\ Len(s2c) >= 3 /\ \A i \in 1 .. 3 : s2c[i] = tag[i]
    /\ shown = 0 /\ saved = 0

\* The sends behind the first h: lines, and the trailer last.
TextSends(h) == \A i \in h + 1 .. Len(out) :
    IF i = Len(out) THEN out[i] = LAST_MSG_END ELSE out[i] \in Seq({"t"})

\* The last bytes of s are the trailer's first n.
EndsWith(s, n) == Len(s) >= n /\ \A i \in 1 .. n : s[Len(s) - n + i] = LAST_MSG_END[i]

\* The length of the trailer, when it is on its way.
Trailer == IF out = <<>> THEN 4 ELSE 0

\* Behind the tag the stream is text, up to the trailer when everything is sent; what is
\* printed and what is on its way is what was sent.
TextPhase(h) ==
    /\ server = IF out = <<>> THEN "read" ELSE "send"
    /\ c2s = <<>>
    /\ due.answer = "text"
    /\ TextSends(0)
    /\ Len(s2c) >= h + Trailer
    /\ \A i \in h + 1 .. Len(s2c) - Trailer : s2c[i] = "t"
    /\ EndsWith(s2c, Trailer)
    /\ shown + (Len(s2c) - h - Trailer) = due.size

\* The sends behind the first h: whole blocks, and what is left last.
TarSends(h) == \A i \in h + 1 .. Len(out) :
    Len(out[i]) = IF i = Len(out) THEN Rest ELSE Block

\* Behind the tag whole blocks are on their way, and the last one when everything is sent;
\* what is stored, on its way and still to be sent is the archive.
TarPhase(h) ==
    /\ server = IF out = <<>> THEN "read" ELSE "send"
    /\ c2s = <<>>
    /\ due.answer = "tar"
    /\ Rest # 0
    /\ TarSends(0)
    /\ \E k \in Nat : Len(s2c) = h + Times(k) + (IF out = <<>> THEN Rest ELSE 0)
    /\ saved + (Len(s2c) - h) + (IF out = <<>> THEN 0 ELSE Times(Len(out) - 1) + Rest) = due.size

Exchange ==
    \/ client = "ended"
    \/ Idle
    \/ Asked
    \/ Untagged(TXT) /\ TextSends(1) /\ due = [answer |-> "text", size |-> 0]
    \/ Tagged(TXT) /\ TextPhase(3)
    \/ client = "text" /\ TextPhase(0)
    \/ /\ Untagged(TAR) /\ TarSends(1)
       /\ due.answer = "tar" /\ Rest # 0
       /\ due.size = Times(Len(out) - 2) + Rest
    \/ Tagged(TAR) /\ TarPhase(3)
    \/ client = "file" /\ TarPhase(0)

\* What holds also after a cause ...
Base ==
    /\ TypeOK
    /\ server = "send" => out # <<>>
    /\ cause = "gone" => server = "gone"

\* ... and as long as there has been none.
Inv == Base /\ (cause = "none" => Exchange)

-----------------------------------------------------------------------------
(***************************************************************************)
(* Sequences and blocks.                                                   *)
(***************************************************************************)
LEMMA Constants ==
    /\ Block \in Nat \ {0} /\ TextBuf \in Nat /\ TextBuf > 5 /\ ErrorLen \in Nat /\ ErrorLen > 3
    /\ Lines \subseteq Nat \ {0} /\ MaxLines \in Nat /\ ArchiveSizes \subseteq Nat
    /\ MaxCommands \in Nat
  BY SessionAssumption

LEMMA TimesNext ==
    /\ Times(0) = 0
    /\ \A k \in Nat : Times(k) \in Nat /\ Times(k + 1) = Times(k) + Block
    /\ \A k \in Nat \ {0} : Times(k) >= Block /\ Times(k) = Times(k - 1) + Block
<1>1. Times(0) = 0
  BY Constants DEF Times
<1>2. \A k \in Nat : Times(k) \in Nat /\ Times(k + 1) = Times(k) + Block
  BY Constants DEF Times
<1>3. ASSUME NEW k \in Nat \ {0}
      PROVE  Times(k) >= Block /\ Times(k) = Times(k - 1) + Block
  <2>1. k - 1 \in Nat /\ k = (k - 1) + 1
    OBVIOUS
  <2>2. Times(k) = Times(k - 1) + Block /\ Times(k - 1) \in Nat
    BY <1>2, <2>1
  <2> QED BY <2>2, Constants
<1> QED BY <1>1, <1>2, <1>3

\* Division with rest ...
LEMMA Quotient ==
    ASSUME NEW n \in Nat, NEW b \in Nat, b > 0
    PROVE  n \div b \in Nat /\ n % b \in Nat /\ n % b < b /\ n = b * (n \div b) + (n % b)
<1>1. n = b * (n \div b) + (n % b)
  OBVIOUS
<1>2. n \div b \in Nat /\ n % b \in Nat /\ n % b < b
  OBVIOUS
<1> QED BY <1>1, <1>2

\* ... of the sizes of archives.
LEMMA Division ==
    ASSUME NEW size \in Nat
    PROVE  /\ size \div Block \in Nat
           /\ size % Block \in Nat /\ size % Block < Block
           /\ size = Times(size \div Block) + (size % Block)
<1>1. Block \in Nat /\ Block > 0
  BY Constants
<1>2. /\ size \div Block \in Nat /\ size % Block \in Nat /\ size % Block < Block
      /\ size = Block * (size \div Block) + (size % Block)
  BY <1>1, Quotient
<1> QED BY <1>2 DEF Times

\* A function on 1 .. m is a sequence of length m.
LEMMA FunctionIsSeq ==
    ASSUME NEW S, NEW m \in Nat, NEW e \in [1 .. m -> S]
    PROVE  e \in Seq(S) /\ Len(e) = m
<1>1. e \in Seq(S)
  BY SeqDef
<1>2. Len(e) \in Nat /\ 1 .. Len(e) = 1 .. m
  BY <1>1, LenProperties
<1> QED BY <1>1, <1>2

\* The n bytes b.
LEMMA BytesAre ==
    ASSUME NEW S, NEW b \in S, NEW n \in Nat
    PROVE  Bytes(b, n) \in Seq(S) /\ Len(Bytes(b, n)) = n /\ \A i \in 1 .. n : Bytes(b, n)[i] = b
<1>1. Bytes(b, n) \in [1 .. n -> S]
  BY DEF Bytes
<1> QED BY <1>1, FunctionIsSeq DEF Bytes

\* The tags and the trailer.
LEMMA Words ==
    /\ TXT \in Seq(Byte) /\ Len(TXT) = 3 /\ TXT[1] = "T" /\ TXT[2] = "X" /\ TXT[3] = "T"
    /\ TAR \in Seq(Byte) /\ Len(TAR) = 3 /\ TAR[1] = "T" /\ TAR[2] = "A" /\ TAR[3] = "R"
    /\ LAST_MSG_END \in Seq(Byte) /\ Len(LAST_MSG_END) = 4
    /\ LAST_MSG_END[1] = "7" /\ LAST_MSG_END[2] = "@" /\ LAST_MSG_END[3] = "5"
    /\ LAST_MSG_END[4] = "!"
  BY DEF TXT, TAR, LAST_MSG_END, Byte

\* What SequencesExt's IsSuffix says of the elements.
LEMMA Suffix ==
    ASSUME NEW S, NEW s \in Seq(S), NEW t \in Seq(S)
    PROVE  IsSuffix(s, t) <=>
              Len(s) <= Len(t) /\ \A i \in 1 .. Len(s) : t[Len(t) - Len(s) + i] = s[i]
<1> DEFINE m == Len(s)
           n == Len(t)
           a == Reverse(s)
           b == Reverse(t)
<1>1. m \in Nat /\ n \in Nat /\ s \in [1 .. m -> S] /\ t \in [1 .. n -> S]
  BY LenProperties
<1>2. /\ a \in Seq(S) /\ Len(a) = m /\ \A i \in 1 .. m : a[i] = s[m - i + 1]
      /\ b \in Seq(S) /\ Len(b) = n /\ \A i \in 1 .. n : b[i] = t[n - i + 1]
  <2>1. a \in [1 .. m -> S] /\ b \in [1 .. n -> S]
    BY <1>1 DEF Reverse
  <2>2. a \in Seq(S) /\ Len(a) = m /\ b \in Seq(S) /\ Len(b) = n
    <3> HIDE DEF a, b, m, n
    <3> QED BY <1>1, <2>1, FunctionIsSeq
  <2> QED BY <2>2 DEF Reverse
<1>3. IsSuffix(s, t) <=> m <= n /\ SubSeq(a, 1, m) = SubSeq(b, 1, m)
  BY <1>2 DEF IsSuffix, IsPrefix
<1> HIDE DEF a, b, m, n
<1>4. ASSUME m <= n
      PROVE  SubSeq(a, 1, m) = SubSeq(b, 1, m) <=> \A i \in 1 .. m : a[i] = b[i]
  <2>1. \A i \in 1 .. m : a[i] \in S /\ b[i] \in S
    BY <1>1, <1>2, <1>4, LenProperties
  <2>2. /\ SubSeq(a, 1, m) \in Seq(S) /\ Len(SubSeq(a, 1, m)) = m
        /\ \A i \in 1 .. m : SubSeq(a, 1, m)[i] = a[i]
        /\ SubSeq(b, 1, m) \in Seq(S) /\ Len(SubSeq(b, 1, m)) = m
        /\ \A i \in 1 .. m : SubSeq(b, 1, m)[i] = b[i]
    BY <1>1, <2>1, SubSeqProperties
  <2> QED BY <2>2, SeqEqual
<1>5. ASSUME m <= n
      PROVE  (\A i \in 1 .. m : a[i] = b[i]) <=> (\A i \in 1 .. m : t[n - m + i] = s[i])
  <2>1. ASSUME \A i \in 1 .. m : a[i] = b[i], NEW i \in 1 .. m PROVE t[n - m + i] = s[i]
    <3> DEFINE j == m - i + 1
    <3>1. j \in 1 .. m /\ m - j + 1 = i /\ n - j + 1 = n - m + i /\ j \in 1 .. n
      BY <1>1, <1>5
    <3> HIDE DEF j
    <3>2. a[j] = s[i] /\ b[j] = t[n - m + i]
      BY <1>2, <3>1
    <3> QED BY <2>1, <3>1, <3>2
  <2>2. ASSUME \A i \in 1 .. m : t[n - m + i] = s[i], NEW i \in 1 .. m PROVE a[i] = b[i]
    <3> DEFINE j == m - i + 1
    <3>1. j \in 1 .. m /\ n - m + j = n - i + 1 /\ i \in 1 .. n
      BY <1>1, <1>5
    <3> HIDE DEF j
    <3>2. t[n - m + j] = s[j]
      BY <2>2, <3>1
    <3>3. a[i] = s[j] /\ b[i] = t[n - i + 1]
      BY <1>2, <3>1 DEF j
    <3> QED BY <3>1, <3>2, <3>3
  <2> QED BY <2>1, <2>2
<1> QED BY <1>3, <1>4, <1>5 DEF m, n

\* Of two sends the second follows the first.
LEMMA Behind ==
    ASSUME NEW S, NEW s \in Seq(S), s # <<>>
    PROVE  /\ Head(s) = s[1] /\ Head(s) \in S
           /\ Tail(s) \in Seq(S) /\ Len(Tail(s)) = Len(s) - 1
           /\ \A i \in 1 .. Len(s) - 1 : Tail(s)[i] = s[i + 1]
           /\ Tail(s) = <<>> <=> Len(s) = 1
           /\ Len(s) \in Nat \ {0}
<1>1. Len(s) \in Nat \ {0}
  BY EmptySeq
<1>2. Head(s) = s[1] /\ Head(s) \in S
  BY HeadTailProperties
<1>3. /\ Tail(s) \in Seq(S) /\ Len(Tail(s)) = Len(s) - 1
      /\ \A i \in 1 .. Len(s) - 1 : Tail(s)[i] = s[i + 1]
  BY HeadTailProperties
<1>4. Tail(s) = <<>> <=> Len(Tail(s)) = 0
  BY <1>3, EmptySeq
<1> QED BY <1>1, <1>2, <1>3, <1>4

-----------------------------------------------------------------------------
(***************************************************************************)
(* Replies and reads.                                                      *)
(***************************************************************************)
\* A text is its tag, its lines and the trailer.
LEMMA TextReplyIs ==
    ASSUME NEW t \in Texts
    PROVE  /\ TextReply(t) \in Seq(Seq(Byte)) /\ Len(TextReply(t)) > 1
           /\ TextReply(t)[1] = TXT
           /\ \A i \in 2 .. Len(TextReply(t)) :
                 IF i = Len(TextReply(t)) THEN TextReply(t)[i] = LAST_MSG_END
                                          ELSE TextReply(t)[i] \in Seq({"t"})
<1>1. PICK k \in 0 .. MaxLines : t \in [1 .. k -> Lines]
  BY DEF Texts
<1>2. k \in Nat /\ t \in Seq(Lines) /\ Len(t) = k
  BY <1>1, Constants, FunctionIsSeq
<1> DEFINE lines == [i \in 1 .. Len(t) |-> Bytes("t", t[i])]
           a == <<TXT>> \o lines
<1>3. /\ lines \in Seq(Seq(Byte)) /\ Len(lines) = k
      /\ \A i \in 1 .. k : lines[i] \in Seq({"t"})
  <2>1. ASSUME NEW i \in 1 .. k
        PROVE  Bytes("t", t[i]) \in Seq(Byte) /\ Bytes("t", t[i]) \in Seq({"t"})
    <3>1. t[i] \in Nat
      BY <1>1, Constants
    <3>2. "t" \in Byte /\ "t" \in {"t"}
      BY DEF Byte
    <3> QED BY <3>1, <3>2, BytesAre
  <2>2. lines \in [1 .. k -> Seq(Byte)]
    BY <1>2, <2>1
  <2>3. lines \in Seq(Seq(Byte)) /\ Len(lines) = k
    <3> HIDE DEF lines
    <3> QED BY <1>2, <2>2, FunctionIsSeq
  <2> QED BY <1>2, <2>1, <2>3
<1> HIDE DEF lines
<1>4. <<TXT>> \in Seq(Seq(Byte)) /\ Len(<<TXT>>) = 1 /\ <<TXT>>[1] = TXT
      /\ <<LAST_MSG_END>> \in Seq(Seq(Byte)) /\ Len(<<LAST_MSG_END>>) = 1
      /\ <<LAST_MSG_END>>[1] = LAST_MSG_END
  BY Words
<1>5. /\ a \in Seq(Seq(Byte)) /\ Len(a) = k + 1 /\ a[1] = TXT
      /\ \A i \in 2 .. k + 1 : a[i] = lines[i - 1]
  BY <1>2, <1>3, <1>4, ConcatProperties
<1> HIDE DEF a
<1>6. /\ a \o <<LAST_MSG_END>> \in Seq(Seq(Byte)) /\ Len(a \o <<LAST_MSG_END>>) = k + 2
      /\ \A i \in 1 .. k + 1 : (a \o <<LAST_MSG_END>>)[i] = a[i]
      /\ (a \o <<LAST_MSG_END>>)[k + 2] = LAST_MSG_END
  BY <1>2, <1>4, <1>5, ConcatProperties
<1>7. TextReply(t) = a \o <<LAST_MSG_END>>
  BY DEF TextReply, a, lines
<1>8. \A i \in 2 .. k + 1 : (a \o <<LAST_MSG_END>>)[i] \in Seq({"t"})
  <2>1. \A i \in 2 .. k + 1 : i - 1 \in 1 .. k /\ i \in 1 .. k + 1
    BY <1>2
  <2> QED BY <1>3, <1>5, <1>6, <2>1
<1> QED BY <1>2, <1>5, <1>6, <1>7, <1>8

\* An archive is its tag, whole blocks and, if anything is left, a last block.
LEMMA TarReplyIs ==
    ASSUME NEW size \in ArchiveSizes
    PROVE  /\ TarReply(size) \in Seq(Seq(Byte)) /\ Len(TarReply(size)) > 0
           /\ size % Block # 0 =>
                 /\ Len(TarReply(size)) > 1
                 /\ TarReply(size)[1] = TAR
                 /\ \A i \in 2 .. Len(TarReply(size)) :
                       Len(TarReply(size)[i]) = IF i = Len(TarReply(size)) THEN size % Block
                                                                           ELSE Block
                 /\ size = Times(Len(TarReply(size)) - 2) + (size % Block)
<1> DEFINE q == size \div Block
           r == size % Block
           blocks == Bytes(Bytes("d", Block), q)
           last == IF r = 0 THEN <<>> ELSE <<Bytes("d", r)>>
           a == <<TAR>> \o blocks
<1>1. q \in Nat /\ r \in Nat /\ size = Times(q) + r
  BY Constants, Division
<1> HIDE DEF q, r
<1>2. /\ Bytes("d", Block) \in Seq(Byte) /\ Len(Bytes("d", Block)) = Block
      /\ Bytes("d", r) \in Seq(Byte) /\ Len(Bytes("d", r)) = r
  <2>1. "d" \in Byte
    BY DEF Byte
  <2> QED BY <1>1, <2>1, Constants, BytesAre
<1>3. /\ blocks \in Seq(Seq(Byte)) /\ Len(blocks) = q
      /\ \A i \in 1 .. q : blocks[i] = Bytes("d", Block)
  BY <1>1, <1>2, BytesAre
<1>4. <<TAR>> \in Seq(Seq(Byte)) /\ Len(<<TAR>>) = 1 /\ <<TAR>>[1] = TAR
  BY Words
<1> HIDE DEF blocks
<1>5. /\ a \in Seq(Seq(Byte)) /\ Len(a) = q + 1 /\ a[1] = TAR
      /\ \A i \in 2 .. q + 1 : a[i] = blocks[i - 1]
  BY <1>1, <1>3, <1>4, ConcatProperties
<1>6. /\ last \in Seq(Seq(Byte)) /\ Len(last) = (IF r = 0 THEN 0 ELSE 1)
      /\ r # 0 => last[1] = Bytes("d", r)
  BY <1>2
<1>7. TarReply(size) = a \o last
  BY DEF TarReply, a, blocks, last, q, r
<1> HIDE DEF a, last
<1>8. /\ a \o last \in Seq(Seq(Byte)) /\ Len(a \o last) = (IF r = 0 THEN q + 1 ELSE q + 2)
      /\ \A i \in 1 .. q + 1 : (a \o last)[i] = a[i]
      /\ r # 0 => (a \o last)[q + 2] = Bytes("d", r)
  <2>1. /\ a \o last \in Seq(Seq(Byte)) /\ Len(a \o last) = Len(a) + Len(last)
        /\ \A i \in 1 .. Len(a) + Len(last) :
              (a \o last)[i] = IF i <= Len(a) THEN a[i] ELSE last[i - Len(a)]
    <3>1. a \in Seq(Seq(Byte)) /\ last \in Seq(Seq(Byte))
      BY <1>5, <1>6
    <3> QED BY <3>1, ConcatProperties, Zenon
  <2>2. Len(a) = q + 1 /\ Len(last) = (IF r = 0 THEN 0 ELSE 1)
    BY <1>5, <1>6
  <2>3. \A i \in 1 .. q + 1 : (a \o last)[i] = a[i]
    BY <1>1, <2>1, <2>2
  <2>4. r # 0 => (a \o last)[q + 2] = last[1]
    BY <1>1, <2>1, <2>2
  <2> QED BY <1>1, <1>6, <2>1, <2>2, <2>3, <2>4
<1>9. \A i \in 2 .. q + 1 : Len((a \o last)[i]) = Block
  <2>1. \A i \in 2 .. q + 1 : i - 1 \in 1 .. q /\ i \in 1 .. q + 1
    BY <1>1
  <2> QED BY <1>2, <1>3, <1>5, <1>8, <2>1
<1>10. ASSUME r # 0 PROVE Len(a \o last) - 2 = q
  BY <1>1, <1>8, <1>10
<1> QED BY <1>1, <1>2, <1>5, <1>7, <1>8, <1>9, <1>10 DEF r

\* What a read takes, and what it leaves.
LEMMA ReadIs ==
    ASSUME TypeOK, s2c # <<>>, NEW cap \in Nat \ {0}, NEW n \in Reads(cap), Take(n)
    PROVE  /\ n \in 1 .. Len(s2c) /\ n <= cap
           /\ ~IsShort(n, cap) => n = Min2(cap, Len(s2c))
           /\ Received(n) \in Seq(Byte \cup {"g"}) /\ Len(Received(n)) = n
           /\ \A i \in 1 .. n : Received(n)[i] = s2c[i]
           /\ s2c' \in Seq(Byte \cup {"g"}) /\ Len(s2c') = Len(s2c) - n
           /\ \A i \in 1 .. Len(s2c) - n : s2c'[i] = s2c[n + i]
<1> DEFINE S == Byte \cup {"g"}
<1>1. s2c \in Seq(S) /\ Len(s2c) \in Nat \ {0}
  <2>1. s2c \in Seq(S)
    BY DEF TypeOK
  <2> HIDE DEF S
  <2> QED BY <2>1, EmptySeq
<1> HIDE DEF S
<1>2. n \in 1 .. Len(s2c) /\ n <= cap /\ (~IsShort(n, cap) => n = Min2(cap, Len(s2c)))
  BY <1>1 DEF Reads, Min2, IsShort
<1>3. \A i \in 1 .. Len(s2c) : s2c[i] \in S
  BY <1>1, LenProperties
<1>4. /\ Received(n) \in Seq(S) /\ Len(Received(n)) = n
      /\ \A i \in 1 .. n : Received(n)[i] = s2c[i]
  <2>1. \A i \in 1 .. n : s2c[i] \in S
    BY <1>1, <1>2, <1>3
  <2> QED BY <1>1, <1>2, <2>1, SubSeqProperties DEF Received
<1>5. /\ s2c' \in Seq(S) /\ Len(s2c') = Len(s2c) - n
      /\ \A i \in 1 .. Len(s2c) - n : s2c'[i] = s2c[n + i]
  <2> DEFINE m == n + 1
             l == Len(s2c)
  <2>1. m \in Int /\ l \in Int /\ \A i \in m .. l : s2c[i] \in S
    BY <1>1, <1>2, <1>3
  <2>2. s2c' = SubSeq(s2c, m, l)
    BY DEF Take
  <2> HIDE DEF m, l
  <2>3. /\ s2c' \in Seq(S) /\ Len(s2c') = (IF m <= l THEN l - m + 1 ELSE 0)
        /\ \A i \in 1 .. l - m + 1 : s2c'[i] = s2c[m + i - 1]
    BY <2>1, <2>2, SubSeqProperties

  <2>5. Len(s2c') = l - n
    BY <1>1, <1>2, <2>3 DEF m, l
  <2>6. ASSUME NEW i \in 1 .. l - n PROVE s2c'[i] = s2c[n + i]
    <3>1. i \in 1 .. l - m + 1 /\ m + i - 1 = n + i
      BY <1>1, <1>2 DEF m, l
    <3> QED BY <2>3, <3>1
  <2> QED BY <2>3, <2>5, <2>6 DEF l
<1> QED BY <1>2, <1>4, <1>5 DEF S

\* A cause is recorded, and the first one stays.
LEMMA BlameIs ==
    ASSUME cause \in Cause, NEW event \in Cause \ {"none"}, Blame(event)
    PROVE  /\ cause' \in Cause \ {"none"}
           /\ cause' = "gone" => cause = "gone" \/ event = "gone"
  BY DEF Blame

LEMMA Causes == {"cts", "short", "split", "five", "even", "untagged", "silent", "gone",
                 "unsaved"} \subseteq Cause \ {"none"}
  BY DEF Cause

\* What a handler does to the reply, whatever it answers.
HandledWell ==
    /\ out' \in Seq(Seq(Byte))
    /\ server' \in {"read", "send", "gone"}
    /\ server' = "send" => out' # <<>>
    /\ due' \in [answer : Answer, size : Nat]
    /\ cause' \in Cause
    /\ cause' = "gone" => server' = "gone"

\* Only a text and an archive with a last block that is not full leave the cause as it is.
LEMMA HandleIs ==
    ASSUME TypeOK, server = "read", cause # "gone", NEW a, Handle(a)
    PROVE  /\ HandledWell
           /\ cause' = "none" =>
                 /\ cause = "none"
                 /\ \/ AnswerText
                    \/ \E size \in ArchiveSizes :
                          size % Block # 0 /\ Reply("tar", size, TarReply(size))
                    \/ a = "quit"
<1> USE DEF Reply, HandledWell, Answer
<1>1. /\ cause \in Cause \ {"gone"}
      /\ out \in Seq(Seq(Byte))
      /\ due \in [answer : Answer, size : Nat]
  BY DEF TypeOK
<1>2. CASE AnswerText
  <2>1. PICK t \in Texts : Reply("text", 0, TextReply(t)) /\ UNCHANGED cause
    BY <1>2 DEF AnswerText
  <2>2. TextReply(t) \in Seq(Seq(Byte)) /\ TextReply(t) # <<>>
    BY TextReplyIs, EmptySeq
  <2> QED BY <1>1, <1>2, <2>1, <2>2
<1>3. CASE AnswerTar
  <2>1. PICK size \in ArchiveSizes :
          /\ Reply("tar", size, TarReply(size))
          /\ IF size % Block = 0 THEN Blame("even") ELSE UNCHANGED cause
    BY <1>3 DEF AnswerTar
  <2>2. TarReply(size) \in Seq(Seq(Byte)) /\ TarReply(size) # <<>> /\ size \in Nat
    BY TarReplyIs, EmptySeq, Constants
  <2> QED BY <1>1, <2>1, <2>2, BlameIs, Causes
<1>4. CASE AnswerError
  <2>1. Bytes("e", ErrorLen) \in Seq(Byte)
    <3>1. "e" \in Byte /\ ErrorLen \in Nat
      BY Constants DEF Byte
    <3> QED BY <3>1, BytesAre
  <2>2. <<Bytes("e", ErrorLen)>> \in Seq(Seq(Byte)) /\ <<Bytes("e", ErrorLen)>> # <<>>
    BY <2>1
  <2> QED BY <1>1, <1>4, <2>2, Constants, BlameIs, Causes DEF AnswerError
<1>5. CASE AnswerSilence
  BY <1>1, <1>5, BlameIs, Causes DEF AnswerSilence
<1>6. CASE a \in {"miss", "exit"} /\ Dies(a)
  BY <1>1, <1>6, BlameIs, Causes DEF Dies
<1>7. CASE a = "quit" /\ server' = "gone" /\ UNCHANGED <<out, due, cause>>
  BY <1>1, <1>7
<1> QED BY <1>2, <1>3, <1>4, <1>5, <1>6, <1>7 DEF Handle

\* One send of a reply.
LEMMA SendIs ==
    ASSUME TypeOK, out # <<>>, Send
    PROVE  /\ Head(out) = out[1] /\ out[1] \in Seq(Byte) /\ Len(out[1]) \in Nat
           /\ Len(out) \in Nat \ {0}
           /\ out' \in Seq(Seq(Byte)) /\ Len(out') = Len(out) - 1
           /\ \A i \in 1 .. Len(out) - 1 : out'[i] = out[i + 1]
           /\ out' = <<>> <=> Len(out) = 1
           /\ due'.answer = due.answer
           /\ due'.size = due.size + (IF due.answer = "text" THEN TextIn(out[1]) ELSE 0)
           /\ due' \in [answer : Answer, size : Nat]
           /\ server' = "send" => out' # <<>>
           /\ s2c' \in Seq(Byte \cup {"g"})
           /\ client # "ended" =>
                 /\ server' = IF out' = <<>> THEN "read" ELSE "send"
                 /\ Len(s2c') = Len(s2c) + Len(out[1])
                 /\ \A i \in 1 .. Len(s2c) + Len(out[1]) :
                       s2c'[i] = IF i <= Len(s2c) THEN s2c[i] ELSE out[1][i - Len(s2c)]
<1>1. /\ out \in Seq(Seq(Byte)) /\ s2c \in Seq(Byte \cup {"g"})
      /\ due \in [answer : Answer, size : Nat]
  BY DEF TypeOK
<1>2. /\ Head(out) = out[1] /\ out[1] \in Seq(Byte)
      /\ Len(out) \in Nat \ {0}
      /\ out' \in Seq(Seq(Byte)) /\ Len(out') = Len(out) - 1
      /\ \A i \in 1 .. Len(out) - 1 : out'[i] = out[i + 1]
      /\ out' = <<>> <=> Len(out) = 1
  <2>1. out' = Tail(out)
    BY DEF Send
  <2>2. Head(out) = out[1] /\ Head(out) \in Seq(Byte)
    BY <1>1, Behind
  <2> QED BY <1>1, <2>1, <2>2, Behind
<1>3. Len(out[1]) \in Nat /\ out[1] \in Seq(Byte \cup {"g"})
  BY <1>2, LenProperties, SeqMonotonic
<1>4. TextIn(out[1]) \in Nat
  BY <1>3 DEF TextIn
<1>5. /\ due' = [due EXCEPT !.size = IF due.answer = "text" THEN due.size + TextIn(out[1])
                                                          ELSE due.size]
  BY <1>2 DEF Send
<1>6. /\ due'.answer = due.answer
      /\ due'.size = due.size + (IF due.answer = "text" THEN TextIn(out[1]) ELSE 0)
      /\ due' \in [answer : Answer, size : Nat]
  <2> DEFINE n == IF due.answer = "text" THEN TextIn(out[1]) ELSE 0
  <2>1. due.size \in Nat /\ n \in Nat
    BY <1>1, <1>4
  <2>2. due' = [due EXCEPT !.size = due.size + n]
    BY <1>5, <2>1
  <2> HIDE DEF n
  <2>3. /\ due'.answer = due.answer /\ due'.size = due.size + n
        /\ due' \in [answer : Answer, size : Nat]
    BY <1>1, <2>1, <2>2
  <2> QED BY <2>3 DEF n
<1>7. /\ s2c' \in Seq(Byte \cup {"g"})
      /\ client # "ended" =>
            /\ Len(s2c') = Len(s2c) + Len(out[1])
            /\ \A i \in 1 .. Len(s2c) + Len(out[1]) :
                  s2c'[i] = IF i <= Len(s2c) THEN s2c[i] ELSE out[1][i - Len(s2c)]
  <2>1. CASE client # "ended"
    <3>1. s2c' = s2c \o out[1]
      BY <1>2, <2>1 DEF Send
    <3> QED BY <1>1, <1>3, <3>1, ConcatProperties
  <2>2. CASE client = "ended"
    BY <1>1, <2>2 DEF Send
  <2> QED BY <2>1, <2>2
<1>8. /\ server' = "send" => out' # <<>>
      /\ client # "ended" => server' = IF out' = <<>> THEN "read" ELSE "send"
  BY DEF Send
<1> QED BY <1>2, <1>3, <1>6, <1>7, <1>8

-----------------------------------------------------------------------------
(***************************************************************************)
(* The parts of the invariant that hold also after a cause.                *)
(***************************************************************************)
LEMMA BaseInit == Init => Base
<1> SUFFICES ASSUME Init PROVE Base
  OBVIOUS
<1>1. /\ out \in Seq(Seq(Byte))
      /\ c2s \in Seq(Request \cup {Quit})
  BY DEF Init, Answer
<1>2. s2c \in Seq(Byte \cup {"g"})
  <2>1. s2c = <<>> \/ s2c = <<"g">>
    BY DEF Init
  <2>2. "g" \in Byte \cup {"g"}
    OBVIOUS
  <2>3. \A S : "g" \in S => <<"g">> \in Seq(S)
    OBVIOUS
  <2> QED BY <2>1, <2>2, <2>3, EmptySeq
<1>3. due \in [answer : Answer, size : Nat]
  BY DEF Init, Answer
<1>4. cause \in {"none", "cts"}
  BY DEF Init
<1>5. TypeOK
  <2>1. commands \in 0 .. MaxCommands /\ shown \in Nat /\ saved \in Nat
    BY Constants DEF Init
  <2>2. /\ client \in {"prompt", "reply", "text", "file", "ended"} /\ args \in {"NULL", "stale"}
        /\ server \in {"read", "send", "gone"} /\ refused \in BOOLEAN
    BY DEF Init
  <2>3. cause \in Cause
    BY <1>4 DEF Cause
  <2> QED BY <1>1, <1>2, <1>3, <2>1, <2>2, <2>3 DEF TypeOK
<1> QED BY <1>4, <1>5 DEF Base, Init

\* The client at its prompt sends requests and resets its counters.
LEMMA CommandBase == ASSUME Base, NEW r \in Request, Command(r) PROVE Base'
<1>1. c2s' \in Seq(Request \cup {Quit})
  <2>1. c2s' = c2s \/ c2s' = Append(c2s, r)
    BY DEF Command
  <2>2. c2s \in Seq(Request \cup {Quit}) /\ r \in Request \cup {Quit}
    BY DEF Base, TypeOK
  <2> QED BY <2>1, <2>2, AppendProperties
<1>2. s2c' \in Seq(Byte \cup {"g"})
  <2>1. s2c' = s2c \/ s2c' = <<>>
    BY DEF Command
  <2>2. s2c \in Seq(Byte \cup {"g"})
    BY DEF Base, TypeOK
  <2> QED BY <2>1, <2>2, EmptySeq
<1>3. commands' \in 0 .. MaxCommands
  BY Constants DEF Base, TypeOK, Command
<1>4. /\ client' \in {"prompt", "reply", "text", "file", "ended"}
      /\ args' \in {"NULL", "stale"} /\ refused' \in BOOLEAN /\ shown' \in Nat /\ saved' \in Nat
  <2>1. /\ client' \in {client, "reply", "ended"} /\ args' \in {args, "stale"}
        /\ shown' \in {shown, 0} /\ saved' \in {saved, 0}
    BY DEF Command
  <2>2. /\ client \in {"prompt", "reply", "text", "file", "ended"} /\ args \in {"NULL", "stale"}
        /\ shown \in Nat /\ saved \in Nat
    BY DEF Base, TypeOK
  <2>3. refused' \in BOOLEAN
    <3>1. refused \in BOOLEAN
      BY DEF Base, TypeOK
    <3>2. UNCHANGED refused \/ refused' = TRUE
      BY DEF Command
    <3> QED BY <3>1, <3>2
  <2> QED BY <2>1, <2>2, <2>3
<1>5. UNCHANGED <<server, out, due, cause>>
  BY DEF Command
<1> QED BY <1>1, <1>2, <1>3, <1>4, <1>5 DEF Base, TypeOK

LEMMA LeaveBase == ASSUME Base, Leave PROVE Base'
<1>1. c2s' \in Seq(Request \cup {Quit})
  <2>1. c2s' = c2s \/ c2s' = Append(c2s, Quit)
    BY DEF Leave
  <2>2. c2s \in Seq(Request \cup {Quit}) /\ Quit \in Request \cup {Quit}
    BY DEF Base, TypeOK
  <2> QED BY <2>1, <2>2, AppendProperties
<1>2. s2c' \in Seq(Byte \cup {"g"})
  BY DEF Leave
<1> QED BY <1>1, <1>2 DEF Base, TypeOK, Leave

\* A read takes bytes off the stream and counts them.
LEMMA ReadsBase == ASSUME Base, ClientReads PROVE Base'
<1>1. ASSUME s2c # <<>>, NEW cap \in Nat \ {0}, NEW n \in Reads(cap), Take(n)
      PROVE  /\ s2c' \in Seq(Byte \cup {"g"})
             /\ n \in Nat
  <2>1. s2c' \in Seq(Byte \cup {"g"}) /\ n \in 1 .. Len(s2c) /\ Len(s2c) \in Nat
    BY <1>1, ReadIs, LenProperties DEF Base, TypeOK
  <2> QED BY <2>1
<1>2. CASE ReadReply
  <2>1. PICK n \in Reads(3) :
          /\ Take(n)
          /\ \/ /\ client' = Expects(Received(n))
                /\ IF IsShort(n, 3) THEN Blame("short") ELSE UNCHANGED cause
             \/ /\ client' = "prompt"
                /\ Blame("unsaved")
    BY <1>2 DEF ReadReply
  <2>2. client' \in {"prompt", "reply", "text", "file", "ended"}
    BY <2>1 DEF Expects
  <2>3. s2c' \in Seq(Byte \cup {"g"})
    BY <1>1, <1>2, <2>1 DEF ReadReply
  <2>9. cause' \in Cause /\ (cause' = "gone" => cause = "gone")
    BY <2>1, BlameIs, Causes DEF Base, TypeOK
  <2> QED BY <1>2, <2>1, <2>2, <2>3, <2>9 DEF Base, TypeOK, ReadReply
<1>3. CASE ReadText
  <2>1. PICK n \in Reads(TextBuf) :
          /\ Take(n)
          /\ \/ /\ EndsText(Received(n)) \/ MayEndText(Received(n))
                /\ shown' = shown + Printed(n)
                /\ client' = "prompt"
                /\ IF n = 4 + 1 THEN Blame("five") ELSE UNCHANGED cause
             \/ /\ ~EndsText(Received(n))
                /\ shown' = shown + n
                /\ UNCHANGED client
                /\ IF EndsInside(Received(n)) THEN Blame("split") ELSE UNCHANGED cause
    BY <1>3 DEF ReadText
  <2>2. /\ s2c' \in Seq(Byte \cup {"g"})
        /\ n \in Nat
    BY <1>1, <1>3, <2>1, Constants DEF ReadText
  <2>3. Printed(n) \in Nat
    BY <2>2 DEF Printed
  <2>4. shown' \in Nat
    BY <2>1, <2>2, <2>3 DEF Base, TypeOK
  <2>9. cause' \in Cause /\ (cause' = "gone" => cause = "gone")
    BY <2>1, BlameIs, Causes DEF Base, TypeOK
  <2> QED BY <1>3, <2>1, <2>2, <2>4, <2>9 DEF Base, TypeOK, ReadText
<1>4. CASE ReadFile
  <2>1. PICK n \in Reads(Block) :
          /\ Take(n)
          /\ client' = IF n < Block THEN "prompt" ELSE "file"
          /\ \/ /\ saved' = saved + n
                /\ IF IsShort(n, Block) THEN Blame("short") ELSE UNCHANGED cause
             \/ /\ \E m \in 0 .. n - 1 : saved' = saved + m
                /\ Blame("unsaved")
    BY <1>4 DEF ReadFile
  <2>2. /\ s2c' \in Seq(Byte \cup {"g"})
        /\ n \in Nat
    BY <1>1, <1>4, <2>1, Constants DEF ReadFile
  <2>3. saved' \in Nat
    BY <2>1, <2>2 DEF Base, TypeOK
  <2>9. cause' \in Cause /\ (cause' = "gone" => cause = "gone")
    BY <2>1, BlameIs, Causes DEF Base, TypeOK
  <2> QED BY <1>4, <2>1, <2>2, <2>3, <2>9 DEF Base, TypeOK, ReadFile
<1>5. CASE ReadEnd
  BY <1>5 DEF Base, TypeOK, ReadEnd
<1> QED BY <1>2, <1>3, <1>4, <1>5 DEF ClientReads

LEMMA ChildBase == ASSUME Base, Child \/ HeapFault PROVE Base'
<1>1. CASE ReadRequest
  <2>1. PICK a : Handle(a)
    BY <1>1 DEF ReadRequest
  <2>2. HandledWell
    BY <1>1, <2>1, HandleIs DEF Base, ReadRequest
  <2>3. c2s' = <<>> /\ UNCHANGED <<client, args, s2c, refused, commands, shown, saved>>
    BY <1>1 DEF ReadRequest
  <2> QED BY <2>2, <2>3 DEF Base, TypeOK, HandledWell
<1>2. CASE Send
  <2>1. out # <<>>
    BY <1>2 DEF Base, Send
  <2>2. /\ out' \in Seq(Seq(Byte)) /\ s2c' \in Seq(Byte \cup {"g"})
        /\ due' \in [answer : Answer, size : Nat]
        /\ server' = "send" => out' # <<>>
    BY <1>2, <2>1, SendIs DEF Base
  <2>3. server' \in {"read", "send", "gone"} /\ server = "send"
        /\ UNCHANGED <<client, args, c2s, refused, commands, shown, saved, cause>>
    BY <1>2 DEF Send
  <2> QED BY <2>2, <2>3 DEF Base, TypeOK
<1>3. CASE ReadNothing \/ HeapFault
  BY <1>3, BlameIs, Causes DEF Base, TypeOK, ReadNothing, HeapFault
<1> QED BY <1>1, <1>2, <1>3 DEF Child

LEMMA BaseNext == Base /\ [Next]_vars => Base'
<1> SUFFICES ASSUME Base, [Next]_vars PROVE Base'
  OBVIOUS
<1>1. CASE UNCHANGED vars
  BY <1>1 DEF vars, Base, TypeOK
<1> QED BY <1>1, CommandBase, LeaveBase, ReadsBase, ChildBase DEF Next

-----------------------------------------------------------------------------
(***************************************************************************)
(* One step of an exchange.                                                *)
(***************************************************************************)
LEMMA LengthIsNat == Base => Len(s2c) \in Nat /\ Len(out) \in Nat
<1> SUFFICES ASSUME Base PROVE Len(s2c) \in Nat /\ Len(out) \in Nat
  OBVIOUS
<1>1. s2c \in Seq(Byte \cup {"g"}) /\ out \in Seq(Seq(Byte))
  BY DEF Base, TypeOK
<1> QED BY <1>1, LenProperties

\* A command is given when nothing is on its way.
LEMMA CommandExchange ==
    ASSUME Base, Exchange, NEW r \in Request, Command(r)
    PROVE  Exchange'
<1>1. Idle
  BY DEF Command, Exchange, Idle, Asked, Untagged, Tagged
<1>2. UNCHANGED <<server, out, due>>
  BY DEF Command
<1>3. \/ client' = "ended"
      \/ UNCHANGED <<client, c2s, s2c, shown, saved>>
      \/ c2s' = Append(c2s, r) /\ client' = "reply" /\ shown' = 0 /\ saved' = 0 /\ s2c' = s2c
  BY <1>1 DEF Command, Idle
<1>4. CASE UNCHANGED <<client, c2s, s2c, shown, saved>>
  BY <1>1, <1>2, <1>4 DEF Exchange, Idle
<1>5. CASE c2s' = Append(c2s, r) /\ client' = "reply" /\ shown' = 0 /\ saved' = 0 /\ s2c' = s2c
  <2>1. c2s' = <<r>>
    BY <1>1, <1>5 DEF Idle
  <2> QED BY <1>1, <1>2, <1>5, <2>1 DEF Exchange, Asked, Idle
<1> QED BY <1>3, <1>4, <1>5 DEF Exchange

\* A request that does not leave a cause is answered with a text or an archive.
LEMMA RequestExchange ==
    ASSUME Base, Exchange, cause = "none", cause' = "none", ReadRequest
    PROVE  Exchange'
<1>1. server = "read" /\ c2s # <<>> /\ c2s' = <<>>
      /\ UNCHANGED <<client, args, s2c, refused, commands, shown, saved>>
  BY DEF ReadRequest
<1>2. CASE client = "ended"
  BY <1>1, <1>2 DEF Exchange
<1>3. CASE client # "ended"
  <2>1. Asked
    BY <1>1, <1>3 DEF Exchange, Idle, Untagged, Tagged, TextPhase, TarPhase
  <2>2. PICK r \in Request : c2s = <<r>>
    BY <2>1 DEF Asked
  <2>3. PICK a \in AlteredAnswers(r) \cup Answers(r) : Handle(a)
    BY <2>2 DEF ReadRequest
  <2>4. r.cmd # "quit" /\ r.args \in {"good", "none", "bad"}
        /\ r.cmd \in {"dirlist", "w24fn", "w24fz", "w24ft", "date"}
    BY DEF Request
  <2>5. a # "quit"
    <3>1. ASSUME NEW q \in [cmd : {"dirlist", "w24fn", "w24fz", "w24ft", "date"},
                            args : {"good", "none", "bad"}]
          PROVE  "quit" \notin Answers(q)
      BY DEF Answers, Failure
    <3>2. [r EXCEPT !.args = "good"] \in [cmd : {"dirlist", "w24fn", "w24fz", "w24ft", "date"},
                                          args : {"good", "none", "bad"}]
      BY DEF Request
    <3>3. "quit" \notin Answers(r) /\ "quit" \notin Answers([r EXCEPT !.args = "good"])
      BY <3>1, <3>2 DEF Request
    <3> QED BY <2>3, <2>4, <3>3 DEF AlteredAnswers
  <2>6. \/ AnswerText
        \/ \E size \in ArchiveSizes : size % Block # 0 /\ Reply("tar", size, TarReply(size))
    BY <1>1, <2>3, <2>5, HandleIs DEF Base
  <2>7. CASE AnswerText
    <3>1. PICK t \in Texts : Reply("text", 0, TextReply(t))
      BY <2>7 DEF AnswerText
    <3>2. Len(out') > 1 /\ out'[1] = TXT /\ TextSends(1)'
      <4>1. /\ Len(out') > 1 /\ out'[1] = TXT
            /\ \A i \in 2 .. Len(out') : IF i = Len(out') THEN out'[i] = LAST_MSG_END
                                                          ELSE out'[i] \in Seq({"t"})
        BY <3>1, TextReplyIs DEF Reply
      <4> QED BY <4>1 DEF TextSends
    <3>3. out' # <<>> /\ server' = "send" /\ due' = [answer |-> "text", size |-> 0]
      BY <3>1, TextReplyIs, EmptySeq DEF Reply
    <3> QED BY <1>1, <2>1, <3>2, <3>3 DEF Exchange, Asked, Untagged
  <2>8. ASSUME NEW size \in ArchiveSizes, size % Block # 0, Reply("tar", size, TarReply(size))
        PROVE  Exchange'
    <3>1. Rest' = size % Block /\ due'.answer = "tar" /\ due'.size = size
      BY <2>8 DEF Rest, Reply
    <3>2. /\ Len(out') > 1 /\ out'[1] = TAR
          /\ \A i \in 2 .. Len(out') : Len(out'[i]) = IF i = Len(out') THEN size % Block ELSE Block
          /\ size = Times(Len(out') - 2) + (size % Block)
      BY <2>8, TarReplyIs DEF Reply
    <3>3. TarSends(1)'
      BY <3>1, <3>2 DEF TarSends
    <3>4. out' # <<>> /\ server' = "send"
      BY <2>8, TarReplyIs, EmptySeq DEF Reply
    <3>5. due'.size = Times(Len(out') - 2) + Rest'
      BY <3>1, <3>2
    <3> QED BY <1>1, <2>1, <2>8, <3>1, <3>2, <3>3, <3>4, <3>5 DEF Exchange, Asked, Untagged
  <2> QED BY <2>6, <2>7, <2>8
<1> QED BY <1>2, <1>3

\* A line or the trailer of a text is sent.
LEMMA SendText ==
    ASSUME Base, NEW h \in Nat, TextPhase(h), server = "send", client # "ended", Send
    PROVE  TextPhase(h)' /\ Len(s2c') >= Len(s2c) /\ \A i \in 1 .. Len(s2c) : s2c'[i] = s2c[i]
<1> DEFINE L == Len(s2c)
           p == out[1]
<1>1. out # <<>> /\ L \in Nat /\ due.size \in Nat /\ shown \in Nat
  BY LengthIsNat DEF Base, TypeOK
<1>2. /\ L >= h /\ (\A i \in h + 1 .. L : s2c[i] = "t")
      /\ shown + (L - h) = due.size /\ due.answer = "text" /\ c2s = <<>> /\ TextSends(0)
  BY <1>1 DEF TextPhase, Trailer
<1>3. /\ Len(out) \in Nat \ {0} /\ Len(out') = Len(out) - 1
      /\ (\A i \in 1 .. Len(out) - 1 : out'[i] = out[i + 1])
      /\ (out' = <<>> <=> Len(out) = 1)
      /\ due'.answer = "text" /\ due'.size = due.size + TextIn(p)
      /\ server' = (IF out' = <<>> THEN "read" ELSE "send")
      /\ Len(p) \in Nat /\ Len(s2c') = L + Len(p)
      /\ \A i \in 1 .. L + Len(p) : s2c'[i] = IF i <= L THEN s2c[i] ELSE p[i - L]
  BY <1>1, <1>2, SendIs DEF Base
<1>4. UNCHANGED <<c2s, shown>>
  BY DEF Send
<1>5. \/ p = LAST_MSG_END /\ TextIn(p) = 0 /\ Len(p) = 4 /\ Trailer' = 4
      \/ Len(out) # 1 /\ TextIn(p) = Len(p) /\ (\A i \in 1 .. Len(p) : p[i] = "t") /\ Trailer' = 0
  <2>1. CASE Len(out) = 1
    <3>1. p = LAST_MSG_END
      BY <1>2, <2>1 DEF TextSends
    <3>2. Len(p) = 4 /\ TextIn(p) = 0
      BY <3>1, Words DEF TextIn
    <3>3. Trailer' = 4
      BY <1>3, <2>1 DEF Trailer
    <3> QED BY <3>1, <3>2, <3>3
  <2>2. CASE Len(out) # 1
    <3>1. p \in Seq({"t"})
      BY <1>2, <1>3, <2>2 DEF TextSends
    <3>2. \A i \in 1 .. Len(p) : p[i] = "t"
      BY <3>1, ElementOfSeq
    <3>3. p # TXT /\ p # LAST_MSG_END
      BY <3>2, Words
    <3>4. Trailer' = 0
      BY <1>3, <2>2 DEF Trailer
    <3> QED BY <2>2, <3>2, <3>3, <3>4 DEF TextIn
  <2> QED BY <2>1, <2>2
<1> HIDE DEF L, p
<1>6. TextSends(0)'
  <2> SUFFICES ASSUME NEW i \in 1 .. Len(out')
               PROVE  IF i = Len(out') THEN out'[i] = LAST_MSG_END ELSE out'[i] \in Seq({"t"})
    BY DEF TextSends
  <2>1. /\ i + 1 \in 1 .. Len(out) /\ out'[i] = out[i + 1]
        /\ i + 1 = Len(out) <=> i = Len(out')
    BY <1>3
  <2> QED BY <1>2, <2>1 DEF TextSends
<1>7. \A i \in 1 .. L : s2c'[i] = s2c[i]
  BY <1>1, <1>3
<1>8. \A i \in h + 1 .. Len(s2c') - Trailer' : s2c'[i] = "t"
  <2> SUFFICES ASSUME NEW i \in h + 1 .. Len(s2c') - Trailer' PROVE s2c'[i] = "t"
    OBVIOUS
  <2>1. CASE i <= L
    BY <1>1, <1>2, <1>7, <2>1
  <2>2. CASE i > L
    <3>1. L + Len(p) - Trailer' >= i /\ Len(p) \in Nat /\ L \in Nat /\ Trailer' \in Nat
      BY <1>1, <1>3, <1>5
    <3>2. i - L \in 1 .. Len(p) /\ i \in 1 .. L + Len(p)
      BY <1>1, <1>3, <1>5, <2>2
    <3>3. s2c'[i] = p[i - L]
      <4>1. ~(i <= L)
        BY <1>1, <2>2, <3>2
      <4> QED BY <1>3, <3>2, <4>1
    <3>4. Trailer' # 4 \/ Len(p) # 4
      <4>1. ASSUME Trailer' = 4, Len(p) = 4 PROVE FALSE
        <5>1. L + 4 - 4 >= i
          BY <3>1, <4>1, Zenon
        <5>2. i \in Int /\ L \in Int
          BY <1>1, <3>2
        <5> QED BY <2>2, <5>1, <5>2
      <4> QED BY <4>1
    <3> QED BY <1>5, <3>2, <3>3, <3>4
  <2> QED BY <1>1, <2>1, <2>2
<1>9. EndsWith(s2c, Trailer)'
  <2>1. /\ Len(s2c') >= Trailer'
        /\ \A i \in 1 .. Trailer' : s2c'[Len(s2c') - Trailer' + i] = LAST_MSG_END[i]
    <3>1. CASE Trailer' = 4 /\ p = LAST_MSG_END /\ Len(p) = 4
      <4>1. Len(s2c') = L + 4
        BY <1>3, <3>1
      <4>2. ASSUME NEW i \in 1 .. 4 PROVE s2c'[Len(s2c') - 4 + i] = LAST_MSG_END[i]
        <5>1. Len(s2c') - 4 + i = L + i /\ L + i \in 1 .. L + Len(p) /\ ~(L + i <= L)
              /\ (L + i) - L = i
          BY <1>1, <3>1, <4>1
        <5> QED BY <1>3, <3>1, <5>1
      <4> QED BY <1>1, <3>1, <4>1, <4>2
    <3>2. CASE Trailer' = 0
      BY <1>1, <1>3, <3>2
    <3> QED BY <1>5, <3>1, <3>2
  <2> QED BY <2>1 DEF EndsWith
<1>10. /\ Len(s2c') >= L /\ Len(s2c') >= h + Trailer'
       /\ shown' + (Len(s2c') - h - Trailer') = due'.size
  <2>1. Len(s2c') = L + Len(p) /\ due'.size = due.size + TextIn(p) /\ shown' = shown
    BY <1>3, <1>4
  <2>2. /\ TextIn(p) = Len(p) - Trailer' /\ Trailer' \in Nat /\ Len(p) \in Nat
        /\ Len(p) >= Trailer'
    <3>1. CASE TextIn(p) = 0 /\ Len(p) = 4 /\ Trailer' = 4
      BY <3>1
    <3>2. CASE TextIn(p) = Len(p) /\ Trailer' = 0
      BY <1>3, <3>2
    <3> QED BY <1>5, <3>1, <3>2
  <2> QED BY <1>1, <1>2, <2>1, <2>2
<1> QED BY <1>2, <1>3, <1>4, <1>6, <1>7, <1>8, <1>9, <1>10 DEF TextPhase, L

\* A block of an archive is sent, or what is left.
LEMMA SendBlock ==
    ASSUME Base, NEW h \in Nat, TarPhase(h), server = "send", client # "ended", Send
    PROVE  TarPhase(h)' /\ Len(s2c') >= Len(s2c) /\ \A i \in 1 .. Len(s2c) : s2c'[i] = s2c[i]
<1> DEFINE L == Len(s2c)
           p == out[1]
<1>1. /\ out # <<>> /\ L \in Nat /\ due.size \in Nat /\ saved \in Nat
      /\ Rest \in Nat /\ Rest < Block /\ Block \in Nat \ {0}
  BY LengthIsNat, Constants, Division DEF Base, TypeOK, Rest
<1>2. /\ saved + (L - h) + (Times(Len(out) - 1) + Rest) = due.size /\ due.answer = "tar"
      /\ c2s = <<>> /\ TarSends(0) /\ Rest # 0
  BY <1>1 DEF TarPhase
<1>3. PICK k \in Nat : L = h + Times(k)
  <2>1. PICK k \in Nat : L = h + Times(k) + 0
    BY <1>1 DEF TarPhase
  <2>2. Times(k) \in Nat
    BY TimesNext
  <2> QED BY <1>1, <2>1, <2>2
<1>4. /\ Len(out) \in Nat \ {0} /\ Len(out') = Len(out) - 1
      /\ (\A i \in 1 .. Len(out) - 1 : out'[i] = out[i + 1])
      /\ (out' = <<>> <=> Len(out) = 1)
      /\ due'.answer = "tar" /\ due'.size = due.size
      /\ server' = (IF out' = <<>> THEN "read" ELSE "send")
      /\ Len(p) \in Nat /\ Len(s2c') = L + Len(p)
      /\ \A i \in 1 .. L + Len(p) : s2c'[i] = IF i <= L THEN s2c[i] ELSE p[i - L]
  BY <1>1, <1>2, SendIs DEF Base
<1>5. UNCHANGED <<c2s, saved>> /\ Rest' = Rest
  BY <1>4 DEF Send, Rest
<1>6. Len(p) = IF Len(out) = 1 THEN Rest ELSE Block
  BY <1>2, <1>4 DEF TarSends
<1> HIDE DEF L, p
<1>7. TarSends(0)'
  <2> SUFFICES ASSUME NEW i \in 1 .. Len(out')
               PROVE  Len(out'[i]) = IF i = Len(out') THEN Rest ELSE Block
    BY <1>5 DEF TarSends
  <2>1. /\ i + 1 \in 1 .. Len(out) /\ out'[i] = out[i + 1]
        /\ i + 1 = Len(out) <=> i = Len(out')
    BY <1>4
  <2> QED BY <1>2, <2>1 DEF TarSends
<1>8. \A i \in 1 .. L : s2c'[i] = s2c[i]
  BY <1>1, <1>4
<1>9. CASE Len(out) = 1
  <2>1. out' = <<>> /\ Len(s2c') = L + Rest
    BY <1>4, <1>6, <1>9
  <2>2. Len(s2c') = h + Times(k) + Rest
    BY <1>3, <2>1
  <2>3. saved + (Len(s2c') - h) + 0 = due.size
    BY <1>1, <1>2, <1>9, <2>1, TimesNext
  <2>4. TarPhase(h)'
    BY <1>2, <1>4, <1>5, <1>7, <2>1, <2>2, <2>3 DEF TarPhase
  <2> QED BY <1>1, <1>8, <2>1, <2>4 DEF L
<1>10. CASE Len(out) # 1
  <2>1. out' # <<>> /\ Len(s2c') = L + Block /\ Len(out) - 1 \in Nat \ {0}
    BY <1>4, <1>6, <1>10
  <2>2. Len(s2c') = h + Times(k + 1) + 0
    <3>1. Times(k + 1) = Times(k) + Block /\ Times(k) \in Nat
      BY TimesNext
    <3> QED BY <1>1, <1>3, <2>1, <3>1
  <2>3. Times(Len(out) - 1) = Times(Len(out') - 1) + Block /\ Times(Len(out') - 1) \in Nat
    <3>1. Len(out') - 1 = (Len(out) - 1) - 1 /\ Len(out') - 1 \in Nat
      BY <1>4, <2>1
    <3> QED BY <2>1, <3>1, TimesNext
  <2>4. saved + (Len(s2c') - h) + (Times(Len(out') - 1) + Rest) = due.size
    BY <1>1, <1>2, <2>1, <2>3
  <2>5. k + 1 \in Nat
    OBVIOUS
  <2>6. TarPhase(h)'
    BY <1>2, <1>4, <1>5, <1>7, <2>1, <2>2, <2>4, <2>5 DEF TarPhase
  <2> QED BY <1>1, <1>8, <2>1, <2>6 DEF L
<1> QED BY <1>9, <1>10

\* A send of a reply.
LEMMA SendExchange ==
    ASSUME Base, Exchange, cause = "none", Send
    PROVE  Exchange'
<1>1. server = "send" /\ out # <<>> /\ UNCHANGED <<client, c2s, shown, saved>>
  BY DEF Send, Base
<1>2. CASE client = "ended"
  BY <1>1, <1>2 DEF Exchange
<1>3. CASE /\ client # "ended" /\ Untagged(TXT) /\ TextSends(1)
           /\ due = [answer |-> "text", size |-> 0]
  <2>1. /\ Len(out) > 1 /\ Len(out) \in Nat /\ Len(out') = Len(out) - 1
        /\ (\A i \in 1 .. Len(out) - 1 : out'[i] = out[i + 1])
        /\ out' # <<>> /\ server' = "send"
        /\ Len(s2c') = 3 /\ (\A i \in 1 .. 3 : s2c'[i] = TXT[i])
        /\ due'.answer = "text" /\ due'.size = 0
    <3>1. out[1] = TXT /\ Len(TXT) = 3 /\ TextIn(TXT) = 0 /\ Len(s2c) = 0 /\ Len(out) > 1
      BY <1>3, Words DEF Untagged, TextIn
    <3> QED BY <1>1, <1>3, <3>1, SendIs DEF Base
  <2>2. TextSends(0)'
    <3> SUFFICES ASSUME NEW i \in 1 .. Len(out')
                 PROVE  IF i = Len(out') THEN out'[i] = LAST_MSG_END ELSE out'[i] \in Seq({"t"})
      BY DEF TextSends
    <3>1. /\ i + 1 \in 2 .. Len(out) /\ out'[i] = out[i + 1]
          /\ i + 1 = Len(out) <=> i = Len(out')
      BY <2>1
    <3> QED BY <1>3, <3>1 DEF TextSends
  <2>3. Tagged(TXT)'
    BY <1>1, <1>3, <2>1 DEF Tagged, Untagged
  <2>4. TextPhase(3)'
    <3>1. Trailer' = 0
      BY <2>1 DEF Trailer
    <3> QED BY <1>1, <1>3, <2>1, <2>2, <3>1 DEF TextPhase, Untagged, EndsWith
  <2> QED BY <2>3, <2>4 DEF Exchange
<1>4. CASE /\ client # "ended" /\ Untagged(TAR) /\ TarSends(1)
           /\ due.answer = "tar" /\ Rest # 0 /\ due.size = Times(Len(out) - 2) + Rest
  <2>1. /\ Len(out) > 1 /\ Len(out) \in Nat /\ Len(out') = Len(out) - 1
        /\ (\A i \in 1 .. Len(out) - 1 : out'[i] = out[i + 1])
        /\ out' # <<>> /\ server' = "send"
        /\ Len(s2c') = 3 /\ (\A i \in 1 .. 3 : s2c'[i] = TAR[i])
        /\ due'.answer = "tar" /\ due'.size = due.size
    <3>1. out[1] = TAR /\ Len(TAR) = 3 /\ Len(s2c) = 0 /\ Len(out) > 1 /\ due.size \in Nat
      BY <1>4, Words DEF Untagged, Base, TypeOK
    <3> QED BY <1>1, <1>4, <3>1, SendIs DEF Base
  <2>2. Rest' = Rest /\ Rest \in Nat
    BY <2>1, Constants, Division DEF Rest, Base, TypeOK
  <2>3. TarSends(0)'
    <3> SUFFICES ASSUME NEW i \in 1 .. Len(out')
                 PROVE  Len(out'[i]) = IF i = Len(out') THEN Rest ELSE Block
      BY <2>2 DEF TarSends
    <3>1. /\ i + 1 \in 2 .. Len(out) /\ out'[i] = out[i + 1]
          /\ i + 1 = Len(out) <=> i = Len(out')
      BY <2>1
    <3> QED BY <1>4, <3>1 DEF TarSends
  <2>4. Tagged(TAR)'
    BY <1>1, <1>4, <2>1 DEF Tagged, Untagged
  <2>5. TarPhase(3)'
    <3>1. Len(s2c') = 3 + Times(0) + 0
      BY <2>1, TimesNext
    <3>2. saved' + (Len(s2c') - 3) + (Times(Len(out') - 1) + Rest') = due'.size
      <4>1. Len(out') - 1 = Len(out) - 2 /\ Times(Len(out) - 2) \in Nat /\ saved' = 0
        BY <1>1, <1>4, <2>1, TimesNext DEF Untagged
      <4> QED BY <1>4, <2>1, <2>2, <4>1
    <3> QED BY <1>1, <1>4, <2>1, <2>2, <2>3, <3>1, <3>2 DEF TarPhase, Untagged
  <2> QED BY <2>4, <2>5 DEF Exchange
<1>5. CASE client # "ended" /\ Tagged(TXT) /\ TextPhase(3)
  <2>1. TextPhase(3)' /\ Len(s2c') >= Len(s2c) /\ \A i \in 1 .. Len(s2c) : s2c'[i] = s2c[i]
    BY <1>1, <1>5, SendText
  <2>2. Tagged(TXT)'
    <3>1. Len(s2c') \in Nat
      BY <1>1, LengthIsNat, SendIs, LenProperties DEF Base
    <3> QED BY <1>1, <1>5, <2>1, <3>1, LengthIsNat DEF Tagged
  <2> QED BY <2>1, <2>2 DEF Exchange
<1>6. CASE client # "ended" /\ Tagged(TAR) /\ TarPhase(3)
  <2>1. TarPhase(3)' /\ Len(s2c') >= Len(s2c) /\ \A i \in 1 .. Len(s2c) : s2c'[i] = s2c[i]
    BY <1>1, <1>6, SendBlock
  <2>2. Tagged(TAR)'
    <3>1. Len(s2c') \in Nat
      BY <1>1, LengthIsNat, SendIs, LenProperties DEF Base
    <3> QED BY <1>1, <1>6, <2>1, <3>1, LengthIsNat DEF Tagged
  <2> QED BY <2>1, <2>2 DEF Exchange
<1>7. CASE client = "text" /\ TextPhase(0)
  BY <1>1, <1>7, SendText DEF Exchange
<1>8. CASE client = "file" /\ TarPhase(0)
  BY <1>1, <1>8, SendBlock DEF Exchange
<1> QED BY <1>1, <1>2, <1>3, <1>4, <1>5, <1>6, <1>7, <1>8 DEF Exchange, Idle, Asked

\* The tag of a reply is read.
LEMMA ReplyExchange ==
    ASSUME Base, Exchange, cause' = "none", ReadReply
    PROVE  Exchange'
<1>1. /\ client = "reply" /\ s2c # <<>>
      /\ UNCHANGED <<server, out, c2s, shown, saved, due>>
  BY DEF ReadReply
<1>2. PICK n \in Reads(3) :
        /\ Take(n)
        /\ \/ /\ client' = Expects(Received(n))
              /\ IF IsShort(n, 3) THEN Blame("short") ELSE UNCHANGED cause
           \/ Blame("unsaved")
  BY DEF ReadReply
<1>3. ~IsShort(n, 3) /\ client' = Expects(Received(n))
  BY <1>2, BlameIs, Causes DEF Base, TypeOK
<1>4. \E tag \in {TXT, TAR} : Tagged(tag)
  BY <1>1 DEF Exchange, Idle, Asked, Untagged
<1>5. n = 3 /\ Len(s2c) \in Nat /\ Len(s2c) >= 3
  <2>1. n = Min2(3, Len(s2c))
    BY <1>1, <1>2, <1>3, ReadIs DEF Base
  <2>2. Len(s2c) \in Nat /\ Len(s2c) >= 3
    BY <1>4, LengthIsNat DEF Tagged
  <2>3. \A m, l \in Nat : l >= m => Min2(m, l) = m
    BY DEF Min2
  <2>4. 3 \in Nat /\ Min2(3, Len(s2c)) = 3
    BY <2>2, <2>3
  <2> QED BY <2>1, <2>2, <2>4
<1>6. /\ Received(n) \in Seq(Byte \cup {"g"}) /\ Len(Received(n)) = 3
      /\ \A i \in 1 .. 3 : Received(n)[i] = s2c[i]
      /\ Len(s2c') = Len(s2c) - 3
      /\ \A i \in 1 .. Len(s2c) - 3 : s2c'[i] = s2c[3 + i]
  <2>1. /\ Received(n) \in Seq(Byte \cup {"g"}) /\ Len(Received(n)) = n
        /\ \A i \in 1 .. n : Received(n)[i] = s2c[i]
        /\ Len(s2c') = Len(s2c) - n
        /\ \A i \in 1 .. Len(s2c) - n : s2c'[i] = s2c[n + i]
    BY <1>1, <1>2, ReadIs DEF Base
  <2> QED BY <1>5, <2>1
<1>7. ASSUME NEW tag \in {TXT, TAR}, Tagged(tag) PROVE Received(n) = tag
  <2>1. tag \in Seq(Byte \cup {"g"}) /\ Len(tag) = 3
    BY Words, SeqMonotonic
  <2>2. \A i \in 1 .. 3 : Received(n)[i] = tag[i]
    BY <1>5, <1>6, <1>7 DEF Tagged
  <2> QED BY <1>6, <2>1, <2>2, SeqEqual
<1>8. CASE Tagged(TXT) /\ TextPhase(3)
  <2>1. client' = "text"
    <3>1. Received(n) = TXT /\ TXT # TAR
      BY <1>7, <1>8, Words
    <3> QED BY <1>3, <3>1 DEF Expects
  <2>2. TextPhase(0)'
    <3>1. Trailer' = Trailer /\ Trailer \in {0, 4}
      BY <1>1 DEF Trailer
    <3>2. TextSends(0)'
      BY <1>1, <1>8 DEF TextPhase, TextSends
    <3>3. /\ Len(s2c') >= 0 + Trailer'
          /\ \A i \in 0 + 1 .. Len(s2c') - Trailer' : s2c'[i] = "t"
      <4>1. Len(s2c) >= 3 + Trailer /\ \A i \in 4 .. Len(s2c) - Trailer : s2c[i] = "t"
        BY <1>8 DEF TextPhase
      <4>2. \A i \in 1 .. Len(s2c') - Trailer :
               3 + i \in 4 .. Len(s2c) - Trailer /\ i \in 1 .. Len(s2c) - 3
        BY <1>5, <1>6, <3>1, <4>1
      <4> QED BY <1>5, <1>6, <3>1, <4>1, <4>2
    <3>4. EndsWith(s2c, Trailer)'
      <4>1. Len(s2c) >= 3 + Trailer
            /\ \A i \in 1 .. Trailer : s2c[Len(s2c) - Trailer + i] = LAST_MSG_END[i]
        BY <1>8 DEF TextPhase, EndsWith
      <4>2. ASSUME NEW i \in 1 .. Trailer
            PROVE  s2c'[Len(s2c') - Trailer + i] = LAST_MSG_END[i]
        <5>1. /\ Len(s2c') - Trailer + i \in 1 .. Len(s2c) - 3
              /\ 3 + (Len(s2c') - Trailer + i) = Len(s2c) - Trailer + i
          BY <1>5, <1>6, <3>1, <4>1
        <5> QED BY <1>6, <4>1, <5>1
      <4> QED BY <1>5, <1>6, <3>1, <4>1, <4>2 DEF EndsWith
    <3>5. shown' + (Len(s2c') - 0 - Trailer') = due'.size
      BY <1>1, <1>5, <1>6, <1>8, <3>1 DEF TextPhase
    <3> QED BY <1>1, <1>8, <3>2, <3>3, <3>4, <3>5 DEF TextPhase
  <2> QED BY <2>1, <2>2 DEF Exchange
<1>9. CASE Tagged(TAR) /\ TarPhase(3)
  <2>1. client' = "file"
    <3>1. Received(n) = TAR /\ TXT # TAR
      BY <1>7, <1>9, Words
    <3> QED BY <1>3, <3>1 DEF Expects
  <2>2. TarPhase(0)'
    <3>1. Rest' = Rest /\ Rest \in Nat /\ TarSends(0)'
      BY <1>1, <1>9, Constants, Division DEF Rest, TarPhase, TarSends, Base, TypeOK
    <3>2. PICK k \in Nat : Len(s2c) = 3 + Times(k) + (IF out = <<>> THEN Rest ELSE 0)
      BY <1>9 DEF TarPhase
    <3>3. Len(s2c') = 0 + Times(k) + (IF out' = <<>> THEN Rest' ELSE 0)
      <4>1. Times(k) \in Nat /\ out' = out
        BY <1>1, TimesNext
      <4>2. CASE out = <<>>
        BY <1>5, <1>6, <3>1, <3>2, <4>1, <4>2
      <4>3. CASE out # <<>>
        BY <1>5, <1>6, <3>1, <3>2, <4>1, <4>3
      <4> QED BY <4>2, <4>3
    <3>4. saved' + (Len(s2c') - 0) + (IF out' = <<>> THEN 0 ELSE Times(Len(out') - 1) + Rest')
            = due'.size
      BY <1>1, <1>5, <1>6, <1>9, <3>1 DEF TarPhase
    <3> QED BY <1>1, <1>9, <3>1, <3>3, <3>4 DEF TarPhase
  <2> QED BY <2>1, <2>2 DEF Exchange
<1> QED BY <1>1, <1>4, <1>8, <1>9, Words DEF Exchange, Idle, Asked, Untagged

\* A block of the archive is read: it is not full when and only when it is the last.
LEMMA FileExchange ==
    ASSUME Base, Exchange, cause' = "none", ReadFile
    PROVE  Exchange'
<1>1. /\ client = "file" /\ s2c # <<>>
      /\ UNCHANGED <<server, out, c2s, shown, due>>
  BY DEF ReadFile
<1>2. PICK n \in Reads(Block) :
        /\ Take(n)
        /\ client' = IF n < Block THEN "prompt" ELSE "file"
        /\ \/ /\ saved' = saved + n
              /\ IF IsShort(n, Block) THEN Blame("short") ELSE UNCHANGED cause
           \/ Blame("unsaved")
  BY DEF ReadFile
<1>3. ~IsShort(n, Block) /\ saved' = saved + n
  BY <1>2, BlameIs, Causes DEF Base, TypeOK
<1>31. Take(n) /\ saved' = saved + n /\ client' = IF n < Block THEN "prompt" ELSE "file"
  BY <1>2, <1>3
<1>4. TarPhase(0)
  BY <1>1 DEF Exchange, Idle, Asked, Untagged, Tagged
<1>5. /\ Rest' = Rest /\ Rest \in Nat /\ Rest # 0 /\ Rest < Block /\ Block \in Nat \ {0}
      /\ TarSends(0)' /\ saved \in Nat /\ due.size \in Nat
  BY <1>1, <1>4, Constants, Division DEF Rest, TarPhase, TarSends, Base, TypeOK
<1>6. PICK k \in Nat : Len(s2c) = 0 + Times(k) + (IF out = <<>> THEN Rest ELSE 0)
  BY <1>4 DEF TarPhase
<1>7. /\ n = Min2(Block, Len(s2c)) /\ n \in 1 .. Len(s2c)
      /\ Len(s2c') = Len(s2c) - n /\ Len(s2c) \in Nat
      /\ s2c' \in Seq(Byte \cup {"g"})
  BY <1>1, <1>31, <1>3, <1>5, ReadIs, LengthIsNat DEF Base
<1>8. CASE k # 0
  <2>1. Times(k) >= Block /\ Times(k) = Times(k - 1) + Block /\ Times(k) \in Nat /\ k - 1 \in Nat
        /\ Times(k - 1) \in Nat
    BY <1>8, TimesNext
  <2>2. n = Block
    <3>1. Len(s2c) >= Block
      BY <1>5, <1>6, <2>1
    <3> QED BY <1>5, <1>7, <3>1 DEF Min2
  <2>3. Len(s2c') = 0 + Times(k - 1) + (IF out' = <<>> THEN Rest' ELSE 0)
    BY <1>1, <1>5, <1>6, <1>7, <2>1, <2>2
  <2>4. saved' + (Len(s2c') - 0) + (IF out' = <<>> THEN 0 ELSE Times(Len(out') - 1) + Rest')
          = due'.size
    <3> DEFINE left == IF out = <<>> THEN 0 ELSE Times(Len(out) - 1) + Rest
    <3>1. saved + (Len(s2c) - 0) + left = due.size /\ left \in Nat
      <4>1. ASSUME out # <<>> PROVE Times(Len(out) - 1) \in Nat
        <5>1. Len(out) - 1 \in Nat
          BY <4>1, EmptySeq DEF Base, TypeOK
        <5> HIDE DEF Base
        <5> QED BY <5>1, TimesNext
      <4>2. left \in Nat
        <5>1. CASE out = <<>>
          BY <5>1
        <5>2. CASE out # <<>>
          BY <1>5, <4>1, <5>2
        <5> QED BY <5>1, <5>2
      <4> QED BY <1>4, <4>2 DEF TarPhase
    <3> HIDE DEF left
    <3>2. saved' + (Len(s2c') - 0) + left = due'.size
      BY <1>1, <1>31, <1>5, <1>7, <2>2, <3>1
    <3> QED BY <1>1, <1>5, <3>2 DEF left
  <2>5. TarPhase(0)'
    BY <1>1, <1>4, <1>5, <2>1, <2>3, <2>4 DEF TarPhase
  <2>6. client' = "file"
    BY <1>31, <1>5, <2>2
  <2> QED BY <2>5, <2>6 DEF Exchange
<1>9. CASE k = 0
  <2>1. out = <<>> /\ Len(s2c) = Rest
    <3>1. Times(k) = 0
      BY <1>9, TimesNext
    <3> QED BY <1>5, <1>6, <1>7, <3>1
  <2>2. n = Rest /\ Len(s2c') = 0
    BY <1>5, <1>7, <2>1 DEF Min2
  <2>3. s2c' = <<>> /\ client' = "prompt"
    BY <1>31, <1>5, <1>7, <2>2, EmptySeq
  <2>4. saved' = due.size
    BY <1>31, <1>4, <1>5, <2>1, <2>2 DEF TarPhase
  <2> QED BY <1>1, <1>4, <2>1, <2>3, <2>4 DEF Exchange, Idle, TarPhase
<1> QED BY <1>8, <1>9

\* A chunk of a text is read: the trailer is at its end when and only when the text is read
\* whole, or else it is cut, and that is a cause.
LEMMA TextExchange ==
    ASSUME Base, Exchange, cause' = "none", ReadText
    PROVE  Exchange'
<1> DEFINE L == Len(s2c)
<1>1. /\ client = "text" /\ s2c # <<>>
      /\ UNCHANGED <<server, out, c2s, saved, due>>
  BY DEF ReadText
<1>2. PICK n \in Reads(TextBuf) :
        /\ Take(n)
        /\ \/ /\ EndsText(Received(n)) \/ MayEndText(Received(n))
              /\ shown' = shown + Printed(n)
              /\ client' = "prompt"
              /\ IF n = 4 + 1 THEN Blame("five") ELSE UNCHANGED cause
           \/ /\ ~EndsText(Received(n))
              /\ shown' = shown + n
              /\ UNCHANGED client
              /\ IF EndsInside(Received(n)) THEN Blame("split") ELSE UNCHANGED cause
  BY DEF ReadText
<1>3. \A event \in {"five", "split"} : ~Blame(event)
  BY BlameIs, Causes DEF Base, TypeOK
<1>4. TextPhase(0)
  BY <1>1 DEF Exchange, Idle, Asked, Untagged, Tagged
<1>5. /\ n \in 1 .. L /\ L \in Nat
      /\ Received(n) \in Seq(Byte \cup {"g"}) /\ Len(Received(n)) = n
      /\ \A i \in 1 .. n : Received(n)[i] = s2c[i]
      /\ s2c' \in Seq(Byte \cup {"g"}) /\ Len(s2c') = L - n
      /\ \A i \in 1 .. L - n : s2c'[i] = s2c[n + i]
  BY <1>1, <1>2, ReadIs, LengthIsNat, Constants DEF Base
<1>6. /\ Trailer \in {0, 4} /\ (Trailer = 4 <=> out = <<>>) /\ Trailer' = Trailer
      /\ L >= Trailer /\ shown \in Nat /\ shown + (L - Trailer) = due.size
      /\ \A i \in 1 .. L - Trailer : s2c[i] = "t"
      /\ \A i \in 1 .. Trailer : s2c[L - Trailer + i] = LAST_MSG_END[i]
  <2>1. Trailer \in {0, 4} /\ (Trailer = 4 <=> out = <<>>) /\ Trailer' = Trailer
    BY <1>1 DEF Trailer
  <2>2. /\ L >= Trailer
        /\ \A i \in 1 .. L - Trailer : s2c[i] = "t"
        /\ \A i \in 1 .. Trailer : s2c[L - Trailer + i] = LAST_MSG_END[i]
    BY <1>4, <2>1 DEF TextPhase, EndsWith
  <2>3. shown \in Nat /\ shown + (L - Trailer) = due.size
    BY <1>4, <1>5, <2>1 DEF TextPhase, Base, TypeOK
  <2> QED BY <2>1, <2>2, <2>3
<1> HIDE DEF L
\* The chunk ends with as many bytes of the trailer as it has of it.
<1>7. ASSUME Trailer = 4, n > L - 4
      PROVE  LET j == n - (L - 4)
             IN  j \in 1 .. 4 /\ IsSuffix(SubSeq(LAST_MSG_END, 1, j), Received(n))
  <2> DEFINE j == n - (L - 4)
             w == SubSeq(LAST_MSG_END, 1, j)
  <2>1. j \in 1 .. 4 /\ n - j = L - 4 /\ j <= n
    BY <1>5, <1>6, <1>7
  <2> HIDE DEF j
  <2>2. /\ w \in Seq(Byte \cup {"g"}) /\ Len(w) = j
        /\ \A i \in 1 .. j : w[i] = LAST_MSG_END[i]
    <3>1. LAST_MSG_END \in Seq(Byte \cup {"g"}) /\ Len(LAST_MSG_END) = 4
      BY Words, SeqMonotonic
    <3>2. \A i \in 1 .. j : LAST_MSG_END[i] \in Byte \cup {"g"}
      <4>1. \A i \in 1 .. j : i \in 1 .. 4
        BY <2>1
      <4>2. \A i \in 1 .. 4 : LAST_MSG_END[i] \in Byte \cup {"g"}
        BY <3>1, ElementOfSeq
      <4> QED BY <4>1, <4>2
    <3> QED BY <2>1, <3>1, <3>2, SubSeqProperties
  <2> HIDE DEF w
  <2>3. ASSUME NEW i \in 1 .. j PROVE Received(n)[n - j + i] = w[i]
    <3>1. n - j + i = L - 4 + i /\ n - j + i \in 1 .. n /\ i \in 1 .. 4
      BY <1>5, <1>6, <1>7, <2>1
    <3>2. Received(n)[n - j + i] = s2c[n - j + i]
      BY <1>5, <3>1
    <3>3. s2c[L - 4 + i] = LAST_MSG_END[i]
      BY <1>6, <1>7, <3>1
    <3>4. w[i] = LAST_MSG_END[i]
      BY <2>2
    <3> QED BY <3>1, <3>2, <3>3, <3>4
  <2>4. IsSuffix(w, Received(n))
    BY <1>5, <2>1, <2>2, <2>3, Suffix
  <2> QED BY <2>1, <2>4 DEF j, w
<1>8. CASE EndsText(Received(n))
  <2>1. n >= 4 /\ s2c[n] = "!"
    <3>1. LAST_MSG_END \in Seq(Byte \cup {"g"}) /\ Len(LAST_MSG_END) = 4
      BY Words, SeqMonotonic
    <3>2. 4 <= n /\ \A i \in 1 .. 4 : Received(n)[n - 4 + i] = LAST_MSG_END[i]
      <4>1. /\ Len(LAST_MSG_END) <= Len(Received(n))
            /\ \A i \in 1 .. Len(LAST_MSG_END) :
                  Received(n)[Len(Received(n)) - Len(LAST_MSG_END) + i] = LAST_MSG_END[i]
        <5>1. IsSuffix(LAST_MSG_END, Received(n))
          BY <1>8 DEF EndsText
        <5>2. Received(n) \in Seq(Byte \cup {"g"})
          BY <1>5
        <5> QED BY <3>1, <5>1, <5>2, Suffix
      <4> QED BY <1>5, <3>1, <4>1
    <3>3. n - 4 + 4 = n /\ n \in 1 .. n /\ 4 \in 1 .. 4
      BY <1>5
    <3> QED BY <1>5, <3>2, <3>3, Words
  <2>2. Trailer = 4 /\ n > L - 4
    BY <1>5, <1>6, <2>1
  <2>3. n = L
    <3> DEFINE j == n - (L - 4)
    <3>1. j \in 1 .. 4 /\ L - 4 + j = n
      BY <1>5, <2>2
    <3> HIDE DEF j
    <3>2. LAST_MSG_END[j] = "!"
      BY <1>6, <2>1, <2>2, <3>1
    <3>3. j = 4
      BY <3>1, <3>2, Words
    <3> QED BY <1>5, <3>1, <3>3
  <2>4. /\ shown' = shown + Printed(n) /\ client' = "prompt" /\ n # 5
    BY <1>2, <1>3, <1>8
  <2>5. s2c' = <<>>
    BY <1>5, <2>3, EmptySeq
  <2>6. shown' = due.size
    BY <1>5, <1>6, <2>1, <2>2, <2>3, <2>4 DEF Printed
  <2> QED BY <1>1, <1>4, <1>6, <2>2, <2>4, <2>5, <2>6 DEF Exchange, Idle, TextPhase
\* What memory holds in front of the buffer is not asked for: no chunk is a part of the
\* trailer alone.
<1>9. ~MayEndText(Received(n))
  <2> SUFFICES ASSUME MayEndText(Received(n)) PROVE FALSE
    OBVIOUS
  <2>1. /\ LAST_MSG_END \in Seq(Byte \cup {"g"}) /\ Len(LAST_MSG_END) = 4
    BY Words, SeqMonotonic
  <2>2. n < 4 /\ \A i \in 1 .. n : LAST_MSG_END[4 - n + i] = Received(n)[i]
    <3>1. IsSuffix(Received(n), LAST_MSG_END) /\ Len(Received(n)) < 4
      BY DEF MayEndText
    <3>2. Received(n) \in Seq(Byte \cup {"g"})
      BY <1>5
    <3>3. \A i \in 1 .. Len(Received(n)) :
            LAST_MSG_END[Len(LAST_MSG_END) - Len(Received(n)) + i] = Received(n)[i]
      BY <2>1, <3>1, <3>2, Suffix
    <3> QED BY <1>5, <2>1, <3>1, <3>3
  <2>3. s2c[n] = "!"
    <3>1. n \in 1 .. n /\ 4 - n + n = 4
      BY <1>5
    <3>2. LAST_MSG_END[4] = Received(n)[n]
      BY <2>2, <3>1
    <3> QED BY <1>5, <3>1, <3>2, Words
  <2>4. Trailer = 4 /\ n > L - 4
    BY <1>5, <1>6, <2>3
  <2> DEFINE j == n - (L - 4)
  <2>5. j \in 1 .. 4 /\ L - 4 + j = n
    BY <1>5, <2>4
  <2> HIDE DEF j
  <2>6. LAST_MSG_END[j] = "!"
    BY <1>6, <2>3, <2>4, <2>5
  <2>7. j = 4
    BY <2>5, <2>6, Words
  <2> QED BY <1>5, <1>6, <2>2, <2>4, <2>5, <2>7
<1>10. CASE ~EndsText(Received(n))
  <2>1. shown' = shown + n /\ client' = "text" /\ ~EndsInside(Received(n))
    BY <1>1, <1>2, <1>3, <1>10, <1>9
  <2>2. n <= L - Trailer
    <3>1. ASSUME Trailer = 4, n > L - 4 PROVE FALSE
      <4> DEFINE j == n - (L - 4)
      <4>1. j \in 1 .. 4 /\ IsSuffix(SubSeq(LAST_MSG_END, 1, j), Received(n))
        BY <1>7, <3>1
      <4> HIDE DEF j
      <4>2. j # 4
        <5>1. SubSeq(LAST_MSG_END, 1, 4) = LAST_MSG_END
          <6>1. LAST_MSG_END \in Seq(Byte) /\ Len(LAST_MSG_END) = 4
            BY Words
          <6>2. \A i \in 1 .. 4 : LAST_MSG_END[i] \in Byte
            BY <6>1, LenProperties
          <6>3. /\ SubSeq(LAST_MSG_END, 1, 4) \in Seq(Byte)
                /\ Len(SubSeq(LAST_MSG_END, 1, 4)) = 4
                /\ \A i \in 1 .. 4 : SubSeq(LAST_MSG_END, 1, 4)[i] = LAST_MSG_END[i]
            BY <6>1, <6>2, SubSeqProperties
          <6> QED BY <6>1, <6>3, SeqEqual
        <5> QED BY <1>10, <4>1, <5>1 DEF EndsText
      <4> QED BY <2>1, <4>1, <4>2 DEF EndsInside
    <3> QED BY <1>5, <1>6, <3>1
  <2>3. TextPhase(0)'
    <3>1. TextSends(0)'
      BY <1>1, <1>4 DEF TextPhase, TextSends
    <3>2. /\ Len(s2c') >= 0 + Trailer'
          /\ \A i \in 0 + 1 .. Len(s2c') - Trailer' : s2c'[i] = "t"
      <4>1. \A i \in 0 + 1 .. L - n - Trailer : n + i \in 1 .. L - Trailer /\ i \in 1 .. L - n
        BY <1>5, <1>6, <2>2
      <4> QED BY <1>5, <1>6, <2>2, <4>1
    <3>3. EndsWith(s2c, Trailer)'
      <4>1. ASSUME NEW i \in 1 .. Trailer PROVE s2c'[L - n - Trailer + i] = LAST_MSG_END[i]
        <5>1. L - n - Trailer + i \in 1 .. L - n /\ n + (L - n - Trailer + i) = L - Trailer + i
          BY <1>5, <1>6, <2>2
        <5> QED BY <1>5, <1>6, <5>1
      <4> QED BY <1>5, <1>6, <2>2, <4>1 DEF EndsWith
    <3>4. shown' + (Len(s2c') - 0 - Trailer') = due'.size
      BY <1>1, <1>5, <1>6, <2>1
    <3> QED BY <1>1, <1>4, <3>1, <3>2, <3>3, <3>4 DEF TextPhase
  <2> QED BY <2>1, <2>3 DEF Exchange
<1> QED BY <1>8, <1>10

-----------------------------------------------------------------------------
(***************************************************************************)
(* The invariant, and what it says.                                        *)
(***************************************************************************)
LEMMA InvInit == Init => Inv
<1> SUFFICES ASSUME Init PROVE Inv
  OBVIOUS
<1>1. ASSUME cause = "none" PROVE Idle
  BY <1>1 DEF Init, Idle
<1> QED BY <1>1, BaseInit DEF Inv, Exchange

\* A cause is never taken back.
LEMMA CauseStays == ASSUME Base, Next, cause' = "none" PROVE cause = "none"
<1>1. cause \in Cause
  BY DEF Base, TypeOK
<1>2. ASSUME NEW event, Blame(event) PROVE cause = "none"
  BY <1>2 DEF Blame
<1>3. CASE UNCHANGED cause
  BY <1>3
<1>4. CASE ReadRequest
  BY <1>2, <1>4 DEF ReadRequest, Handle, AnswerText, AnswerTar, AnswerError, AnswerSilence, Dies
<1>5. CASE ReadReply \/ ReadText \/ ReadFile \/ HeapFault
  BY <1>2, <1>3, <1>5 DEF ReadReply, ReadText, ReadFile, HeapFault
<1>6. CASE \/ \E r \in Request : Command(r)
           \/ Leave \/ ReadEnd \/ Send \/ ReadNothing
  BY <1>6 DEF Command, Leave, ReadEnd, Send, ReadNothing
<1> QED BY <1>4, <1>5, <1>6 DEF Next, ClientReads, Child

LEMMA InvNext == Inv /\ [Next]_vars => Inv'
<1> SUFFICES ASSUME Inv, [Next]_vars PROVE Inv'
  OBVIOUS
<1>1. Base'
  BY BaseNext DEF Inv
<1>2. ASSUME cause' = "none" PROVE Exchange'
  <2>1. CASE UNCHANGED vars
    <3>1. cause = "none" /\ Exchange
      BY <1>2, <2>1 DEF vars, Inv
    <3> QED BY <2>1, <3>1 DEF vars, Exchange, Idle, Asked, Untagged, Tagged, TextPhase, TarPhase,
                              TextSends, TarSends, EndsWith, Trailer, Rest
  <2>2. CASE Next
    <3>1. Base /\ Exchange /\ cause = "none"
      BY <1>2, <2>2, CauseStays DEF Inv
    <3>2. CASE \E r \in Request : Command(r)
      BY <1>2, <3>1, <3>2, CommandExchange
    <3>3. CASE Leave
      BY <3>3 DEF Leave, Exchange
    <3>4. CASE ReadReply
      BY <1>2, <3>1, <3>4, ReplyExchange
    <3>5. CASE ReadText
      BY <1>2, <3>1, <3>5, TextExchange
    <3>6. CASE ReadFile
      BY <1>2, <3>1, <3>6, FileExchange
    <3>7. CASE ReadEnd
      <4>1. server # "gone"
        BY <3>1, <3>7 DEF ReadEnd, Exchange, Idle, Asked, Untagged, Tagged, TextPhase, TarPhase
      <4> QED BY <3>7, <4>1 DEF ReadEnd
    <3>8. CASE ReadRequest
      BY <1>2, <3>1, <3>8, RequestExchange
    <3>9. CASE Send
      BY <1>2, <3>1, <3>9, SendExchange
    <3>10. CASE ReadNothing
      BY <3>10 DEF ReadNothing, Exchange
    <3>11. CASE HeapFault
      <4>1. cause' # "none"
        BY <3>1, <3>11, BlameIs, Causes DEF HeapFault, Base, TypeOK
      <4> QED BY <1>2, <4>1
    <3> QED BY <2>2, <3>2, <3>3, <3>4, <3>5, <3>6, <3>7, <3>8, <3>9, <3>10, <3>11
            DEF Next, ClientReads, Child
  <2> QED BY <2>1, <2>2
<1> QED BY <1>1, <1>2 DEF Inv

\* In every state of the model the variables have their types.
THEOREM SessionTypes == Spec => []TypeOK
<1>1. Inv => TypeOK
  BY DEF Inv, Base
<1> QED BY <1>1, InvInit, InvNext, PTL DEF Spec

\* Until one of the named causes has happened the client prompts only on a clean connection:
\* its ends of replies - a tag's three bytes, a trailer's four, a block that is not full - are
\* where the child has made them, for all sizes of buffers, lines and archives.
THEOREM PromptIsClean == Spec => []InSync
<1>1. Inv => InSync
  <2> SUFFICES ASSUME Inv, cause = "none", client = "prompt"
               PROVE  s2c = <<>> /\ c2s = <<>> /\ out = <<>> /\ server = "read"
    BY DEF InSync
  <2>1. Idle
    BY DEF Inv, Exchange, Asked, Untagged, Tagged
  <2> QED BY <2>1 DEF Idle
<1> QED BY <1>1, InvInit, InvNext, PTL DEF Spec

\* Until then the child never finds two requests in what one read() takes.
THEOREM RequestsStaySingle == Spec => []OneRequest
<1>1. Inv => OneRequest
  <2> SUFFICES ASSUME Inv, cause = "none", client # "ended"
               PROVE  Len(c2s) <= 1
    BY DEF OneRequest
  <2>1. c2s = <<>> \/ \E r \in Request : c2s = <<r>>
    BY DEF Inv, Exchange, Idle, Asked, Untagged, TextPhase, TarPhase
  <2>2. CASE c2s = <<>>
    BY <2>2
  <2>3. ASSUME NEW r \in Request, c2s = <<r>> PROVE Len(c2s) <= 1
    BY <2>3
  <2> QED BY <2>1, <2>2, <2>3
<1> QED BY <1>1, InvInit, InvNext, PTL DEF Spec

\* The list of causes is complete: both sides wait for each other only after one of them,
\* and never after the child's death alone.
THEOREM HangIsExplained == Spec => []HangHasCause
<1>1. Inv => HangHasCause
  <2> SUFFICES ASSUME Inv, Reading, s2c = <<>>, c2s = <<>>, server = "read"
               PROVE  cause \notin {"none", "gone"}
    BY DEF HangHasCause
  <2>1. cause # "gone"
    BY DEF Inv, Base
  <2>2. ASSUME cause = "none" PROVE FALSE
    <3>1. Len(s2c) = 0
      OBVIOUS
    <3>2. \/ client = "text" /\ TextPhase(0)
          \/ client = "file" /\ TarPhase(0)
      BY <2>2, <3>1 DEF Inv, Exchange, Reading, Idle, Asked, Untagged, Tagged
    <3>3. out = <<>>
      BY <3>2 DEF TextPhase, TarPhase
    <3>4. CASE TextPhase(0)
      BY <3>1, <3>3, <3>4 DEF TextPhase, Trailer
    <3>5. CASE TarPhase(0)
      <4>1. Rest \in Nat /\ Rest # 0
        BY <3>5, Division DEF Rest, TarPhase, Inv, Base, TypeOK
      <4>2. PICK k \in Nat : Len(s2c) = 0 + Times(k) + Rest
        BY <3>3, <3>5 DEF TarPhase
      <4>3. Times(k) \in Nat
        BY TimesNext
      <4> QED BY <3>1, <4>1, <4>2, <4>3
    <3> QED BY <3>2, <3>4, <3>5
  <2> QED BY <2>1, <2>2
<1> QED BY <1>1, InvInit, InvNext, PTL DEF Spec

\* Until then nothing of a reply is lost: the client has printed, or stored, as many bytes as
\* the child has sent, wherever the network has cut them.
THEOREM RepliesStayWhole == Spec => []Intact
<1>1. Inv => Intact
  <2> SUFFICES ASSUME Inv, cause = "none", client = "prompt"
               PROVE  /\ due.answer = "text" => shown = due.size
                      /\ due.answer = "tar" => saved = due.size
    BY DEF Intact
  <2>1. Idle
    BY DEF Inv, Exchange, Asked, Untagged, Tagged
  <2> QED BY <2>1 DEF Idle
<1> QED BY <1>1, InvInit, InvNext, PTL DEF Spec

=============================================================================
