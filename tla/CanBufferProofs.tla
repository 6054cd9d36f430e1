------------------------- MODULE CanBufferProofs -------------------------
(***************************************************************************)
(* Theorems of CanBuffer, for all packets, senders, lengths and buffers,   *)
(* whatever frames are lost.                                               *)
(***************************************************************************)
EXTENDS CanBuffer, SequenceTheorems, WellFoundedInduction, TLAPS

LEMMA LeastExists ==
  ASSUME NEW S, S \subseteq Nat, S # {}
  PROVE  \E b \in S : \A c \in S : b <= c
<1> DEFINE R == {ss \in Nat \X Nat : ss[1] < ss[2]}
<1>1. IsWellFoundedOn(R, Nat) BY NatLessThanWellFounded DEF OpToRel
<1>2. PICK x \in S : \A y \in S : ~ (<<y, x>> \in R) BY <1>1, WFMin
<1>3. ASSUME NEW y \in S PROVE x <= y
  <2>1. ~ (<<y, x>> \in R) BY <1>2
  <2>2. x \in Nat /\ y \in Nat OBVIOUS
  <2> QED BY <2>1, <2>2
<1> QED BY <1>3

LEMMA FirstType ==
  ASSUME NEW S \in SUBSET (1 .. Buffers), S # {}
  PROVE  First(S) \in S /\ \A c \in S : First(S) <= c
<1>1. S \subseteq Nat BY BufferAssumption
<1>2. \E b \in S : \A c \in S : b <= c BY <1>1, LeastExists
<1> QED BY <1>2 DEF First

LEMMA FrameFacts ==
  ASSUME NEW f \in Frames
  PROVE  /\ f.pkt \in Packets /\ f.i \in Nat /\ f.i <= Length[f.pkt]
         /\ Length[f.pkt] \in Nat
         /\ f = [pkt |-> f.pkt, i |-> f.i]
         /\ f # NoFrame
<1>1. PICK p \in Packets : f \in {[pkt |-> p, i |-> i] : i \in 0 .. Length[p]}
  BY DEF Frames
<1>2. Length[p] \in Nat BY BufferAssumption
<1> QED BY <1>1, <1>2, BufferAssumption

LEMMA FrameIntro ==
  ASSUME NEW p \in Packets, NEW i \in 0 .. Length[p]
  PROVE  [pkt |-> p, i |-> i] \in Frames
BY DEF Frames

(***************************************************************************)
(* A sender goes on with the packet that it has begun.                     *)
(***************************************************************************)
JobOK == \A n \in Nodes : job[n] # NoFrame => Sender[job[n].pkt] = n

CanInv == CanTypeOK /\ JobOK

LEMMA NextFrameFacts ==
  ASSUME CanInv, NEW n \in Nodes, NEW f \in NextFrames(n)
  PROVE  /\ f \in Frames /\ Sender[f.pkt] = n
         /\ job[n] \in {NoFrame, f}
<1>1. CASE job[n] # NoFrame
  BY <1>1 DEF NextFrames, CanInv, CanTypeOK, JobOK
<1>2. CASE job[n] = NoFrame
  <2>1. PICK p \in Packets : Sender[p] = n /\ f = [pkt |-> p, i |-> 0]
    BY <1>2 DEF NextFrames
  <2>2. f \in Frames BY <2>1, FrameIntro, BufferAssumption
  <2> QED BY <1>2, <2>1, <2>2
<1> QED BY <1>1, <1>2

LEMMA SendFrameType ==
  ASSUME CanInv, NEW n \in Nodes, NEW f \in NextFrames(n), SendFrame(n, f)
  PROVE  job' \in [Nodes -> Frames \cup {NoFrame}] /\ JobOK'
<1>1. f \in Frames /\ Sender[f.pkt] = n BY NextFrameFacts
<1>2. /\ f.pkt \in Packets /\ f.i \in Nat /\ f.i <= Length[f.pkt] /\ Length[f.pkt] \in Nat
      /\ f = [pkt |-> f.pkt, i |-> f.i]
  BY <1>1, FrameFacts
<1> DEFINE g == [f EXCEPT !.i = f.i + 1]
<1>3. ~LastFrame(f) => g \in Frames /\ g.pkt = f.pkt
  <2> SUFFICES ASSUME ~LastFrame(f) PROVE g \in Frames /\ g.pkt = f.pkt
    OBVIOUS
  <2>1. f.i + 1 \in 0 .. Length[f.pkt] BY <1>2 DEF LastFrame
  <2>2. g = [pkt |-> f.pkt, i |-> f.i + 1] BY <1>2
  <2> HIDE DEF g
  <2> QED BY <1>2, <2>1, <2>2, FrameIntro
<1>4. job' = [job EXCEPT ![n] = IF LastFrame(f) THEN NoFrame ELSE g] BY DEF SendFrame
<1>5. job \in [Nodes -> Frames \cup {NoFrame}] /\ JobOK BY DEF CanInv, CanTypeOK
<1> HIDE DEF g
<1> QED BY <1>1, <1>3, <1>4, <1>5 DEF JobOK

(***************************************************************************)
(* The buffers.                                                            *)
(***************************************************************************)
BuffersOK ==
  /\ rx \in [1 .. Buffers -> Seq(Frames)]
  /\ \A b \in 1 .. Buffers :
       Len(rx[b]) <= BufferLen /\ \A k \in DOMAIN rx[b] : rx[b][k].i = k - 1

LEMMA FilledFacts ==
  ASSUME NEW n \in Nat, FilledTo(n) # {}
  PROVE  First(FilledTo(n)) \in 1 .. Buffers /\ Len(rx[First(FilledTo(n))]) = n
BY FirstType DEF FilledTo

LEMMA FillType ==
  ASSUME BuffersOK, NEW f \in Frames, Fill(f)
  PROVE  BuffersOK'
<1> DEFINE S == IF FilledTo(f.i) # {} THEN FilledTo(f.i) ELSE IF f.i = 0 THEN {1} ELSE {}
           b == First(S)
           s == Append(SubSeq(rx[b], 1, f.i), f)
<1>1. f.i \in Nat BY FrameFacts
<1>2. CASE S = {} \/ f.i + 1 > BufferLen
  BY <1>2 DEF Fill, BuffersOK
<1>3. CASE S # {} /\ ~(f.i + 1 > BufferLen)
  <2>1. S \in SUBSET (1 .. Buffers) BY BufferAssumption DEF FilledTo
  <2>2. b \in S BY <1>3, <2>1, FirstType
  <2>3. b \in 1 .. Buffers BY <2>1, <2>2
  <2>4. f.i = 0 \/ Len(rx[b]) = f.i BY <2>2 DEF FilledTo
  <2>5. rx' = [rx EXCEPT ![b] = s] BY <1>3 DEF Fill
  <2>6. rx[b] \in Seq(Frames) /\ Len(rx[b]) \in Nat /\ \A k \in DOMAIN rx[b] : rx[b][k].i = k - 1
    BY <2>3, LenProperties DEF BuffersOK
  <2> DEFINE u == SubSeq(rx[b], 1, f.i)
  <2>7. /\ u \in Seq(Frames) /\ Len(u) = f.i
        /\ \A k \in 1 .. f.i : u[k] = rx[b][k]
    <3> HIDE DEF b
    <3>1. CASE f.i = 0 BY <1>1, <2>6, <3>1
    <3>2. CASE f.i # 0 /\ Len(rx[b]) = f.i BY <1>1, <2>6, <3>2
    <3> QED BY <2>4, <3>1, <3>2
  <2>8. /\ s \in Seq(Frames) /\ Len(s) = f.i + 1
        /\ \A k \in 1 .. f.i : s[k] = u[k]
        /\ s[f.i + 1] = f
    <3> HIDE DEF u
    <3> QED BY <1>1, <2>7, AppendProperties
  <2>9. \A k \in DOMAIN s : s[k].i = k - 1
    <3> HIDE DEF s, u, b
    <3>1. DOMAIN s = 1 .. f.i + 1 BY <1>1, <2>8, LenProperties
    <3>2. DOMAIN rx[b] = 1 .. Len(rx[b]) BY <2>6
    <3> QED BY <1>1, <2>4, <2>6, <2>7, <2>8, <3>1, <3>2
  <2>10. Len(s) <= BufferLen
    <3> HIDE DEF s
    <3> QED BY <1>1, <1>3, <2>8, BufferAssumption
  <2> HIDE DEF s, u, b, S
  <2> QED BY <2>3, <2>5, <2>8, <2>9, <2>10 DEF BuffersOK
<1> QED BY <1>2, <1>3

LEMMA EmptyType ==
  ASSUME BuffersOK, NEW p \in Packets, Empty(p)
  PROVE  BuffersOK'
<1>1. Length[p] \in Nat /\ BufferLen \in Nat BY BufferAssumption
<1>2. <<>> \in Seq(Frames) /\ Len(<<>>) = 0 /\ DOMAIN <<>> = {} BY EmptySeq
<1>3. CASE UNCHANGED rx BY <1>3 DEF BuffersOK
<1>4. CASE rx' = [b \in 1 .. Buffers |-> <<>>]
  BY <1>1, <1>2, <1>4 DEF BuffersOK
<1>5. CASE FilledTo(Length[p]) # {} /\ rx' = [rx EXCEPT ![First(FilledTo(Length[p]))] = <<>>]
  <2>1. First(FilledTo(Length[p])) \in 1 .. Buffers BY <1>1, <1>5, FilledFacts
  <2> QED BY <1>1, <1>2, <1>5, <2>1 DEF BuffersOK
<1> QED BY <1>1, <1>3, <1>4, <1>5 DEF Empty

LEMMA CanInitInv == CanInit => CanInv
<1> SUFFICES ASSUME CanInit PROVE CanInv
  OBVIOUS
<1>1. <<>> \in Seq(Frames) /\ Len(<<>>) = 0 /\ DOMAIN <<>> = {} BY EmptySeq
<1> QED BY <1>1, BufferAssumption DEF CanInit, CanInv, CanTypeOK, JobOK

LEMMA CanStepInv == CanInv /\ [CanNext]_canVars => CanInv'
<1> SUFFICES ASSUME CanInv, [CanNext]_canVars PROVE CanInv'
  OBVIOUS
<1>1. CanTypeOK /\ JobOK /\ BuffersOK BY DEF CanInv, CanTypeOK, BuffersOK
<1>2. CASE UNCHANGED canVars
  BY <1>1, <1>2 DEF canVars, CanInv, CanTypeOK, JobOK
<1>3. CASE BlockingReply
  BY <1>1, <1>3 DEF BlockingReply, CanInv, CanTypeOK, JobOK
<1>4. ASSUME NEW n \in Nodes, NEW f \in NextFrames(n), Deliver(n, f) \/ Lose(n, f)
      PROVE  CanInv'
  <2>1. f \in Frames /\ f.pkt \in Packets /\ Sender[f.pkt] = n
    BY <1>4, NextFrameFacts, FrameFacts
  <2>2. job' \in [Nodes -> Frames \cup {NoFrame}] /\ JobOK'
    BY <1>4, SendFrameType DEF Deliver, Lose
  <2>3. CASE Lose(n, f)
    BY <1>1, <2>2, <2>3 DEF Lose, CanInv, CanTypeOK
  <2>4. CASE Fragment(f)
    <3>1. BuffersOK' BY <1>1, <2>1, <2>4, FillType DEF Fragment
    <3> QED BY <1>1, <2>2, <2>4, <3>1 DEF Fragment, Ignored, BuffersOK, CanInv, CanTypeOK
  <2>5. CASE Process(f)
    <3>1. BuffersOK' BY <1>1, <2>1, <2>5, EmptyType DEF Process
    <3>2. last' \in Nodes \cup {NoFrame} /\ type' \in {0, 1}
      BY <1>1, <2>1, <2>5 DEF Process, NoteSender, CanTypeOK
    <3>3. asked' \in Blocking \cup {NoFrame} /\ done' \in Packets \cup {NoFrame}
      BY <1>1, <2>1, <2>5 DEF Process, Run, Ignored, CanTypeOK
    <3>4. since' \subseteq Packets BY <1>1, <2>1, <2>5 DEF Process, CanTypeOK
    <3> QED BY <2>2, <3>1, <3>2, <3>3, <3>4 DEF BuffersOK, CanInv, CanTypeOK
  <2> QED BY <1>4, <2>3, <2>4, <2>5 DEF Deliver
<1> QED BY <1>2, <1>3, <1>4 DEF CanNext

LEMMA CanInvariant == CanSpec => []CanInv
BY CanInitInv, CanStepInv, PTL DEF CanSpec

\* In every buffer a fragment lies at its own offset, and no buffer overflows,
\* whatever packets the fragments are of and whichever frames are lost.
THEOREM CanTypeCorrect == CanSpec => []CanTypeOK
<1>1. CanInv => CanTypeOK BY DEF CanInv
<1> QED BY <1>1, CanInvariant, PTL

\* A packet is run as its sender sent it or not at all, however the frames of the
\* senders are mixed.
THEOREM RunsOnlyWhatWasSent == CanSpec => RunsWhatWasSent
<1> DEFINE Sent ==
      \A p \in Packets : done' = p =>
        /\ job[Sender[p]] \in {NoFrame, [pkt |-> p, i |-> Length[p]]}
        /\ Length[p] > 0 => \E b \in 1 .. Buffers : rx[b] = Fragments(p) /\ rx'[b] = <<>>
<1>1. CanInv /\ [CanNext]_canVars => [Sent]_canVars
  <2> SUFFICES ASSUME CanInv, CanNext, NEW p \in Packets, done' = p
               PROVE  /\ job[Sender[p]] \in {NoFrame, [pkt |-> p, i |-> Length[p]]}
                      /\ Length[p] > 0 =>
                           \E b \in 1 .. Buffers : rx[b] = Fragments(p) /\ rx'[b] = <<>>
    OBVIOUS
  <2>1. p # NoFrame BY BufferAssumption
  <2>2. PICK n \in Nodes : \E f \in NextFrames(n) : Deliver(n, f) \/ Lose(n, f)
    BY <2>1 DEF CanNext, BlockingReply
  <2>3. PICK f \in NextFrames(n) : Deliver(n, f) \/ Lose(n, f)
    BY <2>2
  <2>4. Process(f) /\ done' = f.pkt
    BY <2>1, <2>3 DEF Lose, Deliver, Fragment, Process, Run, Ignored
  <2>5. /\ f \in Frames /\ Sender[p] = n /\ job[n] \in {NoFrame, f}
        /\ f = [pkt |-> p, i |-> Length[p]]
    BY <2>4, NextFrameFacts, FrameFacts DEF Process, LastFrame
  <2>6. Complete(p)
    BY <2>1, <2>4, <2>5 DEF Process, Ignored
  <2>7. ASSUME Length[p] > 0
        PROVE  \E b \in 1 .. Buffers : rx[b] = Fragments(p) /\ rx'[b] = <<>>
    <3> DEFINE b == First(FilledTo(Length[p]))
    <3>1. Length[p] \in Nat /\ BufferLen \in Nat BY BufferAssumption
    <3>2. /\ Length[p] <= BufferLen /\ FilledTo(Length[p]) # {} /\ rx[b] = Fragments(p)
      BY <2>6, <2>7 DEF Complete
    <3>3. b \in 1 .. Buffers BY <3>1, <3>2, FilledFacts
    <3>4. rx' = [rx EXCEPT ![b] = <<>>]
      BY <2>4, <2>5, <2>7, <3>1, <3>2 DEF Process, Empty
    <3>5. rx \in [1 .. Buffers -> Seq(Frames)] BY DEF CanInv, CanTypeOK
    <3> HIDE DEF b
    <3> QED BY <3>2, <3>3, <3>4, <3>5
  <2> QED BY <2>5, <2>7
<1> QED BY <1>1, CanInvariant, PTL DEF CanSpec, RunsWhatWasSent

(***************************************************************************)
(* Replies.  Unless another packet to be answered has ended since, the     *)
(* node noted last is the one whose command the blocking thread works on,  *)
(* and likewise for the way to answer.                                     *)
(***************************************************************************)
AskedOK ==
  asked # NoFrame =>
    /\ asked \in Packets /\ asked \in Blocking
    /\ Answerable(asked) /\ (\A q \in since : Answerable(q) => Sender[q] = Sender[asked])
         => last = Sender[asked]
    /\ (\A q \in since : Mode[q] = 3 <=> Mode[asked] = 3)
         => type = (IF Mode[asked] = 3 THEN 0 ELSE 1)

LEMMA AskedInit ==
  CanInit => AskedOK /\ AnswersAsker
BY DEF CanInit, AskedOK, AnswersAsker

LEMMA AskedStep ==
  CanInv /\ AskedOK /\ AnswersAsker /\ [CanNext]_canVars => (AskedOK /\ AnswersAsker)'
<1> SUFFICES ASSUME CanInv, AskedOK, AnswersAsker, [CanNext]_canVars
             PROVE  AskedOK' /\ AnswersAsker'
  OBVIOUS
<1>1. CASE UNCHANGED canVars BY <1>1 DEF canVars, AskedOK, AnswersAsker
<1>2. CASE BlockingReply
  <2>1. asked' = NoFrame /\ since' = since BY <1>2 DEF BlockingReply
  <2>2. AskedOK' BY <2>1 DEF AskedOK
  <2>3. CASE Answerable(asked)
    <3>1. answer' = <<asked, last, type>> BY <1>2, <2>3 DEF BlockingReply, Answerable
    <3>2. asked # NoFrame BY <1>2 DEF BlockingReply
    <3> QED BY <2>1, <2>2, <2>3, <3>1, <3>2 DEF AskedOK, AnswersAsker
  <2>4. CASE ~Answerable(asked)
    <3>1. answer' = <<>> BY <1>2, <2>4 DEF BlockingReply, Answerable
    <3> QED BY <2>2, <3>1 DEF AnswersAsker
  <2> QED BY <2>3, <2>4
<1>3. ASSUME NEW n \in Nodes, NEW f \in NextFrames(n), Deliver(n, f) \/ Lose(n, f)
      PROVE  AskedOK' /\ AnswersAsker'
  <2> DEFINE p == f.pkt
  <2>1. p \in Packets /\ p # NoFrame BY <1>3, NextFrameFacts, FrameFacts, BufferAssumption
  <2>2. CASE Lose(n, f) BY <2>2 DEF Lose, AskedOK, AnswersAsker
  <2>3. CASE Fragment(f) BY <2>3 DEF Fragment, Ignored, AskedOK, AnswersAsker
  <2>4. CASE Process(f)
    <3>1. /\ type' = IF Mode[p] = 3 THEN 0 ELSE 1
          /\ last' = IF Answerable(p) THEN Sender[p] ELSE last
      BY <2>1, <2>4 DEF Process, NoteSender, Answerable
    <3>2. since' = IF asked = NoFrame THEN {} ELSE since \cup {p}
      BY <2>4 DEF Process
    \* The blocking thread is at work, and stays so.
    <3>3. ASSUME asked # NoFrame, asked' = asked PROVE AskedOK'
      <4>1. since' = since \cup {p} BY <3>2, <3>3
      <4> QED BY <3>1, <3>3, <4>1 DEF AskedOK
    <3>4. ASSUME asked' = NoFrame PROVE AskedOK'
      BY <3>4 DEF AskedOK
    <3>5. ASSUME asked = NoFrame, asked' = p, p \in Blocking PROVE AskedOK'
      BY <2>1, <3>1, <3>2, <3>5 DEF AskedOK
    <3>6. AskedOK'
      BY <2>1, <2>4, <3>3, <3>4, <3>5 DEF Process, Run, Ignored
    <3>7. answer' = <<>> \/ (p \notin Blocking /\ Answerable(p) /\ answer' = <<p, last', type'>>)
      BY <2>4 DEF Process, Run, Ignored, Answerable
    <3>8. CASE answer' = <<>>
      BY <3>6, <3>8 DEF AnswersAsker
    <3>9. CASE p \notin Blocking /\ Answerable(p) /\ answer' = <<p, last', type'>>
      <4>1. answer'[1] = p /\ answer'[2] = Sender[p] /\ answer'[3] = IF Mode[p] = 3 THEN 0 ELSE 1
        BY <3>1, <3>9
      <4> QED BY <3>6, <3>9, <4>1 DEF AnswersAsker
    <3> QED BY <3>7, <3>8, <3>9
  <2> QED BY <1>3, <2>2, <2>3, <2>4 DEF Deliver
<1> QED BY <1>1, <1>2, <1>3 DEF CanNext

\* Whoever asks, and in whichever mode: a reply goes to the node that sent the command
\* and is used there as it asked, unless a packet that is to be answered to another node
\* or in another way has ended while the blocking thread was at work.
THEOREM AnswersFindAsker == CanSpec => []AnswersAsker
<1>1. CanInit => AskedOK /\ AnswersAsker BY AskedInit
<1>2. CanInv /\ AskedOK /\ AnswersAsker /\ [CanNext]_canVars => (AskedOK /\ AnswersAsker)'
  BY AskedStep
<1> QED BY <1>1, <1>2, CanInvariant, PTL DEF CanSpec

(***************************************************************************)
(* Retries.  While a packet is sent for the first time, the buffer that    *)
(* its last fragment went to is preceded by fuller ones only, so that      *)
(* fragments move to the left if they change the buffer at all.  If it is  *)
(* not run, the buffer that was emptied is preceded by buffers that are    *)
(* fuller than the packet is long, and all fragments of the next attempt   *)
(* go to it.                                                               *)
(***************************************************************************)
Prefix(p, k) == [j \in 1 .. k |-> [pkt |-> p, i |-> j - 1]]

Begun(k) ==
  \E b \in 1 .. Buffers : Len(rx[b]) = k /\ \A c \in 1 .. (b - 1) : Len(rx[c]) > k

Kept(p, k) ==
  \E b \in 1 .. Buffers : rx[b] = Prefix(p, k) /\ \A c \in 1 .. (b - 1) : Len(rx[c]) > Length[p]

TrackOK ==
  /\ track \in [pkt : Packets \cup {NoFrame}, next : Nat, fails : {0, 1}]
  /\ track.pkt # NoFrame =>
       /\ track.fails = 0 => track.next = 0 \/ Begun(track.next)
       /\ track.fails = 1 => Kept(track.pkt, track.next)

PacketsFit == \A p \in Packets : Length[p] <= BufferLen

LEMMA PrefixFacts ==
  ASSUME NEW p \in Packets, NEW k \in 0 .. Length[p]
  PROVE  Prefix(p, k) \in Seq(Frames) /\ Len(Prefix(p, k)) = k
<1>1. Length[p] \in Nat BY BufferAssumption
<1>2. \A j \in 1 .. k : [pkt |-> p, i |-> j - 1] \in Frames
  BY <1>1, FrameIntro
<1> QED BY <1>1, <1>2 DEF Prefix

LEMMA FirstIs ==
  ASSUME NEW S \in SUBSET (1 .. Buffers), NEW m \in S, \A c \in 1 .. (m - 1) : c \notin S
  PROVE  First(S) = m
<1>1. First(S) \in S /\ First(S) <= m BY FirstType
<1>2. First(S) \in 1 .. Buffers /\ m \in 1 .. Buffers BY <1>1
<1>3. First(S) \notin 1 .. (m - 1) BY <1>1
<1> QED BY <1>1, <1>2, <1>3, BufferAssumption

LEMMA FirstFilled ==
  ASSUME NEW n \in Nat, NEW m \in 1 .. Buffers,
         Len(rx[m]) = n, \A c \in 1 .. (m - 1) : Len(rx[c]) # n
  PROVE  FilledTo(n) # {} /\ First(FilledTo(n)) = m
<1>1. FilledTo(n) \in SUBSET (1 .. Buffers) /\ m \in FilledTo(n) BY DEF FilledTo
<1>2. \A c \in 1 .. (m - 1) : c \notin FilledTo(n) BY DEF FilledTo
<1> QED BY <1>1, <1>2, FirstIs

LEMMA FillAt ==
  ASSUME BuffersOK, NEW f \in Frames, Fill(f), NEW m \in 1 .. Buffers,
         Len(rx[m]) = f.i, \A c \in 1 .. (m - 1) : Len(rx[c]) # f.i, f.i < BufferLen
  PROVE  rx' = [rx EXCEPT ![m] = Append(rx[m], f)]
<1>1. f.i \in Nat BY FrameFacts
<1>2. FilledTo(f.i) # {} /\ First(FilledTo(f.i)) = m BY <1>1, FirstFilled
<1>3. SubSeq(rx[m], 1, f.i) = rx[m] BY SubSeqFull DEF BuffersOK
<1>4. ~(f.i + 1 > BufferLen) BY <1>1, BufferAssumption
<1> QED BY <1>2, <1>3, <1>4 DEF Fill

\* The first of the buffers that are filled to k is preceded by fuller ones only.
LeastBegun ==
  BuffersOK => \A k \in Nat : \A m \in 1 .. Buffers :
    Len(rx[m]) = k /\ (\A c \in 1 .. (m - 1) : Len(rx[c]) >= k) => Begun(k)

LEMMA LeastIsBegun == LeastBegun
<1> SUFFICES ASSUME BuffersOK, NEW k \in Nat, NEW m \in 1 .. Buffers,
                    Len(rx[m]) = k, \A c \in 1 .. (m - 1) : Len(rx[c]) >= k
             PROVE  Begun(k)
  BY DEF LeastBegun
<1>1. \A c \in 1 .. Buffers : Len(rx[c]) \in Nat BY LenProperties DEF BuffersOK
<1>2. FilledTo(k) \in SUBSET (1 .. Buffers) /\ m \in FilledTo(k) BY DEF FilledTo
<1> DEFINE b == First(FilledTo(k))
<1>3. b \in FilledTo(k) /\ \A c \in FilledTo(k) : b <= c BY <1>2, FirstType
<1> HIDE DEF b
<1>4. b \in 1 .. Buffers /\ Len(rx[b]) = k /\ b <= m BY <1>2, <1>3 DEF FilledTo
<1>5. ASSUME NEW c \in 1 .. (b - 1) PROVE Len(rx[c]) > k
  <2>1. c \in 1 .. Buffers /\ c \in 1 .. (m - 1) /\ ~(b <= c) BY <1>4, BufferAssumption
  <2>2. c \notin FilledTo(k) BY <1>3, <2>1
  <2>3. Len(rx[c]) >= k /\ Len(rx[c]) # k BY <2>1, <2>2 DEF FilledTo
  <2> QED BY <1>1, <2>1, <2>3
<1> QED BY <1>4, <1>5 DEF Begun

LEMMA LeastIsBegunNext == LeastBegun'
BY LeastIsBegun, PTL

LEMMA BegunNext ==
  ASSUME BuffersOK, BuffersOK', PacketsFit, NEW f \in Frames, ~LastFrame(f), Fill(f), Begun(f.i)
  PROVE  Begun(f.i + 1)'
<1>1. f.i \in Nat /\ f.i < BufferLen
  BY FrameFacts, BufferAssumption DEF LastFrame, PacketsFit
<1>2. PICK m \in 1 .. Buffers : Len(rx[m]) = f.i /\ \A c \in 1 .. (m - 1) : Len(rx[c]) > f.i
  BY DEF Begun
<1>3. \A c \in 1 .. Buffers : rx[c] \in Seq(Frames) /\ Len(rx[c]) \in Nat
  BY LenProperties DEF BuffersOK
<1>4. \A c \in 1 .. (m - 1) : c \in 1 .. Buffers /\ c # m BY BufferAssumption
<1>5. rx' = [rx EXCEPT ![m] = Append(rx[m], f)]
  BY <1>1, <1>2, <1>3, <1>4, FillAt
<1>6. Len(rx'[m]) = f.i + 1
  BY <1>2, <1>3, <1>5, AppendProperties DEF BuffersOK
<1>7. \A c \in 1 .. (m - 1) : Len(rx'[c]) >= f.i + 1
  BY <1>1, <1>2, <1>3, <1>4, <1>5 DEF BuffersOK
<1> QED BY <1>1, <1>6, <1>7, LeastIsBegunNext DEF LeastBegun

LEMMA BeginsFirst ==
  ASSUME BuffersOK, BuffersOK', PacketsFit, NEW f \in Frames, ~LastFrame(f), Fill(f), f.i = 0
  PROVE  Begun(1)'
<1>1. f.i < BufferLen BY FrameFacts, BufferAssumption DEF LastFrame, PacketsFit
<1>2. \A c \in 1 .. Buffers : rx[c] \in Seq(Frames) /\ Len(rx[c]) \in Nat
  BY LenProperties DEF BuffersOK
<1>3. CASE FilledTo(0) # {}
  <2>1. PICK m \in 1 .. Buffers : Len(rx[m]) = 0 BY <1>3 DEF FilledTo
  <2>2. \A c \in 1 .. (m - 1) : Len(rx[c]) >= 0 BY <1>2, BufferAssumption
  <2>3. Begun(0) BY <2>1, <2>2, LeastIsBegun DEF LeastBegun
  <2> QED BY <2>3, BegunNext
<1>4. CASE FilledTo(0) = {}
  <2>1. First({1}) = 1 BY FirstIs, BufferAssumption
  <2>2. SubSeq(rx[1], 1, 0) = <<>> BY SubSeqEmpty
  <2> DEFINE S == IF FilledTo(0) # {} THEN FilledTo(0) ELSE {1}
  <2>3. S = {1} BY <1>4
  <2>4. rx' = [rx EXCEPT ![First(S)] = Append(SubSeq(rx[First(S)], 1, 0), f)]
    <3>1. ~(f.i + 1 > BufferLen) BY <1>1, BufferAssumption
    <3> QED BY <1>4, <3>1 DEF Fill
  <2>5. rx' = [rx EXCEPT ![1] = Append(<<>>, f)]
    BY <2>1, <2>2, <2>3, <2>4
  <2>6. Len(Append(<<>>, f)) = 1 BY EmptySeq, AppendProperties
  <2>7. 1 \in 1 .. Buffers /\ Len(rx'[1]) = 1
    BY <2>5, <2>6, BufferAssumption DEF BuffersOK
  <2> QED BY <2>7 DEF Begun
<1> QED BY <1>3, <1>4

LEMMA KeptNext ==
  ASSUME BuffersOK, PacketsFit, NEW f \in Frames, ~LastFrame(f), Fill(f), Kept(f.pkt, f.i)
  PROVE  Kept(f.pkt, f.i + 1)'
<1> DEFINE p == f.pkt
<1>1. /\ p \in Packets /\ f.i \in Nat /\ Length[p] \in Nat /\ f.i < Length[p]
      /\ f.i < BufferLen /\ f = [pkt |-> p, i |-> f.i]
  BY FrameFacts, BufferAssumption DEF LastFrame, PacketsFit
<1>2. PICK m \in 1 .. Buffers :
        rx[m] = Prefix(p, f.i) /\ \A c \in 1 .. (m - 1) : Len(rx[c]) > Length[p]
  BY DEF Kept
<1> HIDE DEF p
<1>3. \A c \in 1 .. Buffers : rx[c] \in Seq(Frames) /\ Len(rx[c]) \in Nat
  BY LenProperties DEF BuffersOK
<1>4. \A c \in 1 .. (m - 1) : c \in 1 .. Buffers /\ c # m BY BufferAssumption
<1>5. Len(rx[m]) = f.i BY <1>1, <1>2, PrefixFacts
<1>6. rx' = [rx EXCEPT ![m] = Append(rx[m], f)]
  BY <1>1, <1>2, <1>3, <1>4, <1>5, FillAt
<1>7. Append(rx[m], f) = Prefix(p, f.i + 1)
  <2>1. /\ Append(rx[m], f) \in Seq(Frames) /\ Len(Append(rx[m], f)) = f.i + 1
        /\ \A j \in 1 .. f.i : Append(rx[m], f)[j] = rx[m][j]
        /\ Append(rx[m], f)[f.i + 1] = f
    BY <1>3, <1>5, AppendProperties
  <2>2. Prefix(p, f.i + 1) \in Seq(Frames) /\ Len(Prefix(p, f.i + 1)) = f.i + 1
    BY <1>1, PrefixFacts
  <2>3. \A j \in 1 .. f.i : rx[m][j] = [pkt |-> p, i |-> j - 1]
    BY <1>1, <1>2 DEF Prefix
  <2>4. \A j \in 1 .. f.i + 1 : Prefix(p, f.i + 1)[j] = [pkt |-> p, i |-> j - 1]
    BY DEF Prefix
  <2>5. \A j \in 1 .. f.i + 1 : Append(rx[m], f)[j] = Prefix(p, f.i + 1)[j]
    <3> SUFFICES ASSUME NEW j \in 1 .. f.i + 1
                 PROVE  Append(rx[m], f)[j] = [pkt |-> p, i |-> j - 1]
      BY <2>4
    <3>1. CASE j = f.i + 1 BY <1>1, <2>1, <3>1
    <3>2. CASE j \in 1 .. f.i BY <2>1, <2>3, <3>2
    <3>3. f.i \in Nat BY <1>1
    <3>4. j = f.i + 1 \/ j \in 1 .. f.i BY <3>3
    <3> QED BY <3>1, <3>2, <3>4
  <2> QED BY <2>1, <2>2, <2>5, SeqEqual
<1>8. rx'[m] = Prefix(p, f.i + 1) BY <1>6, <1>7 DEF BuffersOK
<1>9. \A c \in 1 .. (m - 1) : Len(rx'[c]) > Length[p]
  BY <1>2, <1>4, <1>6 DEF BuffersOK
<1> QED BY <1>8, <1>9 DEF Kept, p

LEMMA KeptComplete ==
  ASSUME PacketsFit, BuffersOK, NEW p \in Packets, Kept(p, Length[p])
  PROVE  Complete(p)
<1>1. Length[p] \in Nat /\ Length[p] <= BufferLen BY BufferAssumption DEF PacketsFit
<1>2. PICK m \in 1 .. Buffers :
        rx[m] = Prefix(p, Length[p]) /\ \A c \in 1 .. (m - 1) : Len(rx[c]) > Length[p]
  BY DEF Kept
<1>3. Len(rx[m]) = Length[p] BY <1>1, <1>2, PrefixFacts
<1>4. \A c \in 1 .. (m - 1) : Len(rx[c]) # Length[p]
  BY <1>1, <1>2, LenProperties, BufferAssumption DEF BuffersOK
<1>5. FilledTo(Length[p]) # {} /\ First(FilledTo(Length[p])) = m
  BY <1>1, <1>3, <1>4, FirstFilled
<1>6. Prefix(p, Length[p]) = Fragments(p) BY DEF Prefix, Fragments
<1> QED BY <1>1, <1>2, <1>5, <1>6 DEF Complete

LEMMA FailsOnce ==
  ASSUME PacketsFit, BuffersOK, NEW p \in Packets, Length[p] > 0, Begun(Length[p]), Empty(p)
  PROVE  Kept(p, 0)'
<1>1. Length[p] \in Nat /\ Length[p] <= BufferLen /\ BufferLen \in Nat
  BY BufferAssumption DEF PacketsFit
<1>2. PICK m \in 1 .. Buffers :
        Len(rx[m]) = Length[p] /\ \A c \in 1 .. (m - 1) : Len(rx[c]) > Length[p]
  BY DEF Begun
<1>3. \A c \in 1 .. (m - 1) : c \in 1 .. Buffers /\ c # m BY BufferAssumption
<1>4. \A c \in 1 .. (m - 1) : Len(rx[c]) # Length[p]
  BY <1>1, <1>2, <1>3, LenProperties DEF BuffersOK
<1>5. FilledTo(Length[p]) # {} /\ First(FilledTo(Length[p])) = m
  BY <1>1, <1>2, <1>4, FirstFilled
<1>6. rx' = [rx EXCEPT ![m] = <<>>] BY <1>1, <1>5 DEF Empty
<1>7. Prefix(p, 0) = <<>> BY DEF Prefix
<1>8. rx'[m] = Prefix(p, 0) BY <1>6, <1>7 DEF BuffersOK
<1>9. \A c \in 1 .. (m - 1) : Len(rx'[c]) > Length[p]
  BY <1>2, <1>3, <1>6 DEF BuffersOK
<1> QED BY <1>8, <1>9 DEF Kept

LEMMA TrackStep ==
  ASSUME PacketsFit
  PROVE  CanInv /\ CanInv' /\ TrackOK /\ [CanNext]_canVars => TrackOK'
<1> SUFFICES ASSUME CanInv, CanInv', TrackOK, [CanNext]_canVars PROVE TrackOK'
  OBVIOUS
<1>1. BuffersOK /\ BuffersOK' BY DEF CanInv, CanTypeOK, BuffersOK
<1>2. CASE UNCHANGED <<rx, track>>
  BY <1>2 DEF TrackOK, Begun, Kept
<1>3. CASE track' = Untracked
  BY <1>3 DEF TrackOK, Untracked
<1>4. ASSUME NEW f \in Frames, Fragment(f) \/ Process(f), Tracked(f) PROVE TrackOK'
  <2>1. /\ f.pkt \in Packets /\ f.pkt # NoFrame /\ f.i \in Nat
        /\ LastFrame(f) => f.i = Length[f.pkt]
    BY <1>4, FrameFacts, BufferAssumption DEF LastFrame
  <2>2. Length[f.pkt] = 0 => Complete(f.pkt) BY DEF Complete
  <2>3. LastFrame(f) => Empty(f.pkt) /\ (Complete(f.pkt) => done' = f.pkt)
    BY <1>4 DEF Fragment, Process, Run
  <2>4. ~LastFrame(f) => Fill(f) BY <1>4 DEF Fragment, Process
  <2> DEFINE t == IF track.pkt = f.pkt /\ track.next = f.i THEN track
                  ELSE IF f.i = 0 THEN [Untracked EXCEPT !.pkt = f.pkt] ELSE Untracked
  <2>5. track' = IF t = Untracked THEN t
                 ELSE IF LastFrame(f)
                 THEN [t EXCEPT !.next = 0, !.fails = IF done' = f.pkt THEN 0 ELSE t.fails + 1]
                 ELSE [t EXCEPT !.next = t.next + 1]
    BY <1>4 DEF Tracked
  <2>6. \/ t = Untracked
        \/ \E e \in {0, 1} : /\ t = [pkt |-> f.pkt, next |-> f.i, fails |-> e]
                             /\ e = 0 => f.i = 0 \/ Begun(f.i)
                             /\ e = 1 => Kept(f.pkt, f.i)
    <3>1. CASE t = track /\ track.pkt = f.pkt /\ track.next = f.i
      BY <2>1, <3>1 DEF TrackOK
    <3>2. CASE t = [pkt |-> f.pkt, next |-> 0, fails |-> 0] /\ f.i = 0
      BY <3>2
    <3> QED BY <3>1, <3>2 DEF Untracked
  <2> HIDE DEF t
  <2>7. CASE t = Untracked
    BY <1>3, <2>5, <2>7
  <2>8. ASSUME NEW e \in {0, 1}, t = [pkt |-> f.pkt, next |-> f.i, fails |-> e],
               e = 0 => f.i = 0 \/ Begun(f.i), e = 1 => Kept(f.pkt, f.i)
        PROVE  TrackOK'
    <3>1. t # Untracked BY <2>1, <2>8 DEF Untracked
    <3>2. CASE ~LastFrame(f)
      <4>1. track' = [pkt |-> f.pkt, next |-> f.i + 1, fails |-> e]
        BY <2>5, <2>8, <3>1, <3>2
      <4>2. e = 0 => Begun(f.i + 1)'
        BY <1>1, <1>4, <2>1, <2>4, <2>8, <3>2, BeginsFirst, BegunNext
      <4>3. e = 1 => Kept(f.pkt, f.i + 1)'
        BY <1>1, <1>4, <2>4, <2>8, <3>2, KeptNext
      <4> QED BY <2>1, <4>1, <4>2, <4>3 DEF TrackOK
    <3>3. CASE LastFrame(f) /\ Complete(f.pkt)
      <4>1. track' = [t EXCEPT !.next = 0, !.fails = 0]
        BY <2>3, <2>5, <3>1, <3>3
      <4>2. track' = [pkt |-> f.pkt, next |-> 0, fails |-> 0]
        BY <2>8, <4>1
      <4> QED BY <2>1, <4>2 DEF TrackOK
    <3>4. CASE LastFrame(f) /\ ~Complete(f.pkt)
      <4>1. e = 0 /\ f.i > 0 /\ Begun(f.i)
        BY <1>1, <2>1, <2>2, <2>8, <3>4, KeptComplete
      <4>2. Kept(f.pkt, 0)'
        BY <1>1, <2>1, <2>3, <3>4, <4>1, FailsOnce
      <4>3. track' = [t EXCEPT !.next = 0, !.fails = IF done' = f.pkt THEN 0 ELSE 1]
        BY <2>5, <2>8, <3>1, <3>4, <4>1
      <4>4. PICK d \in {0, 1} : track' = [t EXCEPT !.next = 0, !.fails = d]
        BY <4>3
      <4>5. track' = [pkt |-> f.pkt, next |-> 0, fails |-> d]
        BY <2>8, <4>4
      <4> QED BY <2>1, <4>2, <4>5 DEF TrackOK
    <3> QED BY <3>2, <3>3, <3>4
  <2> QED BY <2>6, <2>7, <2>8
<1>5. CASE CanNext
  <2>1. CASE BlockingReply BY <1>2, <2>1 DEF BlockingReply
  <2>2. ASSUME NEW n \in Nodes, NEW f \in NextFrames(n), Deliver(n, f) \/ Lose(n, f)
        PROVE  TrackOK'
    <3>1. f \in Frames BY <2>2, NextFrameFacts
    <3> QED BY <1>3, <1>4, <2>2, <3>1 DEF Deliver, Lose
  <2> QED BY <1>5, <2>1, <2>2 DEF CanNext
<1> QED BY <1>2, <1>5 DEF canVars

\* A packet that fits a buffer and is sent twice without a loss or another frame in
\* between is run, whatever other senders and losses have left in the buffers.
THEOREM RetriesDeliver ==
  ASSUME PacketsFit
  PROVE  CanSpec => []RetryDelivers
<1>1. CanInit => TrackOK BY DEF CanInit, TrackOK, Untracked
<1>2. CanInv /\ CanInv' /\ TrackOK /\ [CanNext]_canVars => TrackOK' BY TrackStep
<1>3. TrackOK => RetryDelivers BY DEF TrackOK, RetryDelivers
<1> QED BY <1>1, <1>2, <1>3, CanInvariant, PTL DEF CanSpec
==========================================================================
