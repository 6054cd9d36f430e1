-------------------------- MODULE ConfStoreProofs --------------------------
(***************************************************************************)
(* Theorems of ConfStore, for all areas, values, threads and numbers of    *)
(* power losses, with and without flash errors.                            *)
(***************************************************************************)
EXTENDS ConfStore, TLAPS

Index(a) == 1 .. Len(Addr[a])

LEMMA AddrFacts ==
  ASSUME NEW a \in Areas
  PROVE  /\ Len(Addr[a]) \in Nat \ {0} /\ DOMAIN Addr[a] = Index(a)
         /\ 1 \in Index(a) /\ Len(Addr[a]) \in Index(a)
         /\ \A i \in Index(a) : Addr[a][i] \in Vars
         /\ \A b \in Areas : \A i \in Index(a), j \in Index(b) :
              Addr[a][i] = Addr[b][j] => a = b /\ i = j
<1>1. \A b \in Areas : Len(Addr[b]) \in Nat \ {0} /\ DOMAIN Addr[b] = Index(b)
  BY ConfAssumption DEF Index
<1>2. \A b \in Areas : \A i \in Index(a), j \in Index(b) :
        Addr[a][i] = Addr[b][j] => a = b /\ i = j
  BY <1>1, ConfAssumption
<1>3. ASSUME NEW i \in Index(a) PROVE Addr[a][i] \in Vars
  BY <1>1 DEF Vars
<1> QED BY <1>1, <1>2, <1>3 DEF Index

(***************************************************************************)
(* The invariant.  The owner of the lock is the one thread that writes; as *)
(* long as nothing has failed, the half-words before the one it is at hold *)
(* its value for sure, or were dropped by a page swap; and every half-word *)
(* of an area, and every value it may have after an error, is of the value *)
(* stored last for sure or of a store begun since.                         *)
(***************************************************************************)
ConfTypeOK ==
  /\ store \in [Vars -> Values \cup {None}]
  /\ may \in [Vars -> SUBSET (Values \cup {None})]
  /\ {power, failed} \subseteq BOOLEAN
  /\ op \in [Threads -> Op \cup {None}]
  /\ owner \in Threads \cup {None}
  /\ last \in [Areas -> Values \cup {None}]
  /\ tried \in [Areas -> SUBSET (Values \cup {None})]

InStore(t) == op[t] # None /\ op[t].at # "release"

OwnerWrites == \A t \in Threads : InStore(t) => owner = t

InRange ==
  \A t \in Threads : op[t] # None =>
    op[t].i \in Index(op[t].area) /\ (op[t].at = "release" => op[t].i = 1)

CallIsOwners ==
  /\ call = {} \/ \E t \in Threads : InStore(t) /\ op[t].at = "call" /\ call = {Current(t)}
  /\ \A t \in Threads : InStore(t) /\ op[t].at = "call" => call = {Current(t)}

IdleUnpowered == ~power => \A t \in Threads : op[t] = None

Dropped(x) == IF x \in Kept THEN {} ELSE {None}

Sure(a, j, v) == may[Addr[a][j]] = {v} /\ Word(a, j) \in {v} \cup Dropped(Addr[a][j])

WordsWritten ==
  \A t \in Threads : InStore(t) =>
    LET o == op[t] IN
    /\ o.value \in tried[o.area]
    /\ ~failed => \A j \in Index(o.area) : j < o.i => Sure(o.area, j, o.value)
    /\ ~failed /\ o.at = "unlock" /\ o.ok => \A j \in Index(o.area) : Sure(o.area, j, o.value)
    /\ o.at = "call" => o.value \in may[Target(t)]

Seen(a) == {last[a]} \cup tried[a]

OfStores ==
  \A a \in Areas : \A j \in Index(a) :
    /\ Word(a, j) \in Seen(a) \cup Dropped(Addr[a][j])
    /\ may[Addr[a][j]] \subseteq Seen(a)

InDoubt == failed => \A a \in Areas : None \in tried[a]

MayHold == \A v \in Vars : store[v] \in may[v] \cup {None}

Contents == WordsWritten /\ OfStores /\ InDoubt /\ MayHold

ConfInv ==
  ConfTypeOK /\ OwnerWrites /\ InRange /\ CallIsOwners /\ IdleUnpowered /\ Contents

LEMMA ConfInit == Init => ConfInv
<1> SUFFICES ASSUME Init PROVE ConfInv
  OBVIOUS
<1>1. ConfTypeOK BY DEF Init, Nv!Init, ConfTypeOK
<1>2. \A a \in Areas : \A j \in Index(a) : Word(a, j) = None /\ may[Addr[a][j]] = {None}
  BY AddrFacts DEF Init, Nv!Init, Word
<1>3. OfStores BY <1>2 DEF OfStores, Seen, Init
<1>4. MayHold BY DEF MayHold, Init, Nv!Init
<1>5. ~failed /\ call = {} /\ \A t \in Threads : op[t] = None BY DEF Init, Nv!Init
<1> QED
  BY <1>1, <1>3, <1>4, <1>5
  DEF ConfInv, Contents, InDoubt, OwnerWrites, InRange, CallIsOwners, IdleUnpowered, WordsWritten, InStore

LEMMA OpFields ==
  ASSUME ConfTypeOK, NEW t \in Threads, op[t] # None
  PROVE  /\ op[t] \in Op /\ op[t].area \in Areas /\ op[t].value \in Values /\ op[t].i \in Nat
         /\ op[t].ok \in BOOLEAN /\ op[t].at \in {"release", "write", "call", "unlock"}
BY DEF ConfTypeOK, Op

\* Only one thread is in a store, and no call is under way but its own.
LEMMA WriterAlone ==
  ASSUME ConfInv, NEW t \in Threads, InStore(t)
  PROVE  /\ owner = t /\ \A u \in Threads : u # t => ~InStore(u)
         /\ op[t].at # "call" => call = {}
         /\ op[t].at = "call" => call = {Current(t)}
BY DEF ConfInv, OwnerWrites, CallIsOwners

LEMMA NobodyInStore ==
  ASSUME ConfInv, \A t \in Threads : ~InStore(t)
  PROVE  call = {}
BY DEF ConfInv, CallIsOwners

\* What a step that only moves thread t to another place does to op.
LEMMA OpMoves ==
  ASSUME ConfInv, NEW t \in Threads, op[t] # None,
         NEW s \in {"release", "write", "call", "unlock"}, op' = [op EXCEPT ![t].at = s]
  PROVE  /\ op' \in [Threads -> Op \cup {None}] /\ op'[t] # None
         /\ op'[t].at = s /\ op'[t].area = op[t].area /\ op'[t].value = op[t].value
         /\ op'[t].i = op[t].i /\ op'[t].ok = op[t].ok
         /\ \A u \in Threads : u # t => op'[u] = op[u]
<1>1. op \in [Threads -> Op \cup {None}] /\ op[t] \in Op BY DEF ConfInv, ConfTypeOK
<1>2. op'[t] = [op[t] EXCEPT !.at = s] BY <1>1
<1>3. [op[t] EXCEPT !.at = s] \in Op BY <1>1 DEF Op
<1>4. op'[t].at = s /\ op'[t].area = op[t].area /\ op'[t].value = op[t].value
      /\ op'[t].i = op[t].i /\ op'[t].ok = op[t].ok
  BY <1>1, <1>2 DEF Op
<1>5. op'[t] # None BY <1>2, <1>3, ConfAssumption
<1>6. \A u \in Threads : u # t => op'[u] = op[u] BY <1>1
<1>7. op' \in [Threads -> Op \cup {None}] BY <1>1, <1>2, <1>3
<1> QED BY <1>4, <1>5, <1>6, <1>7

LEMMA LockInv ==
  ASSUME ConfInv, ~PowerSwitch, NEW t \in Threads, Lock(t)
  PROVE  ConfInv'
<1>0. op[t] # None /\ op[t].at = "release" /\ owner \in {None, t}
  BY DEF Lock, At, MayRun
<1>1. \A u \in Threads : ~InStore(u)
  BY <1>0, ConfAssumption DEF ConfInv, OwnerWrites, InStore
<1>2. call = {} BY <1>1, NobodyInStore
<1>3. op[t].area \in Areas /\ op[t].value \in Values /\ op[t].i = 1 /\ op[t].i \in Index(op[t].area)
  BY <1>0, OpFields DEF ConfInv, InRange
<1>4. /\ op' \in [Threads -> Op \cup {None}] /\ op'[t] # None
      /\ op'[t].at = "write" /\ op'[t].area = op[t].area /\ op'[t].value = op[t].value
      /\ op'[t].i = op[t].i /\ op'[t].ok = op[t].ok
      /\ \A u \in Threads : u # t => op'[u] = op[u]
  BY <1>0, OpMoves DEF Lock
<1>5. /\ tried' \in [Areas -> SUBSET (Values \cup {None})]
      /\ op[t].value \in tried'[op[t].area] /\ \A a \in Areas : tried[a] \subseteq tried'[a]
  BY <1>3 DEF Lock, ConfInv, ConfTypeOK
<1>6. UNCHANGED <<store, call, power, failed, may, last>> /\ owner' = t /\ power
  BY DEF Lock, nvVars, At, MayRun
<1>7. ConfTypeOK' BY <1>4, <1>5, <1>6 DEF ConfInv, ConfTypeOK
<1>8. \A u \in Threads : InStore(u)' => u = t BY <1>1, <1>4 DEF InStore
<1>9. OwnerWrites' BY <1>6, <1>8 DEF OwnerWrites
<1>10. InRange' BY <1>3, <1>4 DEF ConfInv, InRange
<1>11. CallIsOwners' BY <1>2, <1>4, <1>6, <1>8 DEF CallIsOwners
<1>12. WordsWritten'
  <2>1. \A j \in Index(op[t].area) : ~(j < 1) BY <1>3, AddrFacts DEF Index
  <2> QED BY <2>1, <1>3, <1>4, <1>5, <1>8 DEF WordsWritten
<1>13. OfStores'
  <2>1. \A a \in Areas : Seen(a) \subseteq Seen(a)' BY <1>5, <1>6 DEF Seen
  <2> QED BY <2>1, <1>6 DEF ConfInv, Contents, OfStores, Word
<1>14. InDoubt' /\ MayHold' BY <1>5, <1>6 DEF ConfInv, Contents, InDoubt, MayHold
<1>15. IdleUnpowered' BY <1>6 DEF IdleUnpowered
<1> QED BY <1>7, <1>9, <1>10, <1>11, <1>12, <1>13, <1>14, <1>15 DEF ConfInv, Contents

LEMMA TargetFacts ==
  ASSUME ConfInv, NEW t \in Threads, InStore(t)
  PROVE  /\ op[t] \in Op /\ op[t].area \in Areas /\ op[t].value \in Values
         /\ op[t].i \in Index(op[t].area) /\ op[t].i \in Nat
         /\ Target(t) \in Vars /\ Target(t) = Addr[op[t].area][op[t].i]
         /\ \A a \in Areas : \A j \in Index(a) :
              Addr[a][j] \in Vars /\ (Addr[a][j] = Target(t) <=> a = op[t].area /\ j = op[t].i)
<1>1. /\ op[t] \in Op /\ op[t].area \in Areas /\ op[t].value \in Values /\ op[t].i \in Nat
      /\ op[t].i \in Index(op[t].area)
  BY OpFields DEF ConfInv, InRange, InStore
<1> QED BY <1>1, AddrFacts DEF Target

LEMMA CallInv ==
  ASSUME ConfInv, NEW t \in Threads, Call(t)
  PROVE  ConfInv'
<1> DEFINE o == op[t]
<1>0. op[t] # None /\ op[t].at = "write" /\ InStore(t) BY DEF Call, At, InStore
<1>1. /\ op' \in [Threads -> Op \cup {None}] /\ op'[t] # None
      /\ op'[t].at = "call" /\ op'[t].area = op[t].area /\ op'[t].value = op[t].value
      /\ op'[t].i = op[t].i /\ op'[t].ok = op[t].ok
      /\ \A u \in Threads : u # t => op'[u] = op[u]
  BY <1>0, OpMoves DEF Call
<1>2. UNCHANGED <<store, power, failed, owner, last, tried>> /\ power BY DEF Call, history, At, MayRun
<1>3. call' = {Current(t)} BY <1>0, WriterAlone DEF Call
<1>4. Target(t)' = Target(t) /\ Current(t)' = Current(t) BY <1>1 DEF Current, Target
<1>5. \A u \in Threads : InStore(u)' <=> u = t BY <1>0, <1>1, WriterAlone DEF InStore
<1>A. Target(t) \in Vars /\ o.value \in Values BY <1>0, TargetFacts
<1>B. PICK b \in Areas, w \in Values : b = o.area /\ w = o.value BY <1>0, TargetFacts
<1>6. /\ may' \in [Vars -> SUBSET (Values \cup {None})]
      /\ \A x \in Vars : may'[x] = IF x = Target(t) THEN may[x] \cup {o.value} ELSE may[x]
  <2>1. may' = [may EXCEPT ![Target(t)] = may[Target(t)] \cup {o.value}] BY DEF Call
  <2>2. may \in [Vars -> SUBSET (Values \cup {None})] BY DEF ConfInv, ConfTypeOK
  <2> QED BY <2>1, <2>2, <1>A
<1>7. ConfTypeOK' BY <1>1, <1>2, <1>6 DEF ConfInv, ConfTypeOK
<1>8. OwnerWrites' BY <1>0, <1>2, <1>5, WriterAlone DEF OwnerWrites
<1>9. InRange' BY <1>0, <1>1 DEF ConfInv, InRange
<1>10. CallIsOwners' BY <1>1, <1>3, <1>4, <1>5 DEF CallIsOwners
<1>11. o.value \in tried[o.area] BY <1>0 DEF ConfInv, Contents, WordsWritten
<1>12. WordsWritten'
  <2>1. \A j \in Index(o.area) : j < o.i => Addr[o.area][j] \in Vars /\ Addr[o.area][j] # Target(t)
    BY <1>0, TargetFacts
  <2>2. \A j \in Index(b) : j < o.i => (Sure(b, j, w)' <=> Sure(b, j, w))
    BY <2>1, <1>2, <1>6, <1>B DEF Sure, Word
  <2>3. o.value \in may'[Target(t)] BY <1>0, <1>6, TargetFacts
  <2> QED BY <2>2, <2>3, <1>0, <1>1, <1>2, <1>4, <1>5, <1>B DEF ConfInv, Contents, WordsWritten
<1>13. OfStores'
  <2>1. ASSUME NEW a \in Areas, NEW j \in Index(a) PROVE may'[Addr[a][j]] \subseteq Seen(a)
    <3>1. may[Addr[a][j]] \subseteq Seen(a) /\ Addr[a][j] \in Vars
      BY AddrFacts DEF ConfInv, Contents, OfStores
    <3>2. Addr[a][j] = Target(t) => a = o.area BY <1>0, TargetFacts
    <3>3. a = o.area => o.value \in Seen(a) BY <1>11 DEF Seen
    <3> QED BY <3>1, <3>2, <3>3, <1>6
  <2> QED BY <2>1, <1>2 DEF ConfInv, Contents, OfStores, Word, Seen
<1>14. InDoubt' /\ MayHold' /\ IdleUnpowered'
  BY <1>2, <1>6 DEF ConfInv, Contents, InDoubt, MayHold, IdleUnpowered
<1> QED BY <1>7, <1>8, <1>9, <1>10, <1>12, <1>13, <1>14 DEF ConfInv, Contents

\* The half-word written is of a value that is being stored.
LEMMA EffectInv ==
  ASSUME ConfInv, NEW t \in Threads, Effect(t)
  PROVE  ConfInv'
<1> DEFINE o == op[t]
<1>0. op[t] # None /\ op[t].at = "call" /\ InStore(t) /\ power BY DEF Effect, At, InStore, MayRun
<1>1. o.area \in Areas /\ o.value \in Values /\ o.i \in Index(o.area) /\ Target(t) \in Vars
  BY <1>0, TargetFacts
<1>2. UNCHANGED <<call, power, failed, may, op, owner, last, tried>> BY DEF Effect, history
<1>4. store' = [store EXCEPT ![Target(t)] = o.value] BY DEF Effect
<1>5. \A a \in Areas : \A j \in Index(a) :
        Word(a, j)' = IF a = o.area /\ j = o.i THEN o.value ELSE Word(a, j)
  BY <1>0, <1>1, <1>4, TargetFacts DEF Word, ConfInv, ConfTypeOK
<1>6. ConfTypeOK' BY <1>1, <1>2, <1>4 DEF ConfInv, ConfTypeOK
<1>7. OwnerWrites' /\ InRange' /\ CallIsOwners' /\ IdleUnpowered'
  BY <1>2 DEF ConfInv, OwnerWrites, InRange, CallIsOwners, IdleUnpowered, InStore, Current, Target
<1>8. o.value \in tried[o.area] /\ o.value \in may[Target(t)]
  BY <1>0 DEF ConfInv, Contents, WordsWritten
<1>9. WordsWritten'
  <2>1. \A u \in Threads : InStore(u)' => u = t BY <1>0, <1>2, WriterAlone DEF InStore
  <2>2. \A j \in Index(o.area) : j < o.i => (Sure(o.area, j, o.value)' <=> Sure(o.area, j, o.value))
    BY <1>1, <1>2, <1>5 DEF Sure, Index
  <2> QED BY <2>1, <2>2, <1>0, <1>2, <1>8 DEF ConfInv, Contents, WordsWritten, Target
<1>10. OfStores'
  <2>1. o.value \in Seen(o.area) BY <1>8 DEF Seen
  <2> QED BY <2>1, <1>2, <1>5 DEF ConfInv, Contents, OfStores, Seen
<1>11. InDoubt' /\ MayHold'
  BY <1>1, <1>2, <1>4, <1>8 DEF ConfInv, ConfTypeOK, Contents, InDoubt, MayHold
<1> QED BY <1>6, <1>7, <1>9, <1>10, <1>11 DEF ConfInv, Contents

\* When the call returns, its half-word and those before it are written.
LEMMA ReturnInv ==
  ASSUME ConfInv, NEW t \in Threads, Return(t)
  PROVE  ConfInv'
<1> DEFINE o == op[t]
<1>0. op[t] # None /\ op[t].at = "call" /\ InStore(t) BY DEF Return, At, InStore
<1>1. o \in Op /\ o.area \in Areas /\ o.value \in Values /\ o.i \in Index(o.area) /\ o.i \in Nat
  BY <1>0, TargetFacts
<1>2. UNCHANGED <<store, power, failed, owner, last, tried>> /\ power
  BY DEF Return, history, At, MayRun
<1>3. ~failed => store[Target(t)] = o.value BY DEF Return
<1>4. op' = [op EXCEPT ![t] = NextWord(o)] BY DEF Return
<1>5. /\ op'[t] = NextWord(o) /\ \A u \in Threads : u # t => op'[u] = op[u]
  BY <1>4 DEF ConfInv, ConfTypeOK
<1>6. /\ NextWord(o) \in Op
      /\ NextWord(o).area = o.area /\ NextWord(o).value = o.value
      /\ \/ o.i = Len(Addr[o.area]) /\ NextWord(o).at = "unlock" /\ NextWord(o).i = o.i
         \/ o.i # Len(Addr[o.area]) /\ NextWord(o).at = "write" /\ NextWord(o).i = o.i + 1
  <2>1. PICK s \in {"release", "write", "call", "unlock"}, a \in Areas, v \in Values, n \in Nat,
             k \in BOOLEAN : o = [at |-> s, area |-> a, value |-> v, i |-> n, ok |-> k]
    BY <1>1 DEF Op
  <2>2. CASE n = Len(Addr[a])
    <3>1. NextWord(o) = [at |-> "unlock", area |-> a, value |-> v, i |-> n, ok |-> k]
      BY <2>1, <2>2 DEF NextWord
    <3> QED BY <2>1, <2>2, <3>1 DEF Op
  <2>3. CASE n # Len(Addr[a])
    <3> DEFINE w == [o EXCEPT !.at = "write", !.i = o.i + 1]
    <3>1. o.i = n /\ o.area = a /\ o.value = v BY <2>1
    <3>2. NextWord(o) = w BY <3>1, <2>3 DEF NextWord
    <3>3. \A p \in Op, m \in Nat :
            LET q == [p EXCEPT !.at = "write", !.i = m] IN
            q \in Op /\ q.at = "write" /\ q.area = p.area /\ q.value = p.value /\ q.i = m
      BY DEF Op
    <3>4. w \in Op /\ w.at = "write" /\ w.area = o.area /\ w.value = o.value /\ w.i = o.i + 1
      <4>1. o.i + 1 \in Nat
        <5>1. o.i \in Nat BY <1>1
        <5> QED BY <5>1
      <4> QED BY <1>1, <3>3, <4>1
    <3> HIDE DEF w
    <3> QED BY <2>3, <3>1, <3>2, <3>4
  <2> QED BY <2>2, <2>3
<1>7. op'[t] # None BY <1>5, <1>6, ConfAssumption
<1>8. call' = {} BY <1>0, WriterAlone DEF Return
<1>9. \A u \in Threads : InStore(u)' <=> u = t
  BY <1>0, <1>5, <1>6, <1>7, WriterAlone DEF InStore
<1>A. /\ may' \in [Vars -> SUBSET (Values \cup {None})]
      /\ \A x \in Vars : may'[x] = IF ~failed /\ x = Target(t) THEN {o.value} ELSE may[x]
  BY <1>0, TargetFacts DEF Return, ConfInv, ConfTypeOK
<1>10. ConfTypeOK' BY <1>2, <1>4, <1>6, <1>A DEF ConfInv, ConfTypeOK
<1>11. OwnerWrites' BY <1>0, <1>2, <1>9, WriterAlone DEF OwnerWrites
<1>12. InRange'
  <2>1. NextWord(o).i \in Index(o.area) BY <1>1, <1>6, AddrFacts DEF Index
  <2> QED BY <2>1, <1>5, <1>6 DEF ConfInv, InRange
<1>13. CallIsOwners' BY <1>5, <1>6, <1>8, <1>9 DEF CallIsOwners
<1>14. WordsWritten'
  <2>1. o.value \in tried[o.area] BY <1>0 DEF ConfInv, Contents, WordsWritten
  <2>A. PICK b \in Areas, w \in Values, k \in Nat :
          k \in Index(b) /\ b = o.area /\ w = o.value /\ k = o.i
    BY <1>1
  <2>2. ASSUME ~failed, NEW j \in Index(b), j < k PROVE Sure(b, j, w)'
    <3>1. Sure(b, j, w) BY <1>0, <2>2, <2>A DEF ConfInv, Contents, WordsWritten
    <3>2. Addr[b][j] \in Vars /\ Addr[b][j] # Target(t)
      <4>1. j # k BY <2>2 DEF Index
      <4> QED BY <1>0, <2>A, <4>1, TargetFacts
    <3> QED BY <3>1, <3>2, <1>2, <1>A DEF Sure, Word
  <2>3. ~failed => Sure(b, k, w)'
    <3>1. Addr[b][k] = Target(t) /\ Target(t) \in Vars BY <1>0, <2>A, TargetFacts
    <3> QED BY <3>1, <2>A, <1>2, <1>3, <1>A DEF Sure, Word
  <2>B. NextWord(o).at # "call" /\ NextWord(o).i \in {k, k + 1}
        /\ (NextWord(o).at = "unlock" => k = Len(Addr[b]))
    BY <2>A, <1>6
  <2>4. ~failed => \A j \in Index(b) : j < NextWord(o).i => Sure(b, j, w)'
    <3>1. \A j \in Index(b) : j < NextWord(o).i => j < k \/ j = k BY <2>B DEF Index
    <3> QED BY <3>1, <2>2, <2>3
  <2>5. ~failed /\ NextWord(o).at = "unlock" => \A j \in Index(b) : Sure(b, j, w)'
    <3>1. NextWord(o).at = "unlock" => \A j \in Index(b) : j < k \/ j = k
      BY <2>B, AddrFacts DEF Index
    <3> QED BY <3>1, <2>2, <2>3
  <2>6. op'[t].area = b /\ op'[t].value = w /\ op'[t] = NextWord(o) BY <1>5, <1>6, <2>A
  <2>7. w \in tried'[b] BY <2>1, <2>A, <1>2
  <2> HIDE DEF o
  <2> QED BY <2>4, <2>5, <2>6, <2>7, <2>B, <1>2, <1>9 DEF WordsWritten
<1>15. OfStores'
  <2>1. ASSUME NEW a \in Areas, NEW j \in Index(a) PROVE may'[Addr[a][j]] \subseteq Seen(a)
    <3>1. may[Addr[a][j]] \subseteq Seen(a) /\ Addr[a][j] \in Vars
      BY AddrFacts DEF ConfInv, Contents, OfStores
    <3>2. Addr[a][j] = Target(t) => a = o.area BY <1>0, TargetFacts
    <3>3. o.value \in Seen(o.area) BY <1>0 DEF Seen, ConfInv, Contents, WordsWritten
    <3> QED BY <3>1, <3>2, <3>3, <1>A
  <2> QED BY <2>1, <1>2 DEF ConfInv, Contents, OfStores, Word, Seen
<1>16. MayHold' BY <1>2, <1>3, <1>A DEF ConfInv, Contents, MayHold
<1>17. InDoubt' /\ IdleUnpowered' BY <1>2 DEF ConfInv, Contents, InDoubt, IdleUnpowered
<1> QED BY <1>10, <1>11, <1>12, <1>13, <1>14, <1>15, <1>16, <1>17 DEF ConfInv, Contents

\* What Doubt does: after an error every area may have lost its value.
LEMMA Doubted ==
  ASSUME ConfInv, Doubt
  PROVE  /\ tried' \in [Areas -> SUBSET (Values \cup {None})]
         /\ \A a \in Areas : tried[a] \subseteq tried'[a] /\ (failed' => None \in tried'[a])
BY DEF ConfInv, ConfTypeOK, Doubt

LEMMA ErrorInv ==
  ASSUME ConfInv, NEW t \in Threads, Error(t)
  PROVE  ConfInv'
<1> DEFINE o == op[t]
<1>0. op[t] # None /\ op[t].at = "call" /\ InStore(t) BY DEF Error, At, InStore
<1>1. o \in Op BY <1>0, OpFields DEF ConfInv
<1>2. UNCHANGED <<store, power, may, owner, last>> /\ power /\ failed' = TRUE
  BY DEF Error, At, MayRun
<1>A. /\ tried' \in [Areas -> SUBSET (Values \cup {None})]
      /\ \A a \in Areas : tried[a] \subseteq tried'[a] /\ None \in tried'[a]
  BY <1>2, Doubted DEF Error
<1>3. op'[t] = [o EXCEPT !.at = "unlock", !.ok = FALSE] /\ \A u \in Threads : u # t => op'[u] = op[u]
  BY DEF Error, ConfInv, ConfTypeOK
<1>4. /\ op'[t] \in Op /\ op'[t].at = "unlock" /\ op'[t].ok = FALSE
      /\ op'[t].area = o.area /\ op'[t].value = o.value /\ op'[t].i = o.i
  BY <1>1, <1>3 DEF Op
<1>5. op' \in [Threads -> Op \cup {None}]
  BY <1>3, <1>4 DEF Error, ConfInv, ConfTypeOK
<1>6. op'[t] # None BY <1>4, ConfAssumption
<1>7. call' = {} BY <1>0, WriterAlone DEF Error
<1>8. \A u \in Threads : InStore(u)' <=> u = t
  BY <1>0, <1>3, <1>4, <1>6, WriterAlone DEF InStore
<1>9. ConfTypeOK' BY <1>2, <1>5, <1>A DEF ConfInv, ConfTypeOK
<1>10. OwnerWrites' BY <1>0, <1>2, <1>8, WriterAlone DEF OwnerWrites
<1>11. InRange' BY <1>0, <1>3, <1>4 DEF ConfInv, InRange
<1>12. CallIsOwners' BY <1>4, <1>7, <1>8 DEF CallIsOwners
<1>13. WordsWritten'
  <2>1. o.area \in Areas /\ o.value \in tried[o.area]
    BY <1>0, TargetFacts DEF ConfInv, Contents, WordsWritten
  <2> QED BY <2>1, <1>2, <1>4, <1>8, <1>A DEF WordsWritten
<1>14. OfStores'
  <2>1. \A a \in Areas : Seen(a) \subseteq Seen(a)' BY <1>2, <1>A DEF Seen
  <2> QED BY <2>1, <1>2 DEF ConfInv, Contents, OfStores, Word
<1>15. InDoubt' /\ MayHold' /\ IdleUnpowered'
  BY <1>2, <1>A DEF ConfInv, Contents, InDoubt, MayHold, IdleUnpowered
<1> QED BY <1>9, <1>10, <1>11, <1>12, <1>13, <1>14, <1>15 DEF ConfInv, Contents

\* A store that ends well leaves an area of one value.
LEMMA UnlockInv ==
  ASSUME ConfInv, NEW t \in Threads, Unlock(t)
  PROVE  ConfInv'
<1> DEFINE o == op[t]
<1>0. op[t] # None /\ op[t].at = "unlock" /\ InStore(t) BY DEF Unlock, At, InStore
<1>1. o.area \in Areas /\ o.value \in Values /\ o.ok \in BOOLEAN BY <1>0, OpFields DEF ConfInv
<1>2. UNCHANGED <<store, call, power, failed, may>> /\ owner' = None /\ power
  BY DEF Unlock, nvVars, At, MayRun
<1>3. op' \in [Threads -> Op \cup {None}] /\ op'[t] = None /\ \A u \in Threads : u # t => op'[u] = op[u]
  BY DEF Unlock, ConfInv, ConfTypeOK
<1>4. call = {} BY <1>0, WriterAlone
<1>5. \A u \in Threads : ~InStore(u)' BY <1>0, <1>3, WriterAlone DEF InStore
<1>6. last' \in [Areas -> Values \cup {None}] /\ tried' \in [Areas -> SUBSET (Values \cup {None})]
  BY <1>1 DEF Unlock, history, ConfInv, ConfTypeOK
<1>7. ConfTypeOK' BY <1>2, <1>3, <1>6 DEF ConfInv, ConfTypeOK
<1>8. OwnerWrites' /\ CallIsOwners' /\ WordsWritten' /\ IdleUnpowered'
  BY <1>2, <1>4, <1>5 DEF OwnerWrites, CallIsOwners, WordsWritten, IdleUnpowered
<1>9. InRange' BY <1>3 DEF ConfInv, InRange
<1>10. OfStores'
  <2>1. CASE o.ok /\ ~failed
    <3>0. PICK b \in Areas, w \in Values : b = o.area /\ w = o.value BY <1>1
    <3>1. \A j \in Index(b) : Sure(b, j, w)
      BY <2>1, <3>0, <1>0 DEF ConfInv, Contents, WordsWritten
    <3>2. last' = [last EXCEPT ![b] = w] /\ tried' = [tried EXCEPT ![b] = {}]
      BY <2>1, <3>0 DEF Unlock
    <3>3. Seen(b)' = {w} /\ \A a \in Areas : a # b => Seen(a)' = Seen(a)
      BY <3>2 DEF ConfInv, ConfTypeOK, Seen
    <3> QED BY <3>1, <3>3, <1>2 DEF ConfInv, Contents, OfStores, Sure, Word
  <2>2. CASE ~(o.ok /\ ~failed)
    BY <2>2, <1>2 DEF Unlock, history, ConfInv, Contents, OfStores, Word, Seen
  <2> QED BY <2>1, <2>2, <1>1
<1>11. InDoubt' /\ MayHold'
  <2>1. failed => tried' = tried BY DEF Unlock, history
  <2> QED BY <2>1, <1>2 DEF ConfInv, Contents, InDoubt, MayHold
<1> QED BY <1>7, <1>8, <1>9, <1>10, <1>11 DEF ConfInv, Contents

LEMMA BeginInv ==
  ASSUME ConfInv, NEW t \in Threads, NEW a \in Areas, NEW v \in Values, Begin(t, a, v)
  PROVE  ConfInv'
<1> DEFINE o == [at |-> "release", area |-> a, value |-> v, i |-> 1, ok |-> TRUE]
<1>1. UNCHANGED <<store, call, power, failed, may, owner, last, tried>> /\ power
  BY DEF Begin, nvVars, history, MayRun
<1>2. op'[t] = o /\ o \in Op /\ \A u \in Threads : u # t => op'[u] = op[u]
  BY DEF Begin, ConfInv, ConfTypeOK, Op
<1>3. op' \in [Threads -> Op \cup {None}] BY <1>2 DEF Begin, ConfInv, ConfTypeOK
<1>4. op[t] = None BY DEF Begin
<1>5. \A u \in Threads : InStore(u)' = InStore(u) BY <1>2, <1>4 DEF InStore
<1>6. ~InStore(t) BY <1>4 DEF InStore
<1>7. ConfTypeOK' BY <1>1, <1>3 DEF ConfInv, ConfTypeOK
<1>8. OwnerWrites' BY <1>1, <1>5 DEF ConfInv, OwnerWrites
<1>9. InRange' BY <1>2, AddrFacts DEF ConfInv, InRange
<1>10. CallIsOwners' BY <1>1, <1>2, <1>5, <1>6 DEF ConfInv, CallIsOwners, Current, Target
<1>11. WordsWritten'
  BY <1>1, <1>2, <1>5, <1>6 DEF ConfInv, Contents, WordsWritten, Sure, Word, Target
<1>12. OfStores' /\ InDoubt' /\ MayHold' /\ IdleUnpowered'
  BY <1>1 DEF ConfInv, Contents, OfStores, InDoubt, MayHold, IdleUnpowered, Word, Seen
<1> QED BY <1>7, <1>8, <1>9, <1>10, <1>11, <1>12 DEF ConfInv, Contents

LEMMA NotReleasedInv ==
  ASSUME ConfInv, NEW t \in Threads, NotReleased(t)
  PROVE  ConfInv'
<1>1. UNCHANGED <<store, call, power, failed, may, owner, last, tried>> /\ power
  BY DEF NotReleased, nvVars, history, At, MayRun
<1>2. op' \in [Threads -> Op \cup {None}] /\ op'[t] = None /\ \A u \in Threads : u # t => op'[u] = op[u]
  BY DEF NotReleased, ConfInv, ConfTypeOK
<1>3. ~InStore(t) BY DEF NotReleased, At, InStore
<1>4. \A u \in Threads : InStore(u)' = InStore(u) BY <1>2, <1>3 DEF InStore
<1>7. ConfTypeOK' BY <1>1, <1>2 DEF ConfInv, ConfTypeOK
<1>8. OwnerWrites' BY <1>1, <1>4 DEF ConfInv, OwnerWrites
<1>9. InRange' BY <1>2 DEF ConfInv, InRange
<1>10. CallIsOwners' BY <1>1, <1>2, <1>3, <1>4 DEF ConfInv, CallIsOwners, Current, Target
<1>11. WordsWritten'
  BY <1>1, <1>2, <1>3, <1>4 DEF ConfInv, Contents, WordsWritten, Sure, Word, Target
<1>12. OfStores' /\ InDoubt' /\ MayHold' /\ IdleUnpowered'
  BY <1>1 DEF ConfInv, Contents, OfStores, InDoubt, MayHold, IdleUnpowered, Word, Seen
<1> QED BY <1>7, <1>8, <1>9, <1>10, <1>11, <1>12 DEF ConfInv, Contents

\* A page swap drops what is not listed; nobody relies on it.
LEMMA DropInv ==
  ASSUME ConfInv, Drop
  PROVE  ConfInv'
<1>1. UNCHANGED <<call, power, failed, may, op, owner, last, tried>> BY DEF Drop, history
<1>2. /\ store' \in [Vars -> Values \cup {None}]
      /\ \A v \in Vars : store'[v] = IF v \in Kept THEN store[v] ELSE None
  BY DEF Drop, ConfInv, ConfTypeOK
<1>3. \A a \in Areas : \A j \in Index(a) :
        Word(a, j)' = Word(a, j) \/ Word(a, j)' \in Dropped(Addr[a][j])
  BY <1>2, AddrFacts DEF Word, Dropped
<1>4. ConfTypeOK' BY <1>1, <1>2 DEF ConfInv, ConfTypeOK
<1>5. OwnerWrites' /\ InRange' /\ CallIsOwners' /\ IdleUnpowered'
  BY <1>1 DEF ConfInv, OwnerWrites, InRange, CallIsOwners, IdleUnpowered, InStore, Current, Target
<1>6. \A a \in Areas : \A j \in Index(a), v \in Values : Sure(a, j, v) => Sure(a, j, v)'
  BY <1>1, <1>3 DEF Sure
<1>7. WordsWritten'
  <2>1. \A t \in Threads : InStore(t) => op[t].area \in Areas /\ op[t].value \in Values
    BY TargetFacts
  <2> QED BY <2>1, <1>1, <1>6 DEF ConfInv, Contents, WordsWritten, InStore, Target
<1>8. OfStores' BY <1>1, <1>3 DEF ConfInv, Contents, OfStores, Seen
<1>9. InDoubt' /\ MayHold' BY <1>1, <1>2 DEF ConfInv, Contents, InDoubt, MayHold
<1> QED BY <1>4, <1>5, <1>7, <1>8, <1>9 DEF ConfInv, Contents

LEMMA ShiftInv ==
  ASSUME ConfInv, NEW x \in Vars, Shift(x)
  PROVE  ConfInv'
<1>1. UNCHANGED <<call, power, failed, may, op, owner, last, tried>> /\ failed BY DEF Shift, history
<1>2. PICK d \in may[x] \cup {None} : store' = [store EXCEPT ![x] = d] BY DEF Shift
<1>3. /\ store' \in [Vars -> Values \cup {None}]
      /\ \A v \in Vars : store'[v] = IF v = x THEN d ELSE store[v]
  BY <1>2 DEF ConfInv, ConfTypeOK
<1>4. ConfTypeOK' BY <1>1, <1>3 DEF ConfInv, ConfTypeOK
<1>5. OwnerWrites' /\ InRange' /\ CallIsOwners' /\ IdleUnpowered'
  BY <1>1 DEF ConfInv, OwnerWrites, InRange, CallIsOwners, IdleUnpowered, InStore, Current, Target
<1>6. WordsWritten' BY <1>1 DEF ConfInv, Contents, WordsWritten, InStore, Target
<1>7. OfStores'
  <2>1. ASSUME NEW a \in Areas, NEW j \in Index(a)
        PROVE  Word(a, j)' \in Seen(a) \cup Dropped(Addr[a][j])
    <3>1. /\ Addr[a][j] \in Vars /\ may[Addr[a][j]] \subseteq Seen(a)
          /\ Word(a, j) \in Seen(a) \cup Dropped(Addr[a][j])
      BY AddrFacts DEF ConfInv, Contents, OfStores
    <3>2. None \in Seen(a) BY <1>1 DEF ConfInv, Contents, InDoubt, Seen
    <3> QED BY <3>1, <3>2, <1>2, <1>3 DEF Word
  <2> QED BY <2>1, <1>1 DEF ConfInv, Contents, OfStores, Seen
<1>8. InDoubt' /\ MayHold' BY <1>1, <1>2, <1>3 DEF ConfInv, Contents, InDoubt, MayHold
<1> QED BY <1>4, <1>5, <1>6, <1>7, <1>8 DEF ConfInv, Contents

LEMMA PowerOnInv ==
  ASSUME ConfInv, PowerOn
  PROVE  ConfInv'
<1>1. UNCHANGED <<store, call, op, owner, last>> /\ power' = TRUE BY DEF PowerOn
<1>2. \A t \in Threads : op[t] = None BY DEF PowerOn, ConfInv, IdleUnpowered
<1>3. /\ tried' \in [Areas -> SUBSET (Values \cup {None})]
      /\ \A a \in Areas : tried[a] \subseteq tried'[a] /\ (failed' => None \in tried'[a])
  BY Doubted DEF PowerOn
<1>4. /\ may' \in [Vars -> SUBSET (Values \cup {None})] /\ failed' \in BOOLEAN
      /\ \A v \in Vars : may[v] \subseteq may'[v]
                        /\ may'[v] \subseteq may[v] \cup IF failed THEN {None} ELSE {}
  BY DEF PowerOn, Nv!Settles, ConfInv, ConfTypeOK
<1>5. ConfTypeOK' BY <1>1, <1>3, <1>4 DEF ConfInv, ConfTypeOK
<1>6. OwnerWrites' /\ InRange' /\ CallIsOwners' /\ IdleUnpowered' /\ WordsWritten'
  BY <1>1, <1>2
  DEF ConfInv, OwnerWrites, InRange, CallIsOwners, IdleUnpowered, WordsWritten, InStore
<1>7. OfStores'
  <2>1. \A a \in Areas : Seen(a) \subseteq Seen(a)' BY <1>1, <1>3 DEF Seen
  <2>2. \A a \in Areas : failed => None \in Seen(a) BY DEF ConfInv, Contents, InDoubt, Seen
  <2>3. ASSUME NEW a \in Areas, NEW j \in Index(a) PROVE may'[Addr[a][j]] \subseteq Seen(a)'
    <3>1. Addr[a][j] \in Vars /\ may[Addr[a][j]] \subseteq Seen(a)
      BY AddrFacts DEF ConfInv, Contents, OfStores
    <3> QED BY <3>1, <2>1, <2>2, <1>4
  <2> QED BY <2>1, <2>3, <1>1 DEF ConfInv, Contents, OfStores, Word
<1>8. InDoubt' /\ MayHold' BY <1>1, <1>3, <1>4 DEF ConfInv, Contents, InDoubt, MayHold
<1> QED BY <1>5, <1>6, <1>7, <1>8 DEF ConfInv, Contents

LEMMA ConfStep ==
  ASSUME ~PowerSwitch
  PROVE  ConfInv /\ [Next]_vars => ConfInv'
<1> SUFFICES ASSUME ConfInv, [Next]_vars PROVE ConfInv'
  OBVIOUS
<1>1. ASSUME NEW t \in Threads, Step(t) PROVE ConfInv'
  BY <1>1, NotReleasedInv, LockInv, CallInv, EffectInv, ReturnInv, ErrorInv, UnlockInv DEF Step
<1>2. ASSUME NEW t \in Threads, NEW a \in Areas, NEW v \in Values, Begin(t, a, v) PROVE ConfInv'
  BY <1>2, BeginInv
<1>3. CASE PowerOff
  <2>1. \A u \in Threads : op'[u] = None BY <1>3 DEF PowerOff
  <2>2. UNCHANGED <<store, failed, may, last, tried>> /\ power' = FALSE /\ call' = {} /\ owner' = None
    BY <1>3 DEF PowerOff, history
  <2>3. OfStores' /\ InDoubt' /\ MayHold'
    BY <2>2 DEF ConfInv, Contents, OfStores, InDoubt, MayHold, Word, Seen
  <2>4. ConfTypeOK' BY <1>3, <2>2 DEF PowerOff, ConfInv, ConfTypeOK
  <2> QED
    BY <2>1, <2>2, <2>3, <2>4
    DEF ConfInv, Contents, OwnerWrites, InRange, CallIsOwners, IdleUnpowered, WordsWritten, InStore
<1>4. CASE UNCHANGED vars
  <2>1. UNCHANGED <<store, call, power, failed, may, op, owner, last, tried>>
    BY <1>4 DEF vars, nvVars, history
  <2>2. ConfTypeOK' /\ OwnerWrites' /\ InRange' /\ CallIsOwners' /\ IdleUnpowered'
    BY <2>1 DEF ConfInv, ConfTypeOK, OwnerWrites, InRange, CallIsOwners, IdleUnpowered, InStore,
                Current, Target
  <2>3. Contents'
    BY <2>1 DEF ConfInv, Contents, WordsWritten, OfStores, InDoubt, MayHold, InStore, Sure, Word,
                Seen, Target
  <2> QED BY <2>2, <2>3 DEF ConfInv
<1>5. CASE PowerOn \/ Drop BY <1>5, PowerOnInv, DropInv
<1>6. ASSUME NEW x \in Vars, Shift(x) PROVE ConfInv' BY <1>6, ShiftInv
<1> QED BY <1>1, <1>2, <1>3, <1>4, <1>5, <1>6 DEF Next

LEMMA ConfInvariant == ASSUME ~PowerSwitch PROVE Spec => []ConfInv
BY ConfInit, ConfStep, PTL DEF Spec

(***************************************************************************)
(* What the stores promise.  All of it is for hardware without a power     *)
(* switch, where utils_sys_lock_cnt stops the other threads.               *)
(***************************************************************************)
LEMMA ReadOfWhole ==
  ASSUME ConfInv, NEW a \in Areas
  PROVE  /\ Listed(a) /\ tried[a] = {} => ReadOf(a) = last[a]
         /\ a \in Checked \/ tried[a] \subseteq {None} => ReadOf(a) \in {None, last[a]} \cup tried[a]
<1>0. DOMAIN Addr[a] = Index(a) /\ 1 \in Index(a) BY AddrFacts
<1>1. ASSUME Listed(a), tried[a] = {} PROVE ReadOf(a) = last[a]
  <2>1. \A j \in Index(a) : Word(a, j) = last[a]
    BY <1>0, <1>1 DEF ConfInv, Contents, OfStores, Seen, Listed, Dropped
  <2>2. Whole(a) /\ Word(a, 1) = last[a] BY <2>1, <1>0 DEF Whole
  <2>3. Missing(a) => last[a] = None BY <2>1, <1>0 DEF Missing
  <2> QED BY <2>2, <2>3 DEF ReadOf, Mixture
<1>2. ASSUME a \in Checked PROVE ReadOf(a) \in {None, last[a]} \cup tried[a]
  <2>1. Word(a, 1) \in {None, last[a]} \cup tried[a]
    BY <1>0 DEF ConfInv, Contents, OfStores, Seen, Dropped
  <2> QED BY <2>1, <1>2 DEF ReadOf, Mixture
<1>3. ASSUME tried[a] \subseteq {None} PROVE ReadOf(a) \in {None, last[a]} \cup tried[a]
  <2>1. \A j \in Index(a) : Word(a, j) \in {None, last[a]}
    BY <1>3 DEF ConfInv, Contents, OfStores, Seen, Dropped
  <2>2. CASE Missing(a) BY <2>2 DEF ReadOf
  <2>3. CASE ~Missing(a)
    <3>1. \A j \in Index(a) : Word(a, j) = last[a] BY <2>1, <2>3, <1>0 DEF Missing
    <3>2. Whole(a) /\ Word(a, 1) = last[a] BY <3>1, <1>0 DEF Whole
    <3> QED BY <2>3, <3>2 DEF ReadOf, Mixture
  <2> QED BY <2>2, <2>3
<1> QED BY <1>1, <1>2, <1>3

\* A value stored with success is read back, across power losses and whatever
\* other threads store, or fail to store, in other areas, as long as it is listed in
\* VirtAddVarTab and no flash operation has failed since.
THEOREM StoresSurvive == ASSUME ~PowerSwitch PROVE Spec => []StoredSurvives
<1>1. ConfInv => StoredSurvives BY ReadOfWhole DEF StoredSurvives
<1> QED BY <1>1, ConfInvariant, PTL

\* A configuration with a CRC is read as one that was stored or as defaults,
\* never as a mixture, whatever calls, boots and stores have failed.
THEOREM ReadsAreWhole == ASSUME ~PowerSwitch PROVE Spec => []ReadsAsStored
<1>1. ConfInv => ReadsAsStored BY ReadOfWhole DEF ReadsAsStored
<1> QED BY <1>1, ConfInvariant, PTL

\* After an error the map promises no more than MayHold says.
LEMMA NvStays ==
  ASSUME ConfInv, ConfInv', UNCHANGED store
  PROVE  Nv!Stays
<1>1. Nv!Shifts BY DEF ConfInv, ConfTypeOK, Contents, MayHold, Nv!Shifts
<1> QED BY <1>1 DEF Nv!Stays

\* The stores use the EEPROM as it has to be used: one call at a time and none
\* without power.
THEOREM StoresUseNvMap == ASSUME ~PowerSwitch PROVE Spec => UsesNvMap
<1>1. Init => Nv!Init BY DEF Init
<1>2. ConfInv /\ [Next]_vars => [Nv!Next]_nvVars
  <2> SUFFICES ASSUME ConfInv, Next PROVE Nv!Next \/ UNCHANGED nvVars
    BY DEF vars
  <2>0. ConfInv' BY ConfStep
  <2>A. UNCHANGED store => Nv!Stays BY <2>0, NvStays
  <2>B. ASSUME NEW t \in Threads, InStore(t)
        PROVE  Target(t) \in Vars /\ op[t].value \in Values
    BY <2>B, TargetFacts
  <2>1. ASSUME NEW t \in Threads, Call(t) PROVE Nv!Next
    <3>1. call = {} /\ power /\ InStore(t) BY <2>1, WriterAlone DEF Call, At, MayRun, InStore
    <3>2. Nv!Begin(Target(t), op[t].value)
      BY <3>1, <2>1, <2>A DEF Call, Nv!Begin, Current
    <3> QED BY <3>1, <3>2, <2>B DEF Nv!Next
  <2>2. ASSUME NEW t \in Threads, Effect(t) PROVE Nv!Next
    <3>1. call = {Current(t)} /\ InStore(t) BY <2>2, WriterAlone DEF Effect, At, InStore
    <3>2. Nv!Commit(Target(t), op[t].value)
      BY <3>1, <2>2 DEF Effect, Nv!Commit, Current
    <3> QED BY <3>1, <3>2, <2>B DEF Nv!Next
  <2>3. ASSUME NEW t \in Threads, Return(t) PROVE Nv!Next
    <3>1. call = {Current(t)} /\ power /\ InStore(t)
      BY <2>3, WriterAlone DEF Return, At, MayRun, InStore
    <3>2. Nv!Return(Target(t), op[t].value)
      BY <3>1, <2>3, <2>A DEF Return, Nv!Return, Current
    <3> QED BY <3>1, <3>2, <2>B DEF Nv!Next
  <2>4. ASSUME NEW t \in Threads, Error(t) PROVE Nv!Next
    <3>1. call = {Current(t)} /\ power BY <2>4, WriterAlone DEF Error, At, MayRun, InStore
    <3>2. Nv!Fail BY <3>1, <2>4, <2>A DEF Error, Nv!Fail
    <3> QED BY <3>2 DEF Nv!Next
  <2>5. ASSUME NEW t \in Threads, NotReleased(t) \/ Lock(t) \/ Unlock(t) PROVE UNCHANGED nvVars
    BY <2>5 DEF NotReleased, Lock, Unlock
  <2>6. ASSUME NEW t \in Threads, NEW a \in Areas, NEW v \in Values, Begin(t, a, v)
        PROVE  UNCHANGED nvVars
    BY <2>6 DEF Begin
  <2>7. CASE PowerOff BY <2>7, <2>A DEF PowerOff, Nv!Next, Nv!PowerOff
  <2>8. CASE PowerOn BY <2>8, <2>A DEF PowerOn, Nv!Next, Nv!PowerOn
  <2>9. CASE Drop
    <3>1. Nv!Drop(Vars \ Kept) BY <2>9 DEF Drop, Nv!Drop
    <3> QED BY <3>1 DEF Nv!Next
  <2>10. ASSUME NEW x \in Vars, Shift(x) PROVE Nv!Next
    <3>1. UNCHANGED <<call, power, failed, may>> /\ failed BY <2>10 DEF Shift
    <3>2. Nv!Shifts BY <2>0 DEF ConfInv, ConfTypeOK, Contents, MayHold, Nv!Shifts
    <3> QED BY <3>1, <3>2 DEF Nv!Next, Nv!Shift
  <2> QED BY <2>1, <2>2, <2>3, <2>4, <2>5, <2>6, <2>7, <2>8, <2>9, <2>10 DEF Next, Step
<1> QED BY <1>1, <1>2, ConfInvariant, PTL DEF Spec, UsesNvMap
============================================================================
