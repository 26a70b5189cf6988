---------------------------- MODULE RecordsProofs ----------------------------
(***************************************************************************)
(* What TLAPS proves of the claims on a card (Claims.tla: one driver and   *)
(* atomic updates until a lock is broken), of the ladder of a terminal     *)
(* (Ladder.tla and Settings.tla: a terminal walks what it was given, and   *)
(* lands only where its settings allow), and of the parts of MCRecords:    *)
(* the page of conversations (HistoryCell.tla), the portable harness       *)
(* (Harness.tla), the checkouts and the list of them (Worktrees.tla,       *)
(* Checkouts.tla) and the index of conversations (History.tla); for any    *)
(* processes, ladders, readings, conversations, cards and repositories.    *)
(* They share no variable; they share the lemmas on least elements and on  *)
(* positions in a sequence, and one module keeps those in one place.       *)
(***************************************************************************)
EXTENDS MCRecords, Claims, Ladder, FiniteSetTheorems, SequenceTheorems, WellFoundedInduction, TLAPS

-----------------------------------------------------------------------------
(* Claims: the inductive invariant.                                        *)


LEMMA InitIInv == Init => IInv
<1> SUFFICES ASSUME Init PROVE IInv
  OBVIOUS
<1>1. TypeOK
  <2>1. 0 \in 0 .. Tries /\ 0 \in 0 .. Attempts /\ 0 \in 0 .. MaxStalls
    BY BoundsAssumption
  <2>2. QED
    BY <2>1 DEF Init, TypeOK
<1>2. ClaimInv /\ LockInv /\ LogInv
  BY DEF Init, ClaimInv, LockInv, LogInv, Drives, Inside, Outside, Claiming
<1>3. QED
  BY <1>1, <1>2 DEF IInv

\* A step of claimDriver, releaseDriver or around them keeps every part.
LEMMA ClaimStepKeeps ==
  ASSUME IInv, NEW p \in Procs, ClaimStep(p)
  PROVE  IInv'
<1> USE ProcsAssumption, BoundsAssumption
<1>1. TypeOK'
  <2>1. pc' \in [Procs -> {"idle"} \cup Claiming \cup Updating]
    BY SMTT(30) DEF IInv, TypeOK, ClaimStep, Start, Create, WritePid, Refuse, LookAtPid, LookAgain,
           LookGone, LookStalled, Evict, LetGo, Release, Goto, Claiming
  <2>2. /\ alive' \subseteq Procs /\ claim' \in Procs \cup {"none"}
        /\ judged' \in [Procs -> Procs \cup {"none"}]
    BY SMTT(30) DEF IInv, TypeOK, ClaimStep, Start, Create, WritePid, Refuse, LookAtPid, LookAgain,
           LookGone, LookStalled, Evict, LetGo, Release, Judge, claiming
  <2>3. written' \in BOOLEAN /\ robbed' \in BOOLEAN
    <3>1. CASE WritePid(p) \/ Evict(p) \/ LookStalled(p)
      BY <3>1, Zenon DEF IInv, TypeOK, WritePid, Evict, LookStalled
    <3>2. CASE ~(WritePid(p) \/ Evict(p) \/ LookStalled(p))
      BY <3>2 DEF IInv, TypeOK, ClaimStep, Start, Create, Refuse, LookAtPid, LookAgain,
                  LookGone, LetGo, Release, claiming
    <3>3. QED
      BY <3>1, <3>2
  <2>4. tries' \in [Procs -> 0 .. Tries] /\ starts' \in [Procs -> 0 .. Attempts]
    BY DEF IInv, TypeOK, ClaimStep, Start, Create, WritePid, Refuse, LookAtPid, LookAgain,
           LookGone, LookStalled, Evict, LetGo, Release, claiming
  <2>5. /\ stalls' \in 0 .. MaxStalls /\ UNCHANGED <<lock, old, fd, torn, card, seen, log>>
    BY DEF IInv, TypeOK, ClaimStep, Start, Create, WritePid, Refuse, LookAtPid, LookAgain,
           LookGone, LookStalled, Evict, LetGo, Release, locking, data
  <2>6. QED
    BY <2>1, <2>2, <2>3, <2>4, <2>5 DEF IInv, TypeOK
<1>2. ClaimInv'
  <2>1. CASE Start(p) \/ Refuse(p) \/ LookAgain(p) \/ LetGo(p)
    BY <2>1 DEF IInv, TypeOK, ClaimInv, Start, Refuse, LookAgain, LetGo, At, Goto, claiming,
                Drives, Outside, Claiming
  <2>2. CASE Create(p)
    BY <2>2 DEF IInv, TypeOK, ClaimInv, Create, At, Goto, Drives, Outside, Claiming
  <2>3. CASE WritePid(p)
    BY <2>3 DEF IInv, TypeOK, ClaimInv, WritePid, At, Goto, Drives, Outside, Claiming
  <2>4. CASE LookAtPid(p) \/ LookGone(p)
    BY <2>4 DEF IInv, TypeOK, ClaimInv, LookAtPid, LookGone, At, Goto, Judge, claiming, Drives,
                Outside, Claiming
  <2>5. CASE LookStalled(p)
    BY <2>5 DEF IInv, TypeOK, LookStalled, ClaimInv, At, Goto, Claiming
  <2>6. CASE Evict(p)
    <3>1. \A q \in Procs \ Drivers : pc'[q] \notin Claiming
      BY <2>6 DEF IInv, TypeOK, ClaimInv, Evict, At, Goto, Claiming
    <3>2. ASSUME ~robbed' PROVE \A q \in alive' : ~Drives(q)'
      <4>1. ~robbed /\ claim \in {"none", judged[p]} /\ judged[p] \notin alive /\ p \in alive
        BY <2>6, <3>2 DEF IInv, TypeOK, ClaimInv, Evict, At
      <4>2. \A q \in alive : ~Drives(q)
        BY <4>1 DEF IInv, TypeOK, ClaimInv
      <4>3. QED
        BY <2>6, <4>2 DEF IInv, TypeOK, Evict, Goto, Drives, Outside
    <3>3. ASSUME ~robbed' PROVE \A q \in alive' : pc'[q] = "evict" => judged'[q] \notin alive'
      BY <2>6, <3>3 DEF IInv, TypeOK, ClaimInv, Evict, At, Goto
    <3>4. QED
      BY <3>1, <3>2, <3>3 DEF ClaimInv
  <2>7. CASE Release(p)
    BY <2>7 DEF IInv, TypeOK, ClaimInv, Release, At, Goto, Drives, Outside, Claiming
  <2>8. QED
    BY <2>1, <2>2, <2>3, <2>4, <2>5, <2>6, <2>7 DEF ClaimStep
<1>3. /\ UNCHANGED <<alive, lock, old, fd, torn, card, seen, log>>
      /\ pc[p] \notin {"read", "write", "close", "append", "steal"} /\ pc' = [pc EXCEPT ![p] = pc'[p]]
      /\ pc'[p] \notin {"read", "write", "close", "append", "steal"}
      /\ \A q \in Procs \ {p} : judged'[q] = judged[q]
  BY DEF IInv, TypeOK, ClaimStep, Start, Create, WritePid, Refuse, LookAtPid, LookAgain,
         LookGone, LookStalled, Evict, LetGo, Release, At, Goto, Judge, locking, data, claiming
<1>4. LockInv'
  BY <1>3 DEF IInv, TypeOK, LockInv, Inside
<1>5. LogInv'
  <2>1. \A q \in Procs : Wrote(q)' <=> Wrote(q)
    BY <1>3 DEF IInv, TypeOK, Wrote
  <2>2. \A q \in Procs : pc'[q] \in {"close", "append"} <=> pc[q] \in {"close", "append"}
    BY <1>3 DEF IInv, TypeOK
  <2>3. QED
    BY <1>3, <2>1, <2>2 DEF IInv, TypeOK, LogInv
<1>6. QED
  BY <1>1, <1>2, <1>4, <1>5 DEF IInv

\* A step of a locked update keeps every part.
LEMMA LockStepKeeps ==
  ASSUME IInv, NEW p \in Procs, LockStep(p)
  PROVE  IInv'
<1> USE ProcsAssumption, BoundsAssumption
<1>1. TypeOK'
  <2>1. pc' \in [Procs -> {"idle"} \cup Claiming \cup Updating]
    BY DEF IInv, TypeOK, LockStep, Begin, Open, Stat, Steal, GiveUp, Read, Write, Close,
           AppendEvent, Goto, Claiming, Updating
  <2>2. /\ alive' \subseteq Procs /\ lock' \in Procs \cup {"none"} /\ fd' \subseteq Procs
        /\ judged' \in [Procs -> Procs \cup {"none"}]
        /\ old' \in BOOLEAN /\ torn' \in BOOLEAN
    BY DEF IInv, TypeOK, LockStep, Begin, Open, Stat, Steal, GiveUp, Read, Write, Close,
           AppendEvent, Judge, locking
  <2>3. card' \subseteq Procs /\ log' \subseteq Procs /\ seen' \in [Procs -> SUBSET Procs]
    BY DEF IInv, TypeOK, LockStep, Begin, Open, Stat, Steal, GiveUp, Read, Write, Close,
           AppendEvent, data
  <2>4. /\ stalls' \in 0 .. MaxStalls /\ UNCHANGED <<claim, written, robbed, tries, starts>>
    BY DEF IInv, TypeOK, LockStep, Begin, Open, Stat, Steal, GiveUp, Read, Write, Close,
           AppendEvent, claiming
  <2>5. QED
    BY <2>1, <2>2, <2>3, <2>4 DEF IInv, TypeOK
<1>2. ClaimInv'
  <2>1. /\ UNCHANGED <<alive, claim, robbed>> /\ pc' = [pc EXCEPT ![p] = pc'[p]]
        /\ pc[p] # "evict" /\ pc'[p] # "evict" /\ \A q \in Procs \ {p} : judged'[q] = judged[q]
    BY DEF IInv, TypeOK, LockStep, Begin, Open, Stat, Steal, GiveUp, Read, Write, Close,
           AppendEvent, At, Goto, Judge, claiming
  <2>2. p \in Drivers => Drives(p)
    BY DEF LockStep, Begin, Open, Stat, Steal, GiveUp, Read, Write, Close, AppendEvent, At,
           Drives, Outside
  <2>3. p \notin Drivers => pc'[p] \notin Claiming
    BY DEF IInv, TypeOK, LockStep, Begin, Open, Stat, Steal, GiveUp, Read, Write, Close,
           AppendEvent, At, Goto, Claiming
  <2>4. QED
    BY <2>1, <2>2, <2>3 DEF IInv, TypeOK, ClaimInv, Drives
<1>3. LockInv'
  <2>1. CASE Begin(p) \/ AppendEvent(p)
    BY <2>1 DEF IInv, TypeOK, LockInv, Begin, AppendEvent, At, Goto, Inside, locking, data
  <2>2. CASE Open(p)
    BY <2>2 DEF IInv, TypeOK, LockInv, Open, At, Goto, Inside, data
  <2>3. CASE Stat(p)
    BY <2>3 DEF IInv, TypeOK, LockInv, Stat, At, Goto, Judge, Inside, locking, data
  <2>4. CASE Steal(p)
    <3>1. SUFFICES ASSUME ~torn' PROVE LockInv'
      BY DEF LockInv
    <3>2. ~torn /\ lock \in {"none", judged[p]}
      BY <2>4, <3>1 DEF Steal
    <3>3. pc[p] = "steal" /\ p \in alive /\ alive \subseteq Procs
      BY <2>4 DEF Steal, At, IInv, TypeOK
    <3>4. lock \notin alive
      BY <3>2, <3>3 DEF IInv, LockInv
    <3>5. QED
      BY <2>4, <3>2, <3>4 DEF IInv, TypeOK, LockInv, Steal, At, Goto, Inside, data
  <2>5. CASE GiveUp(p)
    BY <2>5 DEF GiveUp, LockInv
  <2>6. CASE Read(p)
    BY <2>6 DEF IInv, TypeOK, LockInv, Read, At, Goto, Inside, locking
  <2>7. CASE Write(p)
    BY <2>7 DEF IInv, TypeOK, LockInv, Write, At, Goto, Inside, locking
  <2>8. CASE Close(p)
    BY <2>8 DEF IInv, TypeOK, LockInv, Close, At, Goto, Inside, data
  <2>9. QED
    BY <2>1, <2>2, <2>3, <2>4, <2>5, <2>6, <2>7, <2>8 DEF LockStep
<1>4. LogInv'
  <2>1. CASE Begin(p) \/ Open(p) \/ Stat(p) \/ Steal(p) \/ GiveUp(p)
    BY <2>1 DEF IInv, TypeOK, LogInv, Wrote, Begin, Open, Stat, Steal, GiveUp, At, Goto,
                locking, data
  <2>2. CASE Read(p)
    BY <2>2 DEF IInv, TypeOK, LogInv, Wrote, Read, At, Goto, locking
  <2>3. CASE Write(p)
    BY <2>3 DEF IInv, TypeOK, LogInv, LockInv, Wrote, Write, At, Goto, locking
  <2>4. CASE Close(p)
    BY <2>4 DEF IInv, TypeOK, LogInv, Wrote, Close, At, Goto, data
  <2>5. CASE AppendEvent(p)
    BY <2>5 DEF IInv, TypeOK, LogInv, Wrote, AppendEvent, At, Goto, locking
  <2>6. QED
    BY <2>1, <2>2, <2>3, <2>4, <2>5 DEF LockStep
<1>5. QED
  BY <1>1, <1>2, <1>3, <1>4 DEF IInv

\* So do time and crashes.
LEMMA OutsideKeeps ==
  ASSUME IInv, Age \/ Stall \/ \E p \in Procs : Die(p)
  PROVE  IInv'
<1> USE ProcsAssumption, BoundsAssumption
<1>1. CASE Age
  <2>1. TypeOK' /\ ClaimInv'
    BY <1>1 DEF IInv, TypeOK, ClaimInv, Age, claiming, data, Drives
  <2>2. LockInv' /\ LogInv'
    BY <1>1 DEF IInv, TypeOK, LockInv, LogInv, Wrote, Age, data, Inside
  <2>3. QED
    BY <2>1, <2>2 DEF IInv
<1>2. CASE Stall
  <2>1. TypeOK' /\ ClaimInv'
    BY <1>2 DEF IInv, TypeOK, ClaimInv, Stall, claiming, data, Drives
  <2>2. LockInv' /\ LogInv'
    BY <1>2 DEF IInv, TypeOK, LockInv, LogInv, Wrote, Stall, data, Inside
  <2>3. QED
    BY <2>1, <2>2 DEF IInv
<1>3. CASE \E p \in Procs : Die(p)
  <2>1. alive' \subseteq alive /\ UNCHANGED <<pc, claiming, locking, data, judged, stalls>>
    BY <1>3 DEF Die
  <2>2. TypeOK' /\ ClaimInv'
    BY <2>1 DEF IInv, TypeOK, ClaimInv, claiming, locking, data, Drives
  <2>3. LockInv' /\ LogInv'
    BY <2>1 DEF IInv, TypeOK, LockInv, LogInv, Wrote, locking, data, Inside
  <2>4. QED
    BY <2>2, <2>3 DEF IInv
<1>4. QED
  BY <1>1, <1>2, <1>3

LEMMA StepKeepsIInv == IInv /\ [Next]_vars => IInv'
<1> SUFFICES ASSUME IInv, [Next]_vars PROVE IInv'
  OBVIOUS
<1>1. CASE UNCHANGED vars
  BY <1>1 DEF vars, claiming, locking, data, IInv, TypeOK, ClaimInv, LockInv, LogInv, Wrote,
              Drives, Inside
<1>2. CASE Next
  BY <1>2, ClaimStepKeeps, LockStepKeeps, OutsideKeeps DEF Next, Step
<1>3. QED
  BY <1>1, <1>2

LEMMA SpecIInv == Spec => []IInv
<1>1. QED
  BY InitIInv, StepKeepsIInv, PTL DEF Spec

-----------------------------------------------------------------------------
(* The theorems.                                                           *)

\* The variables keep their types.
THEOREM TypeCorrect == Spec => []TypeOK
<1>1. IInv => TypeOK
  BY DEF IInv
<1>2. QED
  BY <1>1, SpecIInv, PTL

\* Two live processes never drive one card, unless a claim was removed that is
\* not the one judged stale (claimDriver, orchestrator.mjs:110).
THEOREM OneDriverHolds == Spec => []OneDriver
<1>1. IInv => OneDriver
  BY DEF IInv, ClaimInv, OneDriver
<1>2. QED
  BY <1>1, SpecIInv, PTL

\* card.json and the event log agree up to the changes of dead writers.
THEOREM LogFollows == Spec => []LogFollowsCard
<1>1. IInv => LogFollowsCard
  BY DEF IInv, LogInv, LogFollowsCard, Wrote
<1>2. QED
  BY <1>1, SpecIInv, PTL

\* Every step of the locked update is a step of the atomic one, or a stutter.
LEMMA StepRefines == IInv /\ [Next]_vars => [A!Next]_<<card, torn>>
<1> SUFFICES ASSUME IInv, [Next]_vars PROVE [A!Next]_<<card, torn>>
  OBVIOUS
<1>1. CASE UNCHANGED vars
  BY <1>1 DEF vars, locking, data
<1>2. ASSUME NEW p \in Procs, Write(p) PROVE A!Next
  <2>1. CASE torn
    BY <1>2, <2>1 DEF Write, locking, IInv, TypeOK, A!Next, A!Tear
  <2>2. CASE ~torn
    BY <1>2, <2>2 DEF Write, At, locking, IInv, LockInv, A!Next, A!Update
  <2>3. QED
    BY <2>1, <2>2
<1>3. ASSUME NEW p \in Procs, LockStep(p), ~Write(p) PROVE [A!Next]_<<card, torn>>
  <2>1. card' = card /\ torn' \in {torn, TRUE}
    BY <1>3 DEF LockStep, Begin, Open, Stat, Steal, GiveUp, Read, Close, AppendEvent, locking,
                data, IInv, TypeOK
  <2>2. QED
    BY <2>1 DEF IInv, TypeOK, A!Next, A!Tear
<1>4. ASSUME NEW p \in Procs, ClaimStep(p) \/ Die(p) PROVE UNCHANGED <<card, torn>>
  BY <1>4 DEF ClaimStep, Start, Create, WritePid, Refuse, LookAtPid, LookAgain, LookGone,
              LookStalled, Evict, LetGo, Release, Die, locking, data
<1>5. CASE Age \/ Stall
  BY <1>5 DEF Age, Stall, data, IInv, TypeOK, A!Next, A!Tear
<1>6. QED
  BY <1>1, <1>2, <1>3, <1>4, <1>5 DEF Next, Step

\* The locked read-modify-write of card.json implements an atomic update
\* (ledger.mjs:350), for any number of processes, until a lock is broken.
THEOREM UpdatesAreAtomic == Spec => CardIsAtomic
<1>1. Init => A!Init
  BY DEF Init, A!Init
<1>2. QED
  BY <1>1, StepRefines, SpecIInv, PTL DEF Spec, CardIsAtomic, A!Spec

-----------------------------------------------------------------------------
(* The ladder: what is kept of a sequence.                                 *)

\* The positions of a set, in their order: g goes up, and meets each.
Ascends(g, K) ==
  /\ g \in [1..Cardinality(K) -> K]
  /\ \A a, b \in 1..Cardinality(K) : a < b => g[a] < g[b]
  /\ \A k \in K : \E a \in 1..Cardinality(K) : g[a] = k

LEMMA InOrderAscends ==
  ASSUME NEW n \in Nat, NEW K, K \subseteq 1..n
  PROVE  IsFiniteSet(K) /\ Cardinality(K) \in Nat /\ Ascends(InOrder(K), K)
<1> DEFINE Upto(k) == {j \in K : j <= k}
           c == Cardinality(K)
           rank == [k \in K |-> Cardinality(Upto(k))]
<1>0. \A k \in K : k \in Int
  OBVIOUS
<1>1. IsFiniteSet(K)
  <2>1. IsFiniteSet(1..n) /\ K \in SUBSET (1..n)
    BY FS_Interval
  <2> QED
    BY <2>1, FS_Subset
<1>2. c \in Nat
  BY <1>1, FS_CardinalityType
<1>3. ASSUME NEW k \in K
      PROVE  /\ IsFiniteSet(Upto(k)) /\ Cardinality(Upto(k)) \in 1..c
  <2>1. IsFiniteSet(Upto(k)) /\ Cardinality(Upto(k)) <= c
    BY <1>1, FS_Subset
  <2>2. Cardinality(Upto(k)) \in Nat
    BY <2>1, FS_CardinalityType
  <2>3. k \in Upto(k)
    OBVIOUS
  <2>4. Cardinality(Upto(k)) # 0
    BY <2>1, <2>3, FS_EmptySet
  <2> HIDE DEF Upto, c
  <2> QED
    BY <1>2, <2>1, <2>2, <2>4
<1>4. ASSUME NEW j \in K, NEW k \in K, j < k
      PROVE  Cardinality(Upto(j)) < Cardinality(Upto(k))
  <2>1. Upto(j) \subseteq Upto(k) /\ k \in Upto(k) /\ k \notin Upto(j)
    <3>1. \A i \in K : i <= j => i <= k
      BY <1>0, <1>4
    <3>2. ~(k <= j) /\ k <= k
      BY <1>0, <1>4
    <3> QED
      BY <3>1, <3>2
  <2>2. Cardinality(Upto(j)) <= Cardinality(Upto(k)) /\ Cardinality(Upto(j)) # Cardinality(Upto(k))
    BY <1>3, <2>1, FS_Subset
  <2> QED
    BY <1>3, <2>2
<1>5. rank \in Injection(K, 1..c)
  <2>1. rank \in [K -> 1..c]
    BY <1>3
  <2>2. ASSUME NEW j \in K, NEW k \in K, rank[j] = rank[k] PROVE j = k
    <3>1. j \in Nat /\ k \in Nat
      OBVIOUS
    <3>2. Cardinality(Upto(j)) = Cardinality(Upto(k)) /\ Cardinality(Upto(j)) \in Nat
      BY <2>2, <1>3
    <3> HIDE DEF Upto
    <3>3. ~(j < k) /\ ~(k < j)
      BY <1>4, <3>2
    <3> QED
      BY <3>1, <3>3
  <2> HIDE DEF rank
  <2> QED
    BY <2>1, <2>2 DEF Injection, IsInjective
<1>6. rank \in Surjection(K, 1..c)
  <2>1. IsFiniteSet(1..c) /\ Cardinality(1..c) = c
    BY <1>2, FS_Interval
  <2> HIDE DEF rank
  <2> QED
    BY <1>5, <2>1, FS_Injection
<1>7. ASSUME NEW a \in 1..c PROVE \E k \in K : Cardinality(Upto(k)) = a
  BY <1>6 DEF Surjection
<1> DEFINE g == InOrder(K)
<1>8. ASSUME NEW a \in 1..c
      PROVE  g[a] \in K /\ Cardinality(Upto(g[a])) = a
  <2>1. g[a] = CHOOSE k \in K : Cardinality(Upto(k)) = a
    BY DEF InOrder
  <2> QED
    BY <1>7, <2>1
<1>9. \A a, b \in 1..c : a < b => g[a] < g[b]
  <2> SUFFICES ASSUME NEW a \in 1..c, NEW b \in 1..c, a < b PROVE g[a] < g[b]
    OBVIOUS
  <2>1. g[a] \in K /\ g[b] \in K /\ Cardinality(Upto(g[a])) = a /\ Cardinality(Upto(g[b])) = b
    BY <1>8
  <2> HIDE DEF Upto, g
  <2>2. g[a] # g[b]
    BY <2>1
  <2>3. ASSUME g[b] < g[a] PROVE FALSE
    <3>1. Cardinality(Upto(g[b])) < Cardinality(Upto(g[a]))
      BY <1>4, <2>1, <2>3
    <3> QED
      BY <2>1, <3>1
  <2> QED
    <3>1. g[a] \in Int /\ g[b] \in Int
      BY <1>0, <2>1
    <3> QED
      BY <3>1, <2>2, <2>3
<1>10. \A k \in K : \E a \in 1..c : g[a] = k
  <2> SUFFICES ASSUME NEW k \in K PROVE \E a \in 1..c : g[a] = k
    OBVIOUS
  <2> DEFINE a == Cardinality(Upto(k))
  <2>1. a \in 1..c
    BY <1>3
  <2>2. g[a] \in K /\ Cardinality(Upto(g[a])) = a
    BY <2>1, <1>8
  <2> HIDE DEF Upto, g
  <2>3. ASSUME g[a] < k PROVE FALSE
    <3>1. Cardinality(Upto(g[a])) < Cardinality(Upto(k))
      BY <1>4, <2>2, <2>3
    <3> QED
      BY <2>1, <2>2, <3>1
  <2>4. ASSUME k < g[a] PROVE FALSE
    <3>1. Cardinality(Upto(k)) < Cardinality(Upto(g[a]))
      BY <1>4, <2>2, <2>4
    <3> QED
      BY <2>1, <2>2, <3>1
  <2>5. g[a] = k
    <3>1. g[a] \in Int /\ k \in Int
      BY <1>0, <2>2
    <3> QED
      BY <3>1, <2>3, <2>4
  <2> QED
    BY <2>1, <2>5
<1>11. g \in [1..c -> K]
  BY <1>8 DEF InOrder
<1> QED
  BY <1>1, <1>2, <1>9, <1>10, <1>11 DEF Ascends

\* What Kept takes: the elements at the positions, in the order of the positions.
LEMMA KeptAscends ==
  ASSUME NEW s, IsSequence(s), NEW K, K \subseteq DOMAIN s
  PROVE  /\ Cardinality(K) \in Nat
         /\ IsSequence(Kept(s, K)) /\ DOMAIN Kept(s, K) = 1..Cardinality(K)
         /\ \E g : Ascends(g, K) /\ \A p \in DOMAIN Kept(s, K) : Kept(s, K)[p] = s[g[p]]
<1>1. Len(s) \in Nat /\ DOMAIN s = 1..Len(s)
  BY DEF IsSequence
<1>2. Cardinality(K) \in Nat /\ Ascends(InOrder(K), K)
  BY <1>1, InOrderAscends
<1>3. CASE K = DOMAIN s
  <2>0. Cardinality(1..Len(s)) = Len(s)
    BY <1>1, FS_Interval
  <2>1. Kept(s, K) = s /\ Cardinality(K) = Len(s)
    BY <1>1, <1>3, <2>0 DEF Kept
  <2> DEFINE g == [a \in 1..Len(s) |-> a]
  <2>2. Ascends(g, K)
    BY <1>1, <1>3, <2>1 DEF Ascends
  <2>3. \A p \in DOMAIN s : s[p] = s[g[p]]
    BY <1>1
  <2> HIDE DEF g
  <2> QED
    BY <1>1, <1>2, <2>1, <2>2, <2>3
<1>4. CASE K # DOMAIN s
  <2> DEFINE c == Cardinality(K)
             t == [p \in 1..c |-> s[InOrder(K)[p]]]
  <2>1. Kept(s, K) = t
    BY <1>4 DEF Kept
  <2>2. t \in Seq(ToSet(t))
    <3>1. \A p \in 1..c : t[p] \in ToSet(t)
      BY DEF ToSet
    <3> QED
      BY <1>2, <3>1
  <2> QED
    BY <1>2, <2>1, <2>2 DEF IsSequence
<1> QED
  BY <1>3, <1>4

LEMMA KeptNone ==
  ASSUME NEW s, IsSequence(s)
  PROVE  Kept(s, {}) = <<>>
<1>1. Cardinality({}) = 0
  BY FS_EmptySet
<1>2. CASE DOMAIN s = {}
  <2>1. s = <<>>
    <3>1. Len(s) \in Nat /\ DOMAIN s = 1..Len(s)
      BY DEF IsSequence
    <3>2. Len(s) = 0
      BY <1>2, <3>1
    <3> QED
      BY <3>2 DEF IsSequence
  <2> QED
    BY <1>2, <2>1 DEF Kept
<1>3. CASE DOMAIN s # {}
  <2>1. Kept(s, {}) = [n \in 1..0 |-> s[InOrder({})[n]]]
    BY <1>1, <1>3 DEF Kept
  <2> QED
    BY <2>1
<1> QED
  BY <1>2, <1>3

LEMMA AllFour == AllHandoffAgents = <<"claude", "codex", "agy", "grok">>
<1> DEFINE S == {"claude", "codex", "agy", "grok"}
           t == <<"claude", "codex", "agy", "grok">>
<1>1. HandoffAgents \in Seq(S) /\ Len(HandoffAgents) = 3 /\ "grok" \in S
  BY DEF HandoffAgents
<1>2. HandoffAgents[1] = "claude" /\ HandoffAgents[2] = "codex" /\ HandoffAgents[3] = "agy"
  BY DEF HandoffAgents
<1>3. /\ AllHandoffAgents \in Seq(S) /\ Len(AllHandoffAgents) = 4 /\ AllHandoffAgents[4] = "grok"
      /\ \A i \in 1..3 : AllHandoffAgents[i] = HandoffAgents[i]
  <2> HIDE DEF S
  <2> QED
    BY <1>1, AppendProperties DEF AllHandoffAgents
<1>4. t \in Seq(S) /\ Len(t) = 4
  OBVIOUS
<1>5. ASSUME NEW i \in 1..4 PROVE AllHandoffAgents[i] = t[i]
  <2>1. i \in {1, 2, 3, 4}
    OBVIOUS
  <2> QED
    BY <1>2, <1>3, <2>1
<1> HIDE DEF t
<1> QED
  BY <1>3, <1>4, <1>5, SeqEqual DEF t

LEMMA AgentsAreSequences == IsSequence(HandoffAgents) /\ IsSequence(AllHandoffAgents)
<1>1. IsSequence(HandoffAgents)
  BY DEF HandoffAgents, IsSequence, ToSet
<1>2. IsSequence(<<"claude", "codex", "agy", "grok">>)
  BY DEF IsSequence, ToSet
<1> QED
  BY <1>1, <1>2, AllFour

\* A valid order names each of its agents once.
LEMMA OrderIsDistinct ==
  ASSUME NEW o, IsSequence(o), validHandoffOrder(o)
  PROVE  /\ DOMAIN o = 1..Len(o) /\ Len(o) \in {3, 4}
         /\ \A i, j \in DOMAIN o : o[i] = o[j] => i = j
         /\ Len(o) = 3 => ToSet(o) = ToSet(HandoffAgents) /\ "grok" \notin ToSet(o)
         /\ Len(o) = 4 => ToSet(o) = ToSet(AllHandoffAgents) /\ "grok" \in ToSet(o)
<1>1. DOMAIN o = 1..Len(o) /\ Len(o) \in Nat
  BY DEF IsSequence
<1>2. ToSet(HandoffAgents) = {"claude", "codex", "agy"}
  BY DEF ToSet, HandoffAgents
<1>3. ToSet(AllHandoffAgents) = {"claude", "codex", "agy", "grok"}
  <2>1. AllHandoffAgents = <<"claude", "codex", "agy", "grok">>
    BY AllFour
  <2> QED
    BY <2>1 DEF ToSet
<1>4. CASE Len(o) = 3
  <2>1. ToSet(o) = {"claude", "codex", "agy"}
    BY <1>2, <1>4 DEF validHandoffOrder
  <2>2. DOMAIN o = {1, 2, 3}
    BY <1>1, <1>4
  <2>3. {o[1], o[2], o[3]} = {"claude", "codex", "agy"}
    BY <2>1, <2>2 DEF ToSet
  <2>4. o[1] # o[2] /\ o[1] # o[3] /\ o[2] # o[3]
    BY <2>3
  <2> QED
    BY <1>1, <1>2, <1>4, <2>1, <2>2, <2>4
<1>5. CASE Len(o) = 4
  <2>1. ToSet(o) = {"claude", "codex", "agy", "grok"}
    BY <1>3, <1>5 DEF validHandoffOrder
  <2>2. DOMAIN o = {1, 2, 3, 4}
    BY <1>1, <1>5
  <2>3. {o[1], o[2], o[3], o[4]} = {"claude", "codex", "agy", "grok"}
    BY <2>1, <2>2 DEF ToSet
  <2>4. o[1] # o[2] /\ o[1] # o[3] /\ o[1] # o[4] /\ o[2] # o[3] /\ o[2] # o[4] /\ o[3] # o[4]
    BY <2>3
  <2> QED
    BY <1>1, <1>3, <1>5, <2>1, <2>2, <2>4
<1> QED
  BY <1>4, <1>5 DEF validHandoffOrder

\* The two spellings agree: the order of the ladder of an order is that order.
LEMMA OrderOfOrder ==
  ASSUME NEW o, IsSequence(o), validHandoffOrder(o)
  PROVE  /\ orderFromLadder(ladderFromOrder(o)) = o
         /\ IsSequence(ladderFromOrder(o)) /\ DOMAIN ladderFromOrder(o) = DOMAIN o
         /\ \A i \in DOMAIN o : ladderFromOrder(o)[i] = Rung(o[i], "default", "none", "always")
<1> DEFINE l == ladderFromOrder(o)
           agents == [i \in DOMAIN l |-> l[i].agent]
           wanted == IF "grok" \in ToSet(agents) THEN AllHandoffAgents ELSE HandoffAgents
<1>1. l = [i \in DOMAIN o |-> Rung(o[i], "default", "none", "always")]
  BY DEF ladderFromOrder, normalizeHandoffOrder
<1>2. DOMAIN o = 1..Len(o) /\ Len(o) \in Nat
  BY DEF IsSequence
<1>3. IsSequence(l)
  <2>1. \A i \in 1..Len(o) : l[i] \in ToSet(l)
    BY <1>1, <1>2 DEF ToSet
  <2> QED
    BY <1>1, <1>2, <2>1 DEF IsSequence
<1>4. agents = o
  <2>1. o = [i \in DOMAIN o |-> o[i]]
    BY DEF IsSequence
  <2> QED
    BY <1>1, <2>1 DEF Rung
<1> HIDE DEF agents, l
<1>5. {i \in DOMAIN l : \A j \in 1..(i - 1) : agents[j] # agents[i]} = DOMAIN agents
  <2>1. ASSUME NEW i \in DOMAIN o, NEW j \in 1..(i - 1) PROVE o[j] # o[i]
    <3>1. i \in 1..Len(o)
      BY <1>2
    <3>2. j \in DOMAIN o /\ j # i
      BY <1>2, <3>1
    <3> QED
      BY <3>2, OrderIsDistinct
  <2> QED
    BY <1>1, <1>4, <2>1
<1>6. Kept(agents, {i \in DOMAIN l : \A j \in 1..(i - 1) : agents[j] # agents[i]}) = o
  BY <1>4, <1>5 DEF Kept
<1>7. IsSequence(wanted) /\ \A i \in DOMAIN wanted : wanted[i] \in ToSet(agents)
  <2>1. IsSequence(HandoffAgents) /\ IsSequence(AllHandoffAgents)
    BY AgentsAreSequences
  <2>2. \A i \in DOMAIN HandoffAgents : HandoffAgents[i] \in ToSet(HandoffAgents)
    BY DEF ToSet
  <2>3. \A i \in DOMAIN AllHandoffAgents : AllHandoffAgents[i] \in ToSet(AllHandoffAgents)
    BY DEF ToSet
  <2> QED
    BY <1>4, <2>1, <2>2, <2>3, OrderIsDistinct
<1> HIDE DEF wanted
<1>8. Kept(wanted, {i \in DOMAIN wanted : wanted[i] \notin ToSet(agents)}) = <<>>
  <2>1. {i \in DOMAIN wanted : wanted[i] \notin ToSet(agents)} = {}
    BY <1>7
  <2> QED
    BY <1>7, <2>1, KeptNone
<1>9. orderFromLadder(l) = o \o <<>>
  BY <1>6, <1>8 DEF orderFromLadder, agents, wanted
<1>10. o \o <<>> = o
  BY DEF IsSequence
<1> QED
  BY <1>1, <1>3, <1>9, <1>10 DEF l
-----------------------------------------------------------------------------
(* The operators of Settings take sequences to sequences.                  *)

LEMMA SequenceFacts ==
  ASSUME NEW s, IsSequence(s)
  PROVE  /\ Len(s) \in Nat /\ DOMAIN s = 1..Len(s)
         /\ s \in [DOMAIN s -> ToSet(s)]
         /\ s # <<>> <=> Len(s) > 0
BY DEF IsSequence

LEMMA FunctionIsSequence ==
  ASSUME NEW n \in Nat, NEW s, DOMAIN s = 1..n, s = [i \in 1..n |-> s[i]]
  PROVE  IsSequence(s) /\ Len(s) = n
<1>1. \A i \in 1..n : s[i] \in ToSet(s)
  BY DEF ToSet
<1> QED
  BY <1>1 DEF IsSequence

LEMMA MemberIsSequence ==
  ASSUME NEW S, NEW s \in Seq(S)
  PROVE  IsSequence(s)
<1>1. Len(s) \in Nat /\ DOMAIN s = 1..Len(s) /\ s = [i \in 1..Len(s) |-> s[i]]
  OBVIOUS
<1> QED
  BY <1>1, FunctionIsSequence

LEMMA PartIsSequence ==
  ASSUME NEW s, IsSequence(s), NEW m \in 1..(Len(s) + 1), NEW n \in 0..Len(s)
  PROVE  IsSequence(SubSeq(s, m, n))
<1>1. \A i \in m..n : s[i] \in ToSet(s)
  BY SequenceFacts DEF ToSet
<1>2. SubSeq(s, m, n) \in Seq(ToSet(s))
  BY <1>1, SubSeqProperties, SequenceFacts
<1> QED
  BY <1>2, MemberIsSequence

LEMMA JoinIsSequence ==
  ASSUME NEW s, IsSequence(s), NEW t, IsSequence(t)
  PROVE  /\ IsSequence(s \o t) /\ Len(s \o t) = Len(s) + Len(t)
         /\ \A i \in 1..(Len(s) + Len(t)) : (s \o t)[i] = IF i <= Len(s) THEN s[i] ELSE t[i - Len(s)]
<1> DEFINE S == ToSet(s) \cup ToSet(t)
           u == s \o t
<1>1. s \in Seq(S) /\ t \in Seq(S)
  BY SeqMonotonic DEF IsSequence
<1> HIDE DEF S
<1>2. /\ u \in Seq(S) /\ Len(u) = Len(s) + Len(t)
      /\ \A i \in 1..(Len(s) + Len(t)) : u[i] = IF i <= Len(s) THEN s[i] ELSE t[i - Len(s)]
  BY <1>1, ConcatProperties
<1> HIDE DEF u
<1>3. IsSequence(u)
  <2>1. Len(u) \in Nat /\ DOMAIN u = 1..Len(u) /\ u = [i \in 1..Len(u) |-> u[i]]
    BY <1>2
  <2> QED
    BY <2>1, FunctionIsSequence
<1> QED
  BY <1>2, <1>3 DEF u

LEMMA SalvageIsSequence ==
  ASSUME NEW l, IsSequence(l)
  PROVE  IsSequence(Distinct(l)) /\ IsSequence(Valid(l)) /\ IsSequence(salvage(l))
<1>1. ASSUME NEW m, IsSequence(m) PROVE IsSequence(Distinct(m)) /\ IsSequence(Valid(m))
  BY <1>1, KeptAscends DEF Distinct, Valid
<1> QED
  BY <1>1 DEF salvage

LEMMA OrderIsSequence ==
  ASSUME NEW l, IsSequence(l)
  PROVE  IsSequence(orderFromLadder(l))
<1> DEFINE agents == [i \in DOMAIN l |-> l[i].agent]
           wanted == IF "grok" \in ToSet(agents) THEN AllHandoffAgents ELSE HandoffAgents
           Heads == {i \in DOMAIN l : \A j \in 1..(i - 1) : agents[j] # agents[i]}
           B == {i \in DOMAIN wanted : wanted[i] \notin ToSet(agents)}
<1>1. IsSequence(agents) /\ Heads \subseteq DOMAIN agents
  BY SequenceFacts, FunctionIsSequence
<1>2. IsSequence(wanted)
  BY AgentsAreSequences
<1> HIDE DEF agents, wanted
<1>3. IsSequence(Kept(agents, Heads)) /\ IsSequence(Kept(wanted, B))
  BY <1>1, <1>2, KeptAscends
<1>4. orderFromLadder(l) = Kept(agents, Heads) \o Kept(wanted, B)
  BY DEF orderFromLadder, agents, wanted
<1> QED
  BY <1>3, <1>4, JoinIsSequence

\* What the file is read as is a pair of spellings that agree.
LEMMA ReadAgrees ==
  ASSUME IsPreferences(file)
  PROVE  /\ IsPreferences(readPreferences)
         /\ readPreferences.order = orderFromLadder(readPreferences.ladder)
         /\ readPreferences.ladder # <<>>
<1> DEFINE l == normalizeHandoffLadder(file.ladder, file.order)
           o == IF file.ladder # <<>> THEN orderFromLadder(l) ELSE normalizeHandoffOrder(file.order)
<1>1. IsSequence(file.ladder) /\ IsSequence(file.order)
  BY DEF IsPreferences
<1>2. IsSequence(l) /\ l # <<>>
  <2>1. CASE salvage(file.ladder) # <<>>
    BY <1>1, <2>1, SalvageIsSequence DEF normalizeHandoffLadder
  <2>2. CASE salvage(file.ladder) = <<>> /\ validHandoffOrder(file.order)
    <3>1. IsSequence(ladderFromOrder(file.order)) /\ DOMAIN ladderFromOrder(file.order) = DOMAIN file.order
      BY <1>1, <2>2, OrderOfOrder
    <3>2. 1 \in DOMAIN file.order
      BY <1>1, <2>2, OrderIsDistinct
    <3>3. ladderFromOrder(file.order) # <<>>
      BY <3>1, <3>2
    <3> QED
      BY <2>2, <3>1, <3>3 DEF normalizeHandoffLadder
  <2>3. CASE salvage(file.ladder) = <<>> /\ ~validHandoffOrder(file.order)
    BY <2>3, LaddersAssumption DEF normalizeHandoffLadder
  <2> QED
    BY <2>1, <2>2, <2>3
<1>3. IsSequence(o) /\ o = orderFromLadder(l)
  <2>1. CASE file.ladder # <<>>
    BY <1>2, <2>1, OrderIsSequence
  <2>2. CASE file.ladder = <<>>
    <3>1. salvage(<<>>) = <<>>
      <4>1. DOMAIN <<>> = {} /\ Valid(<<>>) = <<>> /\ Distinct(<<>>) = <<>>
        BY DEF Valid, Distinct, Kept
      <4> QED
        BY <4>1 DEF salvage
    <3>2. CASE validHandoffOrder(file.order)
      BY <1>1, <2>2, <3>1, <3>2, OrderOfOrder DEF normalizeHandoffLadder, normalizeHandoffOrder
    <3>3. CASE ~validHandoffOrder(file.order)
      <4>1. IsSequence(HandoffAgents)
        BY AgentsAreSequences
      <4> QED
        BY <2>2, <3>1, <3>3, <4>1, LaddersAssumption DEF normalizeHandoffLadder, normalizeHandoffOrder
    <3> QED
      BY <3>2, <3>3
  <2> QED
    BY <2>1, <2>2
<1>4. readPreferences = [file EXCEPT !.ladder = l, !.order = o]
  BY DEF readPreferences
<1> HIDE DEF l, o
<1>5. /\ DOMAIN readPreferences = DOMAIN file /\ readPreferences.ladder = l /\ readPreferences.order = o
      /\ readPreferences.may_spend = file.may_spend
  BY <1>4 DEF IsPreferences
<1> QED
  BY <1>2, <1>3, <1>5 DEF IsPreferences

-----------------------------------------------------------------------------
(* The ladder a terminal walks.                                            *)

\* The two spellings agree wherever Leg has written both: in what a start has read, and on the
\* record from its first moment, whatever the file holds by then.
SettingsInv ==
  /\ IsPreferences(file) /\ IsSequence(cmd)
  /\ DOMAIN accounts = DOMAIN Names
  /\ \A a \in DOMAIN Names : IsSequence(accounts[a]) /\ "default" \in ToSet(accounts[a])
  /\ start \in {"none", "read", "created", "runs"}
  /\ start \in {"read", "created"} =>
       IsPreferences(copy) /\ copy.ladder # <<>> /\ copy.order = orderFromLadder(copy.ladder)
  /\ start \in {"created", "runs"} => rec.order = orderFromLadder(given)
  /\ DOMAIN rec = {"ladder", "order"} /\ IsSequence(rec.ladder) /\ IsSequence(rec.order)

LEMMA DefaultAndExtras ==
  ASSUME NEW a \in DOMAIN Names
  PROVE  LET whole == <<"default">> \o SetToSeq(Names[a]) IN IsSequence(whole) /\ "default" \in ToSet(whole)
<1> DEFINE extras == SetToSeq(Names[a])
           n == Cardinality(Names[a])
<1>1. n \in Nat /\ ExistsBijection(1..n, Names[a])
  BY SettingsAssumption, FS_CardinalityType
<1>2. \E f \in [1..n -> Names[a]] : IsInjective(f)
  BY <1>1 DEF ExistsBijection, Bijection, Injection
<1>3. extras \in [1..n -> Names[a]]
  BY <1>2 DEF SetToSeq
<1> HIDE DEF extras, n
<1>4. IsSequence(extras)
  BY <1>1, <1>3, FunctionIsSequence
<1>5. IsSequence(<<"default">>) /\ Len(<<"default">>) = 1
  BY DEF IsSequence, ToSet
<1>6. /\ IsSequence(<<"default">> \o extras) /\ Len(<<"default">> \o extras) = 1 + Len(extras)
      /\ \A i \in 1..(1 + Len(extras)) :
           (<<"default">> \o extras)[i] = IF i <= 1 THEN <<"default">>[i] ELSE extras[i - 1]
  BY <1>4, <1>5, JoinIsSequence
<1>7. Len(extras) \in Nat
  BY <1>4, SequenceFacts
<1>8. 1 \in DOMAIN (<<"default">> \o extras) /\ (<<"default">> \o extras)[1] = "default"
  BY <1>6, <1>7, SequenceFacts
<1> QED
  BY <1>6, <1>8 DEF ToSet, extras

LEMMA SettingsStart == SettingsInit => SettingsInv
<1> SUFFICES ASSUME SettingsInit PROVE SettingsInv
  OBVIOUS
<1>1. IsSequence(<<>>)
  BY DEF IsSequence, ToSet
<1>2. IsPreferences(file)
  BY LaddersAssumption DEF SettingsInit
<1>3. \A a \in DOMAIN Names : IsSequence(accounts[a]) /\ "default" \in ToSet(accounts[a])
  BY DefaultAndExtras DEF SettingsInit
<1> QED
  BY <1>1, <1>2, <1>3 DEF SettingsInit, SettingsInv

LEMMA WriteIsPreferences ==
  ASSUME IsPreferences(file), NEW l, IsSequence(l), NEW o, IsSequence(o), o = <<>> \/ validHandoffOrder(o),
         NEW spend, writePreferences(l, o, spend)
  PROVE  IsPreferences(file)'
<1> DEFINE base == IF l = <<>> /\ o = <<>> THEN Current ELSE readPreferences
           lad == IF l # <<>> THEN l ELSE IF o # <<>> THEN ladderFromOrder(o) ELSE base.ladder
           ord == IF o # <<>> THEN o ELSE IF l # <<>> THEN orderFromLadder(l) ELSE base.order
           may == IF spend = "as it is" THEN base.may_spend ELSE spend = "on"
<1>1. IsPreferences(readPreferences)
  BY ReadAgrees
<1>2. IsPreferences(Current)
  <2> DEFINE or == IF validHandoffOrder(file.order) THEN file.order ELSE readPreferences.order
             cur == [readPreferences EXCEPT !.ladder = file.ladder, !.order = or]
  <2>1. IsSequence(file.ladder) /\ IsSequence(or)
    BY <1>1 DEF IsPreferences
  <2>2. Current \in {cur, readPreferences}
    BY DEF Current
  <2> HIDE DEF or
  <2>3. /\ DOMAIN cur = DOMAIN readPreferences /\ cur.ladder = file.ladder /\ cur.order = or
        /\ cur.may_spend = readPreferences.may_spend
    BY <1>1 DEF IsPreferences
  <2> HIDE DEF cur
  <2>4. IsPreferences(cur)
    BY <1>1, <2>1, <2>3 DEF IsPreferences
  <2> QED
    BY <1>1, <2>2, <2>4
<1>3. IsPreferences(base)
  BY <1>1, <1>2
<1>4. file' = [base EXCEPT !.ladder = lad, !.order = ord, !.may_spend = may]
  BY DEF writePreferences
<1> HIDE DEF base
<1>5. IsSequence(lad) /\ IsSequence(ord) /\ may \in BOOLEAN
  BY <1>3, OrderIsSequence, OrderOfOrder DEF IsPreferences
<1> HIDE DEF lad, ord, may
<1>6. DOMAIN file' = DOMAIN base /\ file'.ladder = lad /\ file'.order = ord /\ file'.may_spend = may
  BY <1>3, <1>4 DEF IsPreferences
<1> QED
  BY <1>3, <1>5, <1>6 DEF IsPreferences

LEMMA ChangedIsSequence ==
  ASSUME IsSequence(cmd), NEW l \in Changed
  PROVE  IsSequence(l)
<1>0. Len(cmd) \in Nat /\ DOMAIN cmd = 1..Len(cmd)
  BY SequenceFacts
<1>1. ASSUME NEW i \in DOMAIN cmd PROVE IsSequence(RemoveAt(cmd, i))
  <2>1. i \in 1..Len(cmd)
    BY <1>0
  <2>2. IsSequence(SubSeq(cmd, 1, i - 1)) /\ IsSequence(SubSeq(cmd, i + 1, Len(cmd)))
    BY <1>0, <2>1, PartIsSequence
  <2> QED
    BY <2>2, JoinIsSequence DEF RemoveAt
<1>2. ASSUME NEW r, NEW i \in 1..(Len(cmd) + 1), i > Len(cmd) PROVE IsSequence(Append(cmd, r))
  <2> DEFINE S == ToSet(cmd) \cup {r}
  <2>1. cmd \in Seq(S) /\ r \in S
    BY SeqMonotonic DEF IsSequence
  <2> HIDE DEF S
  <2>2. Append(cmd, r) \in Seq(S) /\ Len(Append(cmd, r)) = Len(cmd) + 1
    BY <2>1, AppendProperties
  <2> QED
    BY <1>0, <2>2, MemberIsSequence
<1>3. ASSUME NEW r, NEW i \in 1..(Len(cmd) + 1), ~(i > Len(cmd)) PROVE IsSequence(ReplaceAt(cmd, i, r))
  <2>1. DOMAIN ReplaceAt(cmd, i, r) = 1..Len(cmd)
        /\ ReplaceAt(cmd, i, r) = [j \in 1..Len(cmd) |-> ReplaceAt(cmd, i, r)[j]]
    BY <1>0 DEF ReplaceAt
  <2> QED
    BY <1>0, <2>1, FunctionIsSequence
<1>4. CASE \E i \in DOMAIN cmd : l = RemoveAt(cmd, i)
  BY <1>1, <1>4
<1>5. CASE \E r \in Rungs, i \in 1..(Len(cmd) + 1) :
             l = IF i > Len(cmd) THEN Append(cmd, r) ELSE ReplaceAt(cmd, i, r)
  <2>1. PICK r \in Rungs, i \in 1..(Len(cmd) + 1) :
               l = IF i > Len(cmd) THEN Append(cmd, r) ELSE ReplaceAt(cmd, i, r)
    BY <1>5
  <2> QED
    BY <1>2, <1>3, <2>1
<1> QED
  BY <1>4, <1>5 DEF Changed

LEMMA EmptyIsSequence == IsSequence(<<>>)
BY DEF IsSequence, ToSet

LEMMA FileStep ==
  ASSUME SettingsInv, SaveLadder \/ SaveOrder \/ SaveSpend \/ LadderReads \/ LadderWrites \/ Type \/ OlderLeg
  PROVE  SettingsInv'
<1>0. IsPreferences(file) /\ IsSequence(cmd)
  BY DEF SettingsInv
<1>1. CASE SaveLadder
  <2>1. PICK l \in Saves : validHandoffLadder(l) /\ writePreferences(l, <<>>, "as it is")
    BY <1>1 DEF SaveLadder
  <2>2. IsPreferences(file)'
    BY <1>0, <2>1, WriteIsPreferences, LaddersAssumption, EmptyIsSequence
  <2> QED
    BY <1>1, <2>2 DEF SaveLadder, SettingsInv
<1>2. CASE SaveOrder
  <2>1. PICK o \in Orders : validHandoffOrder(o) /\ writePreferences(<<>>, o, "as it is")
    BY <1>2 DEF SaveOrder
  <2>2. IsPreferences(file)'
    BY <1>0, <2>1, WriteIsPreferences, LaddersAssumption, EmptyIsSequence
  <2> QED
    BY <1>2, <2>2 DEF SaveOrder, SettingsInv
<1>3. CASE SaveSpend
  <2>1. PICK spend \in {"on", "off"} : writePreferences(<<>>, <<>>, spend)
    BY <1>3 DEF SaveSpend
  <2>2. IsPreferences(file)'
    BY <1>0, <2>1, WriteIsPreferences, EmptyIsSequence
  <2> QED
    BY <1>3, <2>2 DEF SaveSpend, SettingsInv
<1>4. CASE LadderReads
  <2>1. IsSequence(cmd')
    BY <1>0, <1>4, ReadAgrees DEF LadderReads, IsPreferences
  <2> QED
    BY <1>4, <2>1 DEF LadderReads, SettingsInv
<1>5. CASE LadderWrites
  <2>1. PICK l \in Changed : \/ validHandoffLadder(l) /\ writePreferences(l, <<>>, "as it is")
                             \/ ~validHandoffLadder(l) /\ UNCHANGED file
    BY <1>5 DEF LadderWrites
  <2>2. IsSequence(l)
    BY <1>0, ChangedIsSequence
  <2>3. IsPreferences(file)'
    BY <1>0, <2>1, <2>2, WriteIsPreferences, EmptyIsSequence DEF IsPreferences
  <2> QED
    BY <1>5, <2>3, EmptyIsSequence DEF LadderWrites, SettingsInv
<1>6. CASE Type
  <2>1. PICK l \in Types : file' = [file EXCEPT !.ladder = l]
    BY <1>6 DEF Type
  <2>2. IsPreferences(file)'
    BY <1>0, <2>1, LaddersAssumption DEF IsPreferences
  <2> QED
    BY <1>6, <2>2 DEF Type, SettingsInv
<1>7. CASE OlderLeg
  <2>1. PICK o \in Orders : file' = [file EXCEPT !.order = o]
    BY <1>7 DEF OlderLeg
  <2>2. IsPreferences(file)'
    BY <1>0, <2>1, LaddersAssumption DEF IsPreferences
  <2> QED
    BY <1>7, <2>2 DEF OlderLeg, SettingsInv
<1> QED
  BY <1>1, <1>2, <1>3, <1>4, <1>5, <1>6, <1>7

LEMMA AccountStep ==
  ASSUME SettingsInv, NEW a \in DOMAIN Names, NEW n \in Names[a], addAccount(a, n) \/ removeAccount(a, n)
  PROVE  SettingsInv'
<1> DEFINE whole == accounts[a]
<1>1. IsSequence(whole) /\ "default" \in ToSet(whole)
  BY DEF SettingsInv
<1>2. PICK i \in DOMAIN whole : whole[i] = "default"
  BY <1>1 DEF ToSet
<1>3. n # "default"
  BY SettingsAssumption
<1>4. IsSequence(accounts'[a]) /\ "default" \in ToSet(accounts'[a])
  <2>1. CASE addAccount(a, n)
    <3>1. accounts'[a] = Append(whole, n)
      BY <2>1 DEF addAccount, SettingsInv
    <3> DEFINE S == ToSet(whole) \cup {n}
    <3>2. whole \in Seq(S) /\ n \in S
      BY <1>1, SeqMonotonic DEF IsSequence
    <3> HIDE DEF S, whole
    <3>3. /\ Append(whole, n) \in Seq(S) /\ Len(Append(whole, n)) = Len(whole) + 1
          /\ \A j \in 1..Len(whole) : Append(whole, n)[j] = whole[j]
      BY <3>2, AppendProperties
    <3>4. Len(whole) \in Nat /\ DOMAIN whole = 1..Len(whole)
      BY <1>1, SequenceFacts
    <3>5. IsSequence(Append(whole, n))
      BY <3>3, MemberIsSequence
    <3>6. i \in DOMAIN Append(whole, n) /\ Append(whole, n)[i] = "default"
      BY <1>2, <3>3, <3>4
    <3> QED
      BY <3>1, <3>5, <3>6 DEF ToSet
  <2>2. CASE removeAccount(a, n)
    <3> DEFINE K == {j \in DOMAIN whole : whole[j] # n}
    <3>1. accounts'[a] = Kept(whole, K)
      BY <2>2 DEF removeAccount, SettingsInv
    <3>2. K \subseteq DOMAIN whole /\ i \in K
      BY <1>2, <1>3
    <3> HIDE DEF K, whole
    <3>3. IsSequence(Kept(whole, K)) /\ DOMAIN Kept(whole, K) = 1..Cardinality(K)
      BY <1>1, <3>2, KeptAscends
    <3>4. PICK g : Ascends(g, K) /\ \A p \in DOMAIN Kept(whole, K) : Kept(whole, K)[p] = whole[g[p]]
      BY <1>1, <3>2, KeptAscends
    <3>5. PICK p \in 1..Cardinality(K) : g[p] = i
      BY <3>2, <3>4 DEF Ascends
    <3>6. Kept(whole, K)[p] = "default"
      BY <1>2, <3>3, <3>4, <3>5
    <3> QED
      BY <3>1, <3>3, <3>6 DEF ToSet
  <2> QED
    BY <2>1, <2>2
<1>5. DOMAIN accounts' = DOMAIN accounts /\ \A b \in DOMAIN accounts \ {a} : accounts'[b] = accounts[b]
  BY DEF addAccount, removeAccount
<1>6. UNCHANGED <<file, cmd, start, copy, rec, given>>
  BY DEF addAccount, removeAccount
<1>7. \A b \in DOMAIN Names : IsSequence(accounts'[b]) /\ "default" \in ToSet(accounts'[b])
  BY <1>4, <1>5 DEF SettingsInv
<1> QED
  BY <1>5, <1>6, <1>7 DEF SettingsInv

LEMMA TerminalStep ==
  ASSUME SettingsInv, StartReads \/ CreateRecord \/ CopyLadder \/ EditTerminal
  PROVE  SettingsInv'
<1>1. CASE StartReads
  <2>1. /\ IsPreferences(readPreferences) /\ readPreferences.ladder # <<>>
        /\ readPreferences.order = orderFromLadder(readPreferences.ladder)
    BY ReadAgrees DEF SettingsInv
  <2>2. copy' = readPreferences /\ start' = "read" /\ UNCHANGED <<accounts, file, cmd, rec, given>>
    BY <1>1 DEF StartReads
  <2> QED
    BY <2>1, <2>2 DEF SettingsInv
<1>2. CASE CreateRecord
  <2>1. /\ rec' = [ladder |-> <<>>, order |-> copy.order] /\ given' = copy.ladder
        /\ start = "read" /\ start' = "created" /\ UNCHANGED <<accounts, file, cmd, copy>>
    BY <1>2 DEF CreateRecord
  <2>2. copy.order = orderFromLadder(copy.ladder) /\ IsSequence(copy.order)
    BY <2>1 DEF SettingsInv, IsPreferences
  <2> QED
    BY <2>1, <2>2, EmptyIsSequence DEF SettingsInv
<1>3. CASE CopyLadder
  <2>1. /\ rec' = [rec EXCEPT !.ladder = copy.ladder]
        /\ start = "created" /\ start' = "runs" /\ UNCHANGED <<accounts, file, cmd, given>>
    BY <1>3 DEF CopyLadder
  <2>2. IsSequence(copy.ladder)
    BY <2>1 DEF SettingsInv, IsPreferences
  <2>3. DOMAIN rec' = {"ladder", "order"} /\ rec'.ladder = copy.ladder /\ rec'.order = rec.order
    BY <2>1 DEF SettingsInv
  <2> QED
    BY <2>1, <2>2, <2>3 DEF SettingsInv
<1>4. CASE EditTerminal
  <2>1. UNCHANGED <<accounts, file, cmd, start, copy>>
    BY <1>4 DEF EditTerminal
  <2>2. CASE \E l \in Saves : /\ validHandoffLadder(l)
                              /\ rec' = [ladder |-> l, order |-> orderFromLadder(l)] /\ given' = l
    <3>1. PICK l \in Saves : rec' = [ladder |-> l, order |-> orderFromLadder(l)] /\ given' = l
      BY <2>2
    <3>2. IsSequence(l) /\ IsSequence(orderFromLadder(l))
      BY LaddersAssumption, OrderIsSequence
    <3> QED
      BY <2>1, <3>1, <3>2 DEF SettingsInv
  <2>3. CASE \E o \in Orders : /\ validHandoffOrder(o)
                               /\ rec' = [ladder |-> ladderFromOrder(o), order |-> o] /\ given' = ladderFromOrder(o)
    <3>1. PICK o \in Orders : /\ validHandoffOrder(o)
                              /\ rec' = [ladder |-> ladderFromOrder(o), order |-> o] /\ given' = ladderFromOrder(o)
      BY <2>3
    <3>2. IsSequence(o) /\ IsSequence(ladderFromOrder(o)) /\ orderFromLadder(ladderFromOrder(o)) = o
      BY <3>1, LaddersAssumption, OrderOfOrder
    <3> QED
      BY <2>1, <3>1, <3>2 DEF SettingsInv
  <2> QED
    BY <1>4, <2>2, <2>3 DEF EditTerminal
<1> QED
  BY <1>1, <1>2, <1>3, <1>4

LEMMA SettingsStep ==
  ASSUME SettingsInv, [LadderNext]_ladderVars
  PROVE  SettingsInv'
<1>1. CASE UNCHANGED quiet
  BY <1>1 DEF quiet, SettingsInv, IsPreferences
<1>2. CASE StartReads \/ CreateRecord \/ CopyLadder \/ Writes
  BY <1>2, FileStep, AccountStep, TerminalStep DEF Writes
<1>3. CASE BeginLeg
  BY <1>2, <1>3 DEF BeginLeg
<1>4. CASE Learn \/ Choose \/ Ready \/ Tick \/ UNCHANGED ladderVars
  BY <1>1, <1>4 DEF Learn, Choose, Ready, Tick, settings, ladderVars
<1>5. CASE \/ \E m \in Models \cup {"none"}, e \in WallEnds : HitWall(m, e)
           \/ \E p \in Picks : HandOffNow(p)
           \/ \E l \in Logins : ReadUsage(l)
  BY <1>1, <1>5 DEF HitWall, HandOffNow, ReadUsage
<1> QED
  BY <1>2, <1>3, <1>4, <1>5 DEF LadderNext

\* Every writer of Leg's keeps the two spellings of a record in agreement, so the order never wins
\* over a ladder that can be read as it was given.
LEMMA WalkFollows == SettingsInv => WalkIsGiven
<1> SUFFICES ASSUME SettingsInv, start = "runs", rec.ladder = given, salvage(given) # <<>>,
                    ladderFor(rec) # salvage(given)
             PROVE  orderFromLadder(salvage(given)) # orderFromLadder(given)
  BY DEF WalkIsGiven
<1>1. rec.order = orderFromLadder(given)
  BY DEF SettingsInv
<1>2. normalizeHandoffLadder(rec.ladder, rec.order) = salvage(given)
  BY DEF normalizeHandoffLadder
<1> QED
  BY <1>1, <1>2 DEF ladderFor

LEMMA SettingsInvariant == LadderSpec => []SettingsInv
<1>1. LadderInit => SettingsInv
  BY SettingsStart DEF LadderInit
<1> QED
  BY <1>1, SettingsStep, PTL DEF LadderSpec

\* A terminal walks the ladder it was given, for every ladder, file, order and set of accounts.
THEOREM WalkIsGivenThm == LadderSpec => []WalkIsGiven
BY SettingsInvariant, WalkFollows, PTL
-----------------------------------------------------------------------------
(* The list of a choice.                                                   *)

NatLess == {p \in Nat \X Nat : p[1] < p[2]}

LEMMA NatLessIsWellFounded == IsWellFoundedOn(NatLess, Nat)
BY NatLessThanWellFounded DEF OpToRel, NatLess

LEMMA LeastElement ==
  ASSUME NEW S, S \subseteq Nat, S # {}
  PROVE  \E x \in S : \A y \in S : x <= y
<1>1. PICK x \in S : \A y \in S : ~ (<<y, x>> \in NatLess)
  BY NatLessIsWellFounded, WFMin
<1>2. ASSUME NEW y \in S PROVE x <= y
  <2>1. x \in Nat /\ y \in Nat
    OBVIOUS
  <2>2. <<y, x>> \in NatLess <=> y < x
    BY <2>1 DEF NatLess
  <2> QED
    BY <1>1, <2>1, <2>2
<1> QED
  BY <1>2

LEMMA MinIsLeast ==
  ASSUME NEW S, S \subseteq Nat, S # {}
  PROVE  Min(S) \in S /\ \A y \in S : Min(S) <= y
BY LeastElement DEF Min

\* The sequences laid end to end, and how far the first m of them reach.
Laid(f, seqs, m) == f = [i \in 1..m |-> IF i = 1 THEN seqs[i] ELSE f[i - 1] \o seqs[i]]

LEMMA LaidExists ==
  ASSUME NEW seqs, IsSequence(seqs), NEW m \in 1..Len(seqs)
  PROVE  \E f : Laid(f, seqs, m)
<1> DEFINE Bad == {k \in 1..Len(seqs) : ~\E f : Laid(f, seqs, k)}
<1>0. Len(seqs) \in Nat
  BY SequenceFacts
<1>1. SUFFICES ASSUME Bad # {} PROVE FALSE
  OBVIOUS
<1>2. PICK b \in Bad : \A k \in Bad : b <= k
  <2>1. Bad \subseteq Nat
    OBVIOUS
  <2> HIDE DEF Bad
  <2> QED
    BY <1>1, <2>1, LeastElement
<1>3. CASE b = 1
  <2> DEFINE f == [i \in 1..1 |-> seqs[i]]
  <2>1. Laid(f, seqs, 1)
    BY DEF Laid
  <2> QED
    BY <1>3, <2>1
<1>4. CASE b # 1
  <2>1. b - 1 \in 1..Len(seqs) /\ ~(b <= b - 1)
    BY <1>0, <1>4
  <2>2. PICK e : Laid(e, seqs, b - 1)
    BY <1>2, <2>1
  <2> DEFINE f == [i \in 1..b |-> IF i < b THEN e[i] ELSE e[b - 1] \o seqs[b]]
  <2>3. ASSUME NEW i \in 1..b PROVE f[i] = IF i = 1 THEN seqs[i] ELSE f[i - 1] \o seqs[i]
    <3>1. CASE i < b
      <4>1. i \in 1..(b - 1) /\ f[i] = e[i]
        BY <1>0, <3>1
      <4>2. e[i] = IF i = 1 THEN seqs[i] ELSE e[i - 1] \o seqs[i]
        BY <2>2, <4>1 DEF Laid
      <4>3. i # 1 => i - 1 \in 1..b /\ i - 1 < b
        BY <4>1, <1>0
      <4>4. i # 1 => f[i - 1] = e[i - 1]
        BY <4>3
      <4> QED
        BY <4>1, <4>2, <4>4
    <3>2. CASE ~(i < b)
      <4>1. i = b /\ i - 1 \in 1..b /\ i - 1 < b
        BY <1>0, <1>4, <3>2
      <4>2. b \in 1..b /\ ~(b < b)
        BY <1>0
      <4>3. f[b] = e[b - 1] \o seqs[b]
        BY <4>2
      <4>4. f[b - 1] = e[b - 1]
        BY <4>1
      <4> HIDE DEF f
      <4> QED
        BY <1>4, <4>1, <4>3, <4>4
    <3> QED
      BY <3>1, <3>2
  <2>4. f = [i \in 1..b |-> IF i = 1 THEN seqs[i] ELSE f[i - 1] \o seqs[i]]
    <3>1. f = [i \in 1..b |-> f[i]]
      OBVIOUS
    <3> HIDE DEF f
    <3> QED
      BY <2>3, <3>1
  <2> HIDE DEF f
  <2>5. Laid(f, seqs, b)
    BY <2>4 DEF Laid
  <2> QED
    BY <2>5
<1> QED
  BY <1>3, <1>4

LEMMA FlattenIsLaid ==
  ASSUME NEW seqs, IsSequence(seqs), Len(seqs) # 0
  PROVE  \E f : Laid(f, seqs, Len(seqs)) /\ FlattenSeq(seqs) = f[Len(seqs)]
<1> DEFINE F == CHOOSE f : Laid(f, seqs, Len(seqs))
<1>0. Len(seqs) \in Nat /\ Len(seqs) \in 1..Len(seqs)
  BY SequenceFacts
<1>1. Laid(F, seqs, Len(seqs))
  BY <1>0, LaidExists
<1>2. FlattenSeq(seqs) = F[Len(seqs)]
  BY DEF FlattenSeq, Laid
<1> HIDE DEF F
<1> QED
  BY <1>1, <1>2

\* Where the i-th part of what is laid starts.
Offset(f, i) == IF i = 1 THEN 0 ELSE Len(f[i - 1])

LaidWell(f, seqs, m) ==
  /\ IsSequence(f[m]) /\ Offset(f, m) \in Nat /\ Len(f[m]) = Offset(f, m) + Len(seqs[m])
  /\ \A k \in 1..m : /\ Len(f[k]) \in Nat /\ Len(f[k]) <= Len(f[m])
                     /\ \A q \in 1..Len(f[k]) : f[m][q] = f[k][q]
  /\ \A n \in 1..Len(seqs[m]) : f[m][Offset(f, m) + n] = seqs[m][n]

LEMMA LaidIsWell ==
  ASSUME NEW seqs, IsSequence(seqs), \A i \in DOMAIN seqs : IsSequence(seqs[i]),
         NEW f, Laid(f, seqs, Len(seqs)), NEW m \in 1..Len(seqs)
  PROVE  LaidWell(f, seqs, m)
<1> DEFINE N == Len(seqs)
           Bad == {k \in 1..N : ~LaidWell(f, seqs, k)}
<1>0. N \in Nat /\ DOMAIN seqs = 1..N
  BY SequenceFacts
<1>1. SUFFICES ASSUME Bad # {} PROVE FALSE
  OBVIOUS
<1>2. PICK b \in Bad : \A k \in Bad : b <= k
  <2>1. Bad \subseteq Nat
    OBVIOUS
  <2> HIDE DEF Bad
  <2> QED
    BY <1>1, <2>1, LeastElement
<1>3. b \in 1..N /\ IsSequence(seqs[b]) /\ Len(seqs[b]) \in Nat
  BY <1>0, SequenceFacts
<1>4. f[b] = IF b = 1 THEN seqs[b] ELSE f[b - 1] \o seqs[b]
  BY <1>3 DEF Laid
<1>5. CASE b = 1
  <2>1. f[1] = seqs[1] /\ Offset(f, 1) = 0
    BY <1>4, <1>5 DEF Offset
  <2>2. \A n \in 1..Len(seqs[1]) : 0 + n = n
    BY <1>3, <1>5
  <2>3. 1..1 = {1}
    OBVIOUS
  <2> QED
    BY <1>3, <1>5, <2>1, <2>2, <2>3, <1>2 DEF LaidWell
<1>6. CASE b # 1
  <2> DEFINE a == b - 1
  <2>1. a \in 1..N /\ ~(b <= a) /\ b = a + 1
    BY <1>3, <1>6
  <2>2. LaidWell(f, seqs, a)
    BY <1>2, <2>1
  <2>3. IsSequence(f[a]) /\ Len(f[a]) \in Nat
    BY <2>2, SequenceFacts DEF LaidWell
  <2>4. f[b] = f[a] \o seqs[b] /\ Offset(f, b) = Len(f[a])
    BY <1>4, <1>6 DEF Offset
  <2> HIDE DEF a
  <2>5. /\ IsSequence(f[b]) /\ Len(f[b]) = Len(f[a]) + Len(seqs[b])
        /\ \A q \in 1..(Len(f[a]) + Len(seqs[b])) : f[b][q] = IF q <= Len(f[a]) THEN f[a][q] ELSE seqs[b][q - Len(f[a])]
    <3>1. \A s, t : IsSequence(s) /\ IsSequence(t) =>
             /\ IsSequence(s \o t) /\ Len(s \o t) = Len(s) + Len(t)
             /\ \A q \in 1..(Len(s) + Len(t)) : (s \o t)[q] = IF q <= Len(s) THEN s[q] ELSE t[q - Len(s)]
      BY JoinIsSequence
    <3>2. IsSequence(f[a]) /\ IsSequence(seqs[b])
      BY <1>3, <2>3
    <3> DEFINE s == f[a]
               t == seqs[b]
               u == f[b]
    <3>3. u = s \o t
      BY <2>4
    <3> HIDE DEF s, t, u
    <3>4. /\ IsSequence(s \o t) /\ Len(s \o t) = Len(s) + Len(t)
          /\ \A q \in 1..(Len(s) + Len(t)) : (s \o t)[q] = IF q <= Len(s) THEN s[q] ELSE t[q - Len(s)]
      BY <3>1, <3>2 DEF s, t
    <3>5. /\ IsSequence(u) /\ Len(u) = Len(s) + Len(t)
          /\ \A q \in 1..(Len(s) + Len(t)) : u[q] = IF q <= Len(s) THEN s[q] ELSE t[q - Len(s)]
      BY <3>3, <3>4
    <3> QED
      BY <3>5 DEF s, t, u
  <2>6. ASSUME NEW n \in 1..Len(seqs[b]) PROVE f[b][Offset(f, b) + n] = seqs[b][n]
    <3>1. /\ Len(f[a]) + n \in 1..(Len(f[a]) + Len(seqs[b])) /\ ~(Len(f[a]) + n <= Len(f[a]))
          /\ Len(f[a]) + n - Len(f[a]) = n
      <4>1. \A x, y \in Nat : \A i \in 1..y : x + i \in 1..(x + y) /\ ~(x + i <= x) /\ x + i - x = i
        OBVIOUS
      <4> QED
        BY <1>3, <2>3, <4>1, Zenon
    <3> QED
      BY <2>4, <2>5, <3>1
  <2>7. ASSUME NEW k \in 1..b
        PROVE  /\ Len(f[k]) \in Nat /\ Len(f[k]) <= Len(f[b])
               /\ \A q \in 1..Len(f[k]) : f[b][q] = f[k][q]
    <3>0. Len(f[b]) \in Nat /\ Len(f[a]) <= Len(f[b])
      <4>1. \A x, y \in Nat : x + y \in Nat /\ x <= x + y
        OBVIOUS
      <4> QED
        BY <1>3, <2>3, <2>5, <4>1
    <3>1. CASE k = b
      BY <3>0, <3>1
    <3>2. CASE k # b
      <4>1. k \in 1..a
        BY <2>1, <3>2
      <4>2. /\ Len(f[k]) \in Nat /\ Len(f[k]) <= Len(f[a])
            /\ \A q \in 1..Len(f[k]) : f[a][q] = f[k][q]
        BY <2>2, <4>1 DEF LaidWell
      <4>3. ASSUME NEW q \in 1..Len(f[k]) PROVE f[b][q] = f[k][q]
        <5>1. q \in 1..(Len(f[a]) + Len(seqs[b])) /\ q <= Len(f[a])
          <6>1. \A x, y, z \in Nat : z <= x => \A i \in 1..z : i \in 1..(x + y) /\ i <= x
            OBVIOUS
          <6> QED
            BY <1>3, <2>3, <4>2, <6>1
        <5> QED
          BY <2>5, <4>2, <5>1
      <4>4. Len(f[k]) <= Len(f[b])
        BY <2>3, <3>0, <4>2
      <4> QED
        BY <4>2, <4>3, <4>4
    <3> QED
      BY <3>1, <3>2
  <2>8. LaidWell(f, seqs, b)
    BY <2>3, <2>4, <2>5, <2>6, <2>7 DEF LaidWell
  <2> QED
    BY <2>8
<1> QED
  BY <1>5, <1>6

\* What FlattenSeq lays: each element of each sequence, in order.
LEMMA FlattenFacts ==
  ASSUME NEW seqs, IsSequence(seqs), \A i \in DOMAIN seqs : IsSequence(seqs[i])
  PROVE  /\ IsSequence(FlattenSeq(seqs))
         /\ \E off : /\ off \in [DOMAIN seqs -> Nat]
                     /\ \A i \in DOMAIN seqs : \A n \in DOMAIN seqs[i] :
                          off[i] + n \in DOMAIN FlattenSeq(seqs) /\ FlattenSeq(seqs)[off[i] + n] = seqs[i][n]
                     /\ \A q \in DOMAIN FlattenSeq(seqs) :
                          \E i \in DOMAIN seqs : \E n \in DOMAIN seqs[i] : q = off[i] + n
                     /\ \A i, j \in DOMAIN seqs : i < j => off[i] + Len(seqs[i]) <= off[j]
<1> DEFINE N == Len(seqs)
<1>0. N \in Nat /\ DOMAIN seqs = 1..N
  BY SequenceFacts
<1>1. CASE N = 0
  <2>1. FlattenSeq(seqs) = seqs /\ DOMAIN seqs = {}
    BY <1>0, <1>1 DEF FlattenSeq
  <2> DEFINE off == [i \in DOMAIN seqs |-> 0]
  <2>2. off \in [DOMAIN seqs -> Nat]
    OBVIOUS
  <2> QED
    BY <2>1, <2>2
<1>2. CASE N # 0
  <2>1. PICK f : Laid(f, seqs, N) /\ FlattenSeq(seqs) = f[N]
    BY <1>2, FlattenIsLaid
  <2>2. \A m \in 1..N : LaidWell(f, seqs, m)
    BY <2>1, LaidIsWell
  <2> DEFINE off == [i \in 1..N |-> Offset(f, i)]
  <2>3. N \in 1..N
    BY <1>0, <1>2
  <2>4. off \in [1..N -> Nat]
    BY <2>2 DEF LaidWell
  <2>5. \A i \in 1..N : Len(seqs[i]) \in Nat /\ DOMAIN seqs[i] = 1..Len(seqs[i])
    BY <1>0, SequenceFacts
  <2>6. IsSequence(f[N]) /\ DOMAIN f[N] = 1..Len(f[N]) /\ Len(f[N]) \in Nat
    BY <2>2, <2>3, SequenceFacts DEF LaidWell
  <2>7. ASSUME NEW i \in 1..N
        PROVE  Len(f[i]) \in Nat /\ Len(f[i]) = off[i] + Len(seqs[i]) /\ Len(f[i]) <= Len(f[N])
    BY <2>2, <2>3 DEF LaidWell
  <2>8. ASSUME NEW i \in 1..N, NEW n \in 1..Len(seqs[i])
        PROVE  off[i] + n \in 1..Len(f[N]) /\ f[N][off[i] + n] = seqs[i][n]
    <3>1. off[i] \in Nat /\ Len(seqs[i]) \in Nat
      BY <2>4, <2>5
    <3> HIDE DEF off
    <3>2. off[i] + n \in 1..Len(f[i]) /\ off[i] + n \in 1..Len(f[N])
      BY <2>6, <2>7, <3>1
    <3>3. f[N][off[i] + n] = f[i][off[i] + n]
      BY <2>2, <2>3, <3>2 DEF LaidWell
    <3>4. f[i][off[i] + n] = seqs[i][n]
      BY <2>2 DEF LaidWell, off
    <3> QED
      BY <3>2, <3>3, <3>4
  <2>9. ASSUME NEW i \in 1..N, NEW j \in 1..N, i < j
        PROVE  off[i] + Len(seqs[i]) <= off[j]
    <3>1. j # 1 /\ j - 1 \in 1..N /\ i \in 1..(j - 1)
      BY <2>9
    <3>2. off[j] = Len(f[j - 1])
      BY <3>1 DEF Offset
    <3>3. Len(f[i]) <= Len(f[j - 1])
      BY <2>2, <3>1 DEF LaidWell
    <3> QED
      BY <2>7, <3>2, <3>3
  <2>10. ASSUME NEW q \in 1..Len(f[N])
         PROVE  \E i \in 1..N : \E n \in 1..Len(seqs[i]) : q = off[i] + n
    <3> DEFINE Above == {i \in 1..N : q <= Len(f[i])}
    <3>1. Above \subseteq Nat /\ N \in Above
      BY <2>3, <2>6
    <3>2. PICK i \in Above : \A k \in Above : i <= k
      BY <3>1, LeastElement
    <3>3. i \in 1..N /\ q <= Len(f[i])
      OBVIOUS
    <3>4. off[i] < q
      <4>1. CASE i = 1
        BY <4>1, <2>3, <2>6 DEF Offset
      <4>2. CASE i # 1
        <5>1. i - 1 \in 1..N /\ ~(i <= i - 1)
          BY <3>3, <4>2
        <5>2. i - 1 \notin Above
          BY <3>2, <5>1
        <5>3. ~(q <= Len(f[i - 1])) /\ off[i] = Len(f[i - 1])
          BY <3>3, <4>2, <5>1, <5>2 DEF Offset
        <5>4. Len(f[i - 1]) \in Nat
          BY <2>7, <5>1
        <5> QED
          BY <2>6, <5>3, <5>4
      <4> QED
        BY <4>1, <4>2
    <3>5. off[i] \in Nat /\ Len(f[i]) = off[i] + Len(seqs[i]) /\ Len(seqs[i]) \in Nat
      BY <2>4, <2>5, <2>7, <3>3
    <3> HIDE DEF off, Above
    <3>6. q - off[i] \in 1..Len(seqs[i]) /\ q = off[i] + (q - off[i])
      BY <2>6, <3>3, <3>4, <3>5
    <3> QED
      BY <3>3, <3>6
  <2> HIDE DEF off
  <2> DEFINE F == FlattenSeq(seqs)
  <2>11. F = f[N] /\ DOMAIN F = 1..Len(f[N])
    BY <2>1, <2>6
  <2> HIDE DEF F
  <2>12. \A i \in DOMAIN seqs : \A n \in DOMAIN seqs[i] : off[i] + n \in DOMAIN F /\ F[off[i] + n] = seqs[i][n]
    BY <1>0, <2>5, <2>8, <2>11
  <2>13. \A q \in DOMAIN F : \E i \in DOMAIN seqs : \E n \in DOMAIN seqs[i] : q = off[i] + n
    BY <1>0, <2>5, <2>10, <2>11
  <2>14. /\ IsSequence(F) /\ off \in [DOMAIN seqs -> Nat]
         /\ \A i, j \in DOMAIN seqs : i < j => off[i] + Len(seqs[i]) <= off[j]
    BY <1>0, <2>4, <2>6, <2>9, <2>11
  <2> QED
    BY <2>12, <2>13, <2>14 DEF F
<1> QED
  BY <1>1, <1>2

LEMMA AscendsBack ==
  ASSUME NEW K, K \subseteq Nat, Cardinality(K) \in Nat, NEW g, Ascends(g, K),
         NEW a \in 1..Cardinality(K), NEW b \in 1..Cardinality(K), g[a] < g[b]
  PROVE  a < b
<1>1. g[a] \in Nat /\ g[b] \in Nat
  BY DEF Ascends
<1>2. a > b => g[b] < g[a]
  BY DEF Ascends
<1>3. a # b /\ ~(a > b)
  BY <1>1, <1>2
<1> QED
  BY <1>3

\* Each element of the list is kept where its key comes first, and those kept before it are before it.
LEMMA DistinctFacts ==
  ASSUME NEW whole, IsSequence(whole), NEW K, K \subseteq DOMAIN whole
  PROVE  LET list == Distinct(Kept(whole, K))
         IN /\ IsSequence(list)
            /\ \A p \in DOMAIN list : \E q \in K :
                 /\ list[p] = whole[q]
                 /\ \A k \in K : k < q => /\ Key(whole[k]) # Key(whole[q])
                                          /\ \E j \in 1..(p - 1) : Key(list[j]) = Key(whole[k])
<1> DEFINE mid == Kept(whole, K)
           First1 == {i \in DOMAIN mid : \A j \in 1..(i - 1) : Key(mid[j]) # Key(mid[i])}
           list == Kept(mid, First1)
<1>0. DOMAIN whole = 1..Len(whole) /\ Len(whole) \in Nat
  BY SequenceFacts
<1>1. /\ Cardinality(K) \in Nat /\ IsSequence(mid) /\ DOMAIN mid = 1..Cardinality(K)
  BY KeptAscends
<1>2. PICK g : Ascends(g, K) /\ \A p \in DOMAIN mid : mid[p] = whole[g[p]]
  <2>1. \A s : IsSequence(s) /\ K \subseteq DOMAIN s =>
          \E g : Ascends(g, K) /\ \A p \in DOMAIN Kept(s, K) : Kept(s, K)[p] = s[g[p]]
    BY KeptAscends
  <2> QED
    BY <2>1
<1>3. Distinct(mid) = list
  BY DEF Distinct
<1> HIDE DEF mid
<1>4. First1 \subseteq DOMAIN mid
  OBVIOUS
<1>5. Cardinality(First1) \in Nat /\ IsSequence(list) /\ DOMAIN list = 1..Cardinality(First1)
  <2> HIDE DEF First1
  <2> QED
    BY <1>1, <1>4, KeptAscends
<1>6. PICK h : Ascends(h, First1) /\ \A p \in DOMAIN list : list[p] = mid[h[p]]
  <2> HIDE DEF First1
  <2>1. \A s, k : IsSequence(s) /\ k \subseteq DOMAIN s =>
          \E up : Ascends(up, k) /\ \A p \in DOMAIN Kept(s, k) : Kept(s, k)[p] = s[up[p]]
    BY KeptAscends
  <2> QED
    BY <1>1, <1>4, <2>1
<1> HIDE DEF list
<1>7. ASSUME NEW p \in DOMAIN list
      PROVE  \E q \in K :
                 /\ list[p] = whole[q]
                 /\ \A k \in K : k < q => /\ Key(whole[k]) # Key(whole[q])
                                          /\ \E j \in 1..(p - 1) : Key(list[j]) = Key(whole[k])
  <2> DEFINE m == h[p]
             q == g[m]
  <2>1. m \in First1
    BY <1>5, <1>6 DEF Ascends
  <2>2. m \in DOMAIN mid /\ m \in 1..Cardinality(K)
    BY <1>1, <2>1
  <2>3. q \in K /\ list[p] = whole[q] /\ mid[m] = whole[q]
    BY <1>2, <1>6, <2>2 DEF Ascends
  <2>4. ASSUME NEW k \in K, k < q
        PROVE  /\ Key(whole[k]) # Key(whole[q])
               /\ \E j \in 1..(p - 1) : Key(list[j]) = Key(whole[k])
    <3>1. PICK n \in 1..Cardinality(K) : g[n] = k
      BY <1>2 DEF Ascends
    <3>2. n < m
      BY <1>0, <1>1, <1>2, <2>2, <2>4, <3>1, AscendsBack
    <3>3. mid[n] = whole[k] /\ n \in 1..(m - 1)
      BY <1>1, <1>2, <2>2, <3>1, <3>2
    <3>4. Key(mid[n]) # Key(mid[m])
      BY <2>1, <3>3
    <3> DEFINE Same == {i \in DOMAIN mid : Key(mid[i]) = Key(mid[n])}
    <3>5. n \in Same /\ Same \subseteq Nat
      BY <1>1, <3>1
    <3>6. PICK i \in Same : \A x \in Same : i <= x
      BY <3>5, LeastElement
    <3>7. i \in DOMAIN mid /\ i <= n /\ Key(mid[i]) = Key(mid[n])
      BY <3>5, <3>6
    <3>8. i \in First1
      <4>1. ASSUME NEW j \in 1..(i - 1) PROVE Key(mid[j]) # Key(mid[i])
        <5>1. j \in DOMAIN mid /\ ~(i <= j)
          BY <1>1, <3>7
        <5> QED
          BY <3>6, <3>7, <5>1
      <4> QED
        BY <3>7, <4>1
    <3>9. PICK j \in 1..Cardinality(First1) : h[j] = i
      BY <1>6, <3>8 DEF Ascends
    <3>10. i < m
      BY <1>1, <2>2, <3>2, <3>7
    <3>11. j < p
      <4>1. First1 \subseteq Nat
        BY <1>1
      <4>2. h[j] < h[p]
        BY <3>9, <3>10
      <4> HIDE DEF First1
      <4> QED
        BY <1>5, <1>6, <4>1, <4>2, AscendsBack
    <3>12. j \in 1..(p - 1) /\ j \in DOMAIN list
      BY <1>5, <3>11
    <3>13. Key(list[j]) = Key(whole[k])
      BY <1>6, <3>3, <3>7, <3>9, <3>12
    <3> QED
      BY <2>3, <3>3, <3>4, <3>12, <3>13
  <2> QED
    BY <2>3, <2>4
<1> QED
  BY <1>3, <1>5, <1>7 DEF mid

\* The other accounts of an agent, and no others.
LEMMA OthersFacts ==
  ASSUME NEW whose, IsSequence(accounts[whose]), NEW account, NEW model, NEW when
  PROVE  LET o == Others(whose, account, model, when)
         IN /\ IsSequence(o)
            /\ \A p \in DOMAIN o : \E n \in ToSet(accounts[whose]) : n # account /\ o[p] = Rung(whose, n, model, when)
            /\ \A n \in ToSet(accounts[whose]) : n # account => \E p \in DOMAIN o : o[p] = Rung(whose, n, model, when)
<1> DEFINE whole == accounts[whose]
           K == {i \in DOMAIN whole : whole[i] # account}
           rest == Kept(whole, K)
           o == [i \in DOMAIN rest |-> Rung(whose, rest[i], model, when)]
<1>1. Others(whose, account, model, when) = o
  BY DEF Others
<1>2. K \subseteq DOMAIN whole
  OBVIOUS
<1> HIDE DEF K
<1>3. Cardinality(K) \in Nat /\ DOMAIN rest = 1..Cardinality(K)
  BY <1>2, KeptAscends
<1>4. PICK g : Ascends(g, K) /\ \A p \in DOMAIN rest : rest[p] = whole[g[p]]
  BY <1>2, KeptAscends
<1> HIDE DEF rest
<1>5. IsSequence(o)
  BY <1>3, FunctionIsSequence
<1>6. ASSUME NEW p \in DOMAIN rest PROVE rest[p] \in ToSet(whole) /\ rest[p] # account
  <2>1. g[p] \in K
    BY <1>3, <1>4 DEF Ascends
  <2> QED
    BY <1>4, <2>1 DEF K, ToSet
<1>7. ASSUME NEW n \in ToSet(whole), n # account PROVE \E p \in DOMAIN rest : rest[p] = n
  <2>1. PICK i \in DOMAIN whole : whole[i] = n
    BY DEF ToSet
  <2>2. i \in K
    BY <1>7, <2>1 DEF K
  <2>3. PICK p \in 1..Cardinality(K) : g[p] = i
    BY <1>4, <2>2 DEF Ascends
  <2> QED
    BY <1>3, <1>4, <2>1, <2>3
<1>8. \A p \in DOMAIN o : \E n \in ToSet(whole) : n # account /\ o[p] = Rung(whose, n, model, when)
  BY <1>6
<1>9. \A n \in ToSet(whole) : n # account => \E p \in DOMAIN o : o[p] = Rung(whose, n, model, when)
  BY <1>7
<1> HIDE DEF o
<1> QED
  BY <1>1, <1>5, <1>8, <1>9

\* The list of a choice: who is on it, behind whom, and by which rung.
OnList(from, list, p) ==
  LET r == list[p]
  IN /\ ~Stays(from, r)
     /\ \/ /\ r.agent = from.agent /\ r.model = "none" /\ OnMachine(r)
        \/ \E i \in DOMAIN ladder :
             /\ r.agent = ladder[i].agent /\ r.model = ladder[i].model /\ r.when = ladder[i].when
             /\ r.account = ladder[i].account \/ OnMachine(r)
             /\ \A j \in 1..(i - 1) : /\ Stays(from, ladder[j]) \/ \E k \in 1..(p - 1) : Key(list[k]) = Key(ladder[j])
                                      /\ j \notin Reaches(r)

LEMMA StaysByKey ==
  ASSUME NEW from, NEW r, NEW x, Key(r) = Key(x)
  PROVE  Stays(from, r) <=> Stays(from, x)
BY DEF Key, Stays, Login

LEMMA CandidateFacts ==
  ASSUME NEW from, IsSequence(ladder), IsSequence(accounts[from.agent]),
         \A i \in DOMAIN ladder : IsSequence(accounts[ladder[i].agent])
  PROVE  /\ IsSequence(candidates(from))
         /\ \A p \in DOMAIN candidates(from) : OnList(from, candidates(from), p)
<1> DEFINE own == Others(from.agent, from.account, "none", "always")
           around(r) == <<r>> \o Others(r.agent, r.account, r.model, r.when)
           seqs == [i \in DOMAIN ladder |-> around(ladder[i])]
           flat == FlattenSeq(seqs)
           whole == own \o flat
           K == {q \in DOMAIN whole : ~Stays(from, whole[q])}
           list == Distinct(Kept(whole, K))
<1>1. candidates(from) = list
  BY DEF candidates
<1>2. DOMAIN ladder = 1..Len(ladder) /\ Len(ladder) \in Nat
  BY SequenceFacts
<1>3. IsSequence(own) /\ \A p \in DOMAIN own : \E n \in ToSet(accounts[from.agent]) : own[p] = Rung(from.agent, n, "none", "always")
  BY OthersFacts
<1>4. ASSUME NEW i \in DOMAIN ladder
      PROVE  LET r == ladder[i]
             IN /\ IsSequence(around(r)) /\ 1 \in DOMAIN around(r) /\ around(r)[1] = r
                /\ \A p \in DOMAIN around(r) :
                     LET x == around(r)[p]
                     IN /\ x.agent = r.agent /\ x.model = r.model /\ x.when = r.when
                        /\ x.account = r.account \/ x.account \in ToSet(accounts[r.agent])
                /\ \A n \in ToSet(accounts[r.agent]) \cup {r.account} :
                     \E p \in DOMAIN around(r) : Key(around(r)[p]) = <<r.agent, n, r.model>>
  <2> DEFINE r == ladder[i]
             o == Others(r.agent, r.account, r.model, r.when)
             one == <<r>>
             u == around(r)
  <2>1. /\ IsSequence(o)
        /\ \A p \in DOMAIN o : \E n \in ToSet(accounts[r.agent]) : n # r.account /\ o[p] = Rung(r.agent, n, r.model, r.when)
        /\ \A n \in ToSet(accounts[r.agent]) : n # r.account => \E p \in DOMAIN o : o[p] = Rung(r.agent, n, r.model, r.when)
    BY OthersFacts
  <2>2. IsSequence(one) /\ Len(one) = 1 /\ one[1] = r
    BY DEF IsSequence, ToSet
  <2>3. u = one \o o
    OBVIOUS
  <2> HIDE DEF r, o, one, u
  <2>4. /\ IsSequence(u) /\ Len(u) = 1 + Len(o)
        /\ \A q \in 1..(1 + Len(o)) : u[q] = IF q <= 1 THEN one[q] ELSE o[q - 1]
    <3>1. /\ IsSequence(one \o o) /\ Len(one \o o) = Len(one) + Len(o)
          /\ \A q \in 1..(Len(one) + Len(o)) : (one \o o)[q] = IF q <= Len(one) THEN one[q] ELSE o[q - Len(one)]
      <4>1. \A s, t : IsSequence(s) /\ IsSequence(t) =>
               /\ IsSequence(s \o t) /\ Len(s \o t) = Len(s) + Len(t)
               /\ \A q \in 1..(Len(s) + Len(t)) : (s \o t)[q] = IF q <= Len(s) THEN s[q] ELSE t[q - Len(s)]
        BY JoinIsSequence
      <4>2. IsSequence(one) /\ IsSequence(o)
        BY <2>1, <2>2
      <4> QED
        BY <4>1, <4>2
    <3> QED
      BY <2>2, <2>3, <3>1
  <2>5. /\ Len(o) \in Nat /\ DOMAIN o = 1..Len(o) /\ DOMAIN u = 1..(1 + Len(o))
    BY <2>1, <2>4, SequenceFacts
  <2>6. 1 \in DOMAIN u /\ u[1] = r
    BY <2>2, <2>4, <2>5
  <2>7. ASSUME NEW p \in DOMAIN u
        PROVE  /\ u[p].agent = r.agent /\ u[p].model = r.model /\ u[p].when = r.when
               /\ u[p].account = r.account \/ u[p].account \in ToSet(accounts[r.agent])
    <3>1. CASE p = 1
      BY <2>6, <3>1
    <3>2. CASE p # 1
      <4>1. p - 1 \in DOMAIN o /\ u[p] = o[p - 1]
        BY <2>4, <2>5, <3>2
      <4>2. PICK n \in ToSet(accounts[r.agent]) : o[p - 1] = Rung(r.agent, n, r.model, r.when)
        BY <2>1, <4>1
      <4> QED
        BY <4>1, <4>2 DEF Rung
    <3> QED
      BY <3>1, <3>2
  <2>8. ASSUME NEW n \in ToSet(accounts[r.agent]) \cup {r.account}
        PROVE  \E p \in DOMAIN u : Key(u[p]) = <<r.agent, n, r.model>>
    <3>1. CASE n = r.account
      BY <2>6, <3>1 DEF Key
    <3>2. CASE n # r.account
      <4>1. PICK p \in DOMAIN o : o[p] = Rung(r.agent, n, r.model, r.when)
        BY <2>1, <3>2
      <4>2. p + 1 \in DOMAIN u /\ u[p + 1] = o[p]
        <5>1. p \in Nat /\ p + 1 \in 1..(1 + Len(o)) /\ ~(p + 1 <= 1) /\ p + 1 - 1 = p
          BY <2>5
        <5> QED
          BY <2>4, <2>5, <5>1
      <4>3. Key(u[p + 1]) = <<r.agent, n, r.model>>
        BY <4>1, <4>2 DEF Rung, Key
      <4> QED
        BY <4>2, <4>3
    <3> QED
      BY <3>1, <3>2
  <2> QED
    BY <2>4, <2>6, <2>7, <2>8 DEF r, u
<1>5. IsSequence(seqs) /\ DOMAIN seqs = DOMAIN ladder /\ \A i \in DOMAIN seqs : seqs[i] = around(ladder[i]) /\ IsSequence(seqs[i])
  <2>1. IsSequence(seqs)
    BY <1>2, FunctionIsSequence
  <2> QED
    BY <1>4, <2>1
<1> HIDE DEF own, around, seqs
<1>6. IsSequence(flat)
  BY <1>5, FlattenFacts
<1>7. PICK off : /\ off \in [DOMAIN seqs -> Nat]
                 /\ \A i \in DOMAIN seqs : \A n \in DOMAIN seqs[i] :
                      off[i] + n \in DOMAIN flat /\ flat[off[i] + n] = seqs[i][n]
                 /\ \A q \in DOMAIN flat : \E i \in DOMAIN seqs : \E n \in DOMAIN seqs[i] : q = off[i] + n
                 /\ \A i, j \in DOMAIN seqs : i < j => off[i] + Len(seqs[i]) <= off[j]
  BY <1>5, FlattenFacts
<1> HIDE DEF flat
<1>8. /\ IsSequence(whole) /\ DOMAIN whole = 1..(Len(own) + Len(flat))
      /\ Len(own) \in Nat /\ DOMAIN own = 1..Len(own) /\ Len(flat) \in Nat /\ DOMAIN flat = 1..Len(flat)
      /\ \A i \in 1..(Len(own) + Len(flat)) : whole[i] = IF i <= Len(own) THEN own[i] ELSE flat[i - Len(own)]
  <2>1. /\ IsSequence(whole) /\ Len(whole) = Len(own) + Len(flat)
        /\ \A i \in 1..(Len(own) + Len(flat)) : whole[i] = IF i <= Len(own) THEN own[i] ELSE flat[i - Len(own)]
    BY <1>3, <1>6, JoinIsSequence
  <2> HIDE DEF whole
  <2> QED
    BY <1>3, <1>6, <2>1, SequenceFacts
<1> HIDE DEF whole
<1>9. ASSUME NEW i \in DOMAIN ladder, NEW n \in DOMAIN seqs[i]
      PROVE  /\ Len(own) + off[i] + n \in DOMAIN whole
             /\ whole[Len(own) + off[i] + n] = seqs[i][n]
  <2>1. off[i] + n \in 1..Len(flat) /\ flat[off[i] + n] = seqs[i][n]
    BY <1>5, <1>7, <1>8
  <2>2. off[i] \in Nat /\ n \in Nat
    <3>1. IsSequence(seqs[i])
      BY <1>5
    <3>2. n \in 1..Len(seqs[i])
      BY <3>1, SequenceFacts
    <3> QED
      BY <1>5, <1>7, <3>2
  <2>3. /\ Len(own) + off[i] + n \in 1..(Len(own) + Len(flat)) /\ ~(Len(own) + off[i] + n <= Len(own))
        /\ Len(own) + off[i] + n - Len(own) = off[i] + n
    <3>1. \A x, y, z, w \in Nat : y + z \in 1..w => /\ x + y + z \in 1..(x + w) /\ ~(x + y + z <= x)
                                                   /\ x + y + z - x = y + z
      OBVIOUS
    <3> QED
      BY <1>8, <2>1, <2>2, <3>1
  <2>4. \A k \in 1..(Len(own) + Len(flat)) : ~(k <= Len(own)) => k \in DOMAIN whole /\ whole[k] = flat[k - Len(own)]
    BY <1>8
  <2> QED
    BY <1>8, <2>1, <2>2, <2>3, <2>4
<1>10. K \subseteq DOMAIN whole
  OBVIOUS
<1>11. /\ IsSequence(list)
       /\ \A p \in DOMAIN list : \E q \in K :
            /\ list[p] = whole[q]
            /\ \A k \in K : k < q => /\ Key(whole[k]) # Key(whole[q])
                                     /\ \E j \in 1..(p - 1) : Key(list[j]) = Key(whole[k])
  <2> HIDE DEF K
  <2> QED
    BY <1>8, <1>10, DistinctFacts
<1> HIDE DEF list
<1>12. ASSUME NEW p \in DOMAIN list PROVE OnList(from, list, p)
  <2>1. PICK q \in K :
          /\ list[p] = whole[q]
          /\ \A k \in K : k < q => /\ Key(whole[k]) # Key(whole[q])
                                   /\ \E j \in 1..(p - 1) : Key(list[j]) = Key(whole[k])
    BY <1>11
  <2> DEFINE r == list[p]
  <2>2. q \in 1..(Len(own) + Len(flat)) /\ ~Stays(from, r)
    BY <1>8, <2>1
  <2>3. CASE q <= Len(own)
    <3>1. q \in DOMAIN own /\ r = own[q]
      BY <1>8, <2>1, <2>2, <2>3
    <3>2. PICK n \in ToSet(accounts[from.agent]) : own[q] = Rung(from.agent, n, "none", "always")
      BY <1>3, <3>1
    <3>3. r.agent = from.agent /\ r.model = "none" /\ r.account = n
      BY <3>1, <3>2 DEF Rung
    <3> QED
      BY <2>2, <3>2, <3>3 DEF OnList, OnMachine
  <2>4. CASE ~(q <= Len(own))
    <3>1. q - Len(own) \in DOMAIN flat
      BY <1>8, <2>2, <2>4
    <3>2. PICK i \in DOMAIN seqs : \E n \in DOMAIN seqs[i] : q - Len(own) = off[i] + n
      BY <1>7, <3>1
    <3>3. PICK n \in DOMAIN seqs[i] : q - Len(own) = off[i] + n
      BY <3>2
    <3>4. i \in DOMAIN ladder /\ IsSequence(seqs[i]) /\ seqs[i] = around(ladder[i])
      BY <1>5
    <3>5. n \in Nat /\ n > 0 /\ off[i] \in Nat
      <4>1. n \in 1..Len(seqs[i]) /\ Len(seqs[i]) \in Nat
        BY <3>4, SequenceFacts
      <4> QED
        BY <1>7, <4>1
    <3>6. q = Len(own) + off[i] + n
      <4>1. \A w, x, y, z \in Int : w - x = y + z => w = x + y + z
        OBVIOUS
      <4>2. q \in Int /\ Len(own) \in Int /\ off[i] \in Int /\ n \in Int
        BY <1>8, <2>2, <3>5
      <4> QED
        BY <3>3, <4>1, <4>2
    <3>7. r = seqs[i][n]
      BY <1>9, <2>1, <3>4, <3>6
    <3>8. /\ r.agent = ladder[i].agent /\ r.model = ladder[i].model /\ r.when = ladder[i].when
          /\ r.account = ladder[i].account \/ r.account \in ToSet(accounts[r.agent])
      BY <1>4, <3>4, <3>7
    <3>9. ASSUME NEW j \in 1..(i - 1)
          PROVE  /\ j \in DOMAIN ladder /\ j < i
                 /\ \A m \in DOMAIN seqs[j] :
                      LET k == Len(own) + off[j] + m
                      IN k \in DOMAIN whole /\ k < q /\ whole[k] = seqs[j][m]
      <4>1. j \in DOMAIN ladder /\ j < i
        BY <1>2, <3>4
      <4>2. off[j] + Len(seqs[j]) <= off[i] /\ off[j] \in Nat
        BY <1>5, <1>7, <3>4, <4>1
      <4>3. ASSUME NEW m \in DOMAIN seqs[j] PROVE Len(own) + off[j] + m < q
        <5>1. m \in 1..Len(seqs[j]) /\ Len(seqs[j]) \in Nat
          <6>1. IsSequence(seqs[j])
            BY <1>5, <4>1
          <6> QED
            BY <6>1, SequenceFacts
        <5> QED
          BY <1>8, <3>5, <3>6, <4>2, <5>1
      <4> QED
        BY <1>9, <4>1, <4>3
    <3>10. ASSUME NEW j \in 1..(i - 1)
           PROVE  Stays(from, ladder[j]) \/ \E k \in 1..(p - 1) : Key(list[k]) = Key(ladder[j])
      <4>1. 1 \in DOMAIN seqs[j] /\ seqs[j][1] = ladder[j]
        BY <1>4, <1>5, <3>9
      <4> DEFINE k == Len(own) + off[j] + 1
      <4>2. k \in DOMAIN whole /\ k < q /\ whole[k] = ladder[j]
        BY <3>9, <4>1
      <4> HIDE DEF k
      <4>3. CASE Stays(from, ladder[j])
        BY <4>3
      <4>4. CASE ~Stays(from, ladder[j])
        <5>1. k \in K
          BY <4>2, <4>4
        <5> QED
          BY <2>1, <4>2, <5>1
      <4> QED
        BY <4>3, <4>4
    <3>11. ASSUME NEW j \in 1..(i - 1), j \in Reaches(r) PROVE FALSE
      <4>1. /\ j \in DOMAIN ladder /\ ladder[j].agent = r.agent /\ ladder[j].model = r.model
            /\ r.account \in ToSet(accounts[ladder[j].agent]) \cup {ladder[j].account}
        BY <3>11 DEF Reaches, OnMachine
      <4>2. PICK m \in DOMAIN seqs[j] : Key(seqs[j][m]) = <<ladder[j].agent, r.account, ladder[j].model>>
        <5>1. \A y \in ToSet(accounts[ladder[j].agent]) \cup {ladder[j].account} :
                \E x \in DOMAIN around(ladder[j]) : Key(around(ladder[j])[x]) = <<ladder[j].agent, y, ladder[j].model>>
          BY <1>4, <4>1
        <5> QED
          BY <1>5, <4>1, <5>1
      <4>3. Key(seqs[j][m]) = Key(r)
        BY <4>1, <4>2 DEF Key
      <4> DEFINE k == Len(own) + off[j] + m
      <4>4. k \in DOMAIN whole /\ k < q /\ whole[k] = seqs[j][m]
        BY <3>9
      <4> HIDE DEF k
      <4>5. k \in K
        BY <2>2, <4>3, <4>4, StaysByKey
      <4>6. Key(whole[k]) # Key(whole[q])
        BY <2>1, <4>4, <4>5
      <4> QED
        BY <2>1, <4>3, <4>4, <4>6
    <3> HIDE DEF K, r
    <3>12. OnList(from, list, p) <=>
             /\ ~Stays(from, r)
             /\ \/ /\ r.agent = from.agent /\ r.model = "none" /\ OnMachine(r)
                \/ \E x \in DOMAIN ladder :
                     /\ r.agent = ladder[x].agent /\ r.model = ladder[x].model /\ r.when = ladder[x].when
                     /\ r.account = ladder[x].account \/ OnMachine(r)
                     /\ \A j \in 1..(x - 1) : /\ Stays(from, ladder[j]) \/ \E k \in 1..(p - 1) : Key(list[k]) = Key(ladder[j])
                                              /\ j \notin Reaches(r)
      BY DEF OnList, r
    <3> QED
      BY <2>2, <3>4, <3>8, <3>10, <3>11, <3>12 DEF OnMachine
  <2> QED
    BY <2>3, <2>4
<1> QED
  BY <1>1, <1>11, <1>12 DEF list
-----------------------------------------------------------------------------
(* Where a leg starts.                                                     *)

Known(l) == IsSequence(l) /\ \A i \in DOMAIN l : l[i].agent \in DOMAIN Names
HasAccounts(l) == \A i \in DOMAIN l : OnMachine(l[i])

\* The terminal was started on an agent Leg knows, and the ladder of its start names such agents.
LadderInv ==
  /\ SettingsInv
  /\ phase \in {"none", "runs", "stopped", "waits"}
  /\ start = "read" => Known(copy.ladder)
  /\ start \in {"none", "read"} => phase = "none"
  /\ phase = "none" => on = Leg(First)
  /\ on.agent \in DOMAIN Names

LEMMA TakenIsOfSequence ==
  ASSUME NEW s, IsSequence(s), NEW K, K \subseteq DOMAIN s, NEW p \in DOMAIN Kept(s, K)
  PROVE  \E k \in K : Kept(s, K)[p] = s[k]
<1>1. Cardinality(K) \in Nat /\ DOMAIN Kept(s, K) = 1..Cardinality(K)
  BY KeptAscends
<1>2. PICK g : Ascends(g, K) /\ \A q \in DOMAIN Kept(s, K) : Kept(s, K)[q] = s[g[q]]
  <2>1. \A t : IsSequence(t) /\ K \subseteq DOMAIN t =>
          \E g : Ascends(g, K) /\ \A q \in DOMAIN Kept(t, K) : Kept(t, K)[q] = t[g[q]]
    BY KeptAscends
  <2> QED
    BY <2>1
<1>3. g[p] \in K
  BY <1>1, <1>2 DEF Ascends
<1> QED
  BY <1>2, <1>3

LEMMA SalvagedIsValid ==
  ASSUME NEW l, IsSequence(l), NEW p \in DOMAIN salvage(l)
  PROVE  ValidRung(salvage(l)[p])
<1> DEFINE v == Valid(l)
           K == {i \in DOMAIN l : ValidRung(l[i])}
           D == {i \in DOMAIN v : \A j \in 1..(i - 1) : Key(v[j]) # Key(v[i])}
<1>1. v = Kept(l, K) /\ salvage(l) = Kept(v, D) /\ IsSequence(v)
  BY SalvageIsSequence DEF Valid, salvage, Distinct
<1> HIDE DEF v
<1>2. D \subseteq DOMAIN v /\ K \subseteq DOMAIN l
  OBVIOUS
<1>3. \E k \in D : salvage(l)[p] = v[k]
  <2> HIDE DEF D
  <2>1. \A t, E : IsSequence(t) /\ E \subseteq DOMAIN t =>
          \A q \in DOMAIN Kept(t, E) : \E k \in E : Kept(t, E)[q] = t[k]
    BY TakenIsOfSequence
  <2>2. \A q \in DOMAIN Kept(v, D) : \E k \in D : Kept(v, D)[q] = v[k]
    <3>1. IsSequence(v)
      BY <1>1
    <3>2. D \subseteq DOMAIN v
      BY <1>2
    <3>3. IsSequence(v) /\ D \subseteq DOMAIN v =>
            \A q \in DOMAIN Kept(v, D) : \E k \in D : Kept(v, D)[q] = v[k]
      BY <2>1
    <3> QED
      BY <3>1, <3>2, <3>3
  <2> QED
    BY <1>1, <2>2, Zenon
<1>4. PICK k \in DOMAIN v : salvage(l)[p] = v[k]
  BY <1>2, <1>3
<1>5. \E i \in K : v[k] = l[i]
  <2> HIDE DEF K
  <2> QED
    BY <1>1, <1>2, <1>4, TakenIsOfSequence
<1> QED
  BY <1>4, <1>5

LEMMA AgentNames == DOMAIN Names = {"claude", "codex", "agy", "grok"}
<1>1. ToSet(<<"claude", "codex", "agy", "grok">>) = {"claude", "codex", "agy", "grok"}
  BY DEF ToSet
<1> QED
  BY <1>1, AllFour, SettingsAssumption

LEMMA OrderLadderIsKnown ==
  ASSUME SettingsInv, NEW o, IsSequence(o), validHandoffOrder(o)
  PROVE  Known(ladderFromOrder(o)) /\ HasAccounts(ladderFromOrder(o))
<1> DEFINE l == ladderFromOrder(o)
<1>1. /\ IsSequence(l) /\ DOMAIN l = DOMAIN o
      /\ \A i \in DOMAIN o : l[i] = Rung(o[i], "default", "none", "always")
  BY OrderOfOrder
<1>2. \A i \in DOMAIN o : o[i] \in DOMAIN Names
  <2>1. ToSet(o) \subseteq {"claude", "codex", "agy", "grok"}
    <3>1. ToSet(HandoffAgents) = {"claude", "codex", "agy"}
      BY DEF ToSet, HandoffAgents
    <3>2. ToSet(AllHandoffAgents) = DOMAIN Names
      BY SettingsAssumption
    <3> QED
      BY <3>1, <3>2, OrderIsDistinct, AgentNames
  <2> QED
    BY <2>1, AgentNames DEF ToSet
<1> HIDE DEF l
<1>3. ASSUME NEW i \in DOMAIN l PROVE l[i].agent \in DOMAIN Names /\ OnMachine(l[i])
  <2>1. l[i].agent = o[i] /\ l[i].account = "default"
    BY <1>1 DEF Rung
  <2> QED
    BY <1>1, <1>2, <2>1 DEF OnMachine, SettingsInv
<1> QED
  BY <1>1, <1>3 DEF Known, HasAccounts, l

\* A ladder as it is read names agents Leg knows, on accounts the machine has.
LEMMA LadderIsKnown ==
  ASSUME SettingsInv, NEW l, IsSequence(l), NEW o, IsSequence(o)
  PROVE  Known(normalizeHandoffLadder(l, o)) /\ HasAccounts(normalizeHandoffLadder(l, o))
<1>1. Known(salvage(l)) /\ HasAccounts(salvage(l))
  <2>1. IsSequence(salvage(l))
    BY SalvageIsSequence
  <2>2. ASSUME NEW p \in DOMAIN salvage(l)
        PROVE  salvage(l)[p].agent \in DOMAIN Names /\ OnMachine(salvage(l)[p])
    BY SalvagedIsValid, SettingsAssumption DEF ValidRung, OnMachine
  <2> QED
    BY <2>1, <2>2 DEF Known, HasAccounts
<1>2. ASSUME validHandoffOrder(o)
      PROVE  Known(ladderFromOrder(o)) /\ HasAccounts(ladderFromOrder(o))
  BY <1>2, OrderLadderIsKnown
<1>3. Known(DefaultLadder) /\ HasAccounts(DefaultLadder)
  BY LaddersAssumption DEF Known, HasAccounts, OnMachine, SettingsInv
<1> QED
  BY <1>1, <1>2, <1>3 DEF normalizeHandoffLadder

LEMMA RecordLadderIsKnown ==
  ASSUME SettingsInv
  PROVE  Known(ladderFor(rec)) /\ HasAccounts(ladderFor(rec))
<1>1. IsSequence(rec.ladder) /\ IsSequence(rec.order)
  BY DEF SettingsInv
<1>2. /\ Known(normalizeHandoffLadder(rec.ladder, rec.order))
      /\ HasAccounts(normalizeHandoffLadder(rec.ladder, rec.order))
  BY <1>1, LadderIsKnown
<1>3. ASSUME validHandoffOrder(rec.order)
      PROVE  Known(ladderFromOrder(rec.order)) /\ HasAccounts(ladderFromOrder(rec.order))
  BY <1>1, <1>3, OrderLadderIsKnown
<1> QED
  BY <1>2, <1>3 DEF ladderFor

LEMMA KeyDecides ==
  ASSUME NEW r, NEW x, Key(r) = Key(x)
  PROVE  /\ r.agent = x.agent /\ r.account = x.account /\ r.model = x.model /\ Login(r) = Login(x)
         /\ LoginOpen(r) <=> LoginOpen(x) 
         /\ ModelOut(r) <=> ModelOut(x)
         /\ Walled(r) <=> Walled(x)
         /\ PastReserve(r) <=> PastReserve(x)
         /\ OnMachine(r) <=> OnMachine(x)
<1>1. r.agent = x.agent /\ r.account = x.account /\ r.model = x.model
  BY DEF Key
<1>2. Login(r) = Login(x)
  BY <1>1 DEF Login
<1>3. Bound(r) = Bound(x) /\ (LoginOpen(r) <=> LoginOpen(x)) /\ (ModelOut(r) <=> ModelOut(x))
  BY <1>1, <1>2 DEF Bound, LoginOpen, ModelOut
<1>4. Full(r) <=> Full(x)
  BY <1>3 DEF Full
<1> QED
  BY <1>1, <1>2, <1>3, <1>4 DEF Walled, PastReserve, OnMachine

\* What is chosen may be taken.
LEMMA ChoiceIsTakeable ==
  ASSUME NEW from, NEW list, IsSequence(list), NEW automatic, chooseNext(from, list, automatic) # 0
  PROVE  LET p == chooseNext(from, list, automatic)
         IN p \in DOMAIN list /\ Takeable(from, list, p, automatic)
<1> DEFINE open == {i \in DOMAIN list : Takeable(from, list, i, automatic)}
           wish == IF prefer.agent = "none" THEN {} ELSE Wanted(list, prefer)
<1>1. open \subseteq Nat
  BY SequenceFacts
<1>2. chooseNext(from, list, automatic) \in open
  <2>1. CASE wish # {} /\ Min(wish) \in open
    BY <2>1 DEF chooseNext
  <2>2. CASE ~(wish # {} /\ Min(wish) \in open) /\ open # {}
    <3>1. chooseNext(from, list, automatic) = Min(open)
      BY <2>2 DEF chooseNext
    <3> HIDE DEF open
    <3> QED
      BY <1>1, <2>2, <3>1, MinIsLeast
  <2>3. CASE ~(wish # {} /\ Min(wish) \in open) /\ open = {}
    BY <2>3 DEF chooseNext
  <2> QED
    BY <2>1, <2>2, <2>3
<1> QED
  BY <1>2

LEMMA ReadLadder ==
  ASSUME IsPreferences(file)
  PROVE  readPreferences.ladder = normalizeHandoffLadder(file.ladder, file.order)
BY DEF readPreferences, IsPreferences

\* Whoever is on a list is of an agent Leg knows.
LEMMA ListIsKnown ==
  ASSUME LadderInv, phase # "none"
  PROVE  /\ IsSequence(candidates(Recorded))
         /\ \A p \in DOMAIN candidates(Recorded) :
              candidates(Recorded)[p].agent \in DOMAIN Names /\ OnList(Recorded, candidates(Recorded), p)
<1>1. Known(ladder)
  BY RecordLadderIsKnown DEF ladder, LadderInv
<1>2. Recorded.agent \in DOMAIN Names
  BY DEF LadderInv, Recorded, Rung
<1>3. /\ IsSequence(candidates(Recorded))
      /\ \A p \in DOMAIN candidates(Recorded) : OnList(Recorded, candidates(Recorded), p)
  <2>1. /\ IsSequence(ladder) /\ IsSequence(accounts[Recorded.agent])
        /\ \A i \in DOMAIN ladder : IsSequence(accounts[ladder[i].agent])
    BY <1>1, <1>2 DEF Known, SettingsInv, LadderInv
  <2> QED
    BY <2>1, CandidateFacts
<1> QED
  BY <1>1, <1>2, <1>3 DEF OnList, Known

LEMMA BeginListIsKnown ==
  ASSUME LadderInv, BeginLeg
  PROVE  /\ IsSequence(candidates(First))
         /\ \A p \in DOMAIN candidates(First) :
              candidates(First)[p].agent \in DOMAIN Names /\ OnList(First, candidates(First), p)
<1>1. start = "read" /\ SettingsInv
  BY DEF BeginLeg, CreateRecord, LadderInv
<1>2. Known(ladder)
  BY <1>1, RecordLadderIsKnown DEF ladder, LadderInv
<1>3. First.agent \in DOMAIN Names
  BY LadderAssumption DEF Agents
<1>4. /\ IsSequence(candidates(First))
      /\ \A p \in DOMAIN candidates(First) : OnList(First, candidates(First), p)
  BY <1>1, <1>2, <1>3, CandidateFacts DEF Known, SettingsInv
<1> QED
  BY <1>2, <1>3, <1>4 DEF OnList, Known

LEMMA LadderStart == LadderInit => LadderInv
<1> SUFFICES ASSUME LadderInit PROVE LadderInv
  OBVIOUS
<1>1. SettingsInv /\ start = "none"
  BY SettingsStart DEF LadderInit, SettingsInit
<1>2. on = Leg(First) /\ phase = "none" /\ on.agent = First.agent
  BY DEF LadderInit, Leg
<1> QED
  BY <1>1, <1>2, LadderAssumption DEF LadderInv, Agents

LEMMA LadderStep ==
  ASSUME LadderInv, [LadderNext]_ladderVars
  PROVE  LadderInv'
<1>0. SettingsInv /\ SettingsInv'
  BY SettingsStep DEF LadderInv
<1>1. CASE BeginLeg
  <2> DEFINE list == candidates(First)
             next == chooseNext(First, list, TRUE)
  <2>1. phase' = "runs" /\ start = "read" /\ start' = "created"
    BY <1>1 DEF BeginLeg, CreateRecord
  <2>2. on' = Leg(IF LoginOpen(First) \/ next = 0 THEN First ELSE list[next])
    BY <1>1 DEF BeginLeg
  <2>3. CASE LoginOpen(First) \/ next = 0
    BY <1>0, <2>1, <2>2, <2>3, LadderAssumption DEF LadderInv, Leg, Agents
  <2>4. CASE ~(LoginOpen(First) \/ next = 0)
    <3>1. list[next].agent \in DOMAIN Names
      BY <1>1, <2>4, BeginListIsKnown, ChoiceIsTakeable
    <3> QED
      BY <1>0, <2>1, <2>2, <2>4, <3>1 DEF LadderInv, Leg
  <2> QED
    BY <2>3, <2>4
<1>2. CASE Learn
  BY <1>0, <1>2 DEF Learn, LadderInv, settings, quiet, Known
<1>3. CASE Choose
  <2> DEFINE list == candidates(Recorded)
             next == chooseNext(Recorded, list, reason # "handoff")
  <2>1. phase = "stopped" /\ UNCHANGED settings
    BY <1>3 DEF Choose
  <2>2. \/ next # 0 /\ Goes(list[next])
        \/ Goes(Recorded)
        \/ phase' = "waits" /\ UNCHANGED on
    BY <1>3 DEF Choose
  <2>3. CASE next # 0 /\ Goes(list[next])
    <3>1. list[next].agent \in DOMAIN Names
      BY <2>1, <2>3, ListIsKnown, ChoiceIsTakeable
    <3> QED
      BY <1>0, <2>1, <2>3, <3>1 DEF LadderInv, Goes, Leg, settings, quiet, Known
  <2>4. CASE Goes(Recorded)
    BY <1>0, <2>1, <2>4 DEF LadderInv, Goes, Leg, Recorded, Rung, settings, quiet, Known
  <2>5. CASE phase' = "waits" /\ UNCHANGED on
    BY <1>0, <2>1, <2>5 DEF LadderInv, settings, quiet, Known
  <2> QED
    BY <2>2, <2>3, <2>4, <2>5
<1>4. CASE Ready \/ Tick \/ UNCHANGED ladderVars
  BY <1>0, <1>4 DEF Ready, Tick, ladderVars, terminal, LadderInv, settings, quiet, Known
<1>5. CASE (StartReads \/ CopyLadder \/ Writes) /\ UNCHANGED <<now, use, extra, terminal>>
  <2>1. UNCHANGED <<phase, on>>
    BY <1>5 DEF terminal
  <2>2. start' = "read" => Known(copy'.ladder)
    <3>1. CASE StartReads
      <4>1. Known(readPreferences.ladder)
        BY <1>0, LadderIsKnown, ReadLadder DEF SettingsInv, IsPreferences
      <4> QED
        BY <3>1, <4>1 DEF StartReads
    <3>2. CASE CopyLadder
      BY <3>2 DEF CopyLadder
    <3>3. CASE Writes
      <4>1. UNCHANGED <<start, copy>>
        BY <3>3 DEF Writes, SaveLadder, SaveOrder, SaveSpend, LadderReads, LadderWrites, Type, OlderLeg, EditTerminal,
             addAccount, removeAccount
      <4> QED
        BY <4>1 DEF LadderInv
    <3> QED
      BY <1>5, <3>1, <3>2, <3>3
  <2>3. start' \in {"none", "read"} => start \in {"none", "read"}
    BY <1>5 DEF StartReads, CopyLadder, Writes, SaveLadder, SaveOrder, SaveSpend, LadderReads, LadderWrites, Type, OlderLeg,
         EditTerminal, addAccount, removeAccount
  <2> QED
    BY <1>0, <2>1, <2>2, <2>3 DEF LadderInv, Known
<1>6. CASE \/ \E m \in Models \cup {"none"}, e \in WallEnds : HitWall(m, e)
           \/ \E p \in Picks : HandOffNow(p)
           \/ \E l \in Logins : ReadUsage(l)
  BY <1>0, <1>6 DEF HitWall, HandOffNow, ReadUsage, LadderInv, quiet, terminal, Known
<1> QED
  BY <1>1, <1>2, <1>3, <1>4, <1>5, <1>6 DEF LadderNext

LEMMA LadderInvariant == LadderSpec => []LadderInv
BY LadderStart, LadderStep, PTL DEF LadderSpec

\* Of a rung that was chosen: it may be taken, it is paid for, and its turn has come.
Chosen(from, list, p, automatic) ==
  /\ IsSequence(list) /\ p \in DOMAIN list
  /\ Takeable(from, list, p, automatic) /\ OnList(from, list, p)

LEMMA ChosenIsAllowed ==
  ASSUME IsSequence(ladder), NEW from, Key(from) = Key(Recorded), on.agent = from.agent,
         NEW list, NEW p, NEW automatic, Chosen(from, list, p, automatic),
         reason = "handoff" \/ automatic,
         on' = Leg(list[p])
  PROVE  /\ LoginOpen(Asked) /\ ~ModelOut(Asked)
         /\ prefs.may_spend \/ ~Bills(on'.agent, on'.account, on'.asked)
         /\ OnMachine(Asked) \/ \E i \in DOMAIN ladder : Key(ladder[i]) = Key(Asked)
         /\ ~(reason = "handoff" /\ PastReserve(Asked)) /\ ~(Asked.agent = on.agent /\ Asked.model = "none") =>
              \A i \in Reaches(Asked) : (\A j \in Reaches(Asked) : i <= j) /\ ladder[i].when = "walled-only" =>
                \A j \in 1..(i - 1) : Walled(ladder[j]) \/ Stays(Recorded, ladder[j])
<1> DEFINE r == list[p]
<1>1. /\ Asked.agent = r.agent /\ Asked.account = r.account /\ Asked.model = r.model
      /\ on'.agent = r.agent /\ on'.account = r.account /\ on'.asked = r.model
  BY DEF Asked, Leg, Rung
<1>2. Key(Asked) = Key(r)
  BY <1>1 DEF Key
<1>3. Takeable(from, list, p, automatic) /\ OnList(from, list, p)
  BY DEF Chosen
<1>4. LoginOpen(r) /\ ~ModelOut(r) /\ ~Barred(r)
  BY <1>3 DEF Takeable, Out
<1>5. LoginOpen(Asked) /\ ~ModelOut(Asked)
  BY <1>2, <1>4, KeyDecides
<1>6. prefs.may_spend \/ ~Bills(on'.agent, on'.account, on'.asked)
  <2>1. rungCost(r) = "plan" \/ prefs.may_spend
    BY <1>4 DEF Barred
  <2>2. rungCost(r) = "plan" => ~Bills(r.agent, r.account, r.model)
    BY DEF rungCost, Bills, Login
  <2> QED
    BY <1>1, <2>1, <2>2
<1>7. OnMachine(Asked) \/ \E i \in DOMAIN ladder : Key(ladder[i]) = Key(Asked)
  <2>1. OnMachine(r) \/ \E i \in DOMAIN ladder : Key(ladder[i]) = Key(r)
    BY <1>3 DEF OnList, Key
  <2> QED
    BY <1>2, <2>1, KeyDecides
<1>8. ASSUME ~(reason = "handoff" /\ PastReserve(Asked)), ~(Asked.agent = on.agent /\ Asked.model = "none"),
             NEW i \in Reaches(Asked), \A j \in Reaches(Asked) : i <= j, ladder[i].when = "walled-only",
             NEW j \in 1..(i - 1)
      PROVE  Walled(ladder[j]) \/ Stays(Recorded, ladder[j])
  <2>1. PICK x \in DOMAIN ladder :
             /\ r.agent = ladder[x].agent /\ r.model = ladder[x].model /\ r.when = ladder[x].when
             /\ r.account = ladder[x].account \/ OnMachine(r)
             /\ \A y \in 1..(x - 1) : /\ Stays(from, ladder[y]) \/ \E k \in 1..(p - 1) : Key(list[k]) = Key(ladder[y])
                                      /\ y \notin Reaches(r)
    BY <1>1, <1>3, <1>8 DEF OnList
  <2>2. Reaches(Asked) = Reaches(r)
    BY <1>1, <1>2, KeyDecides DEF Reaches
  <2>3. x \in Reaches(r) /\ i \in Reaches(r)
    BY <2>1, <2>2 DEF Reaches
  <2>4. x = i
    <3>1. i <= x
      BY <1>8, <2>2, <2>3
    <3>2. i \in Nat /\ x \in Nat /\ i >= 1
      BY <2>3, SequenceFacts DEF Reaches
    <3>3. ~(i < x)
      BY <2>1, <2>3, <3>2
    <3> QED
      BY <3>1, <3>2, <3>3
  <2>5. list[p].when = "walled-only"
    BY <1>8, <2>1, <2>4
  <2>6. ~PastReserve(r) \/ automatic
    BY <1>2, <1>8, KeyDecides
  <2>7. WhenHolds(list, p)
    BY <1>3, <2>6 DEF Takeable
  <2>8. \A k \in 1..(p - 1) : Walled(list[k])
    BY <2>5, <2>7 DEF WhenHolds
  <2>9. Stays(from, ladder[j]) \/ \E k \in 1..(p - 1) : Key(list[k]) = Key(ladder[j])
    BY <2>1, <2>4
  <2>10. Stays(from, ladder[j]) => Stays(Recorded, ladder[j])
    BY DEF Stays, Login, Key
  <2> QED
    BY <2>8, <2>9, <2>10, KeyDecides
<1> QED
  BY <1>5, <1>6, <1>7, <1>8

LegIsAllowed ==
  /\ \/ LoginOpen(Asked) /\ ~ModelOut(Asked) /\ (OnMachine(Asked) \/ Login(Asked) = Login(Recorded) \/ phase = "none")
     \/ phase = "none" /\ Login(Asked) = Login(First)
  /\ \/ prefs.may_spend \/ ~Bills(on'.agent, on'.account, on'.asked)
     \/ Login(Asked) = Login(Recorded) /\ Asked.model = Recorded.model
  /\ ~(reason = "handoff" /\ PastReserve(Asked)) /\ Key(Asked) # Key(Recorded) /\ ~(Asked.agent = on.agent /\ Asked.model = "none") =>
       \A i \in Reaches(Asked) : (\A j \in Reaches(Asked) : i <= j) /\ ladder[i].when = "walled-only" =>
         \A j \in 1..(i - 1) : Walled(ladder[j]) \/ Stays(Recorded, ladder[j])

\* The leg the terminal is on already is asked for with the model on the record.
LEMMA StayingIsAllowed ==
  ASSUME NEW r, Key(r) = Key(Recorded), on' = Leg(r),
         (LoginOpen(r) /\ ~ModelOut(r)) \/ (phase = "none" /\ Login(r) = Login(First))
  PROVE  LegIsAllowed
<1>1. Key(Asked) = Key(r)
  BY DEF Asked, Leg, Rung, Key
<1>2. Key(Asked) = Key(Recorded)
  BY <1>1
<1>3. Login(Asked) = Login(Recorded) /\ Asked.model = Recorded.model /\ Login(Asked) = Login(r)
  BY <1>1, <1>2, KeyDecides
<1>4. (LoginOpen(r) <=> LoginOpen(Asked)) /\ (ModelOut(r) <=> ModelOut(Asked))
  BY <1>1, KeyDecides
<1> QED
  BY <1>2, <1>3, <1>4 DEF LegIsAllowed

LEMMA BeginIsAllowed ==
  ASSUME LadderInv, BeginLeg, phase = "none"
  PROVE  LegIsAllowed
<1> DEFINE list == candidates(First)
           next == chooseNext(First, list, TRUE)
<1>1. on' = Leg(IF LoginOpen(First) \/ next = 0 THEN First ELSE list[next])
  BY DEF BeginLeg
<1>2. Recorded = Rung(First.agent, First.account, First.model, "always") /\ on.agent = First.agent
  BY DEF LadderInv, Leg, Recorded
<1>3. Key(First) = Key(Recorded)
  BY <1>2 DEF Key, Rung
<1>4. CASE LoginOpen(First) \/ next = 0
  BY <1>1, <1>3, <1>4, StayingIsAllowed
<1>5. CASE ~(LoginOpen(First) \/ next = 0)
  <2>1. Chosen(First, list, next, TRUE)
    BY <1>5, BeginListIsKnown, ChoiceIsTakeable DEF Chosen
  <2>2. on' = Leg(list[next])
    BY <1>1, <1>5
  <2>3. IsSequence(ladder)
    BY DEF ladder, LadderInv, BeginLeg, CreateRecord, Known
  <2> HIDE DEF next, list
  <2>4. /\ LoginOpen(Asked) /\ ~ModelOut(Asked)
        /\ prefs.may_spend \/ ~Bills(on'.agent, on'.account, on'.asked)
        /\ ~(reason = "handoff" /\ PastReserve(Asked)) /\ ~(Asked.agent = on.agent /\ Asked.model = "none") =>
             \A i \in Reaches(Asked) : (\A j \in Reaches(Asked) : i <= j) /\ ladder[i].when = "walled-only" =>
               \A j \in 1..(i - 1) : Walled(ladder[j]) \/ Stays(Recorded, ladder[j])
    BY <1>2, <1>3, <2>1, <2>2, <2>3, ChosenIsAllowed
  <2> QED
    BY <2>4 DEF LegIsAllowed
<1> QED
  BY <1>4, <1>5

LEMMA ChooseIsAllowed ==
  ASSUME LadderInv, Choose, phase' = "runs"
  PROVE  LegIsAllowed
<1> DEFINE list == candidates(Recorded)
           next == chooseNext(Recorded, list, reason # "handoff")
<1>1. /\ phase = "stopped"
      /\ \/ next # 0 /\ Goes(list[next])
         \/ next = 0 /\ OwnOpen(Recorded) /\ Goes(Recorded)
  BY DEF Choose
<1>2. CASE next = 0 /\ OwnOpen(Recorded) /\ Goes(Recorded)
  <2>1. on' = Leg(Recorded) /\ LoginOpen(Recorded) /\ ~ModelOut(Recorded)
    BY <1>2 DEF Goes, OwnOpen
  <2>2. \A r : Key(r) = Key(Recorded) /\ on' = Leg(r) /\ LoginOpen(r) /\ ~ModelOut(r) => LegIsAllowed
    BY StayingIsAllowed
  <2>3. Key(Recorded) = Key(Recorded)
    OBVIOUS
  <2> QED
    BY <2>1, <2>2, <2>3
<1>3. CASE next # 0 /\ Goes(list[next])
  <2>1. Chosen(Recorded, list, next, reason # "handoff")
    BY <1>1, <1>3, ListIsKnown, ChoiceIsTakeable DEF Chosen
  <2>2. on' = Leg(list[next]) /\ on.agent = Recorded.agent
    BY <1>3 DEF Goes, Recorded, Rung
  <2>3. Known(ladder) /\ HasAccounts(ladder)
    BY <1>1, RecordLadderIsKnown DEF ladder, LadderInv
  <2> HIDE DEF next, list
  <2>4. /\ LoginOpen(Asked) /\ ~ModelOut(Asked)
        /\ prefs.may_spend \/ ~Bills(on'.agent, on'.account, on'.asked)
        /\ OnMachine(Asked) \/ \E i \in DOMAIN ladder : Key(ladder[i]) = Key(Asked)
        /\ ~(reason = "handoff" /\ PastReserve(Asked)) /\ ~(Asked.agent = on.agent /\ Asked.model = "none") =>
             \A i \in Reaches(Asked) : (\A j \in Reaches(Asked) : i <= j) /\ ladder[i].when = "walled-only" =>
               \A j \in 1..(i - 1) : Walled(ladder[j]) \/ Stays(Recorded, ladder[j])
    <3>1. reason = "handoff" \/ (reason # "handoff")
      OBVIOUS
    <3>2. IsSequence(ladder)
      BY <2>3 DEF Known
    <3> QED
      BY <2>1, <2>2, <3>1, <3>2, ChosenIsAllowed
  <2>5. OnMachine(Asked)
    BY <2>3, <2>4, KeyDecides DEF HasAccounts
  <2> QED
    BY <2>4, <2>5 DEF LegIsAllowed
<1> QED
  BY <1>1, <1>2, <1>3

LEMMA StartsAreAllowed ==
  ASSUME LadderInv, LadderNext, Starts
  PROVE  LegIsAllowed
<1>1. phase # "runs" /\ phase' = "runs"
  BY DEF Starts
<1>2. CASE BeginLeg
  <2>1. phase = "none"
    BY <1>2 DEF BeginLeg, CreateRecord, LadderInv
  <2> QED
    BY <1>2, <2>1, BeginIsAllowed
<1>3. CASE Choose
  BY <1>1, <1>3, ChooseIsAllowed
<1>4. CASE Learn \/ Ready \/ Tick \/ \E l \in Logins : ReadUsage(l)
  BY <1>1, <1>4 DEF Learn, Ready, Tick, ReadUsage, terminal
<1>5. CASE \/ \E m \in Models \cup {"none"}, e \in WallEnds : HitWall(m, e)
           \/ \E p \in Picks : HandOffNow(p)
           \/ (StartReads \/ CopyLadder \/ Writes) /\ UNCHANGED <<now, use, extra, terminal>>
  BY <1>1, <1>5 DEF HitWall, HandOffNow, terminal
<1> QED
  BY <1>2, <1>3, <1>4, <1>5 DEF LadderNext

\* A leg starts only where it may, for every ladder, every record of every login, and every word of
\* the human's that the walk meets.
THEOREM LegsAreAllowedThm == LadderSpec => LegsAreAllowed
<1>1. ASSUME LadderInv, [LadderNext]_ladderVars
      PROVE  [Starts => LegIsAllowed]_ladderVars
  BY <1>1, StartsAreAllowed
<1>2. [Starts => LegIsAllowed]_ladderVars =>
        /\ [Starts => \/ LoginOpen(Asked) /\ ~ModelOut(Asked) /\ (OnMachine(Asked) \/ Login(Asked) = Login(Recorded) \/ phase = "none")
                      \/ phase = "none" /\ Login(Asked) = Login(First)]_ladderVars
        /\ [Starts => \/ prefs.may_spend \/ ~Bills(on'.agent, on'.account, on'.asked)
                      \/ Login(Asked) = Login(Recorded) /\ Asked.model = Recorded.model]_ladderVars
        /\ [Starts /\ ~(reason = "handoff" /\ PastReserve(Asked)) /\ Key(Asked) # Key(Recorded)
             /\ ~(Asked.agent = on.agent /\ Asked.model = "none") =>
              \A i \in Reaches(Asked) : (\A j \in Reaches(Asked) : i <= j) /\ ladder[i].when = "walled-only" =>
                \A j \in 1..(i - 1) : Walled(ladder[j]) \/ Stays(Recorded, ladder[j])]_ladderVars
  BY DEF LegIsAllowed
<1>3. LadderSpec => [][Starts => LegIsAllowed]_ladderVars
  BY <1>1, LadderInvariant, PTL DEF LadderSpec
<1>4. LadderSpec => LegsAreOpen
  BY <1>2, <1>3, PTL DEF LegsAreOpen
<1>5. LadderSpec => SpendsWithLeave
  BY <1>2, <1>3, PTL DEF SpendsWithLeave
<1>6. LadderSpec => WhenIsKept
  BY <1>2, <1>3, PTL DEF WhenIsKept
<1> QED
  BY <1>4, <1>5, <1>6 DEF LegsAreAllowed

-----------------------------------------------------------------------------
(* The page of conversations.                                              *)

\* What the page's module and this one both take from the community modules is the same.
LEMMA SameWords ==
  /\ \A s : Ce!ToSet(s) = ToSet(s) /\ Ce!Last(s) = Last(s) /\ Ce!SetToSeq(s) = SetToSeq(s)
  /\ \A s, K : Ce!Kept(s, K) = Kept(s, K)
  /\ \A s, t : Ce!IsPrefix(s, t) <=> IsPrefix(s, t)
  /\ \A S : Ce!IsFiniteSet(S) <=> IsFiniteSet(S)
<1>0. \A K : Ce!Cardinality(K) = Cardinality(K)
  BY DEF Ce!Cardinality, Cardinality
<1>1. \A K : Ce!InOrder(K) = InOrder(K)
  <2>1. \A K, n : (CHOOSE k \in K : Ce!Cardinality({j \in K : j <= k}) = n) = (CHOOSE k \in K : Cardinality({j \in K : j <= k}) = n)
    <3> SUFFICES ASSUME NEW K, NEW n
                 PROVE  (CHOOSE k \in K : Ce!Cardinality({j \in K : j <= k}) = n) = (CHOOSE k \in K : Cardinality({j \in K : j <= k}) = n)
      OBVIOUS
    <3>1. \A k : (k \in K /\ Ce!Cardinality({j \in K : j <= k}) = n) <=> (k \in K /\ Cardinality({j \in K : j <= k}) = n)
      BY <1>0
    <3> QED
      BY <3>1, Zenon
  <2> SUFFICES ASSUME NEW K PROVE Ce!InOrder(K) = InOrder(K)
    OBVIOUS
  <2> DEFINE F(n) == CHOOSE k \in K : Ce!Cardinality({j \in K : j <= k}) = n
             G(n) == CHOOSE k \in K : Cardinality({j \in K : j <= k}) = n
  <2>2. Ce!InOrder(K) = [n \in 1..Ce!Cardinality(K) |-> F(n)] /\ InOrder(K) = [n \in 1..Cardinality(K) |-> G(n)]
    BY DEF Ce!InOrder, InOrder
  <2>3. \A n : F(n) = G(n)
    BY <2>1
  <2> HIDE DEF F, G
  <2> QED
    BY <1>0, <2>2, <2>3
<1>2. \A f : Ce!IsInjective(f) <=> IsInjective(f)
  BY DEF Ce!IsInjective, IsInjective
<1>3. \A s, K : Ce!Kept(s, K) = Kept(s, K)
  BY <1>0, <1>1 DEF Ce!Kept, Kept
<1>4. \A s, t : Ce!IsPrefix(s, t) <=> IsPrefix(s, t)
  BY DEF Ce!IsPrefix, IsPrefix
<1>5. \A s : Ce!ToSet(s) = ToSet(s) /\ Ce!Last(s) = Last(s)
  BY DEF Ce!ToSet, ToSet, Ce!Last, Last
<1>6. \A s : Ce!SetToSeq(s) = SetToSeq(s)
  BY <1>0, <1>2 DEF Ce!SetToSeq, SetToSeq
<1>7. \A S : Ce!IsFiniteSet(S) <=> IsFiniteSet(S)
  BY DEF Ce!IsFiniteSet, IsFiniteSet
<1> QED
  BY <1>3, <1>4, <1>5, <1>6, <1>7

NoTwo(s) == \A i, j \in DOMAIN s : s[i] = s[j] => i = j

LEMMA KeptHasNoTwo ==
  ASSUME NEW s, IsSequence(s), NoTwo(s), NEW K, K \subseteq DOMAIN s
  PROVE  /\ NoTwo(Kept(s, K)) /\ IsSequence(Kept(s, K))
         /\ ToSet(Kept(s, K)) = {s[k] : k \in K}
<1> DEFINE t == Kept(s, K)
           n == Cardinality(K)
<1>1. n \in Nat /\ IsSequence(t) /\ DOMAIN t = 1..n
  BY KeptAscends
<1>2. PICK g : Ascends(g, K) /\ \A p \in DOMAIN t : t[p] = s[g[p]]
  BY KeptAscends
<1> HIDE DEF t, n
<1>3. /\ \A p \in 1..n : g[p] \in K /\ g[p] \in Nat
      /\ \A a, b \in 1..n : a < b => g[a] < g[b]
      /\ \A k \in K : \E a \in 1..n : g[a] = k
  <2>1. DOMAIN s \subseteq Nat
    BY SequenceFacts
  <2> QED
    BY <1>2, <2>1 DEF Ascends, n
<1>4. NoTwo(t)
  <2> SUFFICES ASSUME NEW i \in 1..n, NEW j \in 1..n, t[i] = t[j] PROVE i = j
    BY <1>1 DEF NoTwo
  <2>1. g[i] = g[j]
    BY <1>1, <1>2, <1>3 DEF NoTwo
  <2>2. g[i] \in Nat /\ g[j] \in Nat
    BY <1>3
  <2>3. ~(i < j) /\ ~(j < i)
    BY <1>3, <2>1, <2>2
  <2> QED
    BY <1>1, <2>3
<1>5. ToSet(t) = {s[k] : k \in K}
  <2>1. ASSUME NEW x \in ToSet(t) PROVE x \in {s[k] : k \in K}
    BY <1>1, <1>2, <1>3 DEF ToSet
  <2>2. ASSUME NEW k \in K PROVE s[k] \in ToSet(t)
    <3>1. PICK a \in 1..n : g[a] = k
      BY <1>3
    <3>2. t[a] = s[k] /\ a \in DOMAIN t
      BY <1>1, <1>2, <3>1
    <3> QED
      BY <3>2 DEF ToSet
  <2> QED
    BY <2>1, <2>2
<1> QED
  BY <1>1, <1>4, <1>5 DEF t

\* A list without repetitions is as long as the set of what is on it.
LEMMA LengthOfNoTwo ==
  ASSUME NEW s, IsSequence(s), NoTwo(s)
  PROVE  Len(s) = Cardinality(ToSet(s))
<1>1. Len(s) \in Nat /\ DOMAIN s = 1..Len(s) /\ s \in [1..Len(s) -> ToSet(s)]
  BY SequenceFacts
<1>2. s \in Injection(1..Len(s), ToSet(s))
  BY <1>1 DEF NoTwo, Injection, IsInjective
<1>3. s \in Surjection(1..Len(s), ToSet(s))
  BY <1>1 DEF ToSet, Surjection
<1>4. IsFiniteSet(1..Len(s)) /\ Cardinality(1..Len(s)) = Len(s)
  BY <1>1, FS_Interval
<1> QED
  BY <1>2, <1>3, <1>4, FS_Surjection

LEMMA JoinHasNoTwo ==
  ASSUME NEW s, IsSequence(s), NoTwo(s), NEW t, IsSequence(t), NoTwo(t),
         \A x \in ToSet(t) : x \notin ToSet(s)
  PROVE  IsSequence(s \o t) /\ NoTwo(s \o t) /\ ToSet(s \o t) = ToSet(s) \cup ToSet(t)
<1> DEFINE u == s \o t
           n == Len(s)
           m == Len(t)
<1>1. /\ IsSequence(u) /\ Len(u) = n + m
      /\ \A i \in 1..(n + m) : u[i] = IF i <= n THEN s[i] ELSE t[i - n]
  BY JoinIsSequence
<1>2. n \in Nat /\ m \in Nat /\ DOMAIN s = 1..n /\ DOMAIN t = 1..m /\ DOMAIN u = 1..(n + m)
  BY <1>1, SequenceFacts
<1> HIDE DEF u, n, m
<1>3. \A i \in 1..n : \A j \in 1..m : s[i] # t[j]
  BY <1>2 DEF ToSet
<1>4. NoTwo(u)
  <2> SUFFICES ASSUME NEW i \in 1..(n + m), NEW j \in 1..(n + m), u[i] = u[j] PROVE i = j
    BY <1>2 DEF NoTwo
  <2>1. CASE i <= n /\ j <= n
    BY <1>1, <1>2, <2>1 DEF NoTwo
  <2>2. CASE ~(i <= n) /\ ~(j <= n)
    <3>1. i - n \in 1..m /\ j - n \in 1..m /\ t[i - n] = t[j - n]
      BY <1>1, <1>2, <2>2
    <3>2. i - n = j - n
      BY <1>2, <3>1 DEF NoTwo
    <3> QED
      BY <1>2, <3>2
  <2>3. CASE i <= n /\ ~(j <= n)
    <3>1. i \in 1..n /\ j - n \in 1..m /\ s[i] = t[j - n]
      BY <1>1, <1>2, <2>3
    <3> QED
      BY <1>3, <3>1
  <2>4. CASE ~(i <= n) /\ j <= n
    <3>1. j \in 1..n /\ i - n \in 1..m /\ s[j] = t[i - n]
      BY <1>1, <1>2, <2>4
    <3> QED
      BY <1>3, <3>1
  <2> QED
    BY <2>1, <2>2, <2>3, <2>4
<1>5. ToSet(u) = ToSet(s) \cup ToSet(t)
  <2>1. ASSUME NEW i \in 1..(n + m) PROVE u[i] \in ToSet(s) \cup ToSet(t)
    <3>1. CASE i <= n
      <4>1. u[i] = s[i] /\ i \in 1..n
        BY <1>1, <1>2, <3>1
      <4> QED
        BY <1>2, <4>1 DEF ToSet
    <3>2. CASE ~(i <= n)
      <4>1. u[i] = t[i - n] /\ i - n \in 1..m
        BY <1>1, <1>2, <3>2
      <4> QED
        BY <1>2, <4>1 DEF ToSet
    <3> QED
      BY <3>1, <3>2
  <2>2. ASSUME NEW i \in 1..n PROVE s[i] \in ToSet(u)
    <3>1. u[i] = s[i] /\ i \in DOMAIN u
      BY <1>1, <1>2
    <3> QED
      BY <3>1 DEF ToSet
  <2>3. ASSUME NEW i \in 1..m PROVE t[i] \in ToSet(u)
    <3>1. u[n + i] = t[i] /\ n + i \in DOMAIN u
      BY <1>1, <1>2
    <3> QED
      BY <3>1 DEF ToSet
  <2> QED
    BY <1>2, <2>1, <2>2, <2>3 DEF ToSet
<1> QED
  BY <1>1, <1>4, <1>5 DEF u

\* The page after the last row shown is what comes next in the list.
LEMMA NextPage ==
  ASSUME NEW P, IsSequence(P), NoTwo(P), Ce!NoOne \notin ToSet(P), NEW R, IsSequence(R), IsPrefix(R, P),
         NEW before, before = IF R = <<>> THEN Ce!NoOne ELSE Last(R)
  PROVE  Ce!After(P, before) = SubSeq(P, Len(R) + 1, Len(P))
<1>1. /\ Len(P) \in Nat /\ DOMAIN P = 1..Len(P) /\ Len(R) \in Nat /\ DOMAIN R = 1..Len(R)
      /\ R # <<>> <=> Len(R) > 0
  BY SequenceFacts
<1>2. CASE R = <<>>
  <2>1. Len(R) = 0
    BY <1>1, <1>2
  <2>2. P \in Seq(ToSet(P))
    BY DEF IsSequence
  <2>3. SubSeq(P, 1, Len(P)) = P
    BY <2>2, SubSeqFull
  <2> QED
    BY <1>2, <2>1, <2>3, SameWords DEF Ce!After, Ce!NoOne
<1>3. CASE R # <<>>
  <2> DEFINE n == Len(R)
  <2>1. n \in 1..Len(P) /\ R[n] = P[n]
    <3>1. n >= 1 /\ n <= Len(P) /\ SubSeq(R, 1, n) = SubSeq(P, 1, n)
      BY <1>1, <1>3 DEF IsPrefix
    <3>2. R \in Seq(ToSet(R)) /\ P \in Seq(ToSet(P))
      BY DEF IsSequence
    <3>3. SubSeq(R, 1, n) = R
      BY <3>2, SubSeqFull
    <3>4. \A i \in 1..n : P[i] \in ToSet(P)
      BY <1>1, <3>1 DEF ToSet
    <3>5. SubSeq(P, 1, n)[n] = P[1 + n - 1]
      BY <1>1, <3>1, <3>4, SubSeqProperties
    <3> QED
      BY <1>1, <3>1, <3>3, <3>5
  <2>2. before = P[n]
    BY <1>3, <2>1 DEF Last
  <2>3. before \in ToSet(P)
    BY <1>1, <2>1, <2>2 DEF ToSet
  <2> HIDE DEF n
  <2>4. (CHOOSE k \in 1..Len(P) : P[k] = before) = n
    BY <1>1, <2>1, <2>2 DEF NoTwo
  <2>5. Ce!After(P, before) = SubSeq(P, 1 + n, Len(P))
    BY <2>3, <2>4, SameWords DEF Ce!After
  <2>6. 1 + n = n + 1
    BY <1>1, <2>1
  <2> QED
    BY <2>5, <2>6 DEF n
<1> QED
  BY <1>2, <1>3

\* Whatever the cursor is, what comes after it is the end of the list from somewhere on.
LEMMA AfterIsTheRest ==
  ASSUME NEW P, IsSequence(P), NEW before
  PROVE  \E k \in 0..Len(P) : Ce!After(P, before) = SubSeq(P, k + 1, Len(P))
<1>1. Len(P) \in Nat /\ DOMAIN P = 1..Len(P) /\ P \in Seq(ToSet(P))
  BY SequenceFacts DEF IsSequence
<1>2. CASE before \in ToSet(P)
  <2> DEFINE k == CHOOSE k \in 1..Len(P) : P[k] = before
  <2>1. k \in 1..Len(P)
    BY <1>1, <1>2 DEF ToSet
  <2>2. Ce!After(P, before) = SubSeq(P, 1 + k, Len(P))
    BY <1>2, SameWords DEF Ce!After
  <2> HIDE DEF k
  <2>3. 1 + k = k + 1 /\ k \in 0..Len(P)
    BY <1>1, <2>1
  <2> QED
    BY <2>2, <2>3
<1>3. CASE before \notin ToSet(P)
  <2>1. Ce!After(P, before) = P
    BY <1>3, SameWords DEF Ce!After
  <2>2. SubSeq(P, 0 + 1, Len(P)) = P
    BY <1>1, SubSeqFull
  <2>3. 0 \in 0..Len(P)
    BY <1>1
  <2> QED
    BY <2>1, <2>2, <2>3
<1> QED
  BY <1>2, <1>3

PageOf(rest) == SubSeq(rest, 1, IF Len(rest) < PageSize THEN Len(rest) ELSE PageSize)

LEMMA PageRows ==
  ASSUME Ce!HistoryCellAssumption, NEW P, IsSequence(P), NEW k \in 0..Len(P)
  PROVE  LET rows == PageOf(SubSeq(P, k + 1, Len(P)))
             m == IF Len(P) - k < PageSize THEN Len(P) - k ELSE PageSize
         IN /\ IsSequence(rows) /\ Len(rows) = m /\ m \in 0..(Len(P) - k) /\ (k < Len(P) => m > 0)
            /\ \A i \in 1..m : rows[i] = P[k + i]
<1> DEFINE rest == SubSeq(P, k + 1, Len(P))
           rows == PageOf(rest)
           m == IF Len(P) - k < PageSize THEN Len(P) - k ELSE PageSize
<1>1. Len(P) \in Nat /\ DOMAIN P = 1..Len(P) /\ k \in Nat /\ k <= Len(P) /\ PageSize \in Nat /\ PageSize > 0
  BY SequenceFacts DEF Ce!HistoryCellAssumption
<1>2. \A i \in (k + 1)..Len(P) : P[i] \in ToSet(P)
  BY <1>1 DEF ToSet
<1>3. /\ rest \in Seq(ToSet(P)) /\ Len(rest) = Len(P) - k
      /\ \A i \in 1..(Len(P) - k) : rest[i] = P[k + i]
  <2>1. k + 1 \in Int /\ Len(P) \in Int
    BY <1>1
  <2>2. /\ rest \in Seq(ToSet(P))
        /\ Len(rest) = IF k + 1 <= Len(P) THEN Len(P) - (k + 1) + 1 ELSE 0
        /\ \A i \in 1 .. Len(P) - (k + 1) + 1 : rest[i] = P[(k + 1) + i - 1]
    BY <1>2, <2>1, SubSeqProperties
  <2> HIDE DEF rest
  <2>3. Len(P) - (k + 1) + 1 = Len(P) - k
    BY <1>1
  <2>4. \A i \in 1..(Len(P) - k) : (k + 1) + i - 1 = k + i
    BY <1>1
  <2>5. \A x, y \in Nat : y <= x /\ ~(y + 1 <= x) => x - y = 0
    OBVIOUS
  <2>6. ~(k + 1 <= Len(P)) => Len(P) - k = 0
    BY <1>1, <2>5
  <2> QED
    BY <2>2, <2>3, <2>4, <2>6
<1> HIDE DEF rest
<1>4. m \in 0..(Len(P) - k) /\ (k < Len(P) => m > 0) /\ m \in Nat
  BY <1>1
<1>5. rows = SubSeq(rest, 1, m)
  BY <1>3 DEF PageOf
<1> HIDE DEF m, rows
<1>6. \A i \in 1..m : rest[i] \in ToSet(P)
  BY <1>1, <1>3, <1>4
<1>7. rows \in Seq(ToSet(P)) /\ Len(rows) = m /\ \A i \in 1..m : rows[i] = rest[i]
  <2>1. /\ rows \in Seq(ToSet(P)) /\ Len(rows) = IF 1 <= m THEN m - 1 + 1 ELSE 0
        /\ \A i \in 1 .. m - 1 + 1 : rows[i] = rest[1 + i - 1]
    BY <1>4, <1>5, <1>6, SubSeqProperties
  <2>2. m - 1 + 1 = m /\ (~(1 <= m) => m = 0) /\ \A i \in 1..m : 1 + i - 1 = i
    BY <1>4
  <2> QED
    BY <2>1, <2>2
<1>8. \A i \in 1..m : rows[i] = P[k + i]
  <2>1. \A i \in 1..m : i \in 1..(Len(P) - k)
    BY <1>1, <1>4
  <2> QED
    BY <1>3, <1>7, <2>1
<1>9. IsSequence(rows)
  BY <1>7, MemberIsSequence
<1> QED
  BY <1>4, <1>7, <1>8, <1>9 DEF m, rows, rest

\* A page repeats nothing, and nothing of it is outside the list.
LEMMA PageIsPart ==
  ASSUME Ce!HistoryCellAssumption, NEW P, IsSequence(P), NoTwo(P), NEW before
  PROVE  LET rows == PageOf(Ce!After(P, before))
         IN IsSequence(rows) /\ NoTwo(rows) /\ ToSet(rows) \subseteq ToSet(P)
<1>1. PICK k \in 0..Len(P) : Ce!After(P, before) = SubSeq(P, k + 1, Len(P))
  BY AfterIsTheRest
<1> DEFINE rows == PageOf(Ce!After(P, before))
           m == IF Len(P) - k < PageSize THEN Len(P) - k ELSE PageSize
<1>2. /\ IsSequence(rows) /\ Len(rows) = m /\ m \in 0..(Len(P) - k)
      /\ \A i \in 1..m : rows[i] = P[k + i]
  BY <1>1, PageRows
<1>3. Len(P) \in Nat /\ DOMAIN P = 1..Len(P) /\ k \in Nat /\ k <= Len(P) /\ DOMAIN rows = 1..Len(rows)
  BY <1>2, SequenceFacts
<1> HIDE DEF rows, m
<1>4. \A i \in 1..m : k + i \in DOMAIN P
  BY <1>2, <1>3
<1>5. NoTwo(rows)
  <2> SUFFICES ASSUME NEW i \in 1..m, NEW j \in 1..m, rows[i] = rows[j] PROVE i = j
    BY <1>2, <1>3 DEF NoTwo
  <2>1. k + i = k + j
    BY <1>2, <1>4 DEF NoTwo
  <2> QED
    BY <1>3, <2>1
<1>6. ToSet(rows) \subseteq ToSet(P)
  BY <1>2, <1>3, <1>4 DEF ToSet
<1> QED
  BY <1>2, <1>5, <1>6 DEF rows

\* A page asked for with the last row shown continues what is shown.
LEMMA PageContinues ==
  ASSUME Ce!HistoryCellAssumption, NEW P, IsSequence(P), NoTwo(P), Ce!NoOne \notin ToSet(P),
         NEW R, IsSequence(R), IsPrefix(R, P)
  PROVE  LET rows == PageOf(Ce!After(P, IF R = <<>> THEN Ce!NoOne ELSE Last(R)))
         IN /\ IsSequence(rows) /\ (Len(R) < Len(P) => rows # <<>>)
            /\ \A x \in ToSet(rows) : x \notin ToSet(R)
            /\ IsPrefix(R \o rows, P)
<1> DEFINE before == IF R = <<>> THEN Ce!NoOne ELSE Last(R)
           rows == PageOf(Ce!After(P, before))
           k == Len(R)
           m == IF Len(P) - k < PageSize THEN Len(P) - k ELSE PageSize
<1>1. /\ Len(P) \in Nat /\ DOMAIN P = 1..Len(P) /\ k \in Nat /\ DOMAIN R = 1..k
      /\ P \in Seq(ToSet(P)) /\ R \in Seq(ToSet(R))
  BY SequenceFacts DEF IsSequence
<1>2. k <= Len(P) /\ \A i \in 1..k : R[i] = P[i]
  <2>1. k <= Len(P) /\ SubSeq(R, 1, k) = SubSeq(P, 1, k)
    BY DEF IsPrefix
  <2>2. SubSeq(R, 1, k) = R
    BY <1>1, SubSeqFull
  <2>3. \A i \in 1..k : P[i] \in ToSet(P)
    BY <1>1, <2>1 DEF ToSet
  <2>4. \A i \in 1 .. k - 1 + 1 : SubSeq(P, 1, k)[i] = P[1 + i - 1]
    BY <1>1, <2>3, SubSeqProperties
  <2> HIDE DEF k
  <2>5. k - 1 + 1 = k /\ \A i \in 1..k : 1 + i - 1 = i
    BY <1>1
  <2> QED
    BY <2>1, <2>2, <2>4, <2>5
<1>3. rows = PageOf(SubSeq(P, k + 1, Len(P)))
  BY NextPage
<1>4. k \in 0..Len(P)
  BY <1>1, <1>2
<1>5. /\ IsSequence(rows) /\ Len(rows) = m /\ m \in 0..(Len(P) - k) /\ (k < Len(P) => m > 0)
      /\ \A i \in 1..m : rows[i] = P[k + i]
  BY <1>3, <1>4, PageRows
<1>6. DOMAIN rows = 1..m /\ (rows # <<>> <=> m > 0)
  BY <1>5, SequenceFacts
<1> HIDE DEF rows, m
<1> DEFINE u == R \o rows
<1>7. /\ IsSequence(u) /\ Len(u) = k + m
      /\ \A i \in 1..(k + m) : u[i] = IF i <= k THEN R[i] ELSE rows[i - k]
  <2>1. IsSequence(rows) /\ Len(rows) = m
    BY <1>5
  <2> QED
    BY <2>1, JoinIsSequence
<1> HIDE DEF k, u
<1>8. m \in Nat /\ k + m <= Len(P)
  BY <1>1, <1>2, <1>5
<1>9. ASSUME NEW i \in 1..(k + m) PROVE u[i] = P[i]
  <2>1. CASE i <= k
    BY <1>1, <1>2, <1>7, <2>1
  <2>2. CASE ~(i <= k)
    <3>1. i - k \in 1..m /\ k + (i - k) = i
      BY <1>1, <1>8, <2>2
    <3> QED
      BY <1>5, <1>7, <2>2, <3>1
  <2> QED
    BY <2>1, <2>2
<1>10. IsPrefix(u, P)
  <2>1. u \in Seq(ToSet(u)) /\ SubSeq(u, 1, k + m) = u
    BY <1>7, SubSeqFull DEF IsSequence
  <2>2. \A i \in 1..(k + m) : P[i] \in ToSet(P)
    BY <1>1, <1>8 DEF ToSet
  <2>3. k + m \in Nat
    BY <1>1, <1>8
  <2> DEFINE v == SubSeq(P, 1, k + m)
  <2>4. /\ v \in Seq(ToSet(P)) /\ Len(v) = IF 1 <= k + m THEN (k + m) - 1 + 1 ELSE 0
        /\ \A i \in 1 .. (k + m) - 1 + 1 : v[i] = P[1 + i - 1]
    BY <2>2, <2>3, SubSeqProperties
  <2> HIDE DEF v
  <2>5. (k + m) - 1 + 1 = k + m /\ (~(1 <= k + m) => k + m = 0) /\ \A i \in 1..(k + m) : 1 + i - 1 = i
    BY <2>3
  <2>6. Len(u) = k + m /\ Len(v) = k + m
    BY <1>7, <2>4, <2>5
  <2>7. \A i \in 1..Len(u) : u[i] = v[i]
    BY <1>9, <2>4, <2>5, <2>6
  <2>8. u \in Seq(ToSet(u)) /\ v \in Seq(ToSet(P)) /\ Len(u) = Len(v)
    BY <2>1, <2>4, <2>6
  <2>9. u = v
    BY <2>7, <2>8, SeqEqual
  <2> QED
    BY <1>7, <1>8, <2>1, <2>9 DEF IsPrefix, v
<1>11. \A x \in ToSet(rows) : x \notin ToSet(R)
  <2> SUFFICES ASSUME NEW i \in 1..m, NEW j \in 1..k, rows[i] = R[j] PROVE FALSE
    BY <1>1, <1>6 DEF ToSet, k
  <2>1. P[k + i] = P[j]
    BY <1>2, <1>5
  <2>2. k + i \in DOMAIN P /\ j \in DOMAIN P /\ k + i # j
    BY <1>1, <1>2, <1>8
  <2> QED
    BY <2>1, <2>2 DEF NoTwo
<1> QED
  BY <1>5, <1>6, <1>10, <1>11 DEF rows, k, u

CellRecords ==
  [open : BOOLEAN, loaded : BOOLEAN, loading : BOOLEAN, error : BOOLEAN, filter : BOOLEAN, typed : BOOLEAN,
   records : Seq(CellConvs), total : Nat, moved : BOOLEAN, failed : BOOLEAN,
   detailId : CellConvs \cup {Ce!NoOne}, detail : CellConvs \cup {Ce!NoOne}, detailError : BOOLEAN]
LoadRecords ==
  [seq : Nat, more : BOOLEAN, filter : BOOLEAN, before : CellConvs \cup {Ce!NoOne}, got : {"nothing", "page", "error"},
   page : [rows : Seq(CellConvs), total : Nat], stale : BOOLEAN]
ReadRecords == [conv : CellConvs, got : {"nothing", "it", "error"}]

CellTypeOK ==
  /\ cell \in CellRecords /\ loadSeq \in Nat /\ loads \subseteq LoadRecords
  /\ reads \in Seq(ReadRecords)
ListInv == all \in Seq(CellConvs) /\ NoTwo(all)

Cursor == IF cell.records = <<>> THEN Ce!NoOne ELSE Last(cell.records)
OnlyMore == \A q \in loads : Ce!Newest(q) => q.more

\* One request is the newest, and it has the filter and the last row of now.
LoadsInv ==
  /\ \A q \in loads : q.seq <= loadSeq
  /\ \A q, r \in loads : q.seq = r.seq => q = r
  /\ \A q \in loads :
       /\ Ce!Newest(q) /\ ~cell.typed => q.filter = cell.filter
       /\ q.more => cell.loaded /\ (Ce!Newest(q) => q.before = Cursor)
       /\ ~q.more => q.before = Ce!NoOne
\* What was answered is a page of the list, and of the list of now if nothing moved.
PagesInv ==
  \A q \in loads : q.got = "page" =>
    /\ NoTwo(q.page.rows)
    /\ q.filter => ToSet(q.page.rows) \subseteq Matching
    /\ ~q.stale => q.page = Ce!Listing(q.filter, q.before)
\* What is shown.
RowsInv ==
  /\ NoTwo(cell.records) /\ (cell.open => cell.loaded)
  /\ cell.loading <=> \E q \in loads : Ce!Newest(q)
  /\ ~cell.typed /\ ~cell.failed /\ cell.filter /\ OnlyMore => ToSet(cell.records) \subseteq Matching
  /\ ~cell.typed /\ cell.loaded /\ ~cell.failed /\ ~cell.moved /\ OnlyMore =>
       cell.total = Len(Ce!Passing(cell.filter)) /\ IsPrefix(cell.records, Ce!Passing(cell.filter))
  /\ cell.detail # Ce!NoOne => cell.detail = cell.detailId

CellInv == CellTypeOK /\ ListInv /\ LoadsInv /\ PagesInv /\ RowsInv

LEMMA PassingFacts ==
  ASSUME Ce!HistoryCellAssumption, ListInv, NEW f
  PROVE  /\ IsSequence(Ce!Passing(f)) /\ NoTwo(Ce!Passing(f))
         /\ ToSet(Ce!Passing(f)) \subseteq CellConvs /\ Ce!NoOne \notin ToSet(Ce!Passing(f))
         /\ f => ToSet(Ce!Passing(f)) \subseteq Matching
<1> DEFINE K == {i \in DOMAIN all : f => all[i] \in Matching}
<1>1. Ce!Passing(f) = Kept(all, K)
  BY SameWords DEF Ce!Passing
<1>2. IsSequence(all)
  BY MemberIsSequence DEF ListInv
<1>3. /\ NoTwo(Kept(all, K)) /\ IsSequence(Kept(all, K)) /\ ToSet(Kept(all, K)) = {all[k] : k \in K}
  <2>1. K \subseteq DOMAIN all
    OBVIOUS
  <2> HIDE DEF K
  <2> QED
    BY <1>2, <2>1, KeptHasNoTwo DEF ListInv
<1>4. \A k \in DOMAIN all : all[k] \in CellConvs
  BY DEF ListInv
<1>5. Ce!NoOne \notin CellConvs
  BY DEF Ce!HistoryCellAssumption
<1> QED
  BY <1>1, <1>3, <1>4, <1>5

LEMMA CellInit ==
  ASSUME Ce!HistoryCellAssumption, Ce!HistoryCellInit
  PROVE  CellInv
<1>1. all \in Seq(CellConvs) /\ NoTwo(all)
  <2> DEFINE n == Cardinality(CellConvs)
  <2>1. n \in Nat /\ ExistsBijection(1..n, CellConvs)
    BY FS_CardinalityType, SameWords DEF Ce!HistoryCellAssumption
  <2>2. \E f \in [1..n -> CellConvs] : IsInjective(f)
    BY <2>1 DEF ExistsBijection, Bijection, Injection
  <2>3. all = SetToSeq(CellConvs)
    BY SameWords DEF Ce!HistoryCellInit
  <2>4. all \in [1..n -> CellConvs] /\ IsInjective(all)
    BY <2>2, <2>3 DEF SetToSeq
  <2> HIDE DEF n
  <2> QED
    BY <2>1, <2>4 DEF NoTwo, IsInjective
<1>2. cell \in CellRecords
  BY DEF Ce!HistoryCellInit, CellRecords
<1>3. CellTypeOK /\ LoadsInv /\ PagesInv /\ RowsInv
  BY <1>2 DEF Ce!HistoryCellInit, CellTypeOK, LoadsInv, PagesInv, RowsInv, NoTwo, ToSet
<1> QED
  BY <1>1, <1>3 DEF CellInv, ListInv

\* A request of the page.
LEMMA LoadsStep ==
  ASSUME CellInv, NEW more \in BOOLEAN, NEW changed \in CellRecords, Ce!Loads(more, changed),
         \A x \in {"open", "loaded", "records", "total", "moved", "failed", "detailId", "detail"} : changed[x] = cell[x],
         more => changed = cell /\ cell.open /\ ~cell.loading
  PROVE  CellInv'
<1> DEFINE q == Ce!Query(more, changed.filter)
<1>1. /\ loadSeq' = loadSeq + 1 /\ loads' = loads \cup {q}
      /\ cell' = [changed EXCEPT !.loading = TRUE, !.error = FALSE]
      /\ UNCHANGED <<all, reads>>
  BY DEF Ce!Loads
<1>2. /\ q = [seq |-> loadSeq + 1, more |-> more, filter |-> changed.filter,
              before |-> IF more THEN Cursor ELSE Ce!NoOne, got |-> "nothing",
              page |-> [rows |-> <<>>, total |-> 0], stale |-> FALSE]
  BY SameWords DEF Ce!Query, Cursor
<1>3. loadSeq \in Nat /\ cell \in CellRecords /\ loads \subseteq LoadRecords
  BY DEF CellInv, CellTypeOK
<1>4. /\ changed.open = cell.open /\ changed.loaded = cell.loaded /\ changed.records = cell.records
      /\ changed.total = cell.total /\ changed.moved = cell.moved /\ changed.failed = cell.failed
      /\ changed.detailId = cell.detailId /\ changed.detail = cell.detail
  OBVIOUS
<1>5. Cursor \in CellConvs \cup {Ce!NoOne}
  <2>1. cell.records \in Seq(CellConvs)
    BY <1>3 DEF CellRecords
  <2>2. cell.records # <<>> => Last(cell.records) \in CellConvs
    BY <2>1 DEF Last
  <2> QED
    BY <2>2 DEF Cursor
<1>6. q \in LoadRecords
  BY <1>2, <1>3, <1>5 DEF LoadRecords, CellRecords
<1> HIDE DEF q
<1>7. cell' \in CellRecords
  BY <1>1 DEF CellRecords
<1>8. /\ cell'.open = cell.open /\ cell'.loaded = cell.loaded /\ cell'.records = cell.records
      /\ cell'.total = cell.total /\ cell'.moved = cell.moved /\ cell'.failed = cell.failed
      /\ cell'.detailId = cell.detailId /\ cell'.detail = cell.detail
      /\ cell'.filter = changed.filter /\ cell'.typed = changed.typed /\ cell'.loading = TRUE
  BY <1>1, <1>4 DEF CellRecords
<1>9. \A r \in loads : r.seq \in Nat /\ r.seq <= loadSeq
  BY <1>3 DEF CellInv, LoadsInv, LoadRecords
<1>10. \A r \in loads' : Ce!Newest(r)' <=> r = q
  BY <1>1, <1>2, <1>3, <1>9 DEF Ce!Newest
<1>11. CellTypeOK' /\ ListInv'
  BY <1>1, <1>3, <1>6, <1>7 DEF CellInv, CellTypeOK, ListInv
<1>12. Cursor' = Cursor /\ \A f : Ce!Passing(f)' = Ce!Passing(f)
  BY <1>1, <1>8 DEF Cursor, Ce!Passing
<1>13. more => cell.loaded
  BY DEF CellInv, RowsInv
<1>14. LoadsInv'
  <2>1. \A r \in loads' : r.seq <= loadSeq'
    BY <1>1, <1>2, <1>3, <1>9
  <2>2. \A r, s \in loads' : r.seq = s.seq => r = s
    <3>1. \A r \in loads : r.seq # q.seq
      BY <1>2, <1>3, <1>9
    <3>2. \A r, s \in loads : r.seq = s.seq => r = s
      BY DEF CellInv, LoadsInv
    <3> QED
      BY <1>1, <3>1, <3>2
  <2>3. ASSUME NEW r \in loads'
        PROVE  /\ Ce!Newest(r)' /\ ~cell'.typed => r.filter = cell'.filter
               /\ r.more => cell'.loaded /\ (Ce!Newest(r)' => r.before = Cursor')
               /\ ~r.more => r.before = Ce!NoOne
    BY <1>1, <1>2, <1>8, <1>10, <1>12, <1>13 DEF CellInv, LoadsInv
  <2> QED
    BY <2>1, <2>2, <2>3 DEF LoadsInv
<1>15. PagesInv'
  <2>1. \A f, b : Ce!Listing(f, b)' = Ce!Listing(f, b)
    BY <1>12 DEF Ce!Listing
  <2>2. q.got # "page"
    BY <1>2
  <2> QED
    BY <1>1, <2>1, <2>2 DEF CellInv, PagesInv
<1>16. OnlyMore' => more
  BY <1>1, <1>2, <1>10 DEF OnlyMore
<1>17. more => OnlyMore
  BY DEF CellInv, RowsInv, OnlyMore
<1>18. RowsInv'
  <2>1. cell'.loading <=> \E r \in loads' : Ce!Newest(r)'
    BY <1>1, <1>8, <1>10
  <2>2. more => cell'.filter = cell.filter /\ cell'.typed = cell.typed
    BY <1>8
  <2> QED
    BY <1>8, <1>12, <1>16, <1>17, <2>1, <2>2 DEF CellInv, RowsInv
<1> QED
  BY <1>11, <1>14, <1>15, <1>18 DEF CellInv

\* What the reader does without asking for rows.
LEMMA ReaderStep ==
  ASSUME CellInv, Ce!Toggles \/ Ce!Types \/ Ce!ClosesDetail \/ \E c \in CellConvs : Ce!OpensDetail(c)
  PROVE  CellInv'
<1>1. cell \in CellRecords /\ loadSeq \in Nat /\ loads \subseteq LoadRecords
  BY DEF CellInv, CellTypeOK
<1>2. UNCHANGED <<all, loadSeq, loads>>
  BY DEF Ce!Toggles, Ce!Types, Ce!ClosesDetail, Ce!OpensDetail
<1>3. /\ cell' \in CellRecords
      /\ cell'.records = cell.records /\ cell'.total = cell.total /\ cell'.moved = cell.moved /\ cell'.failed = cell.failed
      /\ cell'.loaded = cell.loaded /\ cell'.loading = cell.loading
      /\ cell'.typed \/ (cell'.filter = cell.filter /\ cell'.typed = cell.typed)
      /\ cell'.open => cell'.loaded
      /\ cell'.detail # Ce!NoOne => cell'.detail = cell'.detailId
  <2>1. CASE Ce!Toggles
    BY <1>1, <2>1 DEF Ce!Toggles, CellRecords, CellInv, RowsInv
  <2>2. CASE Ce!Types
    BY <1>1, <2>2 DEF Ce!Types, CellRecords, CellInv, RowsInv
  <2>3. CASE Ce!ClosesDetail
    BY <1>1, <2>3 DEF Ce!ClosesDetail, CellRecords, CellInv, RowsInv
  <2>4. CASE \E c \in CellConvs : Ce!OpensDetail(c)
    BY <1>1, <2>4 DEF Ce!OpensDetail, CellRecords, CellInv, RowsInv
  <2> QED
    BY <2>1, <2>2, <2>3, <2>4
<1>4. reads' \in Seq(ReadRecords)
  <2>1. CASE UNCHANGED reads
    BY <2>1 DEF CellInv, CellTypeOK
  <2>2. CASE \E c \in CellConvs : Ce!OpensDetail(c)
    <3>1. PICK c \in CellConvs : reads' = Append(reads, [conv |-> c, got |-> "nothing"])
      BY <2>2 DEF Ce!OpensDetail
    <3>2. [conv |-> c, got |-> "nothing"] \in ReadRecords
      BY DEF ReadRecords
    <3>3. reads \in Seq(ReadRecords)
      BY DEF CellInv, CellTypeOK
    <3> QED
      BY <3>1, <3>2, <3>3, AppendProperties
  <2> QED
    BY <2>1, <2>2 DEF Ce!Toggles, Ce!Types, Ce!ClosesDetail
<1>5. Cursor' = Cursor /\ (\A f : Ce!Passing(f)' = Ce!Passing(f)) /\ (OnlyMore' <=> OnlyMore)
      /\ \A q \in loads : Ce!Newest(q)' <=> Ce!Newest(q)
  BY <1>2, <1>3 DEF Cursor, Ce!Passing, OnlyMore, Ce!Newest
<1>6. CellTypeOK' /\ ListInv'
  BY <1>2, <1>3, <1>4 DEF CellInv, CellTypeOK, ListInv
<1>7. LoadsInv'
  BY <1>2, <1>3, <1>5 DEF CellInv, LoadsInv
<1>8. PagesInv'
  <2>1. \A f, b : Ce!Listing(f, b)' = Ce!Listing(f, b)
    BY <1>5 DEF Ce!Listing
  <2> QED
    BY <1>2, <2>1 DEF CellInv, PagesInv
<1>9. RowsInv'
  BY <1>2, <1>3, <1>5 DEF CellInv, RowsInv
<1> QED
  BY <1>6, <1>7, <1>8, <1>9 DEF CellInv

LEMMA TakesDetailStep ==
  ASSUME CellInv, NEW k \in DOMAIN reads, Ce!TakesDetail(k)
  PROVE  CellInv'
<1>1. /\ cell \in CellRecords /\ loadSeq \in Nat /\ loads \subseteq LoadRecords
      /\ reads \in Seq(ReadRecords) /\ reads[k] \in ReadRecords
  BY DEF CellInv, CellTypeOK
<1>2. UNCHANGED <<all, loadSeq, loads>>
  BY DEF Ce!TakesDetail
<1>3. /\ cell' \in CellRecords
      /\ cell'.records = cell.records /\ cell'.total = cell.total /\ cell'.moved = cell.moved /\ cell'.failed = cell.failed
      /\ cell'.loaded = cell.loaded /\ cell'.loading = cell.loading
      /\ cell'.filter = cell.filter /\ cell'.typed = cell.typed /\ cell'.open = cell.open
      /\ cell'.detail # Ce!NoOne => cell'.detail = cell'.detailId
  <2>1. reads[k].conv \in CellConvs
    BY <1>1 DEF ReadRecords
  <2> QED
    BY <1>1, <2>1 DEF Ce!TakesDetail, CellRecords, CellInv, RowsInv
<1>4. reads' \in Seq(ReadRecords)
  <2>1. \E got \in {"it", "error"} : reads' = [reads EXCEPT ![k].got = got]
    BY DEF Ce!TakesDetail
  <2>2. \A got \in {"it", "error"} : [reads[k] EXCEPT !.got = got] \in ReadRecords
    BY <1>1 DEF ReadRecords
  <2>3. PICK r \in ReadRecords : reads' = [reads EXCEPT ![k] = r]
    BY <2>1, <2>2
  <2>4. k \in 1..Len(reads)
    BY <1>1
  <2> QED
    BY <1>1, <2>3, <2>4, ExceptSeq
<1>5. Cursor' = Cursor /\ (\A f : Ce!Passing(f)' = Ce!Passing(f)) /\ (OnlyMore' <=> OnlyMore)
      /\ \A q \in loads : Ce!Newest(q)' <=> Ce!Newest(q)
  BY <1>2, <1>3 DEF Cursor, Ce!Passing, OnlyMore, Ce!Newest
<1>6. CellTypeOK' /\ ListInv'
  BY <1>2, <1>3, <1>4 DEF CellInv, CellTypeOK, ListInv
<1>7. LoadsInv'
  BY <1>2, <1>3, <1>5 DEF CellInv, LoadsInv
<1>8. PagesInv'
  <2>1. \A f, b : Ce!Listing(f, b)' = Ce!Listing(f, b)
    BY <1>5 DEF Ce!Listing
  <2> QED
    BY <1>2, <2>1 DEF CellInv, PagesInv
<1>9. RowsInv'
  BY <1>2, <1>3, <1>5 DEF CellInv, RowsInv
<1> QED
  BY <1>6, <1>7, <1>8, <1>9 DEF CellInv

\* The list moves: what was answered from it is stale.
LEMMA MovesStep ==
  ASSUME CellInv, NEW c \in CellConvs, Ce!GoesOn(c) \/ Ce!IsRemoved(c)
  PROVE  CellInv'
<1> DEFINE rest == Kept(all, {i \in DOMAIN all : all[i] # c})
           aged(q) == [q EXCEPT !.stale = (q.got = "page") \/ @]
<1>1. /\ cell \in CellRecords /\ loadSeq \in Nat /\ loads \subseteq LoadRecords
      /\ all \in Seq(CellConvs) /\ IsSequence(all) /\ NoTwo(all)
  BY MemberIsSequence DEF CellInv, CellTypeOK, ListInv
<1>2. /\ all' = <<c>> \o rest \/ all' = rest
      /\ cell' = [cell EXCEPT !.moved = TRUE] /\ loads' = {aged(q) : q \in loads} /\ UNCHANGED <<loadSeq, reads>>
  BY SameWords DEF Ce!GoesOn, Ce!IsRemoved, Ce!Moves, Ce!Without
<1>3. IsSequence(rest) /\ NoTwo(rest) /\ ToSet(rest) \subseteq CellConvs /\ c \notin ToSet(rest)
  <2> DEFINE K == {i \in DOMAIN all : all[i] # c}
  <2>1. K \subseteq DOMAIN all
    OBVIOUS
  <2>2. \A k \in K : all[k] \in CellConvs /\ all[k] # c
    BY <1>1
  <2> HIDE DEF K
  <2>3. NoTwo(Kept(all, K)) /\ IsSequence(Kept(all, K)) /\ ToSet(Kept(all, K)) = {all[k] : k \in K}
    BY <1>1, <2>1, KeptHasNoTwo
  <2> QED
    BY <2>2, <2>3 DEF K
<1> HIDE DEF rest
<1>4. ListInv'
  <2>1. IsSequence(<<c>>) /\ NoTwo(<<c>>) /\ ToSet(<<c>>) = {c}
    BY DEF IsSequence, ToSet, NoTwo
  <2>2. IsSequence(<<c>> \o rest) /\ NoTwo(<<c>> \o rest) /\ ToSet(<<c>> \o rest) = {c} \cup ToSet(rest)
    <3>1. \A x \in ToSet(rest) : x \notin ToSet(<<c>>)
      BY <1>3, <2>1
    <3> HIDE DEF Ce!GoesOn, Ce!IsRemoved
    <3> QED
      BY <1>3, <2>1, <3>1, JoinHasNoTwo
  <2>3. IsSequence(all') /\ NoTwo(all') /\ ToSet(all') \subseteq CellConvs
    BY <1>2, <1>3, <2>2
  <2>4. all' \in Seq(CellConvs)
    BY <2>3, SeqMonotonic DEF IsSequence
  <2> QED
    BY <2>3, <2>4 DEF ListInv
<1>5. \A q \in loads : /\ aged(q) \in LoadRecords /\ aged(q).seq = q.seq /\ aged(q).more = q.more /\ aged(q).filter = q.filter
                       /\ aged(q).before = q.before /\ aged(q).got = q.got /\ aged(q).page = q.page
                       /\ (aged(q).got = "page" => aged(q).stale)
  BY <1>1 DEF LoadRecords
<1> HIDE DEF aged
<1>6. /\ cell' \in CellRecords
      /\ cell'.records = cell.records /\ cell'.total = cell.total /\ cell'.moved /\ cell'.failed = cell.failed
      /\ cell'.loaded = cell.loaded /\ cell'.loading = cell.loading
      /\ cell'.filter = cell.filter /\ cell'.typed = cell.typed /\ cell'.open = cell.open
      /\ cell'.detail = cell.detail /\ cell'.detailId = cell.detailId
  BY <1>1, <1>2 DEF CellRecords
<1>7. Cursor' = Cursor
  BY <1>6 DEF Cursor
<1>8. CellTypeOK'
  BY <1>2, <1>5, <1>6 DEF CellInv, CellTypeOK
<1>9. \A q \in loads : Ce!Newest(aged(q))' <=> Ce!Newest(q)
  BY <1>2, <1>5 DEF Ce!Newest
<1>10. LoadsInv'
  <2>1. \A q \in loads' : q.seq <= loadSeq'
    BY <1>2, <1>5 DEF CellInv, LoadsInv
  <2>2. \A q, r \in loads' : q.seq = r.seq => q = r
    BY <1>2, <1>5 DEF CellInv, LoadsInv
  <2>3. ASSUME NEW q \in loads
        PROVE  LET r == aged(q) IN
               /\ Ce!Newest(r)' /\ ~cell'.typed => r.filter = cell'.filter
               /\ r.more => cell'.loaded /\ (Ce!Newest(r)' => r.before = Cursor')
               /\ ~r.more => r.before = Ce!NoOne
    BY <1>5, <1>6, <1>7, <1>9 DEF CellInv, LoadsInv
  <2> QED
    BY <1>2, <2>1, <2>2, <2>3 DEF LoadsInv
<1>11. PagesInv'
  BY <1>2, <1>5 DEF CellInv, PagesInv
<1>12. RowsInv'
  <2>1. OnlyMore' <=> OnlyMore
    BY <1>2, <1>5, <1>9 DEF OnlyMore
  <2>2. (\E q \in loads' : Ce!Newest(q)') <=> \E q \in loads : Ce!Newest(q)
    BY <1>2, <1>9
  <2> QED
    BY <1>6, <2>1, <2>2 DEF CellInv, RowsInv
<1> QED
  BY <1>4, <1>8, <1>10, <1>11, <1>12 DEF CellInv

LEMMA ListingFacts ==
  ASSUME Ce!HistoryCellAssumption, ListInv, NEW f, NEW before
  PROVE  LET page == Ce!Listing(f, before)
         IN /\ page = [rows |-> PageOf(Ce!After(Ce!Passing(f), before)), total |-> Len(Ce!Passing(f))]
            /\ page \in [rows : Seq(CellConvs), total : Nat] /\ NoTwo(page.rows)
            /\ f => ToSet(page.rows) \subseteq Matching
<1> DEFINE P == Ce!Passing(f)
           rows == PageOf(Ce!After(P, before))
<1>1. IsSequence(P) /\ NoTwo(P) /\ ToSet(P) \subseteq CellConvs /\ (f => ToSet(P) \subseteq Matching)
  BY PassingFacts
<1>2. Ce!Listing(f, before) = [rows |-> rows, total |-> Len(P)]
  BY DEF Ce!Listing, PageOf
<1>3. IsSequence(rows) /\ NoTwo(rows) /\ ToSet(rows) \subseteq ToSet(P)
  <2> HIDE DEF P
  <2> QED
    BY <1>1, PageIsPart
<1>4. Len(P) \in Nat
  BY <1>1, SequenceFacts
<1> HIDE DEF P, rows
<1>5. rows \in Seq(CellConvs)
  BY <1>1, <1>3, SeqMonotonic DEF IsSequence
<1> QED
  BY <1>1, <1>2, <1>3, <1>4, <1>5 DEF P, rows

LEMMA AnswersStep ==
  ASSUME Ce!HistoryCellAssumption, CellInv, NEW q \in loads, Ce!Answers(q)
  PROVE  CellInv'
<1> DEFINE page == Ce!Listing(q.filter, q.before)
<1>1. /\ cell \in CellRecords /\ loadSeq \in Nat /\ loads \subseteq LoadRecords /\ q \in LoadRecords
      /\ UNCHANGED <<all, cell, loadSeq, reads>>
  BY DEF CellInv, CellTypeOK, Ce!Answers
<1>2. /\ page \in [rows : Seq(CellConvs), total : Nat] /\ NoTwo(page.rows)
      /\ q.filter => ToSet(page.rows) \subseteq Matching
  BY ListingFacts DEF CellInv
<1>3. PICK r : /\ loads' = (loads \ {q}) \cup {r}
               /\ r = [q EXCEPT !.got = "page", !.page = page] \/ r = [q EXCEPT !.got = "error"]
  BY DEF Ce!Answers
<1>4. /\ r \in LoadRecords /\ r.seq = q.seq /\ r.more = q.more /\ r.filter = q.filter /\ r.before = q.before
      /\ r.got = "page" => r.page = page
  <2> HIDE DEF page
  <2>1. CASE r = [q EXCEPT !.got = "page", !.page = page]
    BY <1>1, <1>2, <2>1 DEF LoadRecords
  <2>2. CASE r = [q EXCEPT !.got = "error"]
    BY <1>1, <2>2 DEF LoadRecords
  <2> QED
    BY <1>3, <2>1, <2>2
<1>5. Cursor' = Cursor /\ (\A f : Ce!Passing(f)' = Ce!Passing(f)) /\ \A s : Ce!Newest(s)' <=> Ce!Newest(s)
  BY <1>1 DEF Cursor, Ce!Passing, Ce!Newest
<1>6. Ce!Newest(r) <=> Ce!Newest(q)
  BY <1>4 DEF Ce!Newest
<1>7. CellTypeOK' /\ ListInv'
  BY <1>1, <1>3, <1>4 DEF CellInv, CellTypeOK, ListInv
<1>8. LoadsInv'
  BY <1>1, <1>3, <1>4, <1>5, <1>6 DEF CellInv, LoadsInv
<1>9. PagesInv'
  <2>1. \A f, b : Ce!Listing(f, b)' = Ce!Listing(f, b)
    BY <1>5 DEF Ce!Listing
  <2> HIDE DEF page
  <2>2. r.got = "page" =>
          NoTwo(r.page.rows) /\ (r.filter => ToSet(r.page.rows) \subseteq Matching) /\ r.page = Ce!Listing(r.filter, r.before)'
    BY <1>2, <1>4, <2>1 DEF page
  <2> QED
    BY <1>3, <2>1, <2>2 DEF CellInv, PagesInv
<1>10. RowsInv'
  <2>1. OnlyMore' <=> OnlyMore
    BY <1>3, <1>4, <1>5, <1>6 DEF OnlyMore
  <2>2. (\E s \in loads' : Ce!Newest(s)') <=> \E s \in loads : Ce!Newest(s)
    BY <1>3, <1>5, <1>6
  <2> QED
    BY <1>1, <1>5, <2>1, <2>2 DEF CellInv, RowsInv
<1> QED
  BY <1>7, <1>8, <1>9, <1>10 DEF CellInv

\* The rows that a page adds: all of it, if nothing of it is shown.
LEMMA AddedFacts ==
  ASSUME cell.records \in Seq(CellConvs), NoTwo(cell.records), NEW rows \in Seq(CellConvs), NoTwo(rows)
  PROVE  /\ IsSequence(Ce!Added(rows)) /\ NoTwo(Ce!Added(rows)) /\ ToSet(Ce!Added(rows)) \subseteq ToSet(rows)
         /\ (\A x \in ToSet(rows) : x \notin ToSet(cell.records)) => Ce!Added(rows) = rows
         /\ cell.records \o Ce!Added(rows) \in Seq(CellConvs) /\ NoTwo(cell.records \o Ce!Added(rows))
         /\ ToSet(cell.records \o Ce!Added(rows)) = ToSet(cell.records) \cup ToSet(Ce!Added(rows))
<1> DEFINE K == {i \in DOMAIN rows : rows[i] \notin ToSet(cell.records)}
           added == Kept(rows, K)
<1>1. Ce!Added(rows) = added
  BY SameWords DEF Ce!Added
<1>2. IsSequence(rows) /\ IsSequence(cell.records) /\ K \subseteq DOMAIN rows
  BY MemberIsSequence
<1>3. NoTwo(added) /\ IsSequence(added) /\ ToSet(added) = {rows[k] : k \in K}
  <2> HIDE DEF K
  <2> QED
    BY <1>2, KeptHasNoTwo
<1>4. ToSet(added) \subseteq ToSet(rows) /\ \A x \in ToSet(added) : x \notin ToSet(cell.records)
  <2>1. \A k \in K : rows[k] \in ToSet(rows) /\ rows[k] \notin ToSet(cell.records)
    BY DEF ToSet
  <2> HIDE DEF K, added
  <2> QED
    BY <1>3, <2>1
<1>5. (\A x \in ToSet(rows) : x \notin ToSet(cell.records)) => added = rows
  <2>1. (\A x \in ToSet(rows) : x \notin ToSet(cell.records)) => K = DOMAIN rows
    BY DEF ToSet
  <2> QED
    BY <2>1 DEF Kept
<1> HIDE DEF added, K
<1>6. /\ IsSequence(cell.records \o added) /\ NoTwo(cell.records \o added)
      /\ ToSet(cell.records \o added) = ToSet(cell.records) \cup ToSet(added)
  BY <1>2, <1>3, <1>4, JoinHasNoTwo
<1>7. cell.records \o added \in Seq(CellConvs)
  <2>1. ToSet(cell.records) \subseteq CellConvs /\ ToSet(rows) \subseteq CellConvs
    BY DEF ToSet
  <2>2. ToSet(cell.records \o added) \subseteq CellConvs
    BY <1>4, <1>6, <2>1
  <2> QED
    BY <1>6, <2>2, SeqMonotonic DEF IsSequence
<1> QED
  BY <1>1, <1>3, <1>4, <1>5, <1>6, <1>7

LEMMA TakesAnswerStep ==
  ASSUME Ce!HistoryCellAssumption, CellInv, NEW q \in loads, Ce!TakesAnswer(q)
  PROVE  CellInv'
<1>1. /\ cell \in CellRecords /\ loadSeq \in Nat /\ loads \subseteq LoadRecords /\ q \in LoadRecords
      /\ UNCHANGED <<all, loadSeq, reads>> /\ loads' = loads \ {q} /\ q.got # "nothing"
  BY DEF CellInv, CellTypeOK, Ce!TakesAnswer
<1>2. (\A f : Ce!Passing(f)' = Ce!Passing(f)) /\ (\A f, b : Ce!Listing(f, b)' = Ce!Listing(f, b))
      /\ \A s : Ce!Newest(s)' <=> Ce!Newest(s)
  BY <1>1 DEF Ce!Passing, Ce!Listing, Ce!Newest
<1>3. ListInv' /\ PagesInv'
  BY <1>1, <1>2 DEF CellInv, ListInv, PagesInv
<1>4. CASE ~Ce!Newest(q)
  <2>1. cell' = cell
    BY <1>4 DEF Ce!TakesAnswer
  <2>2. Cursor' = Cursor /\ (OnlyMore' <=> OnlyMore)
        /\ ((\E s \in loads' : Ce!Newest(s)') <=> \E s \in loads : Ce!Newest(s))
    BY <1>1, <1>2, <1>4, <2>1 DEF Cursor, OnlyMore
  <2>3. CellTypeOK'
    BY <1>1, <2>1 DEF CellInv, CellTypeOK
  <2>4. LoadsInv'
    BY <1>1, <1>2, <2>1, <2>2 DEF CellInv, LoadsInv
  <2>5. RowsInv'
    BY <1>2, <2>1, <2>2 DEF CellInv, RowsInv
  <2> QED
    BY <1>3, <2>3, <2>4, <2>5 DEF CellInv
<1>5. ASSUME Ce!Newest(q) PROVE \A s \in loads' : ~Ce!Newest(s)'
  BY <1>1, <1>2, <1>5 DEF CellInv, LoadsInv, Ce!Newest
<1>6. CASE Ce!Newest(q) /\ q.got = "error"
  <2>1. cell' = [cell EXCEPT !.loading = FALSE, !.error = TRUE, !.failed = TRUE]
    BY <1>6 DEF Ce!TakesAnswer
  <2>2. /\ cell' \in CellRecords
        /\ cell'.records = cell.records /\ ~cell'.loading /\ cell'.failed /\ cell'.loaded = cell.loaded
        /\ cell'.filter = cell.filter /\ cell'.typed = cell.typed /\ cell'.open = cell.open
        /\ cell'.detail = cell.detail /\ cell'.detailId = cell.detailId
    BY <1>1, <2>1 DEF CellRecords
  <2>3. CellTypeOK'
    BY <1>1, <2>2 DEF CellInv, CellTypeOK
  <2>4. LoadsInv'
    BY <1>1, <1>5, <1>6, <2>2 DEF CellInv, LoadsInv
  <2>5. RowsInv'
    BY <1>5, <1>6, <2>2 DEF CellInv, RowsInv
  <2> QED
    BY <1>3, <2>3, <2>4, <2>5 DEF CellInv
<1>7. CASE Ce!Newest(q) /\ q.got = "page"
  <2> DEFINE rows == q.page.rows
             records == IF q.more THEN cell.records \o Ce!Added(rows) ELSE rows
             P == Ce!Passing(cell.filter)
  <2>1. cell' = [cell EXCEPT !.loading = FALSE, !.loaded = TRUE, !.total = q.page.total, !.records = records,
                             !.moved = q.stale \/ (q.more /\ @), !.failed = q.more /\ @]
    BY <1>7 DEF Ce!TakesAnswer
  <2>2. /\ rows \in Seq(CellConvs) /\ q.page.total \in Nat /\ q.stale \in BOOLEAN /\ q.more \in BOOLEAN /\ q.filter \in BOOLEAN
        /\ cell.records \in Seq(CellConvs) /\ NoTwo(cell.records) /\ NoTwo(rows)
        /\ q.filter => ToSet(rows) \subseteq Matching
        /\ ~q.stale => q.page = Ce!Listing(q.filter, q.before)
        /\ ~cell.typed => q.filter = cell.filter
        /\ q.more => cell.loaded /\ q.before = Cursor
        /\ ~q.more => q.before = Ce!NoOne
    BY <1>1, <1>7 DEF CellInv, LoadsInv, PagesInv, RowsInv, LoadRecords, CellRecords
  <2>3. /\ ToSet(Ce!Added(rows)) \subseteq ToSet(rows)
        /\ (\A x \in ToSet(rows) : x \notin ToSet(cell.records)) => Ce!Added(rows) = rows
        /\ cell.records \o Ce!Added(rows) \in Seq(CellConvs) /\ NoTwo(cell.records \o Ce!Added(rows))
        /\ ToSet(cell.records \o Ce!Added(rows)) = ToSet(cell.records) \cup ToSet(Ce!Added(rows))
    BY <2>2, AddedFacts
  <2> HIDE DEF rows
  <2>4. records \in Seq(CellConvs) /\ NoTwo(records)
    BY <2>2, <2>3
  <2>5. OnlyMore <=> q.more
    BY <1>1, <1>7 DEF OnlyMore, CellInv, LoadsInv, Ce!Newest
  <2>6. ~cell.typed /\ cell.filter /\ (q.more => ~cell.failed) => ToSet(records) \subseteq Matching
    <3>1. CASE q.more
      BY <2>2, <2>3, <2>5, <3>1 DEF CellInv, RowsInv
    <3>2. CASE ~q.more
      BY <2>2, <3>2
    <3> QED
      BY <3>1, <3>2
  <2>7. ASSUME ~cell.typed, q.more => ~cell.failed, ~q.stale, q.more => ~cell.moved
        PROVE  q.page.total = Len(P) /\ IsPrefix(records, P)
    <3>1. q.page = [rows |-> PageOf(Ce!After(P, q.before)), total |-> Len(P)]
      BY <2>2, <2>7, ListingFacts DEF CellInv
    <3>2. rows = PageOf(Ce!After(P, q.before)) /\ q.page.total = Len(P)
      BY <3>1 DEF rows
    <3>3. IsSequence(P) /\ NoTwo(P) /\ Ce!NoOne \notin ToSet(P)
      BY PassingFacts DEF CellInv
    <3>4. CASE q.more
      <4>1. IsSequence(cell.records) /\ IsPrefix(cell.records, P)
        BY <2>2, <2>5, <2>7, <3>4, MemberIsSequence DEF CellInv, RowsInv
      <4>2. rows = PageOf(Ce!After(P, IF cell.records = <<>> THEN Ce!NoOne ELSE Last(cell.records)))
        BY <2>2, <3>2, <3>4 DEF Cursor
      <4> HIDE DEF P
      <4>3. (\A x \in ToSet(rows) : x \notin ToSet(cell.records)) /\ IsPrefix(cell.records \o rows, P)
        BY <3>3, <4>1, <4>2, PageContinues
      <4> QED
        BY <2>3, <3>2, <3>4, <4>3
    <3>5. CASE ~q.more
      <4>1. IsSequence(<<>>) /\ IsPrefix(<<>>, P)
        <5>1. Len(P) \in Nat
          BY <3>3, SequenceFacts
        <5>2. SubSeq(<<>>, 1, 0) = <<>> /\ SubSeq(P, 1, 0) = <<>> /\ Len(<<>>) = 0
          BY SubSeqEmpty
        <5> QED
          BY <5>1, <5>2 DEF IsSequence, IsPrefix
      <4>2. rows = PageOf(Ce!After(P, Ce!NoOne))
        BY <2>2, <3>2, <3>5
      <4> HIDE DEF P
      <4>3. IsPrefix(<<>> \o rows, P)
        BY <3>3, <4>1, <4>2, PageContinues
      <4>4. <<>> \o rows = rows
        BY <2>2
      <4> QED
        BY <3>2, <3>5, <4>3, <4>4
    <3> QED
      BY <3>4, <3>5
  <2> HIDE DEF records
  <2>8. /\ cell' \in CellRecords
        /\ cell'.records = records /\ ~cell'.loading /\ cell'.failed = (q.more /\ cell.failed) /\ cell'.loaded
        /\ cell'.moved = (q.stale \/ (q.more /\ cell.moved)) /\ cell'.total = q.page.total
        /\ cell'.filter = cell.filter /\ cell'.typed = cell.typed /\ cell'.open = cell.open
        /\ cell'.detail = cell.detail /\ cell'.detailId = cell.detailId
    <3> DEFINE m == q.stale \/ (q.more /\ cell.moved)
               f == q.more /\ cell.failed
    <3>1. m \in BOOLEAN /\ f \in BOOLEAN
      OBVIOUS
    <3>2. cell' = [cell EXCEPT !.loading = FALSE, !.loaded = TRUE, !.total = q.page.total, !.records = records,
                               !.moved = m, !.failed = f]
      BY <1>1, <2>1 DEF CellRecords
    <3> HIDE DEF m, f
    <3>3. /\ cell' \in CellRecords
          /\ cell'.records = records /\ ~cell'.loading /\ cell'.failed = f /\ cell'.loaded
          /\ cell'.moved = m /\ cell'.total = q.page.total
          /\ cell'.filter = cell.filter /\ cell'.typed = cell.typed /\ cell'.open = cell.open
          /\ cell'.detail = cell.detail /\ cell'.detailId = cell.detailId
      BY <1>1, <2>2, <2>4, <3>1, <3>2 DEF CellRecords
    <3> QED
      BY <3>3 DEF m, f
  <2>9. CellTypeOK'
    BY <1>1, <2>8 DEF CellInv, CellTypeOK
  <2>10. LoadsInv'
    BY <1>1, <1>5, <1>7, <2>8 DEF CellInv, LoadsInv
  <2>11. RowsInv'
    <3>1. cell'.loading <=> \E s \in loads' : Ce!Newest(s)'
      BY <1>5, <1>7, <2>8
    <3>2. cell.detail # Ce!NoOne => cell.detail = cell.detailId
      BY DEF CellInv, RowsInv
    <3>3. ~cell'.typed /\ ~cell'.failed /\ cell'.filter => ToSet(cell'.records) \subseteq Matching
      BY <2>6, <2>8
    <3>4. ~cell'.typed /\ ~cell'.failed /\ ~cell'.moved =>
            cell'.total = Len(P) /\ IsPrefix(cell'.records, P)
      BY <2>7, <2>8
    <3>5. Ce!Passing(cell.filter)' = P
      BY <1>1, <2>8 DEF Ce!Passing
    <3> HIDE DEF P
    <3> QED
      BY <2>4, <2>8, <3>1, <3>2, <3>3, <3>4, <3>5 DEF RowsInv
  <2> QED
    BY <1>3, <2>9, <2>10, <2>11 DEF CellInv
<1> QED
  BY <1>1, <1>4, <1>6, <1>7 DEF LoadRecords

LEMMA CellStep ==
  ASSUME Ce!HistoryCellAssumption, CellInv, Ce!HistoryCellNext
  PROVE  CellInv'
<1>1. cell \in CellRecords
  BY DEF CellInv, CellTypeOK
<1>2. CASE Ce!LoadsShut
  BY <1>1, <1>2, LoadsStep DEF Ce!LoadsShut
<1>3. CASE Ce!Selects
  <2> DEFINE changed == [cell EXCEPT !.filter = ~@]
  <2>1. changed \in CellRecords
    BY <1>1 DEF CellRecords
  <2>2. \A x \in {"open", "loaded", "records", "total", "moved", "failed", "detailId", "detail"} : changed[x] = cell[x]
    BY <1>1 DEF CellRecords
  <2>3. Ce!Loads(FALSE, changed)
    BY <1>3 DEF Ce!Selects
  <2> HIDE DEF changed
  <2> QED
    BY <2>1, <2>2, <2>3, LoadsStep
<1>4. CASE Ce!TypingEnds
  <2> DEFINE changed == [cell EXCEPT !.typed = FALSE]
  <2>1. changed \in CellRecords
    BY <1>1 DEF CellRecords
  <2>2. \A x \in {"open", "loaded", "records", "total", "moved", "failed", "detailId", "detail"} : changed[x] = cell[x]
    BY <1>1 DEF CellRecords
  <2>3. Ce!Loads(FALSE, changed)
    BY <1>4 DEF Ce!TypingEnds
  <2> HIDE DEF changed
  <2> QED
    BY <2>1, <2>2, <2>3, LoadsStep
<1>5. CASE Ce!PressesMore
  BY <1>1, <1>5, LoadsStep DEF Ce!PressesMore, Ce!OffersMore
<1>6. CASE Ce!Toggles \/ Ce!Types \/ Ce!ClosesDetail \/ \E c \in CellConvs : Ce!OpensDetail(c)
  BY <1>6, ReaderStep
<1>7. CASE \E q \in loads : Ce!Answers(q) \/ Ce!TakesAnswer(q)
  BY <1>7, AnswersStep, TakesAnswerStep
<1>8. CASE \E k \in DOMAIN reads : Ce!TakesDetail(k)
  BY <1>8, TakesDetailStep
<1>9. CASE \E c \in CellConvs : Ce!GoesOn(c) \/ Ce!IsRemoved(c)
  BY <1>9, MovesStep
<1> QED
  BY <1>2, <1>3, <1>4, <1>5, <1>6, <1>7, <1>8, <1>9 DEF Ce!HistoryCellNext

LEMMA CellInvSuffices ==
  ASSUME Ce!HistoryCellAssumption, CellInv
  PROVE  Ce!CellHolds
<1>1. cell.records \in Seq(CellConvs) /\ IsSequence(cell.records)
  BY MemberIsSequence DEF CellInv, CellTypeOK, CellRecords
<1>2. Ce!NoRowTwice
  <2>1. \A S : Ce!Cardinality(S) = Cardinality(S)
    BY DEF Ce!Cardinality, Cardinality
  <2> QED
    BY <1>1, <2>1, LengthOfNoTwo, SameWords DEF CellInv, RowsInv, Ce!NoRowTwice
<1>3. Ce!NeverStuck
  BY DEF CellInv, RowsInv, Ce!NeverStuck, Ce!Waited
<1>4. Ce!Quiet => OnlyMore /\ ~cell.typed
  BY DEF Ce!Quiet, Ce!Waited, OnlyMore
<1>5. Ce!RowsPass
  BY <1>4, SameWords DEF CellInv, RowsInv, Ce!RowsPass
<1>6. Ce!ShowsTheBeginning
  <2> SUFFICES ASSUME Ce!Quiet, cell.loaded, ~cell.failed, ~cell.moved
               PROVE  /\ cell.total = Len(Ce!Passing(cell.filter))
                      /\ IsPrefix(cell.records, Ce!Passing(cell.filter))
                      /\ Len(cell.records) < cell.total => Ce!Added(Ce!Listing(cell.filter, Cursor).rows) # <<>>
    BY SameWords DEF Ce!ShowsTheBeginning, Cursor
  <2> DEFINE P == Ce!Passing(cell.filter)
             rows == Ce!Listing(cell.filter, Cursor).rows
  <2>1. cell.total = Len(P) /\ IsPrefix(cell.records, P) /\ NoTwo(cell.records)
    BY <1>4 DEF CellInv, RowsInv
  <2>2. rows = PageOf(Ce!After(P, Cursor)) /\ rows \in Seq(CellConvs) /\ NoTwo(rows)
    BY ListingFacts DEF CellInv
  <2>3. IsSequence(P) /\ NoTwo(P) /\ Ce!NoOne \notin ToSet(P)
    BY PassingFacts DEF CellInv
  <2> HIDE DEF P, rows
  <2>4. rows = PageOf(Ce!After(P, IF cell.records = <<>> THEN Ce!NoOne ELSE Last(cell.records)))
    BY <2>2 DEF Cursor
  <2>5. (Len(cell.records) < Len(P) => rows # <<>>) /\ \A x \in ToSet(rows) : x \notin ToSet(cell.records)
    BY <1>1, <2>1, <2>3, <2>4, PageContinues
  <2>6. Ce!Added(rows) = rows
    BY <1>1, <2>1, <2>2, <2>5, AddedFacts
  <2> QED
    BY <2>1, <2>5, <2>6 DEF P, rows
<1>7. Ce!DetailIsOwn
  BY DEF CellInv, RowsInv, Ce!DetailIsOwn
<1> QED
  BY <1>2, <1>3, <1>5, <1>6, <1>7 DEF Ce!CellHolds

\* The page of conversations shows the record it was asked for, in the order of the index, none twice,
\* whatever moves under it and in whatever order the answers come.
THEOREM CellHoldsThm == RecordsSpec => []CellHolds
<1> DEFINE Inv == part = "cell" => CellInv
<1>1. RecordsInit => Inv
  BY CellAssumption, CellInit DEF RecordsInit
<1>2. Inv /\ [RecordsNext]_recordsVars => Inv'
  <2> SUFFICES ASSUME Inv, [RecordsNext]_recordsVars PROVE Inv'
    OBVIOUS
  <2>1. CASE part = "cell" /\ Ce!HistoryCellNext /\ UNCHANGED part
    BY <2>1, CellAssumption, CellStep
  <2>2. CASE part # "cell" /\ UNCHANGED part
    BY <2>2
  <2>3. CASE part = "cell" /\ UNCHANGED recordsVars
    <3>1. UNCHANGED <<all, cell, loadSeq, loads, reads, reader, moves, faults>>
      BY <2>3 DEF recordsVars, Cevars
    <3>2. (\A f : Ce!Passing(f)' = Ce!Passing(f)) /\ (\A s : Ce!Newest(s)' <=> Ce!Newest(s))
          /\ (\A f, b : Ce!Listing(f, b)' = Ce!Listing(f, b))
      BY <3>1 DEF Ce!Passing, Ce!Newest, Ce!Listing
    <3> QED
      BY <2>3, <3>1, <3>2 DEF CellInv, CellTypeOK, ListInv, LoadsInv, PagesInv, RowsInv, OnlyMore, Cursor
  <2> QED
    BY <2>1, <2>2, <2>3 DEF RecordsNext, recordsVars
<1>3. Inv => CellHolds
  BY CellAssumption, CellInvSuffices DEF CellHolds
<1> QED
  BY <1>1, <1>2, <1>3, PTL DEF RecordsSpec

-----------------------------------------------------------------------------
(* The portable harness (Harness.tla).                                     *)

LEMMA HarnessIs == MaxEdits \in Nat /\ "free" \notin Legs /\ "dead" \notin Legs
BY TransferAssumption DEF H!HarnessAssumption

Anchored == {"rules", "item"}
AnyText == [ver : Nat, own : Nat, mark : BOOLEAN, bad : BOOLEAN]
Memories == [files : [H!Files -> AnyText], drift : [H!Files -> AnyText], owned : BOOLEAN]
Outcomes == {"unseen", "unchanged", "dropped", "drifted", "error", "write", "written", "prune"}
AtAFile == {"copying", "writing"}
Applying == AtAFile \cup {"applying"}
Runs ==
  [pc : {"idle", "fingerprinted", "capturing", "captured", "behind", "applying", "copying", "writing", "done", "dead"},
   verb : {"none", "prepare", "sync", "force", "enable"}, policy : Policies \cup {"off"},
   hash : Nat, ver : Nat, mem : Memories, at : H!Files \cup {"none"}, held : AnyText, seen : [H!Files -> Outcomes],
   state : {"none", "off", "same-client", "unsupported", "error", "synced", "partial", "attention", "stale"},
   proceed : BOOLEAN]
EditsAre ==
  [made : Nat, died : BOOLEAN, kept : SUBSET (Nat \ {0}), hers : SUBSET H!Files, raced : SUBSET Nat]

HarnessTypes ==
  /\ cfg \in [on : BOOLEAN, policy : Policies] /\ source \in Nat \ {0}
  /\ bundle \in [ver : Nat, fp : Nat] /\ capture \in [hash : Nat, fp : Nat]
  /\ disk \in [H!Files -> AnyText] /\ record \in Memories
  /\ leg \in [Legs -> Runs] /\ edits \in EditsAre

\* Who is in a section holds the lock; what an apply is not yet through with is as the record has it,
\* and whoever does not apply has looked at nothing.
SectionsInv ==
  \A p \in Legs :
    /\ leg[p].pc \in Applying \cup {"capturing"} => hlock = p
    /\ leg[p].pc \in Applying => \A f \in H!Files : leg[p].seen[f] = "unseen" => leg[p].mem.files[f] = record.files[f]
    /\ leg[p].pc \notin Applying => \A f \in H!Files : leg[p].seen[f] = "unseen"
    /\ leg[p].pc \in AtAFile => leg[p].at \in H!Files /\ leg[p].seen[leg[p].at] = "unseen"
\* No text holds an edit that is not made yet.
Fresh(x) == x.own <= edits.made \/ x.own = MaxEdits + 1
\* The record holds no text of hers as Leg's, and of each of her edits it notes there is a copy, if she
\* still counts on it.
CopiesKept(m) ==
  /\ \A f \in Anchored : m.files[f].own = 0
  /\ \A f \in H!Files : Fresh(m.drift[f])
  /\ \A f \in H!Files : m.drift[f].own \in edits.kept => m.drift[f].own \in backups
MemoryInv ==
  /\ CopiesKept(record) /\ \A p \in Legs : leg[p].pc \in Applying => CopiesKept(leg[p].mem)
  /\ \A f \in H!Files : Fresh(disk[f])
\* A file is copied or written for what was read of it; what is about to be overwritten has its copy, or
\* was saved after it.
HeldInv ==
  \A p \in Legs :
    /\ leg[p].pc \in AtAFile => H!Due(p) \in {"write", "prune", "drifted"} /\ Fresh(leg[p].held)
    /\ leg[p].pc = "copying" /\ leg[p].held.own \in edits.kept => leg[p].held.own \in backups \cup {disk[leg[p].at].own}
    /\ leg[p].pc = "writing" =>
         /\ H!Due(p) = "drifted" => leg[p].verb = "force"
         /\ disk[leg[p].at].own \in edits.kept => disk[leg[p].at].own \in backups \cup edits.raced
\* The bundle is the one that was recorded last, and no older than its hash.
CaptureInv ==
  /\ bundle.ver = capture.fp /\ capture.hash <= capture.fp
  /\ \A p \in Legs :
       /\ leg[p].pc # "dead" => leg[p].hash <= source
       /\ leg[p].pc \in Applying \cup {"capturing", "captured", "behind"} => leg[p].hash <= leg[p].ver
\* Until she edits a file or a process dies nothing drifts.
NoDrift(m) == \A f \in H!Files : ~H!Drifted(f, m, disk[f])
DriftInv ==
  edits.hers = {} /\ ~edits.died =>
    /\ hlock # "dead"
    /\ \A p \in Legs : leg[p].pc \in Applying => NoDrift(leg[p].mem) /\ \A f \in H!Files : leg[p].seen[f] # "drifted"
    /\ \A p \in Legs : leg[p].pc \in AtAFile => H!Due(p) # "drifted"
    /\ (\A p \in Legs : leg[p].pc \notin Applying) => NoDrift(record)

HarnessInv ==
  /\ HarnessTypes /\ SectionsInv /\ MemoryInv /\ HeldInv /\ CaptureInv /\ DriftInv
  /\ H!NothingIsLost /\ H!CurrentIsCurrent /\ H!AttentionIsHers

LEMMA TextIs ==
  ASSUME NEW v \in Nat, NEW e \in Nat, NEW m \in BOOLEAN, NEW b \in BOOLEAN
  PROVE  [ver |-> v, own |-> e, mark |-> m, bad |-> b] \in AnyText
BY DEF AnyText

LEMMA IdleIs == H!Idle \in Runs
BY DEF H!Idle, Runs, Memories, AnyText, H!Absent, H!Unrecorded, Outcomes

\* A process that begins has looked at nothing.
LEMMA UnseenIs == \A f \in H!Files : H!Idle.seen[f] = "unseen"
BY DEF H!Idle

LEMMA HarnessStart == H!HarnessInit => HarnessInv
<1> SUFFICES ASSUME H!HarnessInit PROVE HarnessInv
  OBVIOUS
<1>1. PICK was \in {"untouched", "hers", "current"} :
       /\ disk = [f \in H!Files |->
                   IF was = "current" THEN [H!Absent EXCEPT !.ver = 1, !.mark = f = "rules"]
                   ELSE IF was = "hers" /\ f # "item" THEN [H!Absent EXCEPT !.own = MaxEdits + 1]
                   ELSE H!Absent]
       /\ record = IF was = "current" THEN [H!Idle.mem EXCEPT !.files = disk, !.owned = TRUE]
                                      ELSE H!Idle.mem
       /\ bundle = [ver |-> IF was = "current" THEN 1 ELSE 0, fp |-> IF was = "current" THEN 1 ELSE 0]
       /\ capture = [hash |-> bundle.ver, fp |-> bundle.fp]
  BY DEF H!HarnessInit
<1>2. /\ cfg \in [on : {TRUE}, policy : Policies] /\ source = 1 /\ backups = {} /\ hlock = "free"
      /\ leg = [p \in Legs |-> H!Idle]
      /\ edits = [made |-> 0, died |-> FALSE, kept |-> {disk[f].own : f \in H!Files} \ {0},
                  hers |-> {}, raced |-> {}]
  BY DEF H!HarnessInit
<1>3. H!Idle.pc = "idle" /\ H!Idle.hash = 0 /\ H!Idle.state = "none"
      /\ H!Idle.mem = [files |-> [f \in H!Files |-> H!Unrecorded], drift |-> [f \in H!Files |-> H!Unrecorded], owned |-> FALSE]
  BY DEF H!Idle
<1>4. \A f \in H!Files : disk[f] \in AnyText /\ (was = "current" => disk[f].own = 0) /\ disk[f].own \in {0, MaxEdits + 1}
  <2> SUFFICES ASSUME NEW f \in H!Files
               PROVE  disk[f] \in AnyText /\ (was = "current" => disk[f].own = 0) /\ disk[f].own \in {0, MaxEdits + 1}
    OBVIOUS
  <2>1. CASE was = "current"
    <3>1. disk[f] = [H!Absent EXCEPT !.ver = 1, !.mark = f = "rules"]
      BY <1>1, <2>1
    <3>2. (f = "rules") \in BOOLEAN
      OBVIOUS
    <3> DEFINE mark == f = "rules"
    <3>3. disk[f] = [H!Absent EXCEPT !.ver = 1, !.mark = mark] /\ mark \in BOOLEAN
      BY <3>1, <3>2
    <3> HIDE DEF mark
    <3>4. disk[f] = [ver |-> 1, own |-> 0, mark |-> mark, bad |-> FALSE]
      BY <3>3 DEF H!Absent
    <3>5. 1 \in Nat /\ 0 \in Nat /\ FALSE \in BOOLEAN
      OBVIOUS
    <3>6. [ver |-> 1, own |-> 0, mark |-> mark, bad |-> FALSE] \in AnyText
      BY <3>3, <3>5, TextIs
    <3>7. disk[f].own = 0 /\ disk[f] \in AnyText
      BY <3>4, <3>6
    <3> QED
      BY <2>1, <3>7
  <2>2. CASE was # "current"
    <3>1. disk[f] = [H!Absent EXCEPT !.own = MaxEdits + 1] \/ disk[f] = H!Absent
      BY <1>1, <2>2
    <3>2. H!Absent \in AnyText /\ MaxEdits + 1 \in Nat
      BY HarnessIs DEF H!Absent, AnyText
    <3>3. H!Absent.own = 0 /\ [H!Absent EXCEPT !.own = MaxEdits + 1].own = MaxEdits + 1
          /\ [H!Absent EXCEPT !.own = MaxEdits + 1] \in AnyText
      BY <3>2 DEF H!Absent, AnyText
    <3> QED
      BY <2>2, <3>1, <3>2, <3>3
  <2> QED
    BY <2>1, <2>2
<1>5. /\ DOMAIN disk = H!Files /\ disk = [f \in H!Files |-> disk[f]]
  BY <1>1
<1>6. /\ record.drift = [f \in H!Files |-> H!Unrecorded]
      /\ record.files = IF was = "current" THEN disk ELSE [f \in H!Files |-> H!Unrecorded]
      /\ record \in Memories
  <2>0. H!Idle.mem \in Memories /\ disk \in [H!Files -> AnyText]
    BY <1>4, <1>5, IdleIs DEF Runs
  <2>1. CASE was = "current"
    <3>1. record = [H!Idle.mem EXCEPT !.files = disk, !.owned = TRUE]
      BY <1>1, <2>1
    <3>2. H!Idle.mem.drift = [f \in H!Files |-> H!Unrecorded]
      BY <1>3
    <3> DEFINE m == H!Idle.mem
    <3>3. record = [m EXCEPT !.files = disk, !.owned = TRUE] /\ m \in Memories
      BY <2>0, <3>1
    <3> HIDE DEF m
    <3>4. record \in Memories
      BY <2>0, <3>3 DEF Memories
    <3>5. record.drift = m.drift /\ record.files = disk
      BY <3>3 DEF Memories
    <3> QED
      BY <2>1, <3>2, <3>4, <3>5 DEF m
  <2>2. CASE was # "current"
    <3>1. record = H!Idle.mem
      BY <1>1, <2>2
    <3> QED
      BY <1>3, <2>0, <2>2, <3>1
  <2> QED
    BY <2>1, <2>2
<1>7. HarnessTypes
  <2>1. disk \in [H!Files -> AnyText]
    BY <1>4, <1>5
  <2>3. record \in Memories
    BY <1>6
  <2>4. leg \in [Legs -> Runs]
    BY <1>2, IdleIs
  <2>5. \A f \in H!Files : disk[f].own \in Nat
    BY <1>4 DEF AnyText
  <2>6. bundle \in [ver : Nat, fp : Nat] /\ capture \in [hash : Nat, fp : Nat]
    BY <1>1
  <2>7. cfg \in [on : BOOLEAN, policy : Policies]
    BY <1>2
  <2>8. edits \in EditsAre
    BY <1>2, <2>5 DEF EditsAre
  <2> QED
    BY <1>2, <2>1, <2>3, <2>4, <2>6, <2>7, <2>8 DEF HarnessTypes
<1>8. SectionsInv /\ HeldInv /\ H!CurrentIsCurrent /\ H!AttentionIsHers
  BY <1>2, <1>3, UnseenIs DEF Applying, AtAFile, SectionsInv, HeldInv, H!CurrentIsCurrent, H!AttentionIsHers, H!Settled
<1>9. MemoryInv
  <2>1. H!Unrecorded.own = 0 /\ \A f \in H!Files : record.drift[f].own = 0
    BY <1>6 DEF H!Unrecorded, H!Absent
  <2>2. \A f \in Anchored : record.files[f].own = 0
    BY <1>4, <1>6, <2>1 DEF Anchored, H!Files
  <2>3. \A f \in H!Files : Fresh(disk[f]) /\ Fresh(record.drift[f])
    BY <1>2, <1>4, <2>1 DEF Fresh
  <2>4. \A p \in Legs : leg[p].pc = "idle"
    BY <1>2, <1>3
  <2> QED
    BY <1>2, <2>1, <2>2, <2>3, <2>4 DEF MemoryInv, CopiesKept, Applying, AtAFile
<1>10. CaptureInv
  <2>1. \A p \in Legs : leg[p].pc = "idle" /\ leg[p].hash = 0
    BY <1>2, <1>3
  <2>2. bundle.ver \in {0, 1} /\ capture.hash = bundle.ver /\ capture.fp = bundle.ver
    BY <1>1
  <2> QED
    BY <1>2, <2>1, <2>2 DEF CaptureInv, Applying, AtAFile
<1>11. DriftInv
  BY <1>2, <1>3, <1>6 DEF DriftInv, NoDrift, H!Drifted, Applying, AtAFile
<1>12. H!NothingIsLost
  BY <1>2 DEF H!NothingIsLost
<1> QED
  BY <1>7, <1>8, <1>9, <1>10, <1>11, <1>12 DEF HarnessInv

\* What is due to a file is settled by what its process holds.
LEMMA DueRests == \A q \in Legs : leg'[q] = leg[q] => H!Due(q)' = H!Due(q)
BY DEF H!Due, H!Verdict, H!Wanted, H!Rendered, H!Drifted

\* One process moves, outside the sections.
LEMMA OneMovesKeeps ==
  ASSUME HarnessInv, NEW p \in Legs, leg' \in [Legs -> Runs], \A q \in Legs \ {p} : leg'[q] = leg[q],
         UNCHANGED <<cfg, source, bundle, capture, disk, linked, record, backups, hlock, edits>>,
         leg[p].pc \notin Applying, leg'[p].pc \notin Applying \cup {"capturing"},
         leg'[p].seen = leg[p].seen \/ leg'[p].seen = H!Idle.seen,
         leg'[p].pc # "dead" => leg'[p].hash <= source,
         leg'[p].pc \in {"captured", "behind"} => leg'[p].hash <= leg'[p].ver,
         leg'[p].pc = "done" /\ leg'[p].state \in H!Settled => leg'[p].ver >= leg'[p].hash,
         leg'[p].pc = "done" /\ leg'[p].state = "attention" /\ ~edits.died =>
           edits.hers # {} \/ leg'[p].ver \in Wider \/ linked
  PROVE  HarnessInv'
<1> USE DEF HarnessInv, Applying, AtAFile
<1>1. HarnessTypes'
  BY DEF HarnessTypes
<1>2. SectionsInv'
  BY UnseenIs DEF SectionsInv
<1>3. MemoryInv' /\ HeldInv'
  BY DueRests DEF MemoryInv, CopiesKept, Fresh, HeldInv
<1>4. CaptureInv'
  BY DEF CaptureInv
<1>5. DriftInv'
  BY DueRests DEF DriftInv, NoDrift
<1>6. H!NothingIsLost'
  BY DEF H!NothingIsLost
<1>7. H!CurrentIsCurrent' /\ H!AttentionIsHers'
  BY DEF H!CurrentIsCurrent, H!AttentionIsHers
<1> QED
  BY <1>1, <1>2, <1>3, <1>4, <1>5, <1>6, <1>7

\* While nobody holds the lock nobody is in a section.
LEMMA FreeIsFree ==
  ASSUME HarnessInv, NEW p \in Legs, hlock = "free"
  PROVE  leg[p].pc \notin Applying \cup {"capturing"}
BY HarnessIs DEF HarnessInv, SectionsInv, Applying, AtAFile

LEMMA PreparesKeeps ==
  ASSUME HarnessInv, NEW p \in Legs, NEW to, H!Prepares(p, to)
  PROVE  HarnessInv'
<1>1. leg \in [Legs -> Runs] /\ cfg.policy \in Policies /\ source \in Nat /\ leg[p].hash <= source /\ leg[p].pc = "idle"
  BY DEF HarnessInv, HarnessTypes, CaptureInv, H!Prepares
<1>2. UNCHANGED <<cfg, source, bundle, capture, disk, linked, record, backups, hlock, edits>>
  BY DEF H!Prepares
<1>3. ASSUME NEW state \in {"off", "same-client", "unsupported"}, NEW proceed \in BOOLEAN, H!Ends(p, state, proceed)
      PROVE  HarnessInv'
  <2>1. /\ leg' \in [Legs -> Runs] /\ \A q \in Legs \ {p} : leg'[q] = leg[q]
        /\ leg'[p].pc = "done" /\ leg'[p].state = state /\ leg'[p].hash = leg[p].hash /\ leg'[p].seen = leg[p].seen
    <3> DEFINE r == [leg[p] EXCEPT !.pc = "done", !.verb = "prepare", !.state = state, !.policy = cfg.policy, !.proceed = proceed]
    <3>1. leg[p] \in Runs
      BY <1>1, <1>3
    <3>2. r \in Runs
      BY <1>1, <1>3, <3>1 DEF Runs
    <3>3. leg' = [leg EXCEPT ![p] = r]
      BY <1>1, <1>3 DEF H!Ends
    <3>4. r.pc = "done" /\ r.state = state /\ r.hash = leg[p].hash /\ r.seen = leg[p].seen
      BY <3>1 DEF Runs
    <3> HIDE DEF r
    <3> QED
      BY <1>1, <1>3, <3>2, <3>3, <3>4
  <2> QED
    BY <1>1, <1>2, <1>3, <2>1, OneMovesKeeps DEF H!Settled, Applying, AtAFile
<1>4. ASSUME leg' = [leg EXCEPT ![p].pc = "fingerprinted", ![p].verb = "prepare", ![p].policy = cfg.policy, ![p].hash = source]
      PROVE  HarnessInv'
  <2>1. /\ leg' \in [Legs -> Runs] /\ \A q \in Legs \ {p} : leg'[q] = leg[q]
        /\ leg'[p].pc = "fingerprinted" /\ leg'[p].hash = source /\ leg'[p].seen = leg[p].seen
    <3> DEFINE r == [leg[p] EXCEPT !.pc = "fingerprinted", !.verb = "prepare", !.policy = cfg.policy, !.hash = source]
    <3>1. leg[p] \in Runs
      BY <1>1, <1>4
    <3>2. r \in Runs
      BY <1>1, <1>4, <3>1 DEF Runs
    <3>3. leg' = [leg EXCEPT ![p] = r]
      BY <1>1, <1>4
    <3>4. r.pc = "fingerprinted" /\ r.hash = source /\ r.seen = leg[p].seen
      BY <3>1 DEF Runs
    <3> HIDE DEF r
    <3> QED
      BY <1>1, <1>4, <3>2, <3>3, <3>4
  <2> QED
    BY <1>1, <1>2, <2>1, OneMovesKeeps DEF Applying, AtAFile
<1>5. (cfg.policy # "strict") \in BOOLEAN /\ TRUE \in BOOLEAN
  OBVIOUS
<1>6. \/ H!Ends(p, "off", TRUE) \/ H!Ends(p, "same-client", TRUE) \/ H!Ends(p, "unsupported", TRUE)
      \/ H!Ends(p, "unsupported", cfg.policy # "strict")
      \/ leg' = [leg EXCEPT ![p].pc = "fingerprinted", ![p].verb = "prepare", ![p].policy = cfg.policy, ![p].hash = source]
  BY DEF H!Prepares
<1> QED
  BY <1>3, <1>4, <1>5, <1>6

LEMMA CommandsKeeps ==
  ASSUME HarnessInv, NEW p \in Legs, NEW verb \in {"sync", "force", "enable"}, H!Commands(p, verb)
  PROVE  HarnessInv'
<1>1. leg \in [Legs -> Runs] /\ source \in Nat /\ leg[p].pc = "idle"
  BY DEF HarnessInv, HarnessTypes, H!Commands
<1>2. /\ UNCHANGED <<cfg, source, bundle, capture, disk, linked, record, backups, hlock, edits>>
      /\ leg' = [leg EXCEPT ![p].pc = "fingerprinted", ![p].verb = verb, ![p].hash = source]
  BY DEF H!Commands
<1>3. /\ leg' \in [Legs -> Runs] /\ \A q \in Legs \ {p} : leg'[q] = leg[q]
      /\ leg'[p].pc = "fingerprinted" /\ leg'[p].hash = source /\ leg'[p].seen = leg[p].seen
  <2> DEFINE r == [leg[p] EXCEPT !.pc = "fingerprinted", !.verb = verb, !.hash = source]
  <2>1. leg[p] \in Runs
    BY <1>1, <1>2
  <2>2. r \in Runs
    BY <1>1, <1>2, <2>1 DEF Runs
  <2>3. leg' = [leg EXCEPT ![p] = r]
    BY <1>1, <1>2
  <2>4. r.pc = "fingerprinted" /\ r.hash = source /\ r.seen = leg[p].seen
    BY <2>1 DEF Runs
  <2> HIDE DEF r
  <2> QED
    BY <1>1, <1>2, <2>2, <2>3, <2>4
<1> QED
  BY <1>1, <1>2, <1>3, OneMovesKeeps DEF Applying, AtAFile

LEMMA ReusesKeeps ==
  ASSUME HarnessInv, NEW p \in Legs, H!ReusesBundle(p)
  PROVE  HarnessInv'
<1>1. /\ leg \in [Legs -> Runs] /\ leg[p].pc = "fingerprinted" /\ bundle \in [ver : Nat, fp : Nat]
      /\ leg[p].hash <= source /\ leg[p].hash <= bundle.ver
  BY DEF HarnessInv, HarnessTypes, CaptureInv, H!ReusesBundle, H!Cached
<1>2. /\ UNCHANGED <<cfg, source, bundle, capture, disk, linked, record, backups, hlock, edits>>
      /\ leg' = [leg EXCEPT ![p].pc = "captured", ![p].ver = bundle.ver]
  BY DEF H!ReusesBundle
<1>3. /\ leg' \in [Legs -> Runs] /\ \A q \in Legs \ {p} : leg'[q] = leg[q]
      /\ leg'[p].pc = "captured" /\ leg'[p].hash = leg[p].hash /\ leg'[p].ver = bundle.ver /\ leg'[p].seen = leg[p].seen
  <2> DEFINE r == [leg[p] EXCEPT !.pc = "captured", !.ver = bundle.ver]
  <2>1. leg[p] \in Runs
    BY <1>1, <1>2
  <2>2. r \in Runs
    BY <1>1, <1>2, <2>1 DEF Runs
  <2>3. leg' = [leg EXCEPT ![p] = r]
    BY <1>1, <1>2
  <2>4. r.pc = "captured" /\ r.hash = leg[p].hash /\ r.ver = bundle.ver /\ r.seen = leg[p].seen
    BY <2>1 DEF Runs
  <2> HIDE DEF r
  <2> QED
    BY <1>1, <1>2, <2>2, <2>3, <2>4
<1> QED
  BY <1>1, <1>2, <1>3, OneMovesKeeps DEF Applying, AtAFile

\* A process is told what became of its comparison, or of its apply.
LEMMA JudgedIs ==
  ASSUME leg \in [Legs -> Runs], NEW p \in Legs, NEW state \in {"synced", "partial", "attention", "stale", "error"}
  PROVE  LET j == H!Judged(p, state) IN
           /\ j \in [Legs -> Runs] /\ \A q \in Legs \ {p} : j[q] = leg[q]
           /\ j[p].pc = "done" /\ j[p].state = state /\ j[p].hash = leg[p].hash /\ j[p].ver = leg[p].ver
           /\ j[p].seen = H!Idle.seen
<1>1. H!Idle.mem \in Memories /\ H!Idle.seen \in [H!Files -> Outcomes]
  BY IdleIs DEF Runs
<1> DEFINE m == H!Idle.mem
           n == H!Idle.seen
           go == leg[p].policy = "strict" => state \in H!Settled
           j == [leg EXCEPT ![p].pc = "done", ![p].state = state, ![p].mem = m, ![p].seen = n,
                            ![p].policy = "off", ![p].verb = "none", ![p].proceed = go]
<1>2. H!Judged(p, state) = j
  BY DEF H!Judged
<1>3. go \in BOOLEAN /\ m \in Memories /\ n \in [H!Files -> Outcomes]
  BY <1>1
<1> HIDE DEF m, n, go
<1> DEFINE r == [leg[p] EXCEPT !.pc = "done", !.state = state, !.mem = m, !.seen = n, !.policy = "off",
                              !.verb = "none", !.proceed = go]
<1>4. /\ j \in [Legs -> Runs] /\ \A q \in Legs \ {p} : j[q] = leg[q]
      /\ j[p].pc = "done" /\ j[p].state = state /\ j[p].hash = leg[p].hash /\ j[p].ver = leg[p].ver
      /\ j[p].seen = n
  <2>1. leg[p] \in Runs
    OBVIOUS
  <2>2. r \in Runs
    BY <1>3, <2>1 DEF Runs
  <2>3. j = [leg EXCEPT ![p] = r]
    OBVIOUS
  <2>4. r.pc = "done" /\ r.state = state /\ r.hash = leg[p].hash /\ r.ver = leg[p].ver /\ r.seen = n
    BY <2>1 DEF Runs
  <2> HIDE DEF r, j
  <2> QED
    BY <2>2, <2>3, <2>4
<1> QED
  BY <1>2, <1>4 DEF n

LEMMA GivesUpKeeps ==
  ASSUME HarnessInv, NEW p \in Legs, H!GivesUp(p)
  PROVE  HarnessInv'
<1>1. /\ leg \in [Legs -> Runs] /\ leg[p].pc \in {"fingerprinted", "captured", "behind"} /\ leg[p].hash <= source
  BY DEF HarnessInv, HarnessTypes, CaptureInv, H!GivesUp
<1>2. /\ UNCHANGED <<cfg, source, bundle, capture, disk, linked, record, backups, hlock, edits>>
      /\ leg' = H!Judged(p, "error")
  BY DEF H!GivesUp
<1>3. /\ leg' \in [Legs -> Runs] /\ \A q \in Legs \ {p} : leg'[q] = leg[q]
      /\ leg'[p].pc = "done" /\ leg'[p].hash = leg[p].hash /\ leg'[p].state = "error" /\ leg'[p].seen = H!Idle.seen
  BY <1>1, <1>2, JudgedIs
<1> QED
  BY <1>1, <1>2, <1>3, OneMovesKeeps DEF H!Settled, Applying, AtAFile

LEMMA RowStateIs ==
  ASSUME NEW looks, NEW ver, NEW applied
  PROVE  /\ H!RowState(looks, ver, applied) \in {"synced", "partial", "attention", "stale", "error"}
         /\ H!RowState(looks, ver, applied) = "attention" =>
              ver \in Wider \/ linked \/ \E f \in H!Files : looks[f] = "drifted"
BY DEF H!RowState

LEMMA ComparesKeeps ==
  ASSUME HarnessInv, NEW p \in Legs, H!Compares(p)
  PROVE  HarnessInv'
<1> DEFINE looks == [f \in H!Files |-> H!Verdict(f, leg[p].ver, record, disk[f])]
           state == H!RowState(looks, leg[p].ver, FALSE)
<1>1. /\ leg \in [Legs -> Runs] /\ leg[p].pc = "captured" /\ leg[p].hash <= source /\ leg[p].hash <= leg[p].ver
      /\ leg[p].ver \in Nat /\ leg[p].hash \in Nat /\ hlock = "free"
  BY DEF HarnessInv, HarnessTypes, CaptureInv, H!Compares, Runs
<1>2. /\ UNCHANGED <<cfg, source, bundle, capture, disk, linked, record, backups, hlock, edits>>
      /\ leg' = [leg EXCEPT ![p].pc = "behind"] \/ leg' = H!Judged(p, state)
  BY DEF H!Compares
<1>3. state \in {"synced", "partial", "attention", "stale", "error"}
  BY RowStateIs
<1>4. state = "attention" /\ ~edits.died => edits.hers # {} \/ leg[p].ver \in Wider \/ linked
  <2> SUFFICES ASSUME state = "attention", ~edits.died, edits.hers = {}, leg[p].ver \notin Wider, ~linked PROVE FALSE
    OBVIOUS
  <2>2. NoDrift(record)
    BY <1>1, FreeIsFree DEF HarnessInv, DriftInv, Applying
  <2>3. PICK f \in H!Files : looks[f] = "drifted"
    BY RowStateIs
  <2> QED
    BY <2>2, <2>3 DEF NoDrift, H!Verdict
<1> HIDE DEF state, looks
<1>5. CASE leg' = [leg EXCEPT ![p].pc = "behind"]
  <2>1. /\ leg' \in [Legs -> Runs] /\ \A q \in Legs \ {p} : leg'[q] = leg[q]
        /\ leg'[p].pc = "behind" /\ leg'[p].hash = leg[p].hash /\ leg'[p].ver = leg[p].ver /\ leg'[p].seen = leg[p].seen
    <3> DEFINE r == [leg[p] EXCEPT !.pc = "behind"]
    <3>1. leg[p] \in Runs /\ leg' = [leg EXCEPT ![p] = r]
      BY <1>1, <1>5
    <3>2. r \in Runs /\ r.pc = "behind" /\ r.hash = leg[p].hash /\ r.ver = leg[p].ver /\ r.seen = leg[p].seen
      BY <3>1 DEF Runs
    <3> HIDE DEF r
    <3> QED
      BY <1>1, <3>1, <3>2
  <2> QED
    BY <1>1, <1>2, <2>1, OneMovesKeeps DEF Applying, AtAFile
<1>6. CASE leg' = H!Judged(p, state)
  <2>1. /\ leg' \in [Legs -> Runs] /\ \A q \in Legs \ {p} : leg'[q] = leg[q]
        /\ leg'[p].pc = "done" /\ leg'[p].state = state /\ leg'[p].hash = leg[p].hash /\ leg'[p].ver = leg[p].ver
        /\ leg'[p].seen = H!Idle.seen
    BY <1>1, <1>3, <1>6, JudgedIs
  <2> QED
    BY <1>1, <1>2, <1>4, <2>1, OneMovesKeeps DEF Applying, AtAFile
<1> QED
  BY <1>2, <1>5, <1>6

LEMMA ManifestKeeps ==
  ASSUME HarnessInv, NEW p \in Legs, H!WritesManifest(p)
  PROVE  HarnessInv'
<1> USE DEF HarnessInv, Applying, AtAFile
<1> DEFINE r == [leg[p] EXCEPT !.pc = "capturing", !.ver = source]
<1>1. /\ leg[p] \in Runs /\ leg \in [Legs -> Runs] /\ source \in Nat /\ bundle \in [ver : Nat, fp : Nat]
      /\ leg[p].pc = "fingerprinted" /\ hlock = "free" /\ leg[p].hash <= source
  BY DEF HarnessTypes, CaptureInv, H!WritesManifest, H!Took
<1>2. /\ leg' = [leg EXCEPT ![p] = r] /\ hlock' = p /\ bundle' = [bundle EXCEPT !.fp = source]
      /\ UNCHANGED <<cfg, source, capture, disk, linked, record, backups, edits>>
  BY DEF H!WritesManifest, H!Took
<1>3. r \in Runs /\ r.pc = "capturing" /\ r.ver = source /\ r.hash = leg[p].hash /\ r.seen = leg[p].seen
  BY <1>1 DEF Runs
<1> HIDE DEF r
<1>4. leg' \in [Legs -> Runs] /\ leg'[p] = r /\ \A q \in Legs \ {p} : leg'[q] = leg[q]
  BY <1>1, <1>2, <1>3
<1>5. bundle' \in [ver : Nat, fp : Nat] /\ bundle'.ver = bundle.ver
  BY <1>1, <1>2
<1>6. \A q \in Legs : leg[q].pc \notin Applying \cup {"capturing"}
  BY <1>1, FreeIsFree
<1>7. HarnessTypes'
  BY <1>2, <1>4, <1>5 DEF HarnessTypes
<1>8. SectionsInv'
  BY <1>2, <1>3, <1>4, <1>6 DEF SectionsInv
<1>9. MemoryInv' /\ HeldInv'
  BY <1>2, <1>3, <1>4 DEF MemoryInv, CopiesKept, Fresh, HeldInv, H!Due
<1>10. CaptureInv'
  BY <1>1, <1>2, <1>3, <1>4, <1>5 DEF CaptureInv
<1>11. DriftInv'
  BY <1>2, <1>3, <1>4, <1>6, HarnessIs DEF DriftInv, NoDrift, H!Due
<1>12. H!NothingIsLost'
  BY <1>2 DEF H!NothingIsLost
<1>13. H!CurrentIsCurrent' /\ H!AttentionIsHers'
  BY <1>2, <1>3, <1>4 DEF H!CurrentIsCurrent, H!AttentionIsHers
<1> QED
  BY <1>7, <1>8, <1>9, <1>10, <1>11, <1>12, <1>13

LEMMA CaptureKeeps ==
  ASSUME HarnessInv, NEW p \in Legs, H!RecordsCapture(p)
  PROVE  HarnessInv'
<1> USE DEF HarnessInv, Applying, AtAFile
<1> DEFINE r == [leg[p] EXCEPT !.pc = "captured"]
<1>1. /\ leg[p] \in Runs /\ leg \in [Legs -> Runs] /\ bundle \in [ver : Nat, fp : Nat]
      /\ leg[p].pc = "capturing" /\ hlock = p /\ leg[p].hash <= leg[p].ver /\ leg[p].hash <= source
      /\ leg[p].hash \in Nat /\ leg[p].ver \in Nat
  BY DEF HarnessTypes, CaptureInv, SectionsInv, H!RecordsCapture, Runs
<1>2. /\ leg' = [leg EXCEPT ![p] = r] /\ hlock' = "free" /\ bundle' = [bundle EXCEPT !.ver = leg[p].ver]
      /\ capture' = [hash |-> leg[p].hash, fp |-> leg[p].ver]
      /\ UNCHANGED <<cfg, source, disk, linked, record, backups, edits>>
  BY DEF H!RecordsCapture, H!Free
<1>3. r \in Runs /\ r.pc = "captured" /\ r.ver = leg[p].ver /\ r.hash = leg[p].hash /\ r.seen = leg[p].seen
  BY <1>1 DEF Runs
<1> HIDE DEF r
<1>4. leg' \in [Legs -> Runs] /\ leg'[p] = r /\ \A q \in Legs \ {p} : leg'[q] = leg[q]
  BY <1>1, <1>2, <1>3
<1>5. bundle' \in [ver : Nat, fp : Nat] /\ bundle'.ver = leg[p].ver /\ capture' \in [hash : Nat, fp : Nat]
      /\ capture'.hash = leg[p].hash /\ capture'.fp = leg[p].ver
  BY <1>1, <1>2
<1>6. \A q \in Legs \ {p} : leg[q].pc \notin Applying \cup {"capturing"}
  BY <1>1 DEF SectionsInv
<1>7. HarnessTypes'
  BY <1>2, <1>4, <1>5 DEF HarnessTypes
<1>8. SectionsInv'
  <2>1. leg'[p].pc = "captured" /\ \A f \in H!Files : leg'[p].seen[f] = "unseen"
    BY <1>1, <1>3, <1>4 DEF SectionsInv
  <2>2. \A q \in Legs \ {p} : leg'[q].pc \notin Applying \cup {"capturing"} /\ \A f \in H!Files : leg'[q].seen[f] = "unseen"
    BY <1>4, <1>6 DEF SectionsInv
  <2> QED
    BY <2>1, <2>2 DEF SectionsInv
<1>9. MemoryInv' /\ HeldInv'
  BY <1>2, <1>3, <1>4 DEF MemoryInv, CopiesKept, Fresh, HeldInv, H!Due
<1>10. CaptureInv'
  BY <1>1, <1>2, <1>3, <1>4, <1>5 DEF CaptureInv
<1>11. DriftInv'
  <2>1. \A q \in Legs : leg[q].pc \notin Applying
    BY <1>1, <1>6
  <2> QED
    BY <1>2, <1>3, <1>4, <2>1, HarnessIs DEF DriftInv, NoDrift, H!Due
<1>12. H!NothingIsLost'
  BY <1>2 DEF H!NothingIsLost
<1>13. H!CurrentIsCurrent' /\ H!AttentionIsHers'
  BY <1>2, <1>3, <1>4 DEF H!CurrentIsCurrent, H!AttentionIsHers
<1> QED
  BY <1>7, <1>8, <1>9, <1>10, <1>11, <1>12, <1>13

LEMMA AppliesKeeps ==
  ASSUME HarnessInv, NEW p \in Legs, H!Applies(p)
  PROVE  HarnessInv'
<1> USE DEF HarnessInv, Applying, AtAFile
<1> DEFINE r == [leg[p] EXCEPT !.pc = "applying", !.mem = record]
<1>1. /\ leg[p] \in Runs /\ leg \in [Legs -> Runs] /\ record \in Memories
      /\ leg[p].pc \in {"behind", "captured"} /\ hlock = "free" /\ leg[p].hash <= leg[p].ver /\ leg[p].hash <= source
  BY DEF HarnessTypes, CaptureInv, H!Applies, H!Took
<1>2. /\ leg' = [leg EXCEPT ![p] = r] /\ hlock' = p
      /\ UNCHANGED <<cfg, source, bundle, capture, disk, linked, record, backups, edits>>
  BY DEF H!Applies, H!Took
<1>3. r \in Runs /\ r.pc = "applying" /\ r.ver = leg[p].ver /\ r.hash = leg[p].hash /\ r.mem = record /\ r.seen = leg[p].seen
  BY <1>1 DEF Runs
<1> HIDE DEF r
<1>4. leg' \in [Legs -> Runs] /\ leg'[p] = r /\ \A q \in Legs \ {p} : leg'[q] = leg[q]
  BY <1>1, <1>2, <1>3
<1>6. \A q \in Legs : leg[q].pc \notin Applying \cup {"capturing"}
  BY <1>1, FreeIsFree
<1>7. HarnessTypes'
  BY <1>2, <1>4 DEF HarnessTypes
<1>8. SectionsInv'
  <2>1. r.mem.files = record'.files
    BY <1>2, <1>3
  <2>2. leg'[p].pc = "applying" /\ leg'[p].mem.files = record'.files /\ hlock' = p
    BY <1>2, <1>3, <1>4, <2>1
  <2>3. \A q \in Legs \ {p} : leg'[q].pc \notin Applying \cup {"capturing"} /\ \A f \in H!Files : leg'[q].seen[f] = "unseen"
    BY <1>4, <1>6 DEF SectionsInv
  <2> QED
    BY <2>2, <2>3 DEF SectionsInv
<1>9. MemoryInv' /\ HeldInv'
  BY <1>2, <1>3, <1>4 DEF MemoryInv, CopiesKept, Fresh, HeldInv, H!Due
<1>10. CaptureInv'
  BY <1>1, <1>2, <1>3, <1>4 DEF CaptureInv
<1>11. DriftInv'
  BY <1>1, <1>2, <1>3, <1>4, <1>6, HarnessIs DEF DriftInv, NoDrift, H!Due, SectionsInv
<1>12. H!NothingIsLost'
  BY <1>2 DEF H!NothingIsLost
<1>13. H!CurrentIsCurrent' /\ H!AttentionIsHers'
  BY <1>2, <1>3, <1>4 DEF H!CurrentIsCurrent, H!AttentionIsHers
<1> QED
  BY <1>7, <1>8, <1>9, <1>10, <1>11, <1>12, <1>13

LEMMA SavesKeeps ==
  ASSUME HarnessInv, NEW p \in Legs, H!SavesRecord(p)
  PROVE  HarnessInv'
<1> USE DEF HarnessInv, Applying, AtAFile
<1> DEFINE state == H!RowState(leg[p].seen, leg[p].ver, TRUE)
<1>1. /\ leg[p] \in Runs /\ leg \in [Legs -> Runs] /\ leg[p].mem \in Memories /\ leg[p].ver \in Nat /\ leg[p].hash \in Nat
      /\ leg[p].pc = "applying" /\ hlock = p /\ leg[p].hash <= leg[p].ver /\ leg[p].hash <= source
  BY DEF HarnessTypes, SectionsInv, CaptureInv, H!SavesRecord, Runs
<1>2. /\ leg' = H!Judged(p, state) /\ hlock' = "free" /\ record' = leg[p].mem
      /\ cfg' = (IF leg[p].verb = "enable" THEN [cfg EXCEPT !.on = TRUE] ELSE cfg)
      /\ UNCHANGED <<source, bundle, capture, disk, linked, backups, edits>>
  BY DEF H!SavesRecord, H!Free
<1>3. state \in {"synced", "partial", "attention", "stale", "error"}
  BY RowStateIs
<1>4. state = "attention" /\ ~edits.died => edits.hers # {} \/ leg[p].ver \in Wider \/ linked
  <2> SUFFICES ASSUME state = "attention", ~edits.died, edits.hers = {}, leg[p].ver \notin Wider, ~linked PROVE FALSE
    OBVIOUS
  <2>2. \A f \in H!Files : leg[p].seen[f] # "drifted"
    BY <1>1 DEF DriftInv
  <2> QED
    BY <2>2, RowStateIs
<1> HIDE DEF state
<1>5. /\ leg' \in [Legs -> Runs] /\ \A q \in Legs \ {p} : leg'[q] = leg[q]
      /\ leg'[p].pc = "done" /\ leg'[p].state = state /\ leg'[p].hash = leg[p].hash /\ leg'[p].ver = leg[p].ver
        /\ leg'[p].seen = H!Idle.seen
  BY <1>1, <1>2, <1>3, JudgedIs
<1>6. \A q \in Legs \ {p} : leg[q].pc \notin Applying \cup {"capturing"}
  BY <1>1 DEF SectionsInv
<1>7. HarnessTypes'
  BY <1>1, <1>2, <1>5 DEF HarnessTypes
<1>8. SectionsInv'
  BY <1>2, <1>5, <1>6, UnseenIs DEF SectionsInv
<1>9. MemoryInv' /\ HeldInv'
  BY <1>1, <1>2, <1>5, <1>6 DEF MemoryInv, CopiesKept, Fresh, HeldInv, H!Due
<1>10. CaptureInv'
  BY <1>1, <1>2, <1>5 DEF CaptureInv
<1>11. DriftInv'
  BY <1>1, <1>2, <1>5, <1>6, HarnessIs DEF DriftInv, NoDrift, H!Due
<1>12. H!NothingIsLost'
  BY <1>2 DEF H!NothingIsLost
<1>13. H!CurrentIsCurrent' /\ H!AttentionIsHers'
  BY <1>1, <1>2, <1>4, <1>5 DEF H!CurrentIsCurrent, H!AttentionIsHers
<1> QED
  BY <1>7, <1>8, <1>9, <1>10, <1>11, <1>12, <1>13

LEMMA StaleKeeps ==
  ASSUME HarnessInv, H!LockGoesStale
  PROVE  HarnessInv'
<1> USE DEF HarnessInv, Applying, AtAFile
<1>1. hlock = "dead" /\ hlock' = "free" /\ UNCHANGED <<cfg, source, bundle, capture, disk, linked, record, backups, leg, edits>>
  BY DEF H!LockGoesStale
<1>2. \A q \in Legs : leg[q].pc \notin Applying \cup {"capturing"}
  BY <1>1, HarnessIs DEF SectionsInv
<1>3. HarnessTypes' /\ CaptureInv'
  BY <1>1 DEF HarnessTypes, CaptureInv
<1>4. SectionsInv' /\ MemoryInv' /\ HeldInv'
  BY <1>1, <1>2, DueRests DEF SectionsInv, MemoryInv, CopiesKept, Fresh, HeldInv
<1>5. DriftInv'
  BY <1>1 DEF DriftInv, NoDrift, H!Due
<1>6. H!NothingIsLost' /\ H!CurrentIsCurrent' /\ H!AttentionIsHers'
  BY <1>1 DEF H!NothingIsLost, H!CurrentIsCurrent, H!AttentionIsHers
<1> QED
  BY <1>3, <1>4, <1>5, <1>6

\* What happens from outside is counted.
LEMMA HappenedIs ==
  ASSUME HarnessTypes
  PROVE  /\ H!Happened \in EditsAre /\ H!Happened.made = edits.made + 1
         /\ H!Happened.kept = edits.kept /\ H!Happened.hers = edits.hers /\ H!Happened.raced = edits.raced
         /\ H!Happened.died = edits.died
BY DEF HarnessTypes, H!Happened, EditsAre

\* What was remembered stays so while she edits and misfortune strikes: her edit is a new one.
LEMMA MemoryRests ==
  ASSUME HarnessInv, record' = record, backups \subseteq backups', edits.made <= edits'.made, edits' \in EditsAre,
         \A e \in edits'.kept : e \in edits.kept \/ (e = edits.made + 1 /\ e <= MaxEdits),
         \A q \in Legs : leg'[q].pc \in Applying => leg[q].pc \in Applying /\ leg'[q].mem = leg[q].mem,
         \A f \in H!Files : disk'[f] = disk[f] \/ Fresh(disk[f])'
  PROVE  MemoryInv'
<1>1. edits.made \in Nat /\ edits'.made \in Nat /\ MaxEdits \in Nat
  BY HarnessIs DEF HarnessInv, HarnessTypes, EditsAre
<1>2. ASSUME NEW m \in Memories, CopiesKept(m)
      PROVE  /\ \A f \in Anchored : m.files[f].own = 0
             /\ \A f \in H!Files : m.drift[f].own <= edits'.made \/ m.drift[f].own = MaxEdits + 1
             /\ \A f \in H!Files : m.drift[f].own \in edits'.kept => m.drift[f].own \in backups'
  <2>1. \A f \in H!Files : m.drift[f].own \in Nat
    BY <1>2 DEF Memories, AnyText
  <2>2. \A f \in H!Files : m.drift[f].own <= edits.made \/ m.drift[f].own = MaxEdits + 1
    BY <1>2 DEF CopiesKept, Fresh
  <2>3. \A f \in H!Files : m.drift[f].own <= edits'.made \/ m.drift[f].own = MaxEdits + 1
    BY <1>1, <2>1, <2>2
  <2>4. \A f \in H!Files : m.drift[f].own = edits.made + 1 => ~(m.drift[f].own <= MaxEdits)
    BY <1>1, <2>1, <2>2
  <2>5. \A f \in H!Files : m.drift[f].own \in edits'.kept => m.drift[f].own \in edits.kept
    BY <2>4
  <2> QED
    BY <1>2, <2>3, <2>5 DEF CopiesKept
<1>3. record \in Memories /\ \A q \in Legs : leg[q].mem \in Memories
  BY DEF HarnessInv, HarnessTypes, Runs
<1>4. CopiesKept(record)'
  BY <1>2, <1>3 DEF HarnessInv, MemoryInv, CopiesKept, Fresh
<1>5. \A q \in Legs : leg'[q].pc \in Applying => CopiesKept(leg[q].mem)'
  <2> SUFFICES ASSUME NEW q \in Legs, leg'[q].pc \in Applying PROVE CopiesKept(leg[q].mem)'
    OBVIOUS
  <2>1. CopiesKept(leg[q].mem) /\ leg[q].mem \in Memories /\ leg'[q].mem = leg[q].mem
    BY <1>3 DEF HarnessInv, MemoryInv
  <2> QED
    BY <1>2, <2>1 DEF CopiesKept, Fresh
<1>6. \A f \in H!Files : Fresh(disk[f])'
  <2>1. \A f \in H!Files : disk[f].own \in Nat /\ (disk[f].own <= edits.made \/ disk[f].own = MaxEdits + 1)
    BY DEF HarnessInv, HarnessTypes, AnyText, MemoryInv, Fresh
  <2>2. \A f \in H!Files : disk[f].own <= edits'.made \/ disk[f].own = MaxEdits + 1
    BY <1>1, <2>1
  <2> QED
    BY <2>2 DEF Fresh
<1> QED
  BY <1>4, <1>5, <1>6 DEF MemoryInv

\* So does what a process holds of a file that nobody changes now.
LEMMA HeldRests ==
  ASSUME HarnessInv, backups \subseteq backups', edits.made <= edits'.made, edits' \in EditsAre,
         edits.raced \subseteq edits'.raced,
         \A e \in edits'.kept : e \in edits.kept \/ (e = edits.made + 1 /\ e <= MaxEdits),
         \A q \in Legs : leg'[q].pc \in AtAFile => leg'[q] = leg[q],
         \A q \in Legs : leg[q].pc \in AtAFile =>
           \/ disk'[leg[q].at] = disk[leg[q].at]
           \/ /\ leg[q].pc = "writing" => disk'[leg[q].at].own \notin edits'.kept \ edits'.raced
              /\ disk[leg[q].at].own \notin edits'.kept
  PROVE  HeldInv'
<1>1. edits.made \in Nat /\ edits'.made \in Nat /\ MaxEdits \in Nat
  BY HarnessIs DEF HarnessInv, HarnessTypes, EditsAre
<1> SUFFICES ASSUME NEW q \in Legs, leg'[q].pc \in AtAFile, leg'[q] = leg[q]
    PROVE  /\ H!Due(q)' \in {"write", "prune", "drifted"} /\ Fresh(leg[q].held)'
           /\ leg[q].pc = "copying" /\ leg[q].held.own \in edits'.kept =>
                leg[q].held.own \in backups' \cup {disk'[leg[q].at].own}
           /\ leg[q].pc = "writing" =>
                /\ H!Due(q)' = "drifted" => leg[q].verb = "force"
                /\ disk'[leg[q].at].own \in edits'.kept => disk'[leg[q].at].own \in backups' \cup edits'.raced
  BY DEF HeldInv, AtAFile
<1>2. /\ H!Due(q)' = H!Due(q) /\ H!Due(q) \in {"write", "prune", "drifted"} /\ Fresh(leg[q].held)
      /\ leg[q].held.own \in Nat
      /\ leg[q].pc = "copying" /\ leg[q].held.own \in edits.kept => leg[q].held.own \in backups \cup {disk[leg[q].at].own}
      /\ leg[q].pc = "writing" =>
           /\ H!Due(q) = "drifted" => leg[q].verb = "force"
           /\ disk[leg[q].at].own \in edits.kept => disk[leg[q].at].own \in backups \cup edits.raced
  BY DueRests DEF HarnessInv, HarnessTypes, HeldInv, Runs, AnyText
<1>3. Fresh(leg[q].held)'
  <2>1. leg[q].held.own <= edits'.made \/ leg[q].held.own = MaxEdits + 1
    BY <1>1, <1>2 DEF Fresh
  <2> QED
    BY <2>1 DEF Fresh
<1>4. ASSUME leg[q].pc = "writing", disk'[leg[q].at].own \in edits'.kept
      PROVE  disk'[leg[q].at].own \in backups' \cup edits'.raced
  <2>1. CASE disk'[leg[q].at] = disk[leg[q].at]
    <3>1. leg[q].at \in H!Files /\ Fresh(disk[leg[q].at]) /\ disk[leg[q].at].own \in Nat
      BY <1>4 DEF HarnessInv, HarnessTypes, SectionsInv, MemoryInv, AtAFile, AnyText
    <3>2. disk[leg[q].at].own \in edits.kept
      BY <1>1, <1>4, <2>1, <3>1 DEF Fresh
    <3> QED
      BY <1>2, <1>4, <2>1, <3>2
  <2> QED
    BY <1>4, <2>1 DEF AtAFile
<1>5. ASSUME leg[q].pc = "copying", leg[q].held.own \in edits'.kept
      PROVE  leg[q].held.own \in backups' \cup {disk'[leg[q].at].own}
  <2>1. leg[q].held.own \in edits.kept
    BY <1>1, <1>2, <1>5 DEF Fresh
  <2>2. leg[q].held.own \in backups' \/ leg[q].held.own = disk[leg[q].at].own
    BY <1>2, <1>5, <2>1
  <2>3. disk'[leg[q].at] = disk[leg[q].at] \/ disk[leg[q].at].own \notin edits'.kept
    BY <1>5 DEF AtAFile
  <2> QED
    BY <1>5, <2>2, <2>3
<1> QED
  BY <1>2, <1>3, <1>4, <1>5

LEMMA DyingKeeps ==
  ASSUME HarnessInv, NEW p \in Legs, H!ProcessDies(p)
  PROVE  HarnessInv'
<1> USE DEF HarnessInv, Applying, AtAFile
<1> DEFINE r == [H!Idle EXCEPT !.pc = "dead"]
<1>1. /\ leg \in [Legs -> Runs] /\ edits \in EditsAre /\ H!Idle \in Runs
  BY IdleIs DEF HarnessTypes
<1>2. /\ leg' = [leg EXCEPT ![p] = r] /\ hlock' = (IF hlock = p THEN "dead" ELSE hlock)
      /\ edits' = [H!Happened EXCEPT !.died = TRUE]
      /\ UNCHANGED <<cfg, source, bundle, capture, disk, linked, record, backups>>
  BY DEF H!ProcessDies
<1>3. r \in Runs /\ r.pc = "dead" /\ r.seen = H!Idle.seen
  BY <1>1 DEF Runs
<1> HIDE DEF r
<1>4. leg' \in [Legs -> Runs] /\ leg'[p] = r /\ \A q \in Legs \ {p} : leg'[q] = leg[q]
  BY <1>1, <1>2, <1>3
<1>5. edits' \in EditsAre /\ edits'.died = TRUE /\ edits'.kept = edits.kept
      /\ edits'.made = edits.made + 1 /\ edits'.raced = edits.raced
  BY <1>2, HappenedIs DEF HarnessTypes, EditsAre
<1>7. HarnessTypes'
  BY <1>2, <1>4, <1>5 DEF HarnessTypes
<1>8. SectionsInv'
  BY <1>2, <1>3, <1>4, UnseenIs DEF SectionsInv
<1>6. edits.made <= edits'.made /\ edits' \in EditsAre
  BY <1>1, <1>5 DEF EditsAre
<1>9. MemoryInv' /\ HeldInv'
  BY <1>2, <1>3, <1>4, <1>5, <1>6, MemoryRests, HeldRests
<1>10. CaptureInv'
  BY <1>2, <1>3, <1>4 DEF CaptureInv
<1>11. DriftInv' /\ H!AttentionIsHers'
  BY <1>5 DEF DriftInv, H!AttentionIsHers
<1>12. H!NothingIsLost'
  BY <1>2, <1>5 DEF H!NothingIsLost
<1>13. H!CurrentIsCurrent'
  BY <1>2, <1>3, <1>4 DEF H!CurrentIsCurrent
<1> QED
  BY <1>7, <1>8, <1>9, <1>10, <1>11, <1>12, <1>13

LEMMA OffKeeps ==
  ASSUME HarnessInv, H!TurnsOff \/ H!SourceChanges
  PROVE  HarnessInv'
<1> USE DEF HarnessInv, Applying, AtAFile
<1>1. /\ UNCHANGED <<bundle, capture, disk, linked, record, backups, hlock, leg>>
      /\ edits' = H!Happened /\ cfg' \in [on : BOOLEAN, policy : Policies]
      /\ source' \in Nat \ {0} /\ source <= source'
  <2>1. cfg \in [on : BOOLEAN, policy : Policies] /\ source \in Nat \ {0}
    BY DEF HarnessTypes
  <2>2. CASE H!TurnsOff
    <3>1. cfg' = [cfg EXCEPT !.on = FALSE] /\ UNCHANGED <<source, bundle, capture, disk, linked, record, backups, hlock, leg>>
          /\ edits' = H!Happened
      BY <2>2 DEF H!TurnsOff
    <3>2. cfg' \in [on : BOOLEAN, policy : Policies]
      BY <2>1, <3>1
    <3> QED
      BY <2>1, <3>1, <3>2
  <2>3. CASE H!SourceChanges
    BY <2>1, <2>3 DEF H!SourceChanges
  <2> QED
    BY <2>2, <2>3
<1>2. HarnessTypes'
  BY <1>1, HappenedIs DEF HarnessTypes
<1>3. SectionsInv' /\ MemoryInv' /\ HeldInv'
  <2>1. edits'.made = edits.made + 1 /\ edits' \in EditsAre /\ edits'.kept = edits.kept /\ edits'.raced = edits.raced
    BY <1>1, HappenedIs
  <2>2. edits.made <= edits'.made
    BY <2>1 DEF HarnessTypes, EditsAre
  <2> QED
    BY <1>1, <2>1, <2>2, MemoryRests, HeldRests DEF SectionsInv
<1>4. CaptureInv'
  BY <1>1 DEF CaptureInv, HarnessTypes, Runs
<1>5. DriftInv' /\ H!AttentionIsHers'
  BY <1>1, HappenedIs, DueRests DEF DriftInv, NoDrift, H!AttentionIsHers
<1>6. H!NothingIsLost' /\ H!CurrentIsCurrent'
  BY <1>1, HappenedIs DEF H!NothingIsLost, H!CurrentIsCurrent
<1> QED
  BY <1>2, <1>3, <1>4, <1>5, <1>6

\* She writes a file, or removes it: what it held of hers she no longer counts on.
LEMMA HersKeeps ==
  ASSUME HarnessInv, NEW f \in H!Files, NEW x \in AnyText, disk' = [disk EXCEPT ![f] = x],
         edits' \in EditsAre, edits'.made = edits.made + 1, edits'.died = edits.died, edits.made < MaxEdits,
         edits.hers \subseteq edits'.hers, edits.raced \subseteq edits'.raced,
         \A e \in edits'.kept : e = x.own \/ (e \in edits.kept /\ e # disk[f].own),
         \/ x = H!Absent
         \/ /\ x.own = edits.made + 1 /\ f \in edits'.hers
            /\ \A q \in Legs : leg[q].pc = "writing" /\ leg[q].at = f => x.own \in edits'.raced,
         UNCHANGED <<cfg, source, bundle, capture, linked, record, backups, hlock, leg>>
  PROVE  HarnessInv'
<1> USE DEF HarnessInv
<1>0. edits.made \in Nat /\ MaxEdits \in Nat /\ 0 \notin edits'.kept
  BY HarnessIs DEF HarnessTypes, EditsAre
<1>1. H!Absent.own = 0 /\ \A m \in Memories : ~H!Drifted(f, m, H!Absent)
  BY DEF H!Absent, H!Drifted
<1>2. disk \in [H!Files -> AnyText] /\ disk' \in [H!Files -> AnyText] /\ disk'[f] = x
      /\ \A g \in H!Files \ {f} : disk'[g] = disk[g]
  BY DEF HarnessTypes
<1>3. HarnessTypes'
  BY <1>2 DEF HarnessTypes
<1>4. /\ edits.made <= edits'.made
      /\ \A e \in edits'.kept : e \in edits.kept \/ (e = edits.made + 1 /\ e <= MaxEdits)
  BY <1>0, <1>1
<1>5. Fresh(x)'
  BY <1>0, <1>1 DEF Fresh
<1>6. \A g \in H!Files : disk'[g] = disk[g] \/ Fresh(disk[g])'
  BY <1>2, <1>5 DEF Fresh
<1>7. \A q \in Legs : leg[q].pc \in AtAFile =>
        \/ disk'[leg[q].at] = disk[leg[q].at]
        \/ /\ leg[q].pc = "writing" => disk'[leg[q].at].own \notin edits'.kept \ edits'.raced
           /\ disk[leg[q].at].own \notin edits'.kept
  <2> SUFFICES ASSUME NEW q \in Legs, leg[q].pc \in AtAFile, leg[q].at = f
      PROVE  /\ leg[q].pc = "writing" => x.own \notin edits'.kept \ edits'.raced
             /\ disk[f].own \notin edits'.kept
    BY <1>2 DEF SectionsInv
  <2>1. disk[f].own # edits.made + 1 /\ disk[f].own \in Nat
    BY <1>0, <1>2 DEF MemoryInv, Fresh, AnyText
  <2>2. disk[f].own \notin edits'.kept
    BY <1>0, <1>1, <2>1
  <2> QED
    BY <1>0, <1>1, <2>2
<1>8. MemoryInv' /\ HeldInv'
  BY <1>4, <1>6, <1>7, MemoryRests, HeldRests
<1>9. SectionsInv' /\ CaptureInv' /\ H!CurrentIsCurrent'
  BY DEF SectionsInv, CaptureInv, H!CurrentIsCurrent
<1>10. DriftInv' /\ H!AttentionIsHers'
  <2>1. edits'.hers = {} => x = H!Absent /\ edits.hers = {}
    OBVIOUS
  <2>2. ASSUME NEW m \in Memories, x = H!Absent, NoDrift(m), NEW g \in H!Files PROVE ~H!Drifted(g, m, disk'[g])
    BY <1>1, <1>2, <2>2 DEF NoDrift
  <2>3. record \in Memories /\ \A q \in Legs : leg[q].mem \in Memories
    BY DEF HarnessTypes, Runs
  <2>4. DriftInv'
    BY <2>1, <2>2, <2>3, DueRests DEF DriftInv, NoDrift
  <2>5. H!AttentionIsHers'
    BY DEF H!AttentionIsHers
  <2> QED
    BY <2>4, <2>5
<1>11. H!NothingIsLost'
  <2> SUFFICES ASSUME NEW e \in edits'.kept \ edits'.raced PROVE e \in backups \/ \E g \in H!Files : disk'[g].own = e
    BY DEF H!NothingIsLost
  <2>1. CASE e = x.own
    BY <1>2, <2>1
  <2>2. CASE e \in edits.kept /\ e # disk[f].own
    BY <1>2, <2>2 DEF H!NothingIsLost
  <2> QED
    BY <2>1, <2>2
<1> QED
  BY <1>3, <1>8, <1>9, <1>10, <1>11

LEMMA UserKeeps ==
  ASSUME HarnessInv, NEW f \in H!Files, H!UserEdits(f) \/ H!UserRemoves(f)
  PROVE  HarnessInv'
<1>1. /\ disk \in [H!Files -> AnyText] /\ disk[f] \in AnyText /\ edits \in EditsAre
      /\ edits.made < MaxEdits /\ edits.made \in Nat /\ MaxEdits \in Nat
  BY HarnessIs DEF HarnessInv, HarnessTypes, EditsAre, H!UserEdits, H!UserRemoves, H!Outside
<1> DEFINE h == H!Happened
<1>2. /\ h \in EditsAre /\ h.made = edits.made + 1 /\ h.kept = edits.kept /\ h.hers = edits.hers
      /\ h.raced = edits.raced /\ h.died = edits.died
  BY HappenedIs DEF HarnessInv
<1>3. CASE H!UserEdits(f)
  <2> DEFINE e == edits.made + 1
             kept == (h.kept \ {disk[f].own}) \cup {e}
             hers == h.hers \cup {f}
             raced == IF \E p \in Legs : leg[p].pc = "writing" /\ leg[p].at = f THEN h.raced \cup {e} ELSE h.raced
  <2>1. PICK mark \in {disk[f].mark, FALSE}, bad \in {FALSE, f = "shared"} :
          disk' = [disk EXCEPT ![f] = [@ EXCEPT !.own = e, !.mark = mark, !.bad = bad]]
    BY <1>3 DEF H!UserEdits
  <2> DEFINE x == [disk[f] EXCEPT !.own = e, !.mark = mark, !.bad = bad]
  <2>2. /\ e \in Nat \ {0} /\ kept \in SUBSET (Nat \ {0}) /\ hers \in SUBSET H!Files /\ raced \in SUBSET Nat
    BY <1>1, <1>2 DEF EditsAre
  <2>3. x \in AnyText /\ x.own = e
    <3>1. disk[f].mark \in BOOLEAN
      BY <1>1 DEF AnyText
    <3>2. mark = disk[f].mark \/ mark = FALSE
      BY <2>1
    <3>3. mark \in BOOLEAN
      BY <3>1, <3>2, Zenon
    <3>4. bad = FALSE \/ bad = (f = "shared")
      BY <2>1
    <3>5. bad \in BOOLEAN
      BY <3>4, Zenon
    <3> HIDE DEF e
    <3> QED
      BY <1>1, <2>2, <3>3, <3>5 DEF AnyText
  <2>4. disk' = [disk EXCEPT ![f] = x]
    BY <2>1
  <2>5. edits' = [h EXCEPT !.kept = kept, !.hers = hers, !.raced = raced]
    BY <1>1, <1>3 DEF H!UserEdits
  <2>6. UNCHANGED <<cfg, source, bundle, capture, linked, record, backups, hlock, leg>>
    BY <1>3 DEF H!UserEdits
  <2>7. \A d \in kept : d = e \/ (d \in edits.kept /\ d # disk[f].own)
    BY <1>2
  <2>8. edits.hers \subseteq hers /\ f \in hers /\ edits.raced \subseteq raced
    BY <1>2
  <2>9. \A q \in Legs : leg[q].pc = "writing" /\ leg[q].at = f => e \in raced
    OBVIOUS
  <2> HIDE DEF x, kept, hers, raced, h
  <2>10. /\ edits' \in EditsAre /\ edits'.made = h.made /\ edits'.died = h.died /\ edits'.kept = kept
         /\ edits'.hers = hers /\ edits'.raced = raced
    BY <1>2, <2>2, <2>5 DEF EditsAre
  <2>11. edits'.made = edits.made + 1 /\ edits'.died = edits.died
    BY <1>2, <2>10
  <2> QED
    BY <1>1, <2>3, <2>4, <2>6, <2>7, <2>8, <2>9, <2>10, <2>11, HersKeeps
<1>4. CASE H!UserRemoves(f)
  <2> DEFINE kept == h.kept \ {disk[f].own}
  <2>1. disk' = [disk EXCEPT ![f] = H!Absent] /\ UNCHANGED <<cfg, source, bundle, capture, linked, record, backups, hlock, leg>>
    BY <1>4 DEF H!UserRemoves
  <2>2. H!Absent \in AnyText /\ kept \in SUBSET (Nat \ {0})
    BY <1>1, <1>2 DEF AnyText, H!Absent, EditsAre
  <2>3. edits' = [h EXCEPT !.kept = kept]
    BY <1>1, <1>4 DEF H!UserRemoves
  <2>4. \A d \in kept : d = H!Absent.own \/ (d \in edits.kept /\ d # disk[f].own)
    BY <1>2
  <2> HIDE DEF kept, h
  <2>5. /\ edits' \in EditsAre /\ edits'.made = h.made /\ edits'.died = h.died /\ edits'.kept = kept
        /\ edits'.hers = h.hers /\ edits'.raced = h.raced
    BY <1>2, <2>2, <2>3 DEF EditsAre
  <2>6. edits'.made = edits.made + 1 /\ edits'.died = edits.died /\ edits'.hers = edits.hers /\ edits'.raced = edits.raced
    BY <1>2, <2>5
  <2> QED
    BY <1>1, <2>1, <2>2, <2>4, <2>5, <2>6, HersKeeps
<1> QED
  BY <1>3, <1>4

\* The text of no edit is numbered nought.
LEMMA NeverNought == HarnessTypes => 0 \notin edits.kept
BY DEF HarnessTypes, EditsAre

LEMMA RenderedIs ==
  ASSUME NEW f \in H!Files, NEW v \in Nat, NEW text \in AnyText
  PROVE  /\ H!Rendered(f, v, text) \in AnyText
         /\ f \in Anchored => H!Rendered(f, v, text).own = 0
         /\ f = "shared" => H!Rendered(f, v, text).own = text.own
<1>1. CASE f = "shared"
  <2>1. [text EXCEPT !.ver = v] \in AnyText /\ [text EXCEPT !.ver = v].own = text.own
    BY DEF AnyText
  <2> QED
    BY <1>1, <2>1 DEF H!Rendered, Anchored
<1>2. CASE f # "shared"
  <2> DEFINE mark == f = "rules"
  <2>1. mark \in BOOLEAN
    OBVIOUS
  <2>2. H!Rendered(f, v, text) = [H!Absent EXCEPT !.ver = v, !.mark = mark]
    BY <1>2 DEF H!Rendered
  <2> HIDE DEF mark
  <2>3. H!Rendered(f, v, text) = [ver |-> v, own |-> 0, mark |-> mark, bad |-> FALSE]
    BY <2>2 DEF H!Absent
  <2>4. [ver |-> v, own |-> 0, mark |-> mark, bad |-> FALSE] \in AnyText
    BY <2>1, TextIs
  <2> QED
    BY <1>2, <2>3, <2>4
<1> QED
  BY <1>1, <1>2

\* What an apply makes of a file.
Over(p, verdict) == verdict = "write" \/ H!Forced(p, verdict)

\* What it remembers of the file once it is through with it.
LEMMA KeptIs ==
  ASSUME leg \in [Legs -> Runs], NEW p \in Legs, NEW f \in H!Files, NEW text \in AnyText, NEW verdict
  PROVE  LET v == leg[p].ver
             m == leg[p].mem
             n == H!Kept(p, f, text, verdict)
             same == verdict = "unchanged" /\ H!Wanted(f, v)
             noted == verdict = "drifted" /\ H!FirstSight(f, m, text)
         IN /\ n \in Memories /\ \A g \in H!Files \ {f} : n.files[g] = m.files[g] /\ n.drift[g] = m.drift[g]
            /\ n.files[f] = IF Over(p, verdict) \/ same THEN H!Rendered(f, v, text)
                            ELSE IF verdict = "prune" THEN H!Unrecorded ELSE m.files[f]
            /\ n.drift[f] = IF Over(p, verdict) THEN H!Unrecorded ELSE IF noted THEN text ELSE m.drift[f]
<1> DEFINE v == leg[p].ver
           m == leg[p].mem
           over == Over(p, verdict)
           same == verdict = "unchanged" /\ H!Wanted(f, v)
           noted == verdict = "drifted" /\ H!FirstSight(f, m, text)
           x == IF over \/ same THEN H!Rendered(f, v, text)
                ELSE IF verdict = "prune" THEN H!Unrecorded ELSE m.files[f]
           y == IF over THEN H!Unrecorded ELSE IF noted THEN text ELSE m.drift[f]
           z == IF f = "item" THEN H!Wanted(f, v) /\ verdict # "dropped" ELSE m.owned
           n == H!Kept(p, f, text, verdict)
<1>1. leg[p] \in Runs /\ m \in Memories /\ v \in Nat
  BY DEF Runs
<1>2. n = [m EXCEPT !.files[f] = x, !.drift[f] = y, !.owned = z]
  BY DEF H!Kept, Over
<1>3. m.files \in [H!Files -> AnyText] /\ m.drift \in [H!Files -> AnyText] /\ m.owned \in BOOLEAN
  BY <1>1 DEF Memories
<1>4. H!Rendered(f, v, text) \in AnyText /\ H!Unrecorded \in AnyText
  <2>3. H!Unrecorded \in AnyText
    BY DEF H!Unrecorded, H!Absent, AnyText
  <2> QED
    BY <1>1, <2>3, RenderedIs
<1> HIDE DEF m, v, n
<1>5. x \in AnyText /\ y \in AnyText
  BY <1>3, <1>4
<1>6. z \in BOOLEAN
  BY <1>3, Zenon
<1> HIDE DEF x, y, z, over, same, noted
<1> DEFINE a == [m.files EXCEPT ![f] = x]
           b == [m.drift EXCEPT ![f] = y]
<1>7. a \in [H!Files -> AnyText] /\ b \in [H!Files -> AnyText]
  BY <1>3, <1>5
<1>8. n = [m EXCEPT !.files = a, !.drift = b, !.owned = z]
  BY <1>1, <1>2, <1>3 DEF Memories
<1>9. a[f] = x /\ b[f] = y /\ \A g \in H!Files \ {f} : a[g] = m.files[g] /\ b[g] = m.drift[g]
  BY <1>3
<1> HIDE DEF a, b
<1>10. n \in Memories /\ n.files = a /\ n.drift = b
  BY <1>1, <1>6, <1>7, <1>8 DEF Memories
<1> QED
  BY <1>9, <1>10 DEF x, y, m, v, n, over, same, noted

LEMMA ThroughIs ==
  ASSUME leg \in [Legs -> Runs], NEW p \in Legs, NEW f \in H!Files, NEW m \in Memories, NEW s \in Outcomes,
         H!Through(p, f, m, s)
  PROVE  /\ leg' \in [Legs -> Runs] /\ \A q \in Legs \ {p} : leg'[q] = leg[q]
         /\ leg'[p].pc = "applying" /\ leg'[p].hash = leg[p].hash /\ leg'[p].ver = leg[p].ver /\ leg'[p].mem = m
         /\ leg'[p].seen[f] = s /\ \A g \in H!Files \ {f} : leg'[p].seen[g] = leg[p].seen[g]
<1> DEFINE t == [leg[p].seen EXCEPT ![f] = s]
           a == H!Absent
           r == [leg[p] EXCEPT !.pc = "applying", !.at = "none", !.held = a, !.mem = m, !.seen = t]
<1>1. leg[p] \in Runs /\ leg[p].seen \in [H!Files -> Outcomes]
  BY DEF Runs
<1>2. t \in [H!Files -> Outcomes] /\ t[f] = s /\ \A g \in H!Files \ {f} : t[g] = leg[p].seen[g]
  BY <1>1
<1>3. a \in AnyText
  BY DEF H!Absent, AnyText
<1>4. leg' = [leg EXCEPT ![p] = r]
  BY <1>1 DEF H!Through
<1> HIDE DEF t, a
<1>5. r \in Runs /\ r.pc = "applying" /\ r.hash = leg[p].hash /\ r.ver = leg[p].ver /\ r.mem = m /\ r.seen = t
  BY <1>1, <1>2, <1>3 DEF Runs
<1> HIDE DEF r
<1>6. leg' \in [Legs -> Runs] /\ leg'[p] = r /\ \A q \in Legs \ {p} : leg'[q] = leg[q]
  BY <1>4, <1>5
<1> QED
  BY <1>2, <1>5, <1>6

\* An apply is through with a file: what it leaves there and what it remembers keep the invariant.
LEMMA ThroughKeeps ==
  ASSUME HarnessInv, NEW p \in Legs, leg[p].pc \in Applying, NEW f \in H!Files, leg[p].seen[f] = "unseen",
         NEW m \in Memories, NEW s \in Outcomes \ {"unseen"}, H!Through(p, f, m, s),
         \A g \in H!Files \ {f} : m.files[g] = leg[p].mem.files[g] /\ m.drift[g] = leg[p].mem.drift[g],
         f \in Anchored => m.files[f].own = 0, Fresh(m.drift[f]),
         m.drift[f].own \in edits.kept => m.drift[f].own \in backups',
         NEW x \in AnyText, disk' = [disk EXCEPT ![f] = x], Fresh(x), backups \subseteq backups',
         disk[f].own \in edits.kept \ edits.raced => x.own = disk[f].own \/ disk[f].own \in backups',
         edits.hers = {} /\ ~edits.died => s # "drifted" /\ ~H!Drifted(f, m, x),
         UNCHANGED <<cfg, source, bundle, capture, linked, record, hlock, edits>>
  PROVE  HarnessInv'
<1> USE DEF HarnessInv, Applying, AtAFile
<1>1. /\ leg' \in [Legs -> Runs] /\ \A q \in Legs \ {p} : leg'[q] = leg[q]
      /\ leg'[p].pc = "applying" /\ leg'[p].hash = leg[p].hash /\ leg'[p].ver = leg[p].ver /\ leg'[p].mem = m
      /\ leg'[p].seen[f] = s /\ \A g \in H!Files \ {f} : leg'[p].seen[g] = leg[p].seen[g]
  BY ThroughIs DEF HarnessTypes
<1>2. /\ disk \in [H!Files -> AnyText] /\ disk' \in [H!Files -> AnyText] /\ disk'[f] = x
      /\ \A g \in H!Files \ {f} : disk'[g] = disk[g]
  BY DEF HarnessTypes
<1>3. hlock = p /\ CopiesKept(leg[p].mem)
  BY DEF SectionsInv, MemoryInv
<1>4. \A q \in Legs \ {p} : leg[q].pc \notin Applying \cup {"capturing"}
  BY <1>3 DEF SectionsInv
<1>5. HarnessTypes'
  BY <1>1, <1>2 DEF HarnessTypes
<1>6. SectionsInv'
  <2>1. \A g \in H!Files : leg'[p].seen[g] = "unseen" => m.files[g] = record.files[g]
    BY <1>1 DEF SectionsInv
  <2>2. \A q \in Legs \ {p} : leg'[q].pc \notin Applying \cup {"capturing"} /\ \A g \in H!Files : leg'[q].seen[g] = "unseen"
    BY <1>1, <1>4 DEF SectionsInv
  <2> QED
    BY <1>1, <1>3, <2>1, <2>2 DEF SectionsInv
<1>7. MemoryInv'
  <2>1. /\ \A g \in Anchored : m.files[g].own = 0
        /\ \A g \in H!Files : Fresh(m.drift[g])
        /\ \A g \in H!Files : m.drift[g].own \in edits.kept => m.drift[g].own \in backups'
    BY <1>3 DEF CopiesKept, Anchored, H!Files
  <2>2. \A g \in H!Files : Fresh(disk'[g])
    BY <1>2 DEF MemoryInv
  <2>3. CopiesKept(record)'
    BY DEF MemoryInv, CopiesKept, Fresh
  <2>4. CopiesKept(leg[p].mem)' /\ \A g \in H!Files : Fresh(disk[g])'
    BY <1>1, <2>1, <2>2 DEF CopiesKept, Fresh
  <2> QED
    BY <1>1, <1>4, <2>3, <2>4 DEF MemoryInv
<1>8. HeldInv'
  BY <1>1, <1>4 DEF HeldInv
<1>9. CaptureInv'
  BY <1>1 DEF CaptureInv
<1>10. DriftInv'
  <2> SUFFICES ASSUME edits.hers = {}, ~edits.died PROVE DriftInv'
    BY DEF DriftInv
  <2>1. hlock # "dead" /\ NoDrift(leg[p].mem) /\ \A g \in H!Files : leg[p].seen[g] # "drifted"
    BY DEF DriftInv
  <2>2. \A g \in H!Files : leg'[p].seen[g] # "drifted"
    BY <1>1, <2>1
  <2>3. \A g \in H!Files : ~H!Drifted(g, m, disk'[g])
    <3>1. ASSUME NEW g \in H!Files \ {f} PROVE ~H!Drifted(g, m, disk'[g])
      BY <1>2, <2>1 DEF NoDrift, H!Drifted
    <3> QED
      BY <1>2, <3>1
  <2>4. NoDrift(leg[p].mem)'
    BY <1>1, <2>3 DEF NoDrift
  <2> QED
    BY <1>1, <1>4, <2>1, <2>2, <2>4 DEF DriftInv
<1>11. H!NothingIsLost'
  <2> SUFFICES ASSUME NEW e \in edits.kept \ edits.raced PROVE e \in backups' \/ \E g \in H!Files : disk'[g].own = e
    BY DEF H!NothingIsLost
  <2>1. PICK g \in H!Files : e \in backups \/ disk[g].own = e
    BY DEF H!NothingIsLost
  <2> QED
    BY <1>2, <2>1
<1>12. H!CurrentIsCurrent' /\ H!AttentionIsHers'
  BY <1>1 DEF H!CurrentIsCurrent, H!AttentionIsHers
<1> QED
  BY <1>5, <1>6, <1>7, <1>8, <1>9, <1>10, <1>11, <1>12

\* An apply comes to a file: what it holds and what it is about to do keep the invariant.
LEMMA ComesKeeps ==
  ASSUME HarnessInv, NEW p \in Legs, leg[p].pc \in Applying, NEW r \in Runs, leg' = [leg EXCEPT ![p] = r],
         r.pc \in AtAFile, r.at \in H!Files, r.hash = leg[p].hash, r.ver = leg[p].ver, r.mem = leg[p].mem,
         r.seen = leg[p].seen, r.seen[r.at] = "unseen", backups \subseteq backups',
         Fresh(r.held), H!Verdict(r.at, r.ver, r.mem, r.held) \in {"write", "prune", "drifted"},
         r.pc = "copying" /\ r.held.own \in edits.kept => r.held.own \in backups' \cup {disk[r.at].own},
         r.pc = "writing" =>
           /\ H!Verdict(r.at, r.ver, r.mem, r.held) = "drifted" => r.verb = "force"
           /\ disk[r.at].own \in edits.kept => disk[r.at].own \in backups' \cup edits.raced,
         edits.hers = {} /\ ~edits.died => H!Verdict(r.at, r.ver, r.mem, r.held) # "drifted",
         UNCHANGED <<cfg, source, bundle, capture, disk, linked, record, hlock, edits>>
  PROVE  HarnessInv'
<1> USE DEF HarnessInv, Applying, AtAFile
<1>1. leg' \in [Legs -> Runs] /\ leg'[p] = r /\ \A q \in Legs \ {p} : leg'[q] = leg[q]
  BY DEF HarnessTypes
<1>2. hlock = p
  BY DEF SectionsInv
<1>3. \A q \in Legs \ {p} : leg[q].pc \notin Applying \cup {"capturing"}
  BY <1>2 DEF SectionsInv
<1>4. HarnessTypes'
  BY <1>1 DEF HarnessTypes
<1>5. SectionsInv'
  BY <1>1, <1>2 DEF SectionsInv
<1>6. MemoryInv'
  <2>1. \A q \in Legs : leg'[q].pc \in Applying => leg[q].pc \in Applying /\ leg'[q].mem = leg[q].mem
    BY <1>1
  <2> QED
    BY <1>1, <2>1 DEF MemoryInv, CopiesKept, Fresh
<1>7. H!Due(p)' = H!Verdict(r.at, r.ver, r.mem, r.held)
  BY <1>1 DEF H!Due, H!Verdict, H!Wanted, H!Rendered, H!Drifted
<1>8. HeldInv'
  <2>1. \A q \in Legs \ {p} : leg'[q].pc \notin AtAFile
    BY <1>1, <1>3
  <2>2. Fresh(r.held)'
    BY DEF Fresh
  <2> QED
    BY <1>1, <1>7, <2>1, <2>2 DEF HeldInv, Fresh
<1>9. CaptureInv'
  BY <1>1 DEF CaptureInv
<1>10. DriftInv'
  <2> SUFFICES ASSUME edits.hers = {}, ~edits.died PROVE DriftInv'
    BY DEF DriftInv
  <2>1. hlock # "dead" /\ NoDrift(leg[p].mem) /\ \A g \in H!Files : leg[p].seen[g] # "drifted"
    BY DEF DriftInv
  <2>2. NoDrift(leg[p].mem)'
    BY <1>1, <2>1 DEF NoDrift
  <2> QED
    BY <1>1, <1>3, <1>7, <2>1, <2>2 DEF DriftInv
<1>11. H!NothingIsLost'
  BY DEF H!NothingIsLost
<1>12. H!CurrentIsCurrent' /\ H!AttentionIsHers'
  BY <1>1 DEF H!CurrentIsCurrent, H!AttentionIsHers
<1> QED
  BY <1>4, <1>5, <1>6, <1>8, <1>9, <1>10, <1>11, <1>12

LEMMA VerdictIs ==
  ASSUME NEW f \in H!Files, NEW v, NEW m, NEW text
  PROVE  LET d == H!Verdict(f, v, m, text) IN
           /\ d \in {"prune", "unchanged", "error", "dropped", "write", "drifted"}
           /\ d = "drifted" => H!Drifted(f, m, text)
           /\ d = "write" => ~H!Drifted(f, m, text)
           /\ d = "unchanged" /\ H!Wanted(f, v) => text = H!Rendered(f, v, text)
           /\ d = "prune" => f = "item" /\ text # H!Absent
BY DEF H!Verdict, H!Wanted

LEMMA LooksKeeps ==
  ASSUME HarnessInv, NEW p \in Legs, NEW f \in H!Files, H!Looks(p, f)
  PROVE  HarnessInv'
<1> USE DEF HarnessInv
<1> DEFINE text == disk[f]
           m == leg[p].mem
           v == leg[p].ver
           d == H!Verdict(f, v, m, text)
           copied == text # H!Absent /\ (d \in {"write", "prune"} \/ (d = "drifted" /\ H!FirstSight(f, m, text)))
           n == H!Kept(p, f, text, d)
<1>1. /\ leg \in [Legs -> Runs] /\ leg[p] \in Runs /\ m \in Memories /\ v \in Nat /\ text \in AnyText
      /\ disk \in [H!Files -> AnyText] /\ leg[p].pc = "applying" /\ leg[p].seen[f] = "unseen"
  BY DEF HarnessTypes, Runs, H!Looks
<1>2. UNCHANGED <<cfg, source, bundle, capture, disk, linked, record, backups, hlock, edits>>
  BY DEF H!Looks
<1>3. /\ CopiesKept(m) /\ Fresh(text) /\ leg[p].pc \in Applying /\ 0 \notin edits.kept
  BY <1>1, NeverNought DEF MemoryInv, Applying
<1>4. edits.hers = {} /\ ~edits.died => ~H!Drifted(f, m, text)
  BY <1>3 DEF DriftInv, NoDrift
<1>5. /\ d \in {"prune", "unchanged", "error", "dropped", "write", "drifted"}
      /\ d = "drifted" => H!Drifted(f, m, text)
      /\ d = "unchanged" /\ H!Wanted(f, v) => text = H!Rendered(f, v, text)
      /\ d = "prune" => text # H!Absent
  BY VerdictIs
<1>6. H!Absent.own = 0 /\ (text = H!Absent => ~H!Drifted(f, m, text))
  BY DEF H!Absent, H!Drifted
<1>7. CASE copied \/ Over(p, d)
  <2> DEFINE place == IF copied THEN "copying" ELSE "writing"
             r == [leg[p] EXCEPT !.at = f, !.held = text, !.pc = place]
  <2>1. leg' = [leg EXCEPT ![p] = r]
    BY <1>1, <1>7 DEF H!Looks, Over
  <2>2. place \in AtAFile /\ (place = "copying" <=> copied)
    BY DEF AtAFile
  <2> HIDE DEF text, place, copied, d
  <2>3. r \in Runs /\ r.at = f /\ r.held = text /\ r.pc = place
    BY <1>1, <2>2 DEF Runs, AtAFile
  <2>4. /\ r.verb = leg[p].verb /\ r.hash = leg[p].hash /\ r.ver = leg[p].ver /\ r.mem = leg[p].mem
        /\ r.seen = leg[p].seen
    BY <1>1 DEF Runs
  <2> HIDE DEF r
  <2>5. d = H!Verdict(r.at, r.ver, r.mem, r.held)
    BY <2>3, <2>4 DEF d
  <2>6. d \in {"write", "prune", "drifted"}
    BY <1>7 DEF copied, Over, H!Forced
  <2>7. ASSUME ~copied
        PROVE  /\ d = "drifted" => r.verb = "force"
               /\ text.own \in edits.kept => text.own \in backups
    <3>1. Over(p, d)
      BY <1>7, <2>7
    <3>2. d = "drifted" => r.verb = "force"
      BY <2>4, <3>1 DEF Over, H!Forced
    <3>3. text = H!Absent \/ (d = "drifted" /\ m.drift[f] = text)
      BY <2>6, <2>7 DEF copied, H!FirstSight
    <3>4. text.own \in edits.kept => text.own \in backups
      BY <1>3, <1>6, <3>3 DEF CopiesKept
    <3> QED
      BY <3>2, <3>4
  <2>8. r.pc = "copying" /\ r.held.own \in edits.kept => r.held.own \in backups \cup {disk[r.at].own}
    BY <2>3 DEF text
  <2>9. r.pc = "writing" => ~copied
    BY <2>2, <2>3
  <2>10. edits.hers = {} /\ ~edits.died => d # "drifted"
    BY <1>4, <1>5
  <2>11. disk[r.at].own = text.own /\ Fresh(r.held) /\ r.pc \in AtAFile /\ r.at \in H!Files /\ r.seen[r.at] = "unseen"
    BY <1>1, <1>3, <2>2, <2>3, <2>4 DEF text
  <2> QED
    BY <1>2, <1>3, <2>1, <2>3, <2>4, <2>5, <2>6, <2>7, <2>8, <2>9, <2>10, <2>11, ComesKeeps
<1>8. CASE ~(copied \/ Over(p, d))
  <2>1. H!Through(p, f, n, d)
    BY <1>8 DEF H!Looks, Over
  <2>2. /\ n \in Memories /\ \A g \in H!Files \ {f} : n.files[g] = m.files[g] /\ n.drift[g] = m.drift[g]
        /\ n.files[f] = IF d = "unchanged" /\ H!Wanted(f, v) THEN H!Rendered(f, v, text)
                        ELSE IF d = "prune" THEN H!Unrecorded ELSE m.files[f]
        /\ n.drift[f] = IF d = "drifted" /\ H!FirstSight(f, m, text) THEN text ELSE m.drift[f]
    BY <1>1, <1>8, KeptIs
  <2> HIDE DEF n
  <2>3. n.drift[f] = m.drift[f] /\ d # "prune" /\ d # "write"
    BY <1>5, <1>6, <1>8, <2>2 DEF Over
  <2>4. f \in Anchored => H!Rendered(f, v, text).own = 0
    BY <1>1, RenderedIs
  <2> HIDE DEF d, text
  <2>5. f \in Anchored => n.files[f].own = 0
    BY <1>3, <2>2, <2>3, <2>4 DEF CopiesKept
  <2>6. edits.hers = {} /\ ~edits.died => d # "drifted" /\ ~H!Drifted(f, n, text)
    BY <1>4, <1>5, <2>2, <2>3 DEF H!Drifted
  <2>7. disk' = [disk EXCEPT ![f] = text] /\ backups \subseteq backups'
    BY <1>1, <1>2 DEF text
  <2>8. d \in Outcomes \ {"unseen"}
    BY <1>5 DEF Outcomes
  <2>9. Fresh(n.drift[f]) /\ (n.drift[f].own \in edits.kept => n.drift[f].own \in backups')
    BY <1>2, <1>3, <2>3 DEF CopiesKept
  <2>10. text.own = disk[f].own
    BY DEF text
  <2> QED
    BY <1>1, <1>2, <1>3, <2>1, <2>2, <2>5, <2>6, <2>7, <2>8, <2>9, <2>10, ThroughKeeps
<1> QED
  BY <1>7, <1>8

LEMMA CopiesKeeps ==
  ASSUME HarnessInv, NEW p \in Legs, H!Copies(p)
  PROVE  HarnessInv'
<1> USE DEF HarnessInv
<1> DEFINE f == leg[p].at
           text == leg[p].held
           m == leg[p].mem
           v == leg[p].ver
           d == H!Due(p)
           n == H!Kept(p, f, text, d)
<1>1. /\ leg \in [Legs -> Runs] /\ leg[p] \in Runs /\ m \in Memories /\ v \in Nat /\ text \in AnyText
      /\ disk \in [H!Files -> AnyText] /\ leg[p].pc = "copying" /\ f \in H!Files /\ leg[p].seen[f] = "unseen"
  BY DEF HarnessTypes, Runs, H!Copies, SectionsInv, AtAFile
<1>2. /\ UNCHANGED <<cfg, source, bundle, capture, disk, linked, record, hlock, edits>>
      /\ backups' = backups \cup ({disk[f].own} \ {0})
  BY DEF H!Copies
<1>3. /\ CopiesKept(m) /\ Fresh(disk[f]) /\ Fresh(text) /\ leg[p].pc \in Applying /\ 0 \notin edits.kept
      /\ d \in {"write", "prune", "drifted"}
      /\ text.own \in edits.kept => text.own \in backups \cup {disk[f].own}
  BY <1>1, NeverNought DEF MemoryInv, HeldInv, Applying, AtAFile
<1>4. edits.hers = {} /\ ~edits.died => ~H!Drifted(f, m, disk[f]) /\ d # "drifted"
  BY <1>1, <1>3 DEF DriftInv, NoDrift, AtAFile
<1>5. /\ backups \subseteq backups'
      /\ disk[f].own \in edits.kept => disk[f].own \in backups'
      /\ text.own \in edits.kept => text.own \in backups'
  BY <1>2, <1>3
<1>6. d = H!Verdict(f, v, m, text)
  BY DEF H!Due
<1> DEFINE x == disk[f]
<1>7. disk' = [disk EXCEPT ![f] = x] /\ x \in AnyText /\ x.own = disk[f].own /\ Fresh(x)
  BY <1>1, <1>2, <1>3
<1>11. edits.hers = {} /\ ~edits.died => ~H!Drifted(f, m, x) /\ d # "drifted"
  BY <1>4
<1>8. CASE H!Through(p, f, m, "error")
  <2>1. f \in Anchored => m.files[f].own = 0
    BY <1>3 DEF CopiesKept
  <2>2. Fresh(m.drift[f]) /\ (m.drift[f].own \in edits.kept => m.drift[f].own \in backups')
    BY <1>1, <1>3, <1>5 DEF CopiesKept
  <2> DEFINE s == "error"
  <2>3. s \in Outcomes \ {"unseen"} /\ s # "drifted" /\ H!Through(p, f, m, s)
    BY <1>8 DEF Outcomes
  <2> HIDE DEF f, s, d, x
  <2>4. UNCHANGED <<cfg, source, bundle, capture, linked, record, hlock, edits>>
    BY <1>2
  <2>5. disk[f].own \in edits.kept \ edits.raced => x.own = disk[f].own \/ disk[f].own \in backups'
    BY <1>7
  <2>6. edits.hers = {} /\ ~edits.died => s # "drifted" /\ ~H!Drifted(f, m, x)
    BY <1>11, <2>3
  <2> QED
    BY <1>1, <1>3, <1>5, <1>7, <2>1, <2>2, <2>3, <2>4, <2>5, <2>6, ThroughKeeps
<1>9. CASE d = "drifted" /\ ~H!Forced(p, d) /\ H!Through(p, f, n, d)
  <2>1. /\ n \in Memories /\ \A g \in H!Files \ {f} : n.files[g] = m.files[g] /\ n.drift[g] = m.drift[g]
        /\ n.files[f] = m.files[f]
        /\ n.drift[f] = IF H!FirstSight(f, m, text) THEN text ELSE m.drift[f]
    BY <1>1, <1>9, KeptIs DEF Over
  <2>2. d \in Outcomes \ {"unseen"} /\ H!Through(p, f, n, d)
    BY <1>9 DEF Outcomes
  <2> HIDE DEF n, f, text, d, x
  <2>3. f \in Anchored => n.files[f].own = 0
    BY <1>3, <2>1 DEF CopiesKept
  <2>4. Fresh(n.drift[f]) /\ (n.drift[f].own \in edits.kept => n.drift[f].own \in backups')
    BY <1>1, <1>3, <1>5, <2>1 DEF CopiesKept
  <2>5. UNCHANGED <<cfg, source, bundle, capture, linked, record, hlock, edits>>
    BY <1>2
  <2>6. disk[f].own \in edits.kept \ edits.raced => x.own = disk[f].own \/ disk[f].own \in backups'
    BY <1>7
  <2>7. edits.hers = {} /\ ~edits.died => d # "drifted" /\ ~H!Drifted(f, n, x)
    BY <1>9, <1>11
  <2> QED
    BY <1>1, <1>3, <1>5, <1>7, <2>1, <2>2, <2>3, <2>4, <2>5, <2>6, <2>7, ThroughKeeps
<1>10. CASE (d = "drifted" => H!Forced(p, d)) /\ leg' = [leg EXCEPT ![p].pc = "writing"]
  <2> DEFINE r == [leg[p] EXCEPT !.pc = "writing"]
  <2>1. leg' = [leg EXCEPT ![p] = r]
    BY <1>1, <1>10
  <2>2. /\ r \in Runs /\ r.pc = "writing" /\ r.at = f /\ r.held = text /\ r.verb = leg[p].verb
        /\ r.hash = leg[p].hash /\ r.ver = v /\ r.mem = m /\ r.seen = leg[p].seen
    BY <1>1 DEF Runs
  <2>3. d = "drifted" => r.verb = "force"
    BY <1>10, <2>2 DEF H!Forced
  <2> HIDE DEF r, d
  <2>4. d = H!Verdict(r.at, r.ver, r.mem, r.held)
    BY <1>6, <2>2
  <2> HIDE DEF f, text, m, v
  <2>5. r.ver = leg[p].ver /\ r.mem = leg[p].mem /\ r.pc \in AtAFile /\ r.at \in H!Files
    BY <1>1, <2>2 DEF v, m, AtAFile
  <2> QED
    BY <1>1, <1>2, <1>3, <1>4, <1>5, <2>1, <2>2, <2>3, <2>4, <2>5, ComesKeeps
<1> QED
  BY <1>8, <1>9, <1>10 DEF H!Copies

\* What a process writes, and what it remembers of it.
LEMMA PutsIs ==
  ASSUME HarnessInv, NEW p \in Legs, H!Puts(p)
  PROVE  LET f == leg[p].at
             x == IF H!Due(p) = "prune" THEN H!Absent ELSE H!Rendered(f, leg[p].ver, leg[p].held)
         IN /\ f \in H!Files /\ leg[p].seen[f] = "unseen" /\ leg[p].pc \in Applying /\ disk' = [disk EXCEPT ![f] = x]
            /\ H!Due(p) = H!Verdict(f, leg[p].ver, leg[p].mem, leg[p].held)
            /\ H!Due(p) \in {"write", "prune", "drifted"} /\ (H!Due(p) = "drifted" => leg[p].verb = "force")
            /\ UNCHANGED <<cfg, source, bundle, capture, linked, record, backups, hlock, edits>>
BY DEF HarnessInv, SectionsInv, HeldInv, H!Puts, H!Due, Applying, AtAFile

LEMMA PutsKeeps ==
  ASSUME HarnessInv, NEW p \in Legs, H!Puts(p)
  PROVE  HarnessInv'
<1> USE DEF HarnessInv
<1> DEFINE f == leg[p].at
           text == leg[p].held
           m == leg[p].mem
           v == leg[p].ver
           d == H!Due(p)
           n == H!Kept(p, f, text, d)
           s == IF d = "prune" THEN "prune" ELSE "written"
           x == IF d = "prune" THEN H!Absent ELSE H!Rendered(f, v, text)
<1>1. /\ leg \in [Legs -> Runs] /\ leg[p] \in Runs /\ m \in Memories /\ v \in Nat /\ text \in AnyText
      /\ disk \in [H!Files -> AnyText] /\ f \in H!Files /\ leg[p].seen[f] = "unseen" /\ leg[p].pc \in Applying
  BY PutsIs DEF HarnessTypes, Runs
<1>2. UNCHANGED <<cfg, source, bundle, capture, linked, record, backups, hlock, edits>> /\ disk' = [disk EXCEPT ![f] = x]
  BY PutsIs
<1>3. H!Through(p, f, n, s)
  BY DEF H!Puts
<1>4. /\ CopiesKept(m) /\ Fresh(text) /\ d \in {"write", "prune", "drifted"} /\ (d = "drifted" => leg[p].verb = "force")
      /\ disk[f].own \in edits.kept => disk[f].own \in backups \cup edits.raced
  <2>1. leg[p].pc = "writing"
    BY DEF H!Puts
  <2> QED
    BY <1>1, <2>1 DEF MemoryInv, HeldInv, AtAFile
<1>5. s \in Outcomes \ {"unseen"} /\ s # "drifted"
  BY DEF Outcomes
<1>6. d # "prune" <=> Over(p, d)
  BY <1>4 DEF Over, H!Forced
<1>7. /\ n \in Memories /\ \A g \in H!Files \ {f} : n.files[g] = m.files[g] /\ n.drift[g] = m.drift[g]
      /\ n.files[f] = IF d = "prune" THEN H!Unrecorded ELSE H!Rendered(f, v, text)
      /\ n.drift[f] = IF d = "prune" THEN m.drift[f] ELSE H!Unrecorded
  BY <1>1, <1>6, KeptIs
<1>8. /\ H!Rendered(f, v, text) \in AnyText /\ (f \in Anchored => H!Rendered(f, v, text).own = 0)
      /\ H!Rendered(f, v, text).own \in {0, text.own}
      /\ H!Absent \in AnyText /\ H!Absent.own = 0 /\ H!Unrecorded.own = 0
  BY <1>1, RenderedIs DEF H!Absent, H!Unrecorded, AnyText, Anchored, H!Files
<1>9. edits.made \in Nat
  BY DEF HarnessTypes, EditsAre
<1> HIDE DEF n, s, d, f, text, v
<1>10. x \in AnyText /\ Fresh(x)
  BY <1>4, <1>8, <1>9 DEF Fresh
<1>11. f \in Anchored => n.files[f].own = 0
  BY <1>7, <1>8
<1>12. Fresh(n.drift[f]) /\ (n.drift[f].own \in edits.kept => n.drift[f].own \in backups')
  <2>1. Fresh(H!Unrecorded) /\ H!Unrecorded.own \notin edits.kept
    BY <1>8, <1>9, NeverNought DEF Fresh
  <2> QED
    BY <1>1, <1>2, <1>4, <1>7, <2>1 DEF CopiesKept
<1>13. ~H!Drifted(f, n, x)
  BY <1>7 DEF H!Drifted
<1> HIDE DEF x
<1>14. backups \subseteq backups' /\ (disk[f].own \in edits.kept \ edits.raced => disk[f].own \in backups')
  BY <1>2, <1>4
<1> QED
  BY <1>1, <1>2, <1>3, <1>5, <1>7, <1>10, <1>11, <1>12, <1>13, <1>14, ThroughKeeps

LEMMA HarnessStep ==
  ASSUME HarnessInv, H!HarnessNext
  PROVE  HarnessInv'
BY PreparesKeeps, CommandsKeeps, ReusesKeeps, ManifestKeeps, CaptureKeeps, ComparesKeeps, AppliesKeeps, SavesKeeps,
   GivesUpKeeps, DyingKeeps, LooksKeeps, CopiesKeeps, PutsKeeps, UserKeeps, StaleKeeps, OffKeeps DEF H!HarnessNext

LEMMA HarnessRests ==
  ASSUME HarnessInv, UNCHANGED Hvars
  PROVE  HarnessInv'
<1> USE DEF HarnessInv, Hvars
<1>1. HarnessTypes' /\ SectionsInv' /\ MemoryInv' /\ CaptureInv'
  BY DEF HarnessTypes, SectionsInv, MemoryInv, CopiesKept, Fresh, CaptureInv
<1>2. DriftInv' /\ HeldInv'
  BY DueRests DEF DriftInv, NoDrift, HeldInv, Fresh
<1>3. H!NothingIsLost' /\ H!CurrentIsCurrent' /\ H!AttentionIsHers'
  BY DEF H!NothingIsLost, H!CurrentIsCurrent, H!AttentionIsHers
<1> QED
  BY <1>1, <1>2, <1>3

\* A file she took over is left alone, but by force or with its source, or when it is not what was read.
LEMMA HandEdits ==
  ASSUME HarnessInv, H!HarnessNext
  PROVE  H!HandEditStands
<1> SUFFICES ASSUME NEW f \in Anchored, disk[f].own # 0, ~disk[f].mark, disk'[f].own # disk[f].own, edits' = edits
      PROVE  \/ \E p \in Legs : hlock = p /\ (leg[p].verb = "force" \/ (leg[p].at = f /\ leg[p].held # disk[f]))
             \/ f = "item" /\ disk'[f] = H!Absent
             \/ record.files[f] = H!Unrecorded
  BY DEF H!HandEditStands, Anchored
<1>1. f \in H!Files /\ f # "shared" /\ disk \in [H!Files -> AnyText] /\ edits \in EditsAre
  BY DEF HarnessInv, HarnessTypes, Anchored, H!Files
<1>2. PICK p \in Legs : H!Puts(p)
  <2>1. edits' # H!Happened
    <3>1. H!Happened.made = edits.made + 1
      BY <1>1 DEF H!Happened, EditsAre
    <3> QED
      BY <1>1, <3>1 DEF EditsAre
  <2>2. disk' # disk
    OBVIOUS
  <2>3. ASSUME NEW g \in H!Files PROVE ~H!UserEdits(g) /\ ~H!UserRemoves(g)
    <3>1. /\ \A kept : [H!Happened EXCEPT !.kept = kept].made = edits.made + 1
          /\ \A kept, hers, raced : [H!Happened EXCEPT !.kept = kept, !.hers = hers, !.raced = raced].made = edits.made + 1
      BY <1>1 DEF H!Happened, EditsAre
    <3>2. edits.made # edits.made + 1
      BY <1>1 DEF EditsAre
    <3>3. ASSUME H!UserEdits(g) PROVE edits'.made = edits.made + 1
      <4> DEFINE e == edits.made + 1
                 kept == (H!Happened.kept \ {disk[g].own}) \cup {e}
                 hers == H!Happened.hers \cup {g}
                 raced == IF \E q \in Legs : leg[q].pc = "writing" /\ leg[q].at = g
                          THEN H!Happened.raced \cup {e} ELSE H!Happened.raced
      <4>1. edits' = [H!Happened EXCEPT !.kept = kept, !.hers = hers, !.raced = raced]
        BY <1>1, <3>3 DEF H!UserEdits
      <4> HIDE DEF kept, hers, raced
      <4> QED
        BY <3>1, <4>1
    <3> QED
      BY <3>1, <3>2, <3>3 DEF H!UserRemoves
  <2> QED
    BY <2>1, <2>2, <2>3 DEF H!HarnessNext, H!Prepares, H!Commands, H!ReusesBundle, H!WritesManifest, H!RecordsCapture,
       H!Compares, H!Applies, H!Looks, H!Copies, H!SavesRecord, H!GivesUp, H!ProcessDies, H!LockGoesStale,
       H!SourceChanges, H!TurnsOff
<1> DEFINE m == leg[p].mem
           text == leg[p].held
           d == H!Due(p)
<1>3. leg[p].at = f
  BY <1>1, <1>2, PutsIs
<1>4. /\ disk' = [disk EXCEPT ![f] = IF d = "prune" THEN H!Absent ELSE H!Rendered(f, leg[p].ver, text)]
      /\ d = H!Verdict(f, leg[p].ver, m, text) /\ d \in {"write", "prune", "drifted"} /\ (d = "drifted" => leg[p].verb = "force")
  BY <1>2, <1>3, PutsIs
<1>9. LET e == H!Verdict(f, leg[p].ver, m, text) IN (e = "write" => ~H!Drifted(f, m, text)) /\ (e = "prune" => f = "item")
  BY <1>1, VerdictIs
<1>5. hlock = p /\ m.files[f] = record.files[f] /\ m.files[f].own = 0
  BY <1>1, <1>2, <1>3, PutsIs DEF HarnessInv, SectionsInv, MemoryInv, CopiesKept, Applying
<1>6. CASE leg[p].verb = "force" \/ text # disk[f]
  BY <1>3, <1>5, <1>6
<1>7. CASE d = "prune"
  <2>1. f = "item"
    BY <1>4, <1>7, <1>9
  <2> QED
    BY <1>1, <1>4, <1>7, <2>1
<1>8. CASE d = "write" /\ text = disk[f]
  <2>1. ~H!Drifted(f, m, disk[f])
    BY <1>4, <1>8, <1>9
  <2>2. disk[f] # H!Absent
    BY DEF H!Absent
  <2>3. m.files[f] # disk[f]
    BY <1>5
  <2> QED
    BY <1>1, <1>5, <2>1, <2>2, <2>3 DEF H!Drifted
<1> QED
  BY <1>4, <1>6, <1>7, <1>8

\* Neither of two processes, the user and a death lose a text of hers, take it over, or misreport it.
THEOREM HarnessHoldsThm == RecordsSpec => HarnessHolds
<1> DEFINE Inv == part = "harness" => HarnessInv
           Act == part = "harness" => H!HandEditStands
<1>1. RecordsInit => Inv
  BY HarnessStart DEF RecordsInit
<1>2. Inv /\ [RecordsNext]_recordsVars => Inv'
  <2> SUFFICES ASSUME Inv, [RecordsNext]_recordsVars PROVE Inv'
    OBVIOUS
  <2>1. CASE part = "harness" /\ H!HarnessNext /\ UNCHANGED part
    BY <2>1, HarnessStep
  <2>2. CASE part # "harness" /\ UNCHANGED part
    BY <2>2
  <2>3. CASE part = "harness" /\ UNCHANGED recordsVars
    BY <2>3, HarnessRests DEF recordsVars, Hvars
  <2> QED
    BY <2>1, <2>2, <2>3 DEF RecordsNext, recordsVars
<1>3. Inv => (part = "harness" => H!NothingIsLost /\ H!CurrentIsCurrent /\ H!AttentionIsHers)
  BY DEF HarnessInv
<1>4. Inv /\ [RecordsNext]_recordsVars => [Act]_recordsVars
  <2> SUFFICES ASSUME Inv, RecordsNext, part = "harness" PROVE H!HandEditStands
    OBVIOUS
  <2> QED
    BY HandEdits DEF RecordsNext
<1> QED
  BY <1>1, <1>2, <1>3, <1>4, PTL DEF RecordsSpec, HarnessHolds

-----------------------------------------------------------------------------
(* The checkouts (Worktrees.tla).                                          *)

Checkouts == [here : BOOLEAN, dirty : BOOLEAN, ahead : BOOLEAN, branch : BOOLEAN]
TreeTypes ==
  /\ tree \in [W!Trees -> Checkouts]
  /\ seat \in [Sessions -> [status : {"none", "starting", "live", "ended", "removed"}, at : W!Trees \cup {W!NoTree}]]
  /\ job \in [Jobs -> [status : {"none", "backlog", "queued", "running", "paused", "done", "removed"},
                       at : W!Owners \cup {W!NoTree}, from : Sessions \cup {W!NoTree}]]
  /\ agent \in [Jobs -> W!Owners \cup {W!NoTree}] /\ DOMAIN op = W!Doers
GitInv == \A x \in W!Trees : (tree[x].dirty => tree[x].here) /\ (tree[x].here \/ tree[x].ahead => tree[x].branch)

\* Where a terminal sits: nowhere, in the repository's checkout, in its own, or in one of a card.
Begun(s) == seat[s].status \in {"live", "ended", "removed"}
SeatsInv ==
  \A s \in Sessions :
    /\ seat[s].status = "none" <=> seat[s].at = W!NoTree
    /\ seat[s].status = "starting" => seat[s].at = W!Root
    /\ seat[s].at \in Jobs => job[seat[s].at].at = seat[s].at
    /\ seat[s].at \in Sessions \ {s} => \E c \in Jobs : job[c].from = seat[s].at
    /\ seat[s].status = "live" /\ seat[s].at = s => tree[s].here
\* Where a card and its agent work: nowhere, in its own, or in that of the terminal it was born from.
JobsInv ==
  \A c \in Jobs :
    /\ job[c].at \in {W!NoTree, c, job[c].from} /\ agent[c] \in {W!NoTree, c, job[c].from}
    /\ job[c].status = "none" => job[c].at = W!NoTree /\ job[c].from = W!NoTree /\ agent[c] = W!NoTree
    /\ job[c].from # W!NoTree =>
         /\ job[c].at # W!NoTree /\ Begun(job[c].from) /\ seat[job[c].from].at = job[c].from
         /\ job[c].at # job[c].from => seat[job[c].from].status # "live"
\* An agent in a terminal's checkout is where the card's record says, until that checkout is gone.
AgentInv == \A c \in Jobs : agent[c] \in Sessions /\ tree[agent[c]].here => job[c].at = agent[c]
\* A checkout that is there is the one its owner's record names, while there is a record.
HereInv ==
  /\ \A s \in Sessions : tree[s].here => seat[s].at = s /\ (s \in letGo \/ seat[s].status # "removed")
  /\ \A c \in Jobs : tree[c].here => job[c].at = c /\ (c \in letGo \/ W!Exists(c))
\* What the board or a command line is in the middle of: what it looked at was clean, unless forced.
OpsInv ==
  \A d \in W!Doers :
    /\ op[d].do = "rmTerm" =>
         /\ op[d].id \in Sessions /\ seat[op[d].id].status \in {"ended", "removed"} /\ seat[op[d].id].at = op[d].id
         /\ ~op[d].saw.dirty
    /\ op[d].do = "rmCard" =>
         /\ op[d].id \in Jobs /\ job[op[d].id].status # "none" /\ op[d].force \in BOOLEAN /\ op[d].branch \in BOOLEAN
         /\ d = "board" /\ ~op[d].force => ~op[d].saw.dirty
    /\ op[d].do = "endAsCard" =>
         /\ d = "board" /\ op[d].term \in Sessions /\ op[d].card \in Jobs /\ Begun(op[d].term)
         /\ job[op[d].card].status = "none" /\ op[d].carried \in BOOLEAN
\* Who shares a checkout, or will when a waiting card starts, was put there by hand.
TwoInv == \A c, d \in Jobs : c # d /\ job[c].from # W!NoTree /\ job[c].from = job[d].from => c \in byHand
ForeignInv ==
  \A c \in Jobs, r \in Sessions, s \in Sessions :
    job[c].from = s /\ r # s /\ seat[r].at = s /\ seat[r].status = "live" /\ seat[s].status = "live" => {r, c} \subseteq byHand
WaitInv ==
  \A c \in Jobs, r \in Sessions :
    job[c].status \in {"backlog", "queued"} /\ seat[r].status = "live" /\ seat[r].at = job[c].at =>
      r = job[c].from \/ {r, c} \subseteq byHand
PairsInv ==
  /\ \A r, s \in Sessions : r # s /\ seat[r].status = "live" /\ seat[s].status = "live" /\ seat[r].at = seat[s].at => r \in byHand
  /\ \A r \in Sessions, c \in Jobs : seat[r].status = "live" /\ agent[c] = seat[r].at => {r, c} \subseteq byHand
  /\ \A c, d \in Jobs : c # d /\ agent[c] # W!NoTree /\ agent[c] = agent[d] => c \in byHand

TreesInv ==
  /\ TreeTypes /\ GitInv /\ SeatsInv /\ JobsInv /\ AgentInv /\ HereInv /\ OpsInv
  /\ TwoInv /\ ForeignInv /\ WaitInv /\ PairsInv

LEMMA TreesApart ==
  /\ \A s \in Sessions : s \notin Jobs /\ s # W!Root /\ s # W!NoTree
  /\ \A c \in Jobs : c \notin Sessions /\ c # W!Root /\ c # W!NoTree
  /\ W!Root # W!NoTree /\ W!Owners = Sessions \cup Jobs /\ W!Trees = Sessions \cup Jobs \cup {W!Root}
BY TreesAssumption DEF W!WorktreesAssumption, W!Owners, W!Trees, W!Root, W!NoTree

LEMMA TreesStart == W!WorktreesInit => TreesInv
<1> SUFFICES ASSUME W!WorktreesInit PROVE TreesInv
  OBVIOUS
<1>1. /\ tree = [x \in W!Trees |-> [W!Cut EXCEPT !.here = (x = W!Root), !.branch = (x = W!Root)]]
      /\ seat = [s \in Sessions |-> [status |-> "none", at |-> W!NoTree]]
      /\ job = [c \in Jobs |-> [status |-> "none", at |-> W!NoTree, from |-> W!NoTree]]
      /\ agent = [c \in Jobs |-> W!NoTree] /\ op = [d \in W!Doers |-> W!NoOp] /\ byHand = {} /\ letGo = {}
  BY DEF W!WorktreesInit
<1>2. \A x \in W!Trees : /\ tree[x] \in Checkouts /\ tree[x].here = (x = W!Root) /\ tree[x].branch = (x = W!Root)
                         /\ ~tree[x].dirty /\ ~tree[x].ahead
  <2> TAKE x \in W!Trees
  <2> DEFINE is == x = W!Root
  <2>1. tree[x] = [W!Cut EXCEPT !.here = is, !.branch = is] /\ is \in BOOLEAN
    BY <1>1
  <2> HIDE DEF is
  <2>2. W!Cut \in Checkouts /\ ~W!Cut.dirty /\ ~W!Cut.ahead
    BY DEF W!Cut, Checkouts
  <2>3. tree[x] \in Checkouts /\ tree[x].here = is /\ tree[x].branch = is /\ ~tree[x].dirty /\ ~tree[x].ahead
    BY <2>1, <2>2 DEF Checkouts
  <2> QED
    BY <2>3 DEF is
<1>3. TreeTypes
  BY <1>1, <1>2, TreesApart DEF TreeTypes
<1>4. GitInv
  BY <1>2 DEF GitInv
<1>5. SeatsInv /\ JobsInv /\ AgentInv /\ TwoInv /\ ForeignInv /\ WaitInv /\ PairsInv
  BY <1>1, TreesApart DEF SeatsInv, JobsInv, AgentInv, TwoInv, ForeignInv, WaitInv, PairsInv
<1>6. HereInv
  BY <1>2, TreesApart DEF HereInv
<1>7. OpsInv
  BY <1>1 DEF OpsInv, W!NoOp
<1> QED
  BY <1>3, <1>4, <1>5, <1>6, <1>7 DEF TreesInv

\* What git makes of one checkout.
LEMMA EnsuredIs ==
  ASSUME TreeTypes, GitInv, NEW x \in W!Trees
  PROVE  LET e == W!Ensured(x) IN
         /\ e \in [W!Trees -> Checkouts] /\ \A y \in W!Trees \ {x} : e[y] = tree[y]
         /\ e[x].here /\ e[x].branch /\ e[x].ahead = tree[x].ahead /\ (e[x].dirty => tree[x].dirty)
         /\ tree[x].here => e[x] = tree[x]
<1>1. tree \in [W!Trees -> Checkouts] /\ tree[x] \in Checkouts /\ (tree[x].here => tree[x].branch)
  BY DEF TreeTypes, GitInv
<1>2. CASE tree[x].here
  BY <1>1, <1>2 DEF W!Ensured
<1>3. CASE ~tree[x].here
  <2> DEFINE r == [tree[x] EXCEPT !.here = TRUE, !.dirty = FALSE, !.branch = TRUE]
  <2>1. W!Ensured(x) = [tree EXCEPT ![x] = r]
    BY <1>3 DEF W!Ensured
  <2>2. r \in Checkouts /\ r.here /\ r.branch /\ ~r.dirty /\ r.ahead = tree[x].ahead
    BY <1>1 DEF Checkouts
  <2> HIDE DEF r
  <2> QED
    BY <1>1, <1>3, <2>1, <2>2
<1> QED
  BY <1>2, <1>3

LEMMA WithoutIs ==
  ASSUME TreeTypes, GitInv, NEW x \in W!Trees, NEW force \in BOOLEAN, NEW branch \in BOOLEAN
  PROVE  LET w == W!Without(x, force, branch) IN
         /\ w \in [W!Trees -> Checkouts] /\ \A y \in W!Trees \ {x} : w[y] = tree[y]
         /\ ~w[x].here /\ ~w[x].dirty /\ (w[x].ahead => w[x].branch)
         /\ tree[x].ahead /\ ~force => w[x].branch
<1>1. tree \in [W!Trees -> Checkouts] /\ tree[x] \in Checkouts /\ (tree[x].ahead => tree[x].branch)
  BY DEF TreeTypes, GitInv
<1>2. CASE branch /\ W!Deletable(x, force)
  <2>1. W!Without(x, force, branch) = [tree EXCEPT ![x] = W!Cut]
    BY <1>2 DEF W!Without
  <2>2. W!Cut \in Checkouts /\ ~W!Cut.here /\ ~W!Cut.dirty /\ ~W!Cut.ahead
    BY DEF W!Cut, Checkouts
  <2>3. tree[x].ahead => force
    BY <1>2 DEF W!Deletable
  <2> QED
    BY <1>1, <2>1, <2>2, <2>3
<1>3. CASE ~(branch /\ W!Deletable(x, force))
  <2> DEFINE r == [tree[x] EXCEPT !.here = FALSE, !.dirty = FALSE]
  <2>1. W!Without(x, force, branch) = [tree EXCEPT ![x] = r]
    BY <1>3 DEF W!Without
  <2>2. r \in Checkouts /\ ~r.here /\ ~r.dirty /\ r.ahead = tree[x].ahead /\ r.branch = tree[x].branch
    BY <1>1 DEF Checkouts
  <2> HIDE DEF r
  <2> QED
    BY <1>1, <2>1, <2>2
<1> QED
  BY <1>2, <1>3
TermSeats == [status : {"none", "starting", "live", "ended", "removed"}, at : W!Trees \cup {W!NoTree}]
CardSeats == [status : {"none", "backlog", "queued", "running", "paused", "done", "removed"},
              at : W!Owners \cup {W!NoTree}, from : Sessions \cup {W!NoTree}]

\* The work in a checkout changes, and nothing else.
LEMMA WorkKeeps ==
  ASSUME TreesInv, tree' \in [W!Trees -> Checkouts], GitInv',
         \A x \in W!Trees : tree'[x].here = tree[x].here, UNCHANGED <<seat, job, agent, op, byHand, letGo>>
  PROVE  TreesInv'
<1>1. TreeTypes' /\ OpsInv' /\ TwoInv' /\ ForeignInv' /\ WaitInv' /\ PairsInv' /\ JobsInv'
  BY DEF TreesInv, TreeTypes, OpsInv, Begun, TwoInv, ForeignInv, WaitInv, PairsInv, JobsInv
<1>2. \A x \in W!Owners : x \in W!Trees
  BY DEF W!Trees
<1>3. SeatsInv'
  BY <1>2 DEF TreesInv, SeatsInv, W!Owners
<1>4. HereInv' /\ AgentInv'
  BY <1>2 DEF TreesInv, HereInv, AgentInv, W!Owners, W!Exists
<1> QED
  BY <1>1, <1>3, <1>4 DEF TreesInv

LEMMA WorkSteps ==
  ASSUME TreesInv, NEW x \in W!Trees, W!FilesChange(x) \/ W!Commits(x) \/ W!Lands(x)
  PROVE  TreesInv'
<1>1. tree \in [W!Trees -> Checkouts] /\ tree[x] \in Checkouts
  BY DEF TreesInv, TreeTypes
<1>2. UNCHANGED <<seat, job, agent, op, byHand, letGo>>
  BY DEF W!FilesChange, W!Commits, W!Lands
<1>3. CASE W!FilesChange(x)
  <2> DEFINE r == [tree[x] EXCEPT !.dirty = TRUE]
  <2>1. tree[x].here /\ tree' = [tree EXCEPT ![x] = r]
    BY <1>1, <1>3 DEF W!FilesChange
  <2>2. r \in Checkouts /\ r.here = tree[x].here /\ r.ahead = tree[x].ahead /\ r.branch = tree[x].branch
    BY <1>1 DEF Checkouts
  <2> HIDE DEF r
  <2>3. tree' \in [W!Trees -> Checkouts] /\ \A y \in W!Trees : tree'[y] = IF y = x THEN r ELSE tree[y]
    BY <1>1, <2>1, <2>2
  <2>4. GitInv'
    BY <2>1, <2>2, <2>3 DEF TreesInv, GitInv
  <2> QED
    BY <1>2, <2>2, <2>3, <2>4, WorkKeeps
<1>4. CASE W!Commits(x)
  <2> DEFINE r == [tree[x] EXCEPT !.dirty = FALSE, !.ahead = (x # W!Root)]
  <2>1. tree[x].dirty /\ tree' = [tree EXCEPT ![x] = r]
    BY <1>1, <1>4 DEF W!Commits
  <2>2. (x # W!Root) \in BOOLEAN
    OBVIOUS
  <2>3. r \in Checkouts /\ r.here = tree[x].here /\ ~r.dirty /\ r.branch = tree[x].branch
    BY <1>1, <2>2 DEF Checkouts
  <2> HIDE DEF r
  <2>4. tree' \in [W!Trees -> Checkouts] /\ \A y \in W!Trees : tree'[y] = IF y = x THEN r ELSE tree[y]
    BY <1>1, <2>1, <2>3
  <2>5. tree[x].here /\ tree[x].branch /\ \A y \in W!Trees : (tree[y].dirty => tree[y].here) /\ (tree[y].here \/ tree[y].ahead => tree[y].branch)
    BY <2>1 DEF TreesInv, GitInv
  <2>6. GitInv'
    BY <2>3, <2>4, <2>5 DEF GitInv
  <2> QED
    BY <1>2, <2>3, <2>4, <2>6, WorkKeeps
<1>5. CASE W!Lands(x)
  <2> DEFINE r == [tree[x] EXCEPT !.ahead = FALSE]
  <2>1. tree' = [tree EXCEPT ![x] = r]
    BY <1>1, <1>5 DEF W!Lands
  <2>2. r \in Checkouts /\ r.here = tree[x].here /\ r.dirty = tree[x].dirty /\ r.branch = tree[x].branch
    BY <1>1 DEF Checkouts
  <2> HIDE DEF r
  <2>3. tree' \in [W!Trees -> Checkouts] /\ \A y \in W!Trees : tree'[y] = IF y = x THEN r ELSE tree[y]
    BY <1>1, <2>1, <2>2
  <2>4. tree[x].branch /\ \A y \in W!Trees : (tree[y].dirty => tree[y].here) /\ (tree[y].here \/ tree[y].ahead => tree[y].branch)
    BY <1>5 DEF TreesInv, GitInv, W!Lands
  <2>5. GitInv'
    BY <2>2, <2>3, <2>4 DEF GitInv
  <2> QED
    BY <1>2, <2>2, <2>3, <2>5, WorkKeeps
<1> QED
  BY <1>3, <1>4, <1>5

LEMMA TermStartsKeeps ==
  ASSUME TreesInv, NEW s \in Sessions, W!TermStarts(s)
  PROVE  TreesInv'
<1> USE TreesApart
<1> DEFINE r == [status |-> "starting", at |-> W!Root]
<1>1. /\ seat[s].status = "none" /\ seat' = [seat EXCEPT ![s] = r] /\ r.status = "starting" /\ r.at = W!Root
      /\ r \in TermSeats /\ UNCHANGED <<tree, job, agent, op, byHand, letGo>>
  BY DEF W!TermStarts, TermSeats
<1> HIDE DEF r
<1>2. /\ seat' \in [Sessions -> TermSeats] /\ seat'[s].status = "starting" /\ seat'[s].at = W!Root
      /\ \A q \in Sessions \ {s} : seat'[q] = seat[q]
  BY <1>1 DEF TreesInv, TreeTypes, TermSeats
<1>3. TreeTypes' /\ GitInv'
  BY <1>1, <1>2 DEF TreesInv, TreeTypes, GitInv, TermSeats
<1>4. \A c \in Jobs : job[c].from # s
  BY <1>1 DEF TreesInv, JobsInv, Begun
<1>5. SeatsInv'
  BY <1>1, <1>2 DEF TreesInv, SeatsInv
<1>6. JobsInv' /\ AgentInv'
  BY <1>1, <1>2, <1>4 DEF TreesInv, JobsInv, AgentInv, Begun, TreeTypes
<1>7. HereInv'
  BY <1>1, <1>2 DEF TreesInv, HereInv, SeatsInv, W!Exists
<1>8. OpsInv'
  BY <1>1, <1>2 DEF TreesInv, OpsInv, Begun
<1>9. TwoInv' /\ ForeignInv' /\ WaitInv' /\ PairsInv'
  BY <1>1, <1>2, <1>4 DEF TreesInv, TwoInv, ForeignInv, WaitInv, PairsInv
<1> QED
  BY <1>3, <1>5, <1>6, <1>7, <1>8, <1>9 DEF TreesInv

LEMMA TermEndsKeeps ==
  ASSUME TreesInv, NEW s \in Sessions, W!TermEnds(s)
  PROVE  TreesInv'
<1> USE TreesApart
<1> DEFINE r == [seat[s] EXCEPT !.status = "ended"]
<1>0. seat \in [Sessions -> TermSeats] /\ seat[s] \in TermSeats
  BY DEF TreesInv, TreeTypes, TermSeats
<1>1. /\ seat[s].status = "live" /\ seat' = [seat EXCEPT ![s] = r] /\ r.status = "ended" /\ r.at = seat[s].at
      /\ r \in TermSeats /\ UNCHANGED <<tree, job, agent, op, byHand, letGo>>
  BY <1>0 DEF W!TermEnds, TermSeats
<1> HIDE DEF r
<1>2. /\ seat' \in [Sessions -> TermSeats] /\ seat'[s].status = "ended" /\ seat'[s].at = seat[s].at
      /\ \A q \in Sessions \ {s} : seat'[q] = seat[q]
  BY <1>0, <1>1
<1>3. TreeTypes' /\ GitInv'
  BY <1>1, <1>2 DEF TreesInv, TreeTypes, GitInv, TermSeats
<1>5. SeatsInv'
  BY <1>1, <1>2 DEF TreesInv, SeatsInv
<1>6. JobsInv' /\ AgentInv'
  BY <1>1, <1>2 DEF TreesInv, JobsInv, AgentInv, Begun, TreeTypes
<1>7. HereInv'
  BY <1>1, <1>2 DEF TreesInv, HereInv, SeatsInv, W!Exists
<1>8. OpsInv'
  BY <1>1, <1>2 DEF TreesInv, OpsInv, Begun
<1>9. TwoInv' /\ ForeignInv' /\ WaitInv' /\ PairsInv'
  BY <1>1, <1>2 DEF TreesInv, TwoInv, ForeignInv, WaitInv, PairsInv
<1> QED
  BY <1>3, <1>5, <1>6, <1>7, <1>8, <1>9 DEF TreesInv
LEMMA IsolatesKeeps ==
  ASSUME TreesInv, NEW s \in Sessions, W!Isolates(s)
  PROVE  TreesInv'
<1> USE TreesApart
<1>0. seat \in [Sessions -> TermSeats] /\ seat[s] \in TermSeats /\ seat[s].status = "starting" /\ seat[s].at = W!Root
  BY DEF TreesInv, TreeTypes, TermSeats, SeatsInv, W!Isolates
<1>1. UNCHANGED <<job, agent, op, letGo>>
  BY DEF W!Isolates
<1>2. \A c \in Jobs : job[c].from # s /\ agent[c] # s /\ agent[c] # W!Root /\ job[c].at # s /\ job[c].at # W!Root
  <2> TAKE c \in Jobs
  <2>1. job[c].at \in {W!NoTree, c, job[c].from} /\ agent[c] \in {W!NoTree, c, job[c].from}
        /\ (job[c].from # W!NoTree => Begun(job[c].from)) /\ job[c].from \in Sessions \cup {W!NoTree}
    BY DEF TreesInv, JobsInv, TreeTypes
  <2>2. job[c].from # s
    BY <1>0, <2>1 DEF Begun
  <2> QED
    BY <2>1, <2>2
<1>3. \A q \in Sessions \ {s} : seat[q].at # s
  BY <1>2 DEF TreesInv, SeatsInv
<1>4. CASE seat' = [seat EXCEPT ![s].status = "live"]
  <2> DEFINE r == [seat[s] EXCEPT !.status = "live"]
  <2>1. seat' = [seat EXCEPT ![s] = r] /\ r.status = "live" /\ r.at = W!Root /\ r \in TermSeats
    BY <1>0, <1>4 DEF TermSeats
  <2> HIDE DEF r
  <2>2. /\ seat' \in [Sessions -> TermSeats] /\ seat'[s].status = "live" /\ seat'[s].at = W!Root
        /\ \A q \in Sessions \ {s} : seat'[q] = seat[q]
    BY <1>0, <2>1
  <2>3. /\ UNCHANGED tree /\ byHand \subseteq byHand'
        /\ \A q \in Sessions \ {s} : seat[q].status = "live" /\ seat[q].at = W!Root => {s, q} \subseteq byHand'
    <3>2. CASE W!Others(s) = {}
      <4>1. \A q \in Sessions \ {s} : ~(seat[q].status = "live" /\ seat[q].at = W!Root)
        BY <3>2 DEF W!Others, W!Active
      <4> QED
        BY <3>2, <4>1 DEF W!Isolates
    <3>3. CASE W!Others(s) # {}
      <4>1. \A q \in Sessions \ {s} : seat[q].status = "live" /\ seat[q].at = W!Root => q \in W!Others(s)
        BY DEF W!Others, W!Active
      <4>2. [seat EXCEPT ![s] = [status |-> "live", at |-> s]] # seat'
        BY <1>0, <2>2
      <4>3. byHand' = byHand \cup {s} \cup W!Others(s) /\ UNCHANGED tree
        BY <3>3, <4>2 DEF W!Isolates
      <4> QED
        BY <4>1, <4>3
    <3> QED
      BY <3>2, <3>3
  <2>4. TreeTypes' /\ GitInv'
    BY <1>1, <2>2, <2>3 DEF TreesInv, TreeTypes, GitInv, TermSeats
  <2>5. SeatsInv'
    BY <1>1, <2>2, <2>3 DEF TreesInv, SeatsInv
  <2>6. JobsInv' /\ AgentInv'
    BY <1>1, <1>2, <2>2, <2>3 DEF TreesInv, JobsInv, AgentInv, Begun, TreeTypes
  <2>7. HereInv'
    BY <1>0, <1>1, <2>2, <2>3 DEF TreesInv, HereInv, SeatsInv, W!Exists
  <2>8. OpsInv'
    BY <1>0, <1>1, <2>2 DEF TreesInv, OpsInv, Begun
  <2>9. TwoInv' /\ ForeignInv'
    BY <1>1, <1>2, <2>2, <2>3 DEF TreesInv, TwoInv, ForeignInv
  <2>10. WaitInv'
    BY <1>1, <1>2, <2>2, <2>3 DEF TreesInv, WaitInv
  <2>11. PairsInv'
    BY <1>1, <1>2, <2>2, <2>3 DEF TreesInv, PairsInv
  <2> QED
    BY <2>4, <2>5, <2>6, <2>7, <2>8, <2>9, <2>10, <2>11 DEF TreesInv
<1>5. CASE seat' # [seat EXCEPT ![s].status = "live"]
  <2> DEFINE r == [status |-> "live", at |-> s]
  <2>1. /\ seat' = [seat EXCEPT ![s] = r] /\ r.status = "live" /\ r.at = s /\ r \in TermSeats
        /\ tree' = W!Ensured(s) /\ byHand' = byHand
    BY <1>5 DEF W!Isolates, TermSeats
  <2> HIDE DEF r
  <2>2. /\ seat' \in [Sessions -> TermSeats] /\ seat'[s].status = "live" /\ seat'[s].at = s
        /\ \A q \in Sessions \ {s} : seat'[q] = seat[q]
    BY <1>0, <2>1
  <2>3. /\ tree' \in [W!Trees -> Checkouts] /\ tree'[s].here /\ tree'[s].branch /\ (tree'[s].dirty => tree[s].dirty)
        /\ \A y \in W!Trees \ {s} : tree'[y] = tree[y]
    <3>1. s \in W!Trees /\ TreeTypes /\ GitInv
      BY DEF TreesInv
    <3> QED
      BY <2>1, <3>1, EnsuredIs
  <2>4. TreeTypes' /\ GitInv'
    BY <1>1, <2>2, <2>3 DEF TreesInv, TreeTypes, GitInv, TermSeats
  <2>5. SeatsInv'
    BY <1>1, <1>2, <1>3, <2>2, <2>3 DEF TreesInv, SeatsInv
  <2>6. JobsInv' /\ AgentInv'
    BY <1>1, <1>2, <2>2, <2>3 DEF TreesInv, JobsInv, AgentInv, Begun, TreeTypes
  <2>7. HereInv'
    BY <1>0, <1>1, <2>2, <2>3 DEF TreesInv, HereInv, SeatsInv, W!Exists
  <2>8. OpsInv'
    BY <1>0, <1>1, <2>2 DEF TreesInv, OpsInv, Begun
  <2>9. TwoInv' /\ ForeignInv'
    BY <1>1, <1>2, <1>3, <2>1, <2>2, <2>3 DEF TreesInv, TwoInv, ForeignInv
  <2>10. WaitInv'
    BY <1>1, <1>2, <2>1, <2>2, <2>3 DEF TreesInv, WaitInv
  <2>11. PairsInv'
    BY <1>1, <1>2, <1>3, <2>1, <2>2, <2>3 DEF TreesInv, PairsInv
  <2> QED
    BY <2>4, <2>5, <2>6, <2>7, <2>8, <2>9, <2>10, <2>11 DEF TreesInv
<1> QED
  BY <1>4, <1>5

LEMMA AttachesKeeps ==
  ASSUME TreesInv, NEW s \in Sessions, NEW c \in Jobs, W!Attaches(s, c)
  PROVE  TreesInv'
<1> USE TreesApart
<1> DEFINE at == IF job[c].at # W!NoTree /\ tree[job[c].at].here THEN job[c].at ELSE c
           r == [status |-> "live", at |-> at]
           alone == job[c].status = "paused" /\ agent[c] = W!NoTree /\ W!Writers(at) = {} /\ \A d \in Jobs \ {c} : job[d].at # at
<1>1. /\ seat[s].status = "none" /\ job[c].status # "none" /\ tree[at].here /\ seat' = [seat EXCEPT ![s] = r]
      /\ byHand' = byHand \cup IF alone THEN {} ELSE {s, c} \cup W!Writers(at)
      /\ UNCHANGED <<tree, job, agent, op, letGo>>
  BY DEF W!Attaches, W!Exists
<1>2. job[c].at \in {W!NoTree, c, job[c].from} /\ job[c].from \in Sessions \cup {W!NoTree} /\ seat \in [Sessions -> TermSeats]
  BY DEF TreesInv, JobsInv, TreeTypes, TermSeats
<1>3. at \in W!Owners /\ at = job[c].at
  <2>1. tree[c].here => job[c].at = c
    BY DEF TreesInv, HereInv
  <2> QED
    BY <1>1, <1>2, <2>1
<1>4. r \in TermSeats /\ r.status = "live" /\ r.at = at
  BY <1>3 DEF TermSeats, W!Trees
<1>5. at \in {c, job[c].from} /\ at # W!Root /\ \A d \in Jobs : job[d].from # s
  BY <1>1, <1>2, <1>3 DEF TreesInv, JobsInv, Begun
<1> HIDE DEF r, at
<1>6. /\ seat' \in [Sessions -> TermSeats] /\ seat'[s].status = "live" /\ seat'[s].at = at
      /\ \A q \in Sessions \ {s} : seat'[q] = seat[q]
  BY <1>1, <1>2, <1>4
<1>7. /\ byHand \subseteq byHand'
      /\ \A q \in Sessions : seat[q].status = "live" /\ seat[q].at = at => {s, c, q} \subseteq byHand'
      /\ agent[c] # W!NoTree \/ job[c].status # "paused" => {s, c} \subseteq byHand'
  BY <1>1 DEF W!Writers
<1>8. \A d \in Jobs \ {c} : agent[d] = at => job[d].at = at /\ at \in Sessions
  <2> TAKE d \in Jobs \ {c}
  <2>1. agent[d] \in {W!NoTree, d, job[d].from} /\ job[d].from \in Sessions \cup {W!NoTree}
    BY DEF TreesInv, JobsInv, TreeTypes
  <2> QED
    BY <1>1, <1>2, <1>3, <1>5, <2>1 DEF TreesInv, AgentInv
<1>9. \A d \in Jobs \ {c} : job[d].at = at => {s, c, d} \subseteq byHand' /\ job[d].from = job[c].from
  <2> TAKE d \in Jobs \ {c}
  <2>1. job[d].at \in {W!NoTree, d, job[d].from} /\ job[d].from \in Sessions \cup {W!NoTree}
    BY DEF TreesInv, JobsInv, TreeTypes
  <2>2. job[d].at = at => ~alone /\ job[d].from = job[c].from /\ job[c].from # W!NoTree
    BY <1>2, <1>3, <1>5, <2>1
  <2> QED
    BY <1>1, <2>2 DEF TreesInv, TwoInv
<1> HIDE DEF alone
<1>10. TreeTypes' /\ GitInv'
  BY <1>1, <1>6 DEF TreesInv, TreeTypes, GitInv, TermSeats
<1>11. SeatsInv'
  BY <1>1, <1>2, <1>3, <1>5, <1>6 DEF TreesInv, SeatsInv
<1>12. JobsInv' /\ AgentInv'
  BY <1>1, <1>5, <1>6 DEF TreesInv, JobsInv, AgentInv, Begun, TreeTypes
<1>13. HereInv'
  BY <1>1, <1>6 DEF TreesInv, HereInv, SeatsInv, W!Exists
<1>14. OpsInv'
  BY <1>1, <1>6 DEF TreesInv, OpsInv, Begun
<1>15. TwoInv' /\ WaitInv'
  BY <1>1, <1>3, <1>6, <1>7, <1>9 DEF TreesInv, TwoInv, WaitInv
<1>16. ForeignInv'
  <2> SUFFICES ASSUME NEW d \in Jobs, NEW t \in Sessions, job[d].from = t, t # s, seat[t].status = "live", at = t
               PROVE  {s, d} \subseteq byHand'
    BY <1>1, <1>5, <1>6, <1>7 DEF TreesInv, ForeignInv
  <2>1. seat[t].at = t
    BY DEF TreesInv, JobsInv
  <2>2. job[c].from = t
    BY <1>5
  <2> QED
    BY <1>7, <2>1, <2>2 DEF TreesInv, TwoInv
<1>17. PairsInv'
  <2>1. \A d \in Jobs : agent[d] = at => {s, d} \subseteq byHand'
    <3>1. agent[c] = at => {s, c} \subseteq byHand'
      BY <1>2, <1>3, <1>5, <1>7
    <3> QED
      BY <1>8, <1>9, <3>1
  <2> QED
    BY <1>1, <1>6, <1>7, <2>1 DEF TreesInv, PairsInv
<1> QED
  BY <1>10, <1>11, <1>12, <1>13, <1>14, <1>15, <1>16, <1>17 DEF TreesInv
LEMMA CardAddedKeeps ==
  ASSUME TreesInv, NEW c \in Jobs, W!CardAdded(c)
  PROVE  TreesInv'
<1> USE TreesApart
<1>0. job \in [Jobs -> CardSeats] /\ job[c] \in CardSeats
  BY DEF TreesInv, TreeTypes, CardSeats
<1> DEFINE r == [job[c] EXCEPT !.status = "queued"]
<1>1. /\ job[c].status = "none" /\ job' = [job EXCEPT ![c] = r] /\ \A d \in W!Doers : op[d].do = "endAsCard" => op[d].card # c
      /\ r \in CardSeats /\ r.status = "queued" /\ r.at = job[c].at /\ r.from = job[c].from
      /\ UNCHANGED <<tree, seat, agent, byHand, letGo, op>>
  BY <1>0 DEF W!CardAdded, CardSeats
<1> HIDE DEF r
<1>2. /\ job' \in [Jobs -> CardSeats] /\ job'[c].status = "queued" /\ job'[c].at = job[c].at /\ job'[c].from = job[c].from
      /\ \A d \in Jobs \ {c} : job'[d] = job[d]
  BY <1>0, <1>1
<1>3. job[c].at = W!NoTree /\ job[c].from = W!NoTree
  BY <1>1 DEF TreesInv, JobsInv
<1>4. TreeTypes' /\ GitInv'
  BY <1>1, <1>2 DEF TreesInv, TreeTypes, GitInv, CardSeats
<1>5. SeatsInv' /\ TwoInv' /\ ForeignInv'
  BY <1>1, <1>2 DEF TreesInv, SeatsInv, TwoInv, ForeignInv
<1>6. JobsInv' /\ AgentInv'
  BY <1>1, <1>2 DEF TreesInv, JobsInv, AgentInv, Begun, TreeTypes
<1>7. HereInv'
  BY <1>1, <1>2 DEF TreesInv, HereInv, W!Exists
<1>8. OpsInv'
  BY <1>1, <1>2 DEF TreesInv, OpsInv, Begun
<1>9. WaitInv'
  BY <1>1, <1>2, <1>3 DEF TreesInv, WaitInv, SeatsInv
<1>10. PairsInv'
  BY <1>1, <1>2 DEF TreesInv, PairsInv
<1> QED
  BY <1>4, <1>5, <1>6, <1>7, <1>8, <1>9, <1>10 DEF TreesInv

LEMMA EnqueuesKeeps ==
  ASSUME TreesInv, NEW c \in Jobs, W!Enqueues(c)
  PROVE  TreesInv'
<1> USE TreesApart
<1>0. job \in [Jobs -> CardSeats] /\ job[c] \in CardSeats
  BY DEF TreesInv, TreeTypes, CardSeats
<1> DEFINE r == [job[c] EXCEPT !.status = "queued"]
           calm == W!Writers(job[c].at) = {} \/ W!HeldByLiveTerminal(c)
<1>1. /\ job[c].status \in {"backlog", "paused", "done"} /\ job' = [job EXCEPT ![c] = r]
      /\ r \in CardSeats /\ r.status = "queued" /\ r.at = job[c].at /\ r.from = job[c].from
      /\ byHand' = byHand \cup IF calm THEN {} ELSE {c} \cup W!Writers(job[c].at)
      /\ UNCHANGED <<tree, seat, agent, letGo, op>>
  BY <1>0 DEF W!Enqueues, CardSeats
<1> HIDE DEF r
<1>2. /\ job' \in [Jobs -> CardSeats] /\ job'[c].status = "queued" /\ job'[c].at = job[c].at /\ job'[c].from = job[c].from
      /\ \A d \in Jobs \ {c} : job'[d] = job[d]
  BY <1>0, <1>1
<1>3. \A q \in Sessions : seat[q].status = "live" /\ seat[q].at = job[c].at => q = job[c].from \/ {q, c} \subseteq byHand'
  <2> SUFFICES ASSUME NEW q \in Sessions, seat[q].status = "live", seat[q].at = job[c].at, q # job[c].from
               PROVE  {q, c} \subseteq byHand'
    OBVIOUS
  <2>1. q \in W!Writers(job[c].at)
    BY DEF W!Writers
  <2>2. CASE ~W!HeldByLiveTerminal(c)
    BY <1>1, <2>1, <2>2
  <2>3. CASE W!HeldByLiveTerminal(c)
    <3>1. job[c].from \in Sessions /\ job[c].from # W!NoTree /\ seat[job[c].from].status = "live"
          /\ seat[job[c].from].at = job[c].from
      BY <1>0, <2>3 DEF W!HeldByLiveTerminal, W!Adopted, W!Active, TreesInv, JobsInv, SeatsInv, CardSeats, Begun
    <3>2. job[c].at = job[c].from
      BY <3>1 DEF TreesInv, JobsInv
    <3> QED
      BY <1>1, <3>1, <3>2 DEF TreesInv, ForeignInv
  <2> QED
    BY <2>2, <2>3
<1>4. TreeTypes' /\ GitInv'
  BY <1>1, <1>2 DEF TreesInv, TreeTypes, GitInv, CardSeats
<1>5. SeatsInv' /\ TwoInv' /\ ForeignInv'
  BY <1>1, <1>2 DEF TreesInv, SeatsInv, TwoInv, ForeignInv
<1>6. JobsInv' /\ AgentInv'
  BY <1>1, <1>2 DEF TreesInv, JobsInv, AgentInv, Begun, TreeTypes
<1>7. HereInv'
  BY <1>1, <1>2 DEF TreesInv, HereInv, W!Exists
<1>8. OpsInv'
  BY <1>1, <1>2 DEF TreesInv, OpsInv, Begun
<1>9. WaitInv'
  BY <1>1, <1>2, <1>3 DEF TreesInv, WaitInv
<1>10. PairsInv'
  BY <1>1, <1>2 DEF TreesInv, PairsInv
<1> QED
  BY <1>4, <1>5, <1>6, <1>7, <1>8, <1>9, <1>10 DEF TreesInv

LEMMA AgentStopsKeeps ==
  ASSUME TreesInv, NEW c \in Jobs, W!AgentStops(c)
  PROVE  TreesInv'
<1> USE TreesApart
<1>0. job \in [Jobs -> CardSeats] /\ job[c] \in CardSeats /\ agent \in [Jobs -> W!Owners \cup {W!NoTree}]
  BY DEF TreesInv, TreeTypes, CardSeats
<1> DEFINE r == [job[c] EXCEPT !.status = IF job[c].status = "running" THEN "done" ELSE job[c].status]
<1>1. /\ agent[c] # W!NoTree /\ job' = [job EXCEPT ![c] = r]
      /\ r \in CardSeats /\ r.status = (IF job[c].status = "running" THEN "done" ELSE job[c].status)
      /\ r.at = job[c].at /\ r.from = job[c].from
      /\ agent' = [agent EXCEPT ![c] = W!NoTree] /\ UNCHANGED <<tree, seat, byHand, letGo, op>>
  BY <1>0 DEF W!AgentStops, CardSeats
<1> HIDE DEF r
<1>2. /\ job' \in [Jobs -> CardSeats] /\ job'[c].at = job[c].at /\ job'[c].from = job[c].from
      /\ job'[c].status = (IF job[c].status = "running" THEN "done" ELSE job[c].status)
      /\ \A d \in Jobs \ {c} : job'[d] = job[d]
      /\ agent' \in [Jobs -> W!Owners \cup {W!NoTree}] /\ agent'[c] = W!NoTree /\ \A d \in Jobs \ {c} : agent'[d] = agent[d]
  BY <1>0, <1>1
<1>4. TreeTypes' /\ GitInv'
  BY <1>1, <1>2 DEF TreesInv, TreeTypes, GitInv, CardSeats
<1>5. SeatsInv' /\ TwoInv' /\ ForeignInv'
  BY <1>1, <1>2 DEF TreesInv, SeatsInv, TwoInv, ForeignInv
<1>6. JobsInv' /\ AgentInv'
  BY <1>1, <1>2 DEF TreesInv, JobsInv, AgentInv, Begun, TreeTypes
<1>7. HereInv'
  BY <1>1, <1>2 DEF TreesInv, HereInv, W!Exists
<1>8. OpsInv'
  BY <1>1, <1>2 DEF TreesInv, OpsInv, Begun
<1>9. WaitInv'
  BY <1>1, <1>2 DEF TreesInv, WaitInv
<1>10. PairsInv'
  BY <1>1, <1>2 DEF TreesInv, PairsInv, SeatsInv
<1> QED
  BY <1>4, <1>5, <1>6, <1>7, <1>8, <1>9, <1>10 DEF TreesInv

\* A card's driver starts its agent, once the scheduler or somebody at the command line says so.
LEMMA DrivesKeeps ==
  ASSUME TreesInv, NEW c \in Jobs, W!Drives(c), byHand \subseteq byHand', job[c].status \in {"backlog", "queued"},
         W!HeldByLiveTerminal(c) => {c, job[c].from} \subseteq byHand'
  PROVE  TreesInv'
<1> USE TreesApart
<1>0. /\ job \in [Jobs -> CardSeats] /\ job[c] \in CardSeats /\ agent \in [Jobs -> W!Owners \cup {W!NoTree}]
      /\ job[c].at \in {W!NoTree, c, job[c].from} /\ job[c].from \in Sessions \cup {W!NoTree}
  BY DEF TreesInv, TreeTypes, CardSeats, JobsInv
<1> DEFINE at == IF W!Adopted(c) /\ tree[job[c].at].here THEN job[c].at ELSE c
           r == [job[c] EXCEPT !.status = "running", !.at = at]
<1>1. at \in W!Owners /\ at \in {c, job[c].from} /\ (at # c => at = job[c].at /\ at \in Sessions)
  BY <1>0 DEF TreesInv, JobsInv, W!Adopted
<1>2. r \in CardSeats /\ r.status = "running" /\ r.at = at /\ r.from = job[c].from
  BY <1>0, <1>1 DEF CardSeats
<1>3. /\ agent[c] = W!NoTree /\ tree' = (IF at = c THEN W!Ensured(c) ELSE tree) /\ job' = [job EXCEPT ![c] = r]
      /\ agent' = [agent EXCEPT ![c] = at] /\ UNCHANGED <<seat, op, letGo>>
  BY <1>0 DEF W!Drives
<1> HIDE DEF r
<1>4. /\ job' \in [Jobs -> CardSeats] /\ job'[c].at = at /\ job'[c].from = job[c].from /\ job'[c].status = "running"
      /\ \A d \in Jobs \ {c} : job'[d] = job[d]
      /\ agent' \in [Jobs -> W!Owners \cup {W!NoTree}] /\ agent'[c] = at /\ \A d \in Jobs \ {c} : agent'[d] = agent[d]
  BY <1>0, <1>1, <1>2, <1>3
<1>5. /\ tree' \in [W!Trees -> Checkouts] /\ GitInv' /\ \A y \in W!Trees \ {c} : tree'[y] = tree[y]
      /\ at # c => tree' = tree
  <2>1. c \in W!Trees /\ TreeTypes /\ GitInv /\ tree \in [W!Trees -> Checkouts]
    BY DEF TreesInv, TreeTypes
  <2>2. at = c => /\ tree' \in [W!Trees -> Checkouts] /\ \A y \in W!Trees \ {c} : tree'[y] = tree[y]
                  /\ tree'[c].here /\ tree'[c].branch
    BY <1>3, <2>1, EnsuredIs
  <2> QED
    BY <1>3, <2>1, <2>2 DEF GitInv
<1>6. job[c].at = c => at = c
  BY DEF W!Adopted
<1>7. job[c].from # W!NoTree /\ at = c => seat[job[c].from].status # "live"
  <2>1. job[c].at = job[c].from /\ job[c].from # W!NoTree /\ seat[job[c].from].status = "live" => tree[job[c].from].here
    BY <1>0 DEF TreesInv, JobsInv, SeatsInv
  <2> QED
    BY <1>0, <1>1, <2>1 DEF TreesInv, JobsInv, W!Adopted
<1>8. \A q \in Sessions : seat[q].at = c => job[c].at = c
  BY DEF TreesInv, SeatsInv
<1>9. \A q \in Sessions : seat[q].status = "live" /\ seat[q].at = at => {q, c} \subseteq byHand'
  <2> SUFFICES ASSUME NEW q \in Sessions, seat[q].status = "live", seat[q].at = at PROVE {q, c} \subseteq byHand'
    OBVIOUS
  <2>1. job[c].at = at
    BY <1>1, <1>8
  <2>2. q = job[c].from => W!HeldByLiveTerminal(c)
    BY DEF W!HeldByLiveTerminal, W!Adopted, W!Active
  <2> QED
    BY <2>1, <2>2 DEF TreesInv, WaitInv
<1>10. \A d \in Jobs \ {c} : agent[d] = at => {d, c} \subseteq byHand'
  <2> SUFFICES ASSUME NEW d \in Jobs \ {c}, agent[d] = at PROVE {d, c} \subseteq byHand'
    OBVIOUS
  <2>1. agent[d] \in {W!NoTree, d, job[d].from} /\ job[d].from \in Sessions \cup {W!NoTree}
    BY DEF TreesInv, JobsInv, TreeTypes
  <2>2. job[d].from = job[c].from /\ job[c].from # W!NoTree
    BY <1>0, <1>1, <2>1
  <2> QED
    BY <2>2 DEF TreesInv, TwoInv
<1> HIDE DEF at
<1>11. TreeTypes'
  BY <1>3, <1>4, <1>5 DEF TreesInv, TreeTypes, CardSeats
<1>12. SeatsInv'
  BY <1>3, <1>4, <1>5, <1>6 DEF TreesInv, SeatsInv
<1>13. JobsInv'
  BY <1>1, <1>3, <1>4, <1>7 DEF TreesInv, JobsInv, Begun, TreeTypes
<1>14. AgentInv'
  BY <1>1, <1>3, <1>4, <1>5 DEF TreesInv, AgentInv
<1>15. HereInv'
  BY <1>1, <1>3, <1>4, <1>5 DEF TreesInv, HereInv, W!Exists
<1>16. OpsInv'
  BY <1>3, <1>4 DEF TreesInv, OpsInv, Begun
<1>17. TwoInv' /\ ForeignInv'
  BY <1>3, <1>4 DEF TreesInv, TwoInv, ForeignInv
<1>18. WaitInv'
  BY <1>3, <1>4 DEF TreesInv, WaitInv
<1>19. PairsInv'
  BY <1>3, <1>4, <1>9, <1>10 DEF TreesInv, PairsInv
<1> QED
  BY <1>5, <1>11, <1>12, <1>13, <1>14, <1>15, <1>16, <1>17, <1>18, <1>19 DEF TreesInv

LEMMA StartsKeep ==
  ASSUME TreesInv, NEW c \in Jobs, W!SchedulerStarts(c) \/ W!RunsByHand(c)
  PROVE  TreesInv'
<1>1. CASE W!SchedulerStarts(c)
  BY <1>1, DrivesKeeps DEF W!SchedulerStarts
<1>2. CASE W!RunsByHand(c)
  BY <1>2, DrivesKeeps DEF W!RunsByHand
<1> QED
  BY <1>1, <1>2

LEMMA TakesOverKeeps ==
  ASSUME TreesInv, NEW c \in Jobs, W!TakesOver(c)
  PROVE  TreesInv'
<1> USE TreesApart
<1>0. /\ job \in [Jobs -> CardSeats] /\ job[c] \in CardSeats /\ c \in W!Trees /\ TreeTypes /\ GitInv
      /\ job[c].at \in {W!NoTree, c, job[c].from} /\ job[c].from \in Sessions \cup {W!NoTree}
      /\ tree \in [W!Trees -> Checkouts]
  BY DEF TreesInv, TreeTypes, CardSeats, JobsInv
<1> DEFINE has == job[c].at # W!NoTree /\ tree[job[c].at].here
           at == IF has THEN job[c].at ELSE c
           r == [job[c] EXCEPT !.status = "paused", !.at = at]
<1>1. at \in W!Owners /\ at \in {c, job[c].from} /\ (at # c => at = job[c].at /\ at \in Sessions) /\ (job[c].at = c => at = c)
  BY <1>0 DEF TreesInv, JobsInv
<1>2. r \in CardSeats /\ r.status = "paused" /\ r.at = at /\ r.from = job[c].from
  BY <1>0, <1>1 DEF CardSeats
<1>3. /\ job[c].status \in {"backlog", "queued", "running", "paused"} /\ job' = [job EXCEPT ![c] = r]
      /\ tree' = (IF has THEN tree ELSE W!Ensured(c)) /\ UNCHANGED <<seat, agent, byHand, op, letGo>>
  BY <1>0 DEF W!TakesOver
<1> HIDE DEF r
<1>4. /\ job' \in [Jobs -> CardSeats] /\ job'[c].at = at /\ job'[c].from = job[c].from /\ job'[c].status = "paused"
      /\ \A d \in Jobs \ {c} : job'[d] = job[d]
  BY <1>0, <1>1, <1>2, <1>3
<1>5. tree' \in [W!Trees -> Checkouts] /\ GitInv' /\ \A y \in W!Trees \ {c} : tree'[y] = tree[y]
  <2>1. ~has => /\ tree' \in [W!Trees -> Checkouts] /\ \A y \in W!Trees \ {c} : tree'[y] = tree[y]
                /\ tree'[c].here /\ tree'[c].branch
    BY <1>0, <1>3, EnsuredIs
  <2> QED
    BY <1>0, <1>3, <2>1 DEF GitInv
<1>6. tree'[c].here => at = c
  BY <1>1, <1>3 DEF TreesInv, HereInv
<1>7. job[c].from # W!NoTree /\ at = c => seat[job[c].from].status # "live"
  <2>1. job[c].at = job[c].from /\ job[c].from # W!NoTree /\ seat[job[c].from].status = "live" => tree[job[c].from].here
    BY <1>0 DEF TreesInv, JobsInv, SeatsInv
  <2> QED
    BY <1>0, <1>1, <2>1 DEF TreesInv, JobsInv
<1>8. agent[c] \in Sessions /\ tree[agent[c]].here => at = agent[c]
  BY <1>0 DEF TreesInv, AgentInv
<1>9. agent[c] \in {W!NoTree, c, job[c].from} /\ \A s \in Sessions : s \in W!Trees \ {c}
  BY DEF TreesInv, JobsInv
<1> HIDE DEF at, has
<1>11. TreeTypes'
  BY <1>3, <1>4, <1>5 DEF TreesInv, TreeTypes, CardSeats
<1>12. SeatsInv'
  BY <1>1, <1>3, <1>4, <1>5 DEF TreesInv, SeatsInv
<1>13. JobsInv'
  BY <1>1, <1>3, <1>4, <1>7 DEF TreesInv, JobsInv, Begun, TreeTypes
<1>14. AgentInv'
  BY <1>3, <1>4, <1>5, <1>8, <1>9 DEF TreesInv, AgentInv
<1>15. HereInv'
  BY <1>1, <1>3, <1>4, <1>5, <1>6 DEF TreesInv, HereInv, W!Exists
<1>16. OpsInv'
  BY <1>3, <1>4 DEF TreesInv, OpsInv, Begun
<1>17. TwoInv' /\ ForeignInv'
  BY <1>3, <1>4 DEF TreesInv, TwoInv, ForeignInv
<1>18. WaitInv'
  BY <1>3, <1>4 DEF TreesInv, WaitInv
<1>19. PairsInv'
  BY <1>3, <1>4 DEF TreesInv, PairsInv
<1> QED
  BY <1>5, <1>11, <1>12, <1>13, <1>14, <1>15, <1>16, <1>17, <1>18, <1>19 DEF TreesInv

\* What the board and a command line are in the middle of, and nothing else, changes.
LEMMA OpKeeps ==
  ASSUME TreesInv, OpsInv', DOMAIN op' = W!Doers, UNCHANGED <<tree, seat, job, agent, byHand, letGo>>
  PROVE  TreesInv'
<1>1. TreeTypes' /\ GitInv' /\ SeatsInv' /\ JobsInv' /\ AgentInv'
  BY DEF TreesInv, TreeTypes, GitInv, SeatsInv, JobsInv, AgentInv, Begun
<1>2. HereInv' /\ TwoInv' /\ ForeignInv' /\ WaitInv' /\ PairsInv'
  BY DEF TreesInv, HereInv, W!Exists, TwoInv, ForeignInv, WaitInv, PairsInv
<1> QED
  BY <1>1, <1>2 DEF TreesInv

LEMMA EndsAsCardKeeps ==
  ASSUME TreesInv, NEW s \in Sessions, NEW c \in Jobs, W!EndsAsCard(s, c)
  PROVE  TreesInv'
<1> DEFINE r == [do |-> "endAsCard", term |-> s, card |-> c, carried |-> tree[W!Root].dirty]
<1>1. tree[W!Root].dirty \in BOOLEAN
  BY TreesApart DEF TreesInv, TreeTypes, Checkouts
<1>2. /\ r.do = "endAsCard" /\ r.term = s /\ r.card = c /\ r.carried \in BOOLEAN /\ op' = [op EXCEPT !["board"] = r]
      /\ seat[s].status = "live" /\ job[c].status = "none" /\ UNCHANGED <<tree, seat, job, agent, byHand, letGo>>
  BY <1>1 DEF W!EndsAsCard
<1> HIDE DEF r
<1>3. DOMAIN op = W!Doers /\ DOMAIN op' = W!Doers /\ \A d \in W!Doers : op'[d] = IF d = "board" THEN r ELSE op[d]
  BY <1>2 DEF TreesInv, TreeTypes
<1>4. OpsInv'
  BY <1>2, <1>3 DEF TreesInv, OpsInv, Begun
<1> QED
  BY <1>2, <1>3, <1>4, OpKeeps

LEMMA BoardDiesKeeps ==
  ASSUME TreesInv, W!BoardDies
  PROVE  TreesInv'
<1>1. op' = [op EXCEPT !["board"] = W!NoOp] /\ W!NoOp.do = "none" /\ UNCHANGED <<tree, seat, job, agent, byHand, letGo>>
  BY DEF W!BoardDies, W!NoOp
<1>2. DOMAIN op' = W!Doers /\ \A d \in W!Doers : op'[d] = IF d = "board" THEN W!NoOp ELSE op[d]
  BY <1>1 DEF TreesInv, TreeTypes
<1>3. OpsInv'
  BY <1>1, <1>2 DEF TreesInv, OpsInv, Begun
<1> QED
  BY <1>1, <1>2, <1>3, OpKeeps

LEMMA RemovesCardKeeps ==
  ASSUME TreesInv, NEW d \in W!Doers, NEW c \in Jobs, NEW force \in BOOLEAN, NEW branch \in BOOLEAN,
         W!RemovesCard(d, c, force, branch)
  PROVE  TreesInv'
<1> DEFINE r == [do |-> "rmCard", id |-> c, force |-> force, branch |-> branch, saw |-> tree[c]]
<1>1. /\ r.do = "rmCard" /\ r.id = c /\ r.force = force /\ r.branch = branch /\ r.saw = tree[c] /\ op' = [op EXCEPT ![d] = r]
      /\ job[c].status # "none" /\ (d = "board" => force \/ ~tree[c].dirty) /\ UNCHANGED <<tree, seat, job, agent, byHand, letGo>>
  BY DEF W!RemovesCard, W!Exists
<1> HIDE DEF r
<1>2. DOMAIN op' = W!Doers /\ \A e \in W!Doers : op'[e] = IF e = d THEN r ELSE op[e]
  BY <1>1 DEF TreesInv, TreeTypes
<1>3. OpsInv'
  BY <1>1, <1>2 DEF TreesInv, OpsInv, Begun
<1> QED
  BY <1>1, <1>2, <1>3, OpKeeps

\* What a step that only moves one card needs: where it is, and who is there.
LEMMA CardAdoptsKeeps ==
  ASSUME TreesInv, W!CardAdopts
  PROVE  TreesInv'
<1> USE TreesApart
<1> DEFINE s == op["board"].term
           c == op["board"].card
           others == {d \in Jobs : job[d].from = s}
           r == [status |-> "backlog", at |-> s, from |-> s]
<1>1. /\ s \in Sessions /\ c \in Jobs /\ job[c].status = "none" /\ Begun(s) /\ seat[s].at = s
      /\ job[c].at = W!NoTree /\ job[c].from = W!NoTree /\ agent[c] = W!NoTree
  BY DEF W!CardAdopts, TreesInv, OpsInv, JobsInv, W!Doers
<1>2. /\ job' = [job EXCEPT ![c] = r] /\ op' = [op EXCEPT !["board"] = W!NoOp] /\ UNCHANGED <<tree, seat, agent, letGo>>
      /\ byHand' = byHand \cup IF others = {} THEN {} ELSE {c} \cup others \cup W!Writers(s)
  BY DEF W!CardAdopts
<1>3. r \in CardSeats /\ r.status = "backlog" /\ r.at = s /\ r.from = s
  BY <1>1 DEF CardSeats, W!Owners
<1>4. byHand \subseteq byHand' /\ \A d \in Jobs : job[d].from = s => {c, d} \cup W!Writers(s) \subseteq byHand'
  BY <1>2
<1> HIDE DEF r, s, c, others
<1>5. /\ job' \in [Jobs -> CardSeats] /\ job'[c].at = s /\ job'[c].from = s /\ job'[c].status = "backlog"
      /\ \A d \in Jobs \ {c} : job'[d] = job[d]
  BY <1>1, <1>2, <1>3 DEF TreesInv, TreeTypes, CardSeats
<1>6. DOMAIN op' = W!Doers /\ W!NoOp.do = "none" /\ \A d \in W!Doers : op'[d] = IF d = "board" THEN W!NoOp ELSE op[d]
  BY <1>2 DEF TreesInv, TreeTypes, W!NoOp
<1>7. \A q \in Sessions \ {s} : seat[q].at = s /\ seat[q].status = "live" => {q, c} \subseteq byHand'
  <2> SUFFICES ASSUME NEW q \in Sessions \ {s}, seat[q].at = s, seat[q].status = "live" PROVE {q, c} \subseteq byHand'
    OBVIOUS
  <2>1. PICK d \in Jobs : job[d].from = s
    BY <1>1 DEF TreesInv, SeatsInv
  <2>2. q \in W!Writers(s)
    BY DEF W!Writers
  <2> QED
    BY <1>4, <2>1, <2>2
<1>11. TreeTypes' /\ GitInv'
  BY <1>2, <1>5, <1>6 DEF TreesInv, TreeTypes, CardSeats, GitInv
<1>12. SeatsInv'
  BY <1>1, <1>2, <1>5 DEF TreesInv, SeatsInv
<1>13. JobsInv'
  BY <1>1, <1>2, <1>5 DEF TreesInv, JobsInv, Begun, TreeTypes
<1>14. AgentInv'
  BY <1>1, <1>2, <1>5 DEF TreesInv, AgentInv
<1>15. HereInv'
  BY <1>1, <1>2, <1>5 DEF TreesInv, HereInv, W!Exists
<1>16. OpsInv'
  BY <1>2, <1>5, <1>6 DEF TreesInv, OpsInv, Begun
<1>17. TwoInv' /\ ForeignInv'
  BY <1>1, <1>2, <1>4, <1>5, <1>7 DEF TreesInv, TwoInv, ForeignInv
<1>18. WaitInv'
  BY <1>2, <1>4, <1>5, <1>7 DEF TreesInv, WaitInv
<1>19. PairsInv'
  BY <1>2, <1>4 DEF TreesInv, PairsInv
<1> QED
  BY <1>11, <1>12, <1>13, <1>14, <1>15, <1>16, <1>17, <1>18, <1>19 DEF TreesInv

LEMMA CardCarriesKeeps ==
  ASSUME TreesInv, W!CardCarries
  PROVE  TreesInv'
<1> USE TreesApart
<1> DEFINE s == op["board"].term
           c == op["board"].card
           r == [status |-> "queued", at |-> c, from |-> W!NoTree]
<1>1. /\ s \in Sessions /\ c \in Jobs /\ job[c].status = "none" /\ op["board"].carried \in BOOLEAN
      /\ job[c].at = W!NoTree /\ job[c].from = W!NoTree /\ agent[c] = W!NoTree /\ c \in W!Trees
  BY DEF W!CardCarries, TreesInv, OpsInv, JobsInv, W!Doers
<1>2. op' = [op EXCEPT !["board"] = W!NoOp] /\ UNCHANGED <<seat, agent, byHand, letGo>>
  BY DEF W!CardCarries
<1>3. DOMAIN op' = W!Doers /\ W!NoOp.do = "none" /\ \A d \in W!Doers : op'[d] = IF d = "board" THEN W!NoOp ELSE op[d]
  BY <1>2 DEF TreesInv, TreeTypes, W!NoOp
<1>4. CASE UNCHANGED <<tree, job>>
  <2>1. OpsInv'
    BY <1>2, <1>3, <1>4 DEF TreesInv, OpsInv, Begun
  <2> QED
    BY <1>2, <1>3, <1>4, <2>1, OpKeeps
<1>5. CASE tree' = [W!Ensured(c) EXCEPT ![c].dirty = op["board"].carried] /\ job' = [job EXCEPT ![c] = r]
  <2>1. r \in CardSeats /\ r.status = "queued" /\ r.at = c /\ r.from = W!NoTree
    BY <1>1 DEF CardSeats, W!Owners
  <2> DEFINE e == W!Ensured(c)
             k == [e[c] EXCEPT !.dirty = op["board"].carried]
  <2>2. TreeTypes /\ GitInv
    BY DEF TreesInv
  <2>3. /\ e \in [W!Trees -> Checkouts] /\ e[c] \in Checkouts /\ e[c].here /\ e[c].branch
        /\ \A y \in W!Trees \ {c} : e[y] = tree[y]
    BY <1>1, <2>2, EnsuredIs
  <2> HIDE DEF e
  <2>4. k \in Checkouts /\ k.here /\ k.branch
    BY <1>1, <2>3 DEF Checkouts
  <2>5. tree' = [e EXCEPT ![c] = k]
    BY <1>5 DEF e
  <2> HIDE DEF k
  <2>6. tree' \in [W!Trees -> Checkouts] /\ tree'[c].here /\ tree'[c].branch /\ \A y \in W!Trees \ {c} : tree'[y] = tree[y]
    BY <1>1, <2>3, <2>4, <2>5
  <2> HIDE DEF r, s, c
  <2>7. /\ job' \in [Jobs -> CardSeats] /\ job'[c].at = c /\ job'[c].from = W!NoTree /\ job'[c].status = "queued"
        /\ \A d \in Jobs \ {c} : job'[d] = job[d]
    BY <1>1, <1>5, <2>1 DEF TreesInv, TreeTypes, CardSeats
  <2>8. \A q \in Sessions : seat[q].at # c
    BY <1>1 DEF TreesInv, SeatsInv
  <2>11. TreeTypes' /\ GitInv'
    BY <1>2, <1>3, <2>6, <2>7 DEF TreesInv, TreeTypes, CardSeats, GitInv
  <2>12. SeatsInv'
    BY <1>1, <1>2, <2>6, <2>7 DEF TreesInv, SeatsInv
  <2>13. JobsInv'
    BY <1>1, <1>2, <2>7 DEF TreesInv, JobsInv, Begun, TreeTypes
  <2>14. AgentInv'
    BY <1>1, <1>2, <2>6, <2>7 DEF TreesInv, AgentInv
  <2>15. HereInv'
    BY <1>1, <1>2, <2>6, <2>7 DEF TreesInv, HereInv, W!Exists
  <2>16. OpsInv'
    BY <1>2, <1>3, <2>7 DEF TreesInv, OpsInv, Begun
  <2>17. TwoInv' /\ ForeignInv'
    BY <1>1, <1>2, <2>7 DEF TreesInv, TwoInv, ForeignInv
  <2>18. WaitInv'
    BY <1>2, <2>7, <2>8 DEF TreesInv, WaitInv
  <2>19. PairsInv'
    BY <1>2 DEF TreesInv, PairsInv
  <2> QED
    BY <2>11, <2>12, <2>13, <2>14, <2>15, <2>16, <2>17, <2>18, <2>19 DEF TreesInv
<1> QED
  BY <1>4, <1>5 DEF W!CardCarries

\* A card's status changes, and it does not begin to wait at a place it did not wait at.
LEMMA StatusKeeps ==
  ASSUME TreesInv, NEW c \in Jobs, NEW st \in {"queued", "removed"}, W!Exists(c),
         job' = [job EXCEPT ![c].status = st], UNCHANGED <<seat, agent, byHand>>,
         DOMAIN op' = W!Doers, \A d \in W!Doers : op'[d] = op[d] \/ op'[d] = W!NoOp,
         st = "queued" => job[c].status = "backlog",
         tree' \in [W!Trees -> Checkouts], GitInv', \A x \in W!Trees \ {c} : tree'[x] = tree[x],
         tree'[c].here => tree[c].here, letGo \subseteq letGo', st = "removed" /\ tree'[c].here => c \in letGo'
  PROVE  TreesInv'
<1> USE TreesApart
<1>0. job \in [Jobs -> CardSeats] /\ job[c] \in CardSeats /\ job[c].status # "none" /\ W!NoOp.do = "none"
  BY DEF TreesInv, TreeTypes, CardSeats, W!Exists, W!NoOp
<1> DEFINE r == [job[c] EXCEPT !.status = st]
<1>1. job' = [job EXCEPT ![c] = r] /\ r \in CardSeats /\ r.status = st /\ r.at = job[c].at /\ r.from = job[c].from
  BY <1>0 DEF CardSeats
<1> HIDE DEF r
<1>2. /\ job' \in [Jobs -> CardSeats] /\ job'[c].at = job[c].at /\ job'[c].from = job[c].from /\ job'[c].status = st
      /\ \A d \in Jobs \ {c} : job'[d] = job[d]
  BY <1>0, <1>1
<1>3. TreeTypes' /\ SeatsInv'
  BY <1>2 DEF TreesInv, TreeTypes, CardSeats, SeatsInv
<1>4. JobsInv' /\ AgentInv'
  BY <1>0, <1>2 DEF TreesInv, JobsInv, AgentInv, Begun, TreeTypes
<1>5. HereInv'
  BY <1>0, <1>2 DEF TreesInv, HereInv, W!Exists
<1>6. OpsInv'
  BY <1>0, <1>2 DEF TreesInv, OpsInv, Begun
<1>7. TwoInv' /\ ForeignInv' /\ PairsInv'
  BY <1>2 DEF TreesInv, TwoInv, ForeignInv, PairsInv
<1>8. WaitInv'
  BY <1>2 DEF TreesInv, WaitInv
<1> QED
  BY <1>3, <1>4, <1>5, <1>6, <1>7, <1>8 DEF TreesInv

LEMMA TimerFiresKeeps ==
  ASSUME TreesInv, NEW c \in Jobs, W!TimerFires(c)
  PROVE  TreesInv'
<1>1. UNCHANGED <<tree, seat, agent, op, byHand, letGo>> /\ DOMAIN op = W!Doers /\ tree \in [W!Trees -> Checkouts] /\ GitInv
  BY DEF W!TimerFires, TreesInv, TreeTypes
<1>2. OpsInv' \/ job' # job
  BY <1>1 DEF TreesInv, OpsInv, Begun
<1>3. CASE job' = job
  BY <1>1, <1>2, <1>3, OpKeeps
<1>4. CASE job' = [job EXCEPT ![c].status = "queued"] /\ job[c].status = "backlog"
  <2>1. GitInv' /\ W!Exists(c)
    BY <1>1, <1>4 DEF GitInv, W!Exists
  <2> QED
    BY <1>1, <1>4, <2>1, StatusKeeps
<1> QED
  BY <1>3, <1>4 DEF W!TimerFires

\* The record of a terminal that is over changes, or what the board is in the middle of.
LEMMA ForgetsKeeps ==
  ASSUME TreesInv, NEW s \in Sessions, seat[s].status \in {"ended", "removed"}, W!Forgets(s) \/ UNCHANGED seat,
         UNCHANGED <<job, agent, byHand>>, DOMAIN op' = W!Doers, \A d \in W!Doers : op'[d] = op[d] \/ op'[d] = W!NoOp,
         tree' \in [W!Trees -> Checkouts], GitInv', \A x \in W!Trees \ {s} : tree'[x] = tree[x],
         tree'[s].here => tree[s].here, letGo \subseteq letGo', tree'[s].here => s \in letGo' \/ UNCHANGED seat
  PROVE  TreesInv'
<1> USE TreesApart
<1>0. seat \in [Sessions -> TermSeats] /\ seat[s] \in TermSeats /\ W!NoOp.do = "none"
  BY DEF TreesInv, TreeTypes, TermSeats, W!NoOp
<1>1. /\ seat' \in [Sessions -> TermSeats] /\ seat'[s].status \in {"ended", "removed"} /\ seat'[s].at = seat[s].at
      /\ \A q \in Sessions \ {s} : seat'[q] = seat[q]
      /\ (tree'[s].here => s \in letGo' \/ seat'[s] = seat[s])
  <2>1. CASE W!Forgets(s)
    <3> DEFINE r == [seat[s] EXCEPT !.status = "removed"]
    <3>1. seat' = [seat EXCEPT ![s] = r] /\ r \in TermSeats /\ r.status = "removed" /\ r.at = seat[s].at
      BY <1>0, <2>1 DEF W!Forgets, TermSeats
    <3> HIDE DEF r
    <3> QED
      BY <1>0, <2>1, <3>1
  <2> QED
    BY <1>0, <2>1
<1>3. TreeTypes'
  BY <1>1 DEF TreesInv, TreeTypes, TermSeats
<1>4. SeatsInv'
  BY <1>1 DEF TreesInv, SeatsInv
<1>5. JobsInv' /\ AgentInv'
  BY <1>1 DEF TreesInv, JobsInv, AgentInv, Begun, TreeTypes
<1>6. HereInv'
  BY <1>1 DEF TreesInv, HereInv, W!Exists
<1>7. OpsInv'
  BY <1>0, <1>1 DEF TreesInv, OpsInv, Begun
<1>8. TwoInv' /\ ForeignInv' /\ WaitInv' /\ PairsInv'
  BY <1>1 DEF TreesInv, TwoInv, ForeignInv, WaitInv, PairsInv
<1> QED
  BY <1>3, <1>4, <1>5, <1>6, <1>7, <1>8 DEF TreesInv

LEMMA RemovesTerminalKeeps ==
  ASSUME TreesInv, NEW d \in W!Doers, NEW s \in Sessions, NEW force \in BOOLEAN, W!RemovesTerminal(d, s, force)
  PROVE  TreesInv'
<1>1. /\ seat[s].status = "ended" /\ UNCHANGED <<tree, job, agent, byHand>> /\ DOMAIN op = W!Doers
      /\ tree \in [W!Trees -> Checkouts] /\ GitInv
  BY DEF W!RemovesTerminal, TreesInv, TreeTypes
<1>2. CASE seat[s].at = s /\ W!Clean(s)
  <2> DEFINE r == [do |-> "rmTerm", id |-> s, force |-> force, saw |-> tree[s]]
  <2>1. /\ r.do = "rmTerm" /\ r.id = s /\ r.saw = tree[s] /\ op' = [op EXCEPT ![d] = r] /\ ~tree[s].dirty
        /\ UNCHANGED <<seat, letGo>>
    BY <1>2 DEF W!RemovesTerminal, W!Clean
  <2> HIDE DEF r
  <2>2. DOMAIN op' = W!Doers /\ \A e \in W!Doers : op'[e] = IF e = d THEN r ELSE op[e]
    BY <1>1, <2>1
  <2>3. OpsInv'
    BY <1>1, <1>2, <2>1, <2>2 DEF TreesInv, OpsInv, Begun
  <2> QED
    BY <1>1, <2>1, <2>2, <2>3, OpKeeps
<1>3. CASE ~(seat[s].at = s /\ W!Clean(s))
  <2>1. W!Forgets(s) /\ UNCHANGED op /\ letGo' = letGo \cup IF seat[s].at = s THEN {s} ELSE {}
    BY <1>3 DEF W!RemovesTerminal
  <2>2. tree[s].here => s \in letGo'
    BY <2>1 DEF TreesInv, HereInv
  <2>3. GitInv' /\ letGo \subseteq letGo'
    BY <1>1, <2>1 DEF GitInv
  <2> QED
    BY <1>1, <2>1, <2>2, <2>3, ForgetsKeeps
<1> QED
  BY <1>2, <1>3

LEMMA TerminalRemovedKeeps ==
  ASSUME TreesInv, NEW d \in W!Doers, W!TerminalRemoved(d)
  PROVE  TreesInv'
<1> DEFINE s == op[d].id
           removed == W!Removable(s, FALSE)
<1>1. /\ s \in Sessions /\ seat[s].status \in {"ended", "removed"} /\ seat[s].at = s /\ ~op[d].saw.dirty
      /\ UNCHANGED <<job, agent, byHand>> /\ TreeTypes /\ GitInv /\ tree \in [W!Trees -> Checkouts] /\ DOMAIN op = W!Doers
      /\ s \in W!Trees
  BY TreesApart DEF W!TerminalRemoved, TreesInv, OpsInv, TreeTypes
<1>2. op' = [op EXCEPT ![d] = W!NoOp] /\ tree' = (IF removed THEN W!Without(s, FALSE, TRUE) ELSE tree)
  BY DEF W!TerminalRemoved
<1>3. /\ W!Forgets(s) \/ UNCHANGED seat
      /\ letGo \subseteq letGo' /\ (tree[s] # op[d].saw => s \in letGo' \/ UNCHANGED seat)
  BY DEF W!TerminalRemoved
<1> HIDE DEF s
<1>4. removed => /\ tree' \in [W!Trees -> Checkouts] /\ \A y \in W!Trees \ {s} : tree'[y] = tree[y]
                 /\ ~tree'[s].here /\ ~tree'[s].dirty /\ (tree'[s].ahead => tree'[s].branch)
  BY <1>1, <1>2, WithoutIs
<1>5. /\ tree' \in [W!Trees -> Checkouts] /\ \A y \in W!Trees \ {s} : tree'[y] = tree[y]
      /\ GitInv' /\ (tree'[s].here => tree[s].here /\ tree[s].dirty)
  <2>1. CASE removed
    BY <1>1, <1>4, <2>1 DEF GitInv
  <2>2. CASE ~removed
    BY <1>1, <1>2, <2>2 DEF GitInv, W!Removable
  <2> QED
    BY <2>1, <2>2
<1>6. tree'[s].here => tree[s] # op[d].saw
  BY <1>1, <1>5
<1>7. DOMAIN op' = W!Doers /\ \A e \in W!Doers : op'[e] = op[e] \/ op'[e] = W!NoOp
  BY <1>1, <1>2
<1> HIDE DEF removed
<1>8. tree'[s].here => s \in letGo' \/ UNCHANGED seat
  BY <1>3, <1>6
<1> QED
  BY <1>1, <1>3, <1>5, <1>7, <1>8, ForgetsKeeps

LEMMA CardRemovedKeeps ==
  ASSUME TreesInv, NEW d \in W!Doers, W!CardRemoved(d)
  PROVE  TreesInv'
<1> DEFINE c == op[d].id
           f == op[d].force
           refused == tree[c].here /\ ~W!Removable(c, f)
           kept == IF refused THEN d = "cli" ELSE d = "board" /\ op[d].branch /\ ~W!Deletable(c, f)
<1>1. /\ c \in Jobs /\ job[c].status # "none" /\ (d = "board" /\ ~f => ~op[d].saw.dirty)
      /\ UNCHANGED <<seat, agent, byHand>> /\ TreeTypes /\ GitInv /\ tree \in [W!Trees -> Checkouts] /\ DOMAIN op = W!Doers
      /\ c \in W!Trees /\ f \in BOOLEAN /\ op[d].branch \in BOOLEAN
  BY TreesApart DEF W!CardRemoved, TreesInv, OpsInv, TreeTypes
<1>2. /\ op' = [op EXCEPT ![d] = W!NoOp] /\ tree' = (IF refused THEN tree ELSE W!Without(c, f, op[d].branch))
      /\ job' = (IF kept \/ ~W!Exists(c) THEN job ELSE [job EXCEPT ![c].status = "removed"])
      /\ letGo' = letGo \cup IF ~kept /\ (f \/ d = "cli" \/ tree[c] # op[d].saw \/ ~op[d].branch) THEN {c} ELSE {}
  BY DEF W!CardRemoved
<1>3. ~refused => /\ tree' \in [W!Trees -> Checkouts] /\ \A y \in W!Trees \ {c} : tree'[y] = tree[y]
                  /\ ~tree'[c].here /\ ~tree'[c].dirty /\ (tree'[c].ahead => tree'[c].branch)
  BY <1>1, <1>2, WithoutIs
<1>4. refused => ~f /\ tree[c].dirty
  BY DEF W!Removable
<1>5. /\ tree' \in [W!Trees -> Checkouts] /\ \A y \in W!Trees \ {c} : tree'[y] = tree[y]
      /\ GitInv' /\ (tree'[c].here => tree[c].here /\ refused)
  <2>1. CASE refused
    BY <1>1, <1>2, <2>1 DEF GitInv
  <2>2. CASE ~refused
    BY <1>1, <1>3, <2>2 DEF GitInv
  <2> QED
    BY <2>1, <2>2
<1>6. tree'[c].here /\ ~kept => c \in letGo'
  <2> SUFFICES ASSUME tree'[c].here, ~kept PROVE c \in letGo'
    OBVIOUS
  <2>1. refused /\ d # "cli"
    BY <1>5
  <2>2. d = "board"
    BY <2>1 DEF W!Doers
  <2>3. tree[c] # op[d].saw
    BY <1>1, <1>4, <2>1, <2>2
  <2> QED
    BY <1>2, <2>3
<1>7. DOMAIN op' = W!Doers /\ (\A e \in W!Doers : op'[e] = op[e] \/ op'[e] = W!NoOp) /\ letGo \subseteq letGo'
  BY <1>1, <1>2
<1>8. CASE ~kept /\ W!Exists(c)
  <2>1. job' = [job EXCEPT ![c].status = "removed"]
    BY <1>2, <1>8
  <2> HIDE DEF c, kept, refused
  <2> QED
    BY <1>1, <1>5, <1>6, <1>7, <1>8, <2>1, StatusKeeps
<1>9. CASE kept \/ ~W!Exists(c)
  <2>1. UNCHANGED job
    BY <1>2, <1>9
  <2>2. tree[c].here /\ ~W!Exists(c) => c \in letGo'
    BY <1>1, <1>7 DEF TreesInv, HereInv
  <2> HIDE DEF c, f, kept, refused
  <2>3. TreeTypes'
    BY <1>1, <1>5, <1>7, <2>1 DEF TreeTypes
  <2>4. SeatsInv' /\ JobsInv' /\ AgentInv'
    BY <1>1, <1>5, <2>1, TreesApart DEF TreesInv, SeatsInv, JobsInv, AgentInv, Begun
  <2>5. HereInv'
    BY <1>1, <1>5, <1>7, <2>1, <2>2, TreesApart DEF TreesInv, HereInv, W!Exists
  <2>6. W!NoOp.do = "none"
    BY DEF W!NoOp
  <2>7. OpsInv'
    BY <1>1, <1>7, <2>1, <2>6 DEF TreesInv, OpsInv, Begun
  <2>8. TwoInv' /\ ForeignInv' /\ WaitInv' /\ PairsInv'
    BY <1>1, <2>1 DEF TreesInv, TwoInv, ForeignInv, WaitInv, PairsInv
  <2> QED
    BY <1>5, <2>3, <2>4, <2>5, <2>7, <2>8 DEF TreesInv
<1> QED
  BY <1>8, <1>9

LEMMA TreesStep == TreesInv /\ W!WorktreesNext => TreesInv'
<1> SUFFICES ASSUME TreesInv, W!WorktreesNext PROVE TreesInv'
  OBVIOUS
<1>1. CASE \E s \in Sessions : W!TermStarts(s) \/ W!Isolates(s) \/ W!TermEnds(s)
  BY <1>1, TermStartsKeeps, IsolatesKeeps, TermEndsKeeps
<1>2. CASE \E s \in Sessions, c \in Jobs : W!Attaches(s, c) \/ W!EndsAsCard(s, c)
  BY <1>2, AttachesKeeps, EndsAsCardKeeps
<1>3. CASE \E s \in Sessions, d \in W!Doers, force \in BOOLEAN : W!RemovesTerminal(d, s, force)
  BY <1>3, RemovesTerminalKeeps
<1>4. CASE \E x \in W!Trees : W!FilesChange(x) \/ W!Commits(x) \/ W!Lands(x)
  BY <1>4, WorkSteps
<1>5. CASE \E c \in Jobs : W!CardAdded(c) \/ W!Enqueues(c) \/ W!SchedulerStarts(c) \/ W!RunsByHand(c)
  BY <1>5, CardAddedKeeps, EnqueuesKeeps, StartsKeep
<1>6. CASE \E c \in Jobs : W!AgentStops(c) \/ W!TakesOver(c) \/ W!TimerFires(c)
  BY <1>6, AgentStopsKeeps, TakesOverKeeps, TimerFiresKeeps
<1>7. CASE \E c \in Jobs, d \in W!Doers, force \in BOOLEAN, branch \in BOOLEAN : W!RemovesCard(d, c, force, branch)
  BY <1>7, RemovesCardKeeps
<1>8. CASE \E d \in W!Doers : W!TerminalRemoved(d) \/ W!CardRemoved(d)
  BY <1>8, TerminalRemovedKeeps, CardRemovedKeeps
<1>9. CASE W!CardAdopts \/ W!CardCarries \/ W!BoardDies
  BY <1>9, CardAdoptsKeeps, CardCarriesKeeps, BoardDiesKeeps
<1> QED
  BY <1>1, <1>2, <1>3, <1>4, <1>5, <1>6, <1>7, <1>8, <1>9 DEF W!WorktreesNext

LEMMA TreesRest == TreesInv /\ UNCHANGED W!treevars => TreesInv'
<1> SUFFICES ASSUME TreesInv, UNCHANGED W!treevars PROVE TreesInv'
  OBVIOUS
<1>1. UNCHANGED <<tree, seat, job, agent, op, byHand, letGo>>
  BY DEF W!treevars
<1>2. OpsInv' /\ DOMAIN op' = W!Doers
  BY <1>1 DEF TreesInv, OpsInv, Begun, TreeTypes
<1> QED
  BY <1>1, <1>2, OpKeeps

\* Of those who work in one checkout none is there unless alone or put there by hand.
LEMMA WritersApart ==
  ASSUME TreesInv, NEW x \in W!Trees
  PROVE  LET them == W!Writers(x) \cup {c \in Jobs : agent[c] = x}
         IN them \subseteq byHand \/ \E o : them = {o}
<1> DEFINE them == W!Writers(x) \cup {c \in Jobs : agent[c] = x}
<1>1. SUFFICES ASSUME NEW o \in them, o \notin byHand PROVE them = {o}
  OBVIOUS
<1>2. \A o2 \in them : o2 = o
  <2> SUFFICES ASSUME NEW o2 \in them, o2 # o PROVE FALSE
    OBVIOUS
  <2>1. CASE o \in W!Writers(x) /\ o2 \in W!Writers(x)
    BY <1>1, <2>1 DEF W!Writers, TreesInv, PairsInv
  <2>2. CASE (o \in W!Writers(x) /\ o2 \in Jobs /\ agent[o2] = x) \/ (o2 \in W!Writers(x) /\ o \in Jobs /\ agent[o] = x)
    BY <1>1, <2>2 DEF W!Writers, TreesInv, PairsInv
  <2>3. CASE o \in Jobs /\ agent[o] = x /\ o2 \in Jobs /\ agent[o2] = x
    <3>1. x # W!NoTree
      BY TreesApart
    <3> QED
      BY <1>1, <2>3, <3>1 DEF TreesInv, PairsInv
  <2> QED
    BY <2>1, <2>2, <2>3
<1> QED
  BY <1>1, <1>2

LEMMA CountedAlike == \A S : W!Cardinality(S) = Cardinality(S) /\ C!Cardinality(S) = Cardinality(S)
BY DEF W!Cardinality, C!Cardinality, Cardinality

LEMMA OneWriterStays == TreesInv => W!OneWriter
<1> SUFFICES ASSUME TreesInv PROVE W!OneWriter
  OBVIOUS
<1>1. ASSUME NEW x \in W!Trees, NEW a, a = {c \in Jobs : agent[c] = x}, Cardinality(W!Writers(x)) + Cardinality(a) > 1
      PROVE  W!Writers(x) \cup a \subseteq byHand
  <2>1. W!Writers(x) \cap a = {}
    BY <1>1, TreesApart DEF W!Writers
  <2> DEFINE w == W!Writers(x)
  <2>2. ASSUME NEW o, w \cup a = {o} PROVE FALSE
    <3> HIDE DEF w
    <3>1. Cardinality({o}) = 1 /\ Cardinality({}) = 0
      BY FS_Singleton, FS_EmptySet
    <3>2. (w = {o} /\ a = {}) \/ (w = {} /\ a = {o})
      BY <2>1, <2>2 DEF w
    <3> QED
      BY <1>1, <3>1, <3>2 DEF w
  <2> QED
    BY <1>1, <2>2, WritersApart
<1>2. ASSUME NEW x \in W!Trees PROVE LET a == {c \in Jobs : agent[c] = x}
                                       IN  W!Cardinality(W!Writers(x)) + W!Cardinality(a) > 1 => W!Writers(x) \cup a \subseteq byHand
  <2> DEFINE a == {c \in Jobs : agent[c] = x}
  <2> QED
    BY <1>1, <1>2, CountedAlike
<1> QED
  BY <1>2 DEF W!OneWriter

LEMMA WorkHasName == TreesInv => W!WorkIsNamed
BY DEF TreesInv, HereInv, SeatsInv, W!WorkIsNamed, W!Owners

\* Only what a forced removal of a card takes away is lost.
LEMMA WorkStays == TreesInv /\ W!WorktreesNext => W!WorkIsKept
<1> SUFFICES ASSUME TreesInv, W!WorktreesNext, NEW x \in W!Owners, (tree[x].dirty /\ ~tree'[x].here) \/ (tree[x].ahead /\ ~tree'[x].branch)
             PROVE  \E d \in W!Doers : op[d] # op'[d] /\ op[d].do = "rmCard" /\ op[d].force
  BY DEF W!WorkIsKept
<1>1. x \in W!Trees /\ TreeTypes /\ GitInv /\ tree \in [W!Trees -> Checkouts] /\ tree[x] \in Checkouts
      /\ (tree[x].dirty => tree[x].here) /\ (tree[x].ahead => tree[x].branch)
  BY DEF TreesInv, TreeTypes, GitInv, W!Trees
<1>2. ASSUME NEW y \in W!Trees PROVE tree' # W!Ensured(y)
  BY <1>1, <1>2, EnsuredIs
<1>3. tree' # tree
  BY <1>1
<1>4. ASSUME NEW y \in W!Trees, W!FilesChange(y) \/ W!Commits(y) \/ W!Lands(y) PROVE FALSE
  <2>1. tree'[x].here = tree[x].here /\ tree'[x].branch = tree[x].branch
    BY <1>1, <1>4 DEF W!FilesChange, W!Commits, W!Lands, Checkouts
  <2> QED
    BY <1>1, <2>1
<1>5. ASSUME NEW s \in Sessions, W!Isolates(s) PROVE FALSE
  BY <1>2, <1>3, <1>5, TreesApart DEF W!Isolates
<1>6. ASSUME NEW c \in Jobs, W!Drives(c) \/ W!TakesOver(c) PROVE FALSE
  BY <1>2, <1>3, <1>6, TreesApart DEF W!Drives, W!TakesOver
<1>7. ASSUME W!CardCarries PROVE FALSE
  <2> DEFINE c == op["board"].card
  <2>1. c \in W!Trees
    BY <1>7, TreesApart DEF W!CardCarries, TreesInv, OpsInv, W!Doers
  <2>2. tree' = [W!Ensured(c) EXCEPT ![c].dirty = op["board"].carried]
    BY <1>3, <1>7 DEF W!CardCarries
  <2> DEFINE e == W!Ensured(c)
  <2>3. e \in [W!Trees -> Checkouts] /\ e[c] \in Checkouts /\ e[c].here /\ e[c].branch /\ \A y \in W!Trees \ {c} : e[y] = tree[y]
    BY <1>1, <2>1, EnsuredIs
  <2> HIDE DEF e
  <2>4. tree'[x].here = e[x].here /\ tree'[x].branch = e[x].branch
    BY <1>1, <2>1, <2>2, <2>3 DEF Checkouts, e
  <2> QED
    BY <1>1, <2>3, <2>4
<1>8. ASSUME NEW d \in W!Doers, W!TerminalRemoved(d) PROVE FALSE
  <2> DEFINE s == op[d].id
  <2>1. s \in W!Trees
    BY <1>8, TreesApart DEF W!TerminalRemoved, TreesInv, OpsInv
  <2>2. W!Removable(s, FALSE) /\ tree' = W!Without(s, FALSE, TRUE)
    BY <1>3, <1>8 DEF W!TerminalRemoved
  <2> HIDE DEF s
  <2> QED
    BY <1>1, <2>1, <2>2, WithoutIs DEF W!Removable
<1>9. ASSUME NEW d \in W!Doers, W!CardRemoved(d) PROVE op[d] # op'[d] /\ op[d].do = "rmCard" /\ op[d].force
  <2> DEFINE c == op[d].id
             f == op[d].force
             b == op[d].branch
  <2>1. c \in W!Trees /\ f \in BOOLEAN /\ b \in BOOLEAN /\ op[d].do = "rmCard"
    BY <1>9, TreesApart DEF W!CardRemoved, TreesInv, OpsInv
  <2>2. (~tree[c].here \/ W!Removable(c, f)) /\ tree' = W!Without(c, f, b)
    BY <1>3, <1>9 DEF W!CardRemoved
  <2>3. op'[d].do = "none"
    BY <1>9 DEF W!CardRemoved, W!NoOp, TreesInv, TreeTypes
  <2> HIDE DEF c, f, b
  <2>4. f
    BY <1>1, <2>1, <2>2, WithoutIs DEF W!Removable
  <2> QED
    BY <2>1, <2>3, <2>4 DEF f
<1> QED
  BY <1>3, <1>4, <1>5, <1>6, <1>7, <1>8, <1>9 DEF W!WorktreesNext, W!TermStarts, W!TermEnds, W!Attaches, W!EndsAsCard, W!RemovesTerminal, W!CardAdded,
     W!Enqueues, W!SchedulerStarts, W!RunsByHand, W!AgentStops, W!TimerFires, W!RemovesCard, W!CardAdopts, W!BoardDies

-----------------------------------------------------------------------------
(* The list of checkouts (Checkouts.tla).                                  *)

Lives == {"absent", "active", "ended"}
Lists == [phase : {"idle", "list", "status"}, left : Seq(C!Items), running : SUBSET C!Items, out : SUBSET C!Items,
          knows : Nat, seen : [1..Records -> Lives]]
Kepts == [has : BOOLEAN, fresh : BOOLEAN, knows : Nat, owner : Nat, live : BOOLEAN]
ListTypes ==
  /\ lives \in [1..Records -> Lives] /\ news \in Nat /\ cache \in [Queries -> Kepts] /\ inflight \in [Queries -> Lists]
  /\ waits \in [Queries -> BOOLEAN] /\ shown \in [Queries -> Nat]
\* What a phase asks git about, and what of it is still to be asked.
Whole(ph) == IF ph = "list" THEN Repos ELSE Paths
Elements(s) == {s[k] : k \in 1..Len(s)}
\* A list in the making has few processes, and loses nothing of what it is to ask.
PoolInv ==
  \A q \in Queries : LET p == inflight[q] IN
    /\ IsFiniteSet(p.running) /\ Cardinality(p.running) <= Concurrency
    /\ p.phase = "idle" => p.running = {}
    /\ p.phase # "idle" => p.out \cup p.running \cup Elements(p.left) = Elements(Whole(p.phase))
\* Nobody waits for a list that is not in the making, and what is in the making knows the most.
NewsInv ==
  \A q \in Queries :
    /\ waits[q] => inflight[q].phase # "idle"
    /\ cache[q].fresh => cache[q].has
    /\ shown[q] <= cache[q].knows /\ cache[q].knows <= news
    /\ inflight[q].phase # "idle" => cache[q].knows <= inflight[q].knows /\ inflight[q].knows <= news
CheckoutsInv == ListTypes /\ PoolInv /\ NewsInv

LEMMA CheckoutsAre ==
  /\ Concurrency \in Nat \ {0} /\ Records \in Nat /\ Repos \in Seq(C!Items) /\ Paths \in Seq(C!Items)
  /\ \A ph : Whole(ph) \in Seq(C!Items)
<1>1. /\ Repos \in Seq({Repos[k] : k \in DOMAIN Repos}) /\ Paths \in Seq({Paths[k] : k \in DOMAIN Paths})
      /\ Concurrency \in Nat \ {0} /\ Records \in Nat
  BY TreesAssumption DEF C!CheckoutsAssumption
<1>2. DOMAIN Repos = 1..Len(Repos) /\ DOMAIN Paths = 1..Len(Paths) /\ Len(Repos) \in Nat /\ Len(Paths) \in Nat
  BY <1>1, LenProperties
<1>3. {Repos[k] : k \in DOMAIN Repos} \subseteq C!Items /\ {Paths[k] : k \in DOMAIN Paths} \subseteq C!Items
  BY <1>2 DEF C!Items
<1>4. Repos \in Seq(C!Items) /\ Paths \in Seq(C!Items)
  BY <1>1, <1>3
<1> QED
  BY <1>1, <1>4 DEF Whole

LEMMA NoListIs ==
  /\ C!Idle \in Lists /\ C!Idle.phase = "idle" /\ C!Idle.running = {} /\ C!Idle.left = <<>> /\ C!Idle.out = {}
<1>1. [r \in 1..Records |-> "absent"] \in [1..Records -> Lives] /\ <<>> \in Seq(C!Items)
  BY DEF Lives
<1> QED
  BY <1>1 DEF C!Idle, Lists

LEMMA CheckoutsStart == C!CheckoutsInit => CheckoutsInv
<1> SUFFICES ASSUME C!CheckoutsInit PROVE CheckoutsInv
  OBVIOUS
<1>1. /\ C!NoList \in Kepts /\ ~C!NoList.fresh /\ C!NoList.knows = 0
  BY DEF C!NoList, Kepts
<1>2. /\ lives = [r \in 1..Records |-> "absent"] /\ news = 0 /\ cache = [q \in Queries |-> C!NoList]
      /\ inflight = [q \in Queries |-> C!Idle] /\ waits = [q \in Queries |-> FALSE] /\ shown = [q \in Queries |-> 0]
  BY DEF C!CheckoutsInit
<1>3. ListTypes
  BY <1>1, <1>2, NoListIs DEF ListTypes, Lives
<1>4. PoolInv
  <2>1. IsFiniteSet({}) /\ Cardinality({}) = 0 /\ 0 <= Concurrency
    BY FS_EmptySet, CheckoutsAre
  <2>2. \A q \in Queries : inflight[q] = C!Idle
    BY <1>2
  <2> QED
    BY <2>1, <2>2, NoListIs DEF PoolInv
<1>5. NewsInv
  BY <1>1, <1>2, NoListIs DEF NewsInv
<1> QED
  BY <1>3, <1>4, <1>5 DEF CheckoutsInv

\* A worker that is free takes the next items.
LEMMA PooledIs ==
  ASSUME CheckoutsInv, NEW q \in Queries
  PROVE  LET p == inflight[q]  n == C!Pooled(q) IN
         /\ n \in Lists /\ n.phase = p.phase /\ n.out = p.out /\ n.knows = p.knows
         /\ IsFiniteSet(n.running) /\ Cardinality(n.running) <= Concurrency
         /\ n.running \cup Elements(n.left) = p.running \cup Elements(p.left)
<1> DEFINE p == inflight[q]
           started == IF Concurrency - Cardinality(p.running) < Len(p.left)
                      THEN Concurrency - Cardinality(p.running) ELSE Len(p.left)
           taken == {p.left[k] : k \in 1..started}
           rest == SubSeq(p.left, started + 1, Len(p.left))
           n == [p EXCEPT !.running = p.running \cup taken, !.left = rest]
<1>1. p \in Lists /\ IsFiniteSet(p.running) /\ Cardinality(p.running) <= Concurrency
  BY DEF CheckoutsInv, ListTypes, PoolInv
<1>2. p.left \in Seq(C!Items) /\ Len(p.left) \in Nat /\ Cardinality(p.running) \in Nat /\ Concurrency \in Nat
      /\ \A k \in 1..Len(p.left) : p.left[k] \in C!Items
  BY <1>1, FS_CardinalityType, CheckoutsAre DEF Lists
<1>3. C!Pooled(q) = n
  BY CountedAlike DEF C!Pooled
<1> HIDE DEF p
<1>4. started \in Nat /\ started <= Len(p.left) /\ Cardinality(p.running) + started <= Concurrency
  BY <1>1, <1>2
<1> HIDE DEF started
<1>5. taken \subseteq C!Items
  BY <1>2, <1>4
<1>6. IsFiniteSet(taken) /\ Cardinality(taken) <= started /\ Cardinality(taken) \in Nat
  <2> DEFINE f == [k \in 1..started |-> p.left[k]]
  <2>1. IsFiniteSet(1..started) /\ Cardinality(1..started) = started
    BY <1>4, FS_Interval
  <2>2. f \in Surjection(1..started, taken)
    BY DEF Surjection
  <2> HIDE DEF f, taken
  <2> QED
    BY <2>1, <2>2, FS_Surjection, FS_CardinalityType
<1>7. rest \in Seq(C!Items) /\ Len(rest) = Len(p.left) - started
      /\ \A i \in 1..Len(rest) : rest[i] = p.left[started + i]
  <2>1. started + 1 \in 1..(Len(p.left) + 1)
    BY <1>2, <1>4
  <2>2. /\ rest \in Seq(C!Items) /\ Len(rest) = IF started + 1 <= Len(p.left) THEN Len(p.left) - (started + 1) + 1 ELSE 0
        /\ \A i \in 1..(Len(p.left) - (started + 1) + 1) : rest[i] = p.left[(started + 1) + i - 1]
    BY <1>2, <1>4, <2>1, SubSeqProperties
  <2> HIDE DEF rest
  <2> QED
    BY <1>2, <1>4, <2>2
<1>8. taken \cup Elements(rest) = Elements(p.left)
  <2> HIDE DEF rest
  <2>1. \A k \in 1..Len(p.left) : k \in 1..started \/ (k - started \in 1..Len(rest) /\ started + (k - started) = k)
    BY <1>2, <1>4, <1>7
  <2>2. \A i \in 1..Len(rest) : started + i \in 1..Len(p.left)
    BY <1>2, <1>4, <1>7
  <2>3. \A k \in 1..started : k \in 1..Len(p.left)
    BY <1>2, <1>4
  <2>4. ASSUME NEW k \in 1..Len(p.left) PROVE p.left[k] \in taken \cup Elements(rest)
    <3>1. CASE k \in 1..started
      BY <3>1
    <3>2. CASE k - started \in 1..Len(rest) /\ started + (k - started) = k
      <4>1. rest[k - started] = p.left[k]
        BY <1>7, <3>2
      <4> QED
        BY <3>2, <4>1 DEF Elements
    <3> QED
      BY <2>1, <3>1, <3>2
  <2>5. taken \subseteq Elements(p.left)
    BY <2>3 DEF Elements
  <2>6. Elements(rest) \subseteq Elements(p.left)
    BY <1>7, <2>2 DEF Elements
  <2> HIDE DEF taken
  <2>7. Elements(p.left) \subseteq taken \cup Elements(rest)
    BY <2>4 DEF Elements
  <2> QED
    BY <2>5, <2>6, <2>7
<1> HIDE DEF taken, rest
<1>9. /\ n \in Lists /\ n.phase = p.phase /\ n.out = p.out /\ n.knows = p.knows
      /\ n.running = p.running \cup taken /\ n.left = rest
  BY <1>1, <1>5, <1>7 DEF Lists
<1> HIDE DEF n
<1>10. IsFiniteSet(n.running) /\ Cardinality(n.running) <= Concurrency
  <2>1. /\ IsFiniteSet(p.running \cup taken) /\ IsFiniteSet(p.running \cap taken)
        /\ Cardinality(p.running \cup taken) = Cardinality(p.running) + Cardinality(taken) - Cardinality(p.running \cap taken)
    BY <1>1, <1>6, FS_Union, FS_Intersection
  <2>2. Cardinality(p.running \cap taken) \in Nat
    BY <2>1, FS_CardinalityType
  <2> QED
    BY <1>2, <1>4, <1>6, <1>9, <2>1, <2>2
<1> QED
  BY <1>3, <1>8, <1>9, <1>10 DEF p

LEMMA AsksKeeps ==
  ASSUME CheckoutsInv, NEW q \in Queries, C!Asks(q)
  PROVE  CheckoutsInv'
<1>1. /\ UNCHANGED <<lives, news, cache>> /\ ListTypes /\ cache[q] \in Kepts /\ inflight \in [Queries -> Lists]
      /\ waits \in [Queries -> BOOLEAN] /\ shown \in [Queries -> Nat] /\ news \in Nat /\ lives \in [1..Records -> Lives]
      /\ cache \in [Queries -> Kepts]
  BY DEF C!Asks, CheckoutsInv, ListTypes
<1> DEFINE g == [C!Idle EXCEPT !.phase = "list", !.left = Repos, !.knows = news, !.seen = lives]
<1>2. /\ g \in Lists /\ g.phase = "list" /\ g.left = Repos /\ g.knows = news /\ g.running = {} /\ g.out = {}
  BY <1>1, NoListIs, CheckoutsAre DEF Lists
<1>3. C!Gathered = g
  BY DEF C!Gathered
<1> HIDE DEF g
<1>4. /\ inflight' \in [Queries -> Lists]
      /\ \A r \in Queries : inflight'[r] = inflight[r] \/ (inflight'[r] = g /\ inflight[r].phase = "idle")
      /\ ~cache[q].fresh => inflight'[q].phase # "idle"
  <2>1. CASE cache[q].fresh \/ inflight[q].phase # "idle"
    <3>1. UNCHANGED inflight
      BY <2>1 DEF C!Asks
    <3> QED
      BY <1>1, <2>1, <3>1
  <2>2. CASE ~(cache[q].fresh \/ inflight[q].phase # "idle")
    <3>1. inflight' = [inflight EXCEPT ![q] = g]
      BY <1>3, <2>2 DEF C!Asks
    <3> QED
      BY <1>1, <1>2, <2>2, <3>1
  <2> QED
    BY <2>1, <2>2
<1>5. /\ waits' \in [Queries -> BOOLEAN] /\ shown' \in [Queries -> Nat]
      /\ \A r \in Queries \ {q} : waits'[r] = waits[r] /\ shown'[r] = shown[r]
      /\ waits'[q] => waits[q] \/ ~cache[q].has
      /\ shown'[q] \in {shown[q], cache[q].knows}
  <2>1. CASE cache[q].has
    <3>1. shown' = [shown EXCEPT ![q] = cache[q].knows] /\ UNCHANGED waits
      BY <2>1 DEF C!Asks, C!Answers
    <3>2. cache[q].knows \in Nat
      BY <1>1 DEF Kepts
    <3> QED
      BY <1>1, <3>1, <3>2
  <2>2. CASE ~cache[q].has
    <3>1. waits' = [waits EXCEPT ![q] = TRUE] /\ UNCHANGED shown
      BY <2>2 DEF C!Asks
    <3> QED
      BY <1>1, <2>2, <3>1
  <2> QED
    BY <2>1, <2>2
<1>6. ListTypes'
  BY <1>1, <1>4, <1>5 DEF ListTypes
<1>7. PoolInv'
  <2>1. IsFiniteSet({}) /\ Cardinality({}) = 0 /\ 0 <= Concurrency
    BY FS_EmptySet, CheckoutsAre
  <2>2. g.out \cup g.running \cup Elements(g.left) = Elements(Whole(g.phase))
    BY <1>2 DEF Whole
  <2>3. ASSUME NEW r \in Queries, inflight'[r] = g
        PROVE  LET p == inflight'[r] IN
               /\ IsFiniteSet(p.running) /\ Cardinality(p.running) <= Concurrency /\ (p.phase = "idle" => p.running = {})
               /\ p.phase # "idle" => p.out \cup p.running \cup Elements(p.left) = Elements(Whole(p.phase))
    BY <1>2, <2>1, <2>2, <2>3
  <2> QED
    BY <1>4, <2>3 DEF CheckoutsInv, PoolInv
<1>8. NewsInv'
  <2>1. waits'[q] => inflight'[q].phase # "idle"
    BY <1>1, <1>2, <1>4, <1>5 DEF CheckoutsInv, NewsInv
  <2>2. \A r \in Queries : shown'[r] <= cache[r].knows /\ cache[r].knows \in Nat
    <3>1. \A r \in Queries : cache[r].knows \in Nat /\ shown[r] <= cache[r].knows
      BY <1>1 DEF CheckoutsInv, NewsInv, Kepts
    <3>2. cache[q].knows <= cache[q].knows
      BY <3>1
    <3> QED
      BY <1>5, <3>1, <3>2
  <2>3. \A r \in Queries : inflight'[r].phase # "idle" => cache[r].knows <= inflight'[r].knows /\ inflight'[r].knows <= news
    BY <1>1, <1>2, <1>4 DEF CheckoutsInv, NewsInv
  <2>4. \A r \in Queries \ {q} : waits'[r] => inflight'[r].phase # "idle"
    BY <1>2, <1>4, <1>5 DEF CheckoutsInv, NewsInv
  <2> QED
    BY <1>1, <2>1, <2>2, <2>3, <2>4 DEF CheckoutsInv, NewsInv
<1> QED
  BY <1>6, <1>7, <1>8 DEF CheckoutsInv

\* One list in the making changes, and is not begun or done.
LEMMA MakingKeeps ==
  ASSUME CheckoutsInv, NEW q \in Queries, NEW n \in Lists, inflight' = [inflight EXCEPT ![q] = n],
         UNCHANGED <<lives, news, cache, waits, shown>>, inflight[q].phase # "idle", n.phase # "idle",
         n.knows = inflight[q].knows, IsFiniteSet(n.running), Cardinality(n.running) <= Concurrency,
         n.out \cup n.running \cup Elements(n.left) = Elements(Whole(n.phase))
  PROVE  CheckoutsInv'
<1>1. inflight' \in [Queries -> Lists] /\ inflight'[q] = n /\ \A r \in Queries \ {q} : inflight'[r] = inflight[r]
  BY DEF CheckoutsInv, ListTypes
<1>2. ListTypes'
  BY <1>1 DEF CheckoutsInv, ListTypes
<1>3. PoolInv'
  BY <1>1 DEF CheckoutsInv, PoolInv
<1>4. NewsInv'
  BY <1>1 DEF CheckoutsInv, NewsInv
<1> QED
  BY <1>2, <1>3, <1>4 DEF CheckoutsInv

LEMMA StartsGitKeeps ==
  ASSUME CheckoutsInv, NEW q \in Queries, C!StartsGit(q)
  PROVE  CheckoutsInv'
<1> DEFINE p == inflight[q]
           n == C!Pooled(q)
<1>1. /\ n \in Lists /\ n.phase = p.phase /\ n.out = p.out /\ n.knows = p.knows
      /\ IsFiniteSet(n.running) /\ Cardinality(n.running) <= Concurrency
      /\ n.running \cup Elements(n.left) = p.running \cup Elements(p.left)
  BY PooledIs
<1>2. inflight' = [inflight EXCEPT ![q] = n] /\ p.phase # "idle" /\ UNCHANGED <<lives, news, cache, waits, shown>>
  BY DEF C!StartsGit
<1>3. p.out \cup p.running \cup Elements(p.left) = Elements(Whole(p.phase))
  BY <1>2 DEF CheckoutsInv, PoolInv
<1> HIDE DEF n
<1>4. n.out \cup n.running \cup Elements(n.left) = Elements(Whole(n.phase))
  BY <1>1, <1>3
<1> QED
  BY <1>1, <1>2, <1>4, MakingKeeps

LEMMA GitAnswersKeeps ==
  ASSUME CheckoutsInv, NEW q \in Queries, NEW item \in C!Items, C!GitAnswers(q, item)
  PROVE  CheckoutsInv'
<1> DEFINE p == inflight[q]
           n == [p EXCEPT !.running = p.running \ {item}, !.out = p.out \cup {item}]
<1>1. p \in Lists /\ inflight \in [Queries -> Lists]
  BY DEF CheckoutsInv, ListTypes
<1>2. inflight' = [inflight EXCEPT ![q] = n] /\ item \in p.running /\ UNCHANGED <<lives, news, cache, waits, shown>>
  BY <1>1 DEF C!GitAnswers
<1>3. /\ IsFiniteSet(p.running) /\ Cardinality(p.running) <= Concurrency /\ p.phase # "idle"
      /\ p.out \cup p.running \cup Elements(p.left) = Elements(Whole(p.phase))
  BY <1>2 DEF CheckoutsInv, PoolInv
<1>4. IsFiniteSet(p.running \ {item}) /\ Cardinality(p.running \ {item}) <= Concurrency
  <2>1. Cardinality(p.running) \in Nat
    BY <1>3, FS_CardinalityType
  <2>2. /\ IsFiniteSet(p.running \ {item})
        /\ Cardinality(p.running \ {item}) = IF item \in p.running THEN Cardinality(p.running) - 1 ELSE Cardinality(p.running)
    BY <1>3, FS_RemoveElement
  <2> QED
    BY <1>3, <2>1, <2>2, CheckoutsAre
<1> HIDE DEF p
<1>5. /\ n \in Lists /\ n.phase = p.phase /\ n.knows = p.knows /\ n.left = p.left
      /\ n.running = p.running \ {item} /\ n.out = p.out \cup {item}
  BY <1>1 DEF Lists
<1> HIDE DEF n
<1>6. n.out \cup n.running \cup Elements(n.left) = Elements(Whole(n.phase))
  BY <1>2, <1>3, <1>5
<1>7. n.running = p.running \ {item} /\ IsFiniteSet(n.running) /\ Cardinality(n.running) <= Concurrency
  BY <1>4, <1>5
<1> QED
  BY <1>2, <1>3, <1>5, <1>6, <1>7, MakingKeeps DEF p

\* The owner of a checkout, one terminal after the other.
NextOwner(were, o, r) ==
  IF were[r] = "absent" THEN o ELSE IF o = 0 \/ (were[o] # "active" /\ were[r] = "active") THEN r ELSE o
AreOwners(f, were, m) == f = [r \in 0..m |-> IF r = 0 THEN 0 ELSE NextOwner(were, f[r - 1], r)]

LEMMA OwnersExist ==
  ASSUME NEW were, NEW m \in Nat
  PROVE  \E f : AreOwners(f, were, m)
<1> DEFINE Bad == {k \in Nat : ~\E f : AreOwners(f, were, k)}
<1>1. SUFFICES ASSUME Bad # {} PROVE FALSE
  OBVIOUS
<1>2. PICK b \in Bad : \A k \in Bad : b <= k
  <2>1. Bad \subseteq Nat
    OBVIOUS
  <2> HIDE DEF Bad
  <2> QED
    BY <1>1, <2>1, LeastElement
<1>3. CASE b = 0
  <2> DEFINE f == [n \in 0..0 |-> 0]
  <2>1. 0..0 = {0}
    OBVIOUS
  <2>2. AreOwners(f, were, 0)
    BY <2>1 DEF AreOwners
  <2> QED
    BY <1>3, <2>2
<1>4. CASE b # 0
  <2>1. b \in Nat /\ b - 1 \in Nat /\ ~(b <= b - 1)
    BY <1>4
  <2>2. PICK e : AreOwners(e, were, b - 1)
    BY <1>2, <2>1
  <2> DEFINE f == [n \in 0..b |-> IF n < b THEN e[n] ELSE NextOwner(were, e[b - 1], b)]
  <2>3. ASSUME NEW n \in 0..b PROVE f[n] = IF n = 0 THEN 0 ELSE NextOwner(were, f[n - 1], n)
    <3>1. CASE n < b
      <4>1. n \in 0..(b - 1) /\ f[n] = e[n]
        BY <2>1, <3>1
      <4>2. e[n] = IF n = 0 THEN 0 ELSE NextOwner(were, e[n - 1], n)
        BY <2>2, <4>1 DEF AreOwners
      <4>3. n # 0 => n - 1 \in 0..b /\ n - 1 < b
        BY <2>1, <4>1
      <4>4. n # 0 => f[n - 1] = e[n - 1]
        BY <4>3
      <4> HIDE DEF f
      <4> QED
        BY <4>1, <4>2, <4>4
    <3>2. CASE ~(n < b)
      <4>1. n = b /\ n - 1 \in 0..b /\ n - 1 < b
        BY <2>1, <1>4, <3>2
      <4>2. b \in 0..b /\ ~(b < b)
        BY <2>1
      <4>3. f[b] = NextOwner(were, e[b - 1], b)
        BY <4>2
      <4>4. f[b - 1] = e[b - 1]
        BY <4>1
      <4> HIDE DEF f
      <4> QED
        BY <1>4, <4>1, <4>3, <4>4
    <3> QED
      BY <3>1, <3>2
  <2>4. f = [n \in 0..b |-> f[n]]
    OBVIOUS
  <2> HIDE DEF f
  <2>5. AreOwners(f, were, b)
    BY <2>3, <2>4 DEF AreOwners
  <2> QED
    BY <2>5
<1> QED
  BY <1>3, <1>4

\* Of the terminals looked at so far the owner is one that lives, if one does.
LEMMA OwnersLive ==
  ASSUME NEW m \in Nat, NEW were \in [1..m -> Lives], NEW f, AreOwners(f, were, m)
  PROVE  \A n \in 0..m : /\ f[n] \in 0..n
                         /\ (f[n] # 0 /\ were[f[n]] = "active") <=> \E r \in 1..n : were[r] = "active"
<1> DEFINE Good(n) == f[n] \in 0..n /\ ((f[n] # 0 /\ were[f[n]] = "active") <=> \E r \in 1..n : were[r] = "active")
           Bad == {n \in 0..m : ~Good(n)}
<1>1. SUFFICES ASSUME Bad # {} PROVE FALSE
  OBVIOUS
<1>2. PICK b \in Bad : \A k \in Bad : b <= k
  <2>1. Bad \subseteq Nat
    OBVIOUS
  <2> HIDE DEF Bad
  <2> QED
    BY <1>1, <2>1, LeastElement
<1>3. f[b] = IF b = 0 THEN 0 ELSE NextOwner(were, f[b - 1], b)
  BY DEF AreOwners
<1>4. b # 0
  <2> SUFFICES ASSUME b = 0 PROVE FALSE
    OBVIOUS
  <2>1. f[0] = 0 /\ 0 \in 0..0 /\ 1..0 = {}
    BY <1>3
  <2> QED
    BY <1>2, <2>1
<1>5. b - 1 \in 0..m /\ ~(b <= b - 1) /\ b \in 1..m /\ 1..b = 1..(b - 1) \cup {b}
  BY <1>4
<1>6. f[b - 1] \in 0..(b - 1) /\ ((f[b - 1] # 0 /\ were[f[b - 1]] = "active") <=> \E r \in 1..(b - 1) : were[r] = "active")
  <2>1. b - 1 \notin Bad
    BY <1>2, <1>5
  <2> QED
    BY <1>5, <2>1
<1>7. f[b] = NextOwner(were, f[b - 1], b)
  BY <1>3, <1>4
<1>8. f[b] \in 0..b
  BY <1>5, <1>6, <1>7 DEF NextOwner
<1>9. (f[b] # 0 /\ were[f[b]] = "active") <=> \E r \in 1..b : were[r] = "active"
  BY <1>4, <1>5, <1>6, <1>7 DEF NextOwner
<1> QED
  BY <1>2, <1>8, <1>9

LEMMA OwnerLives ==
  ASSUME NEW were \in [1..Records -> Lives]
  PROVE  /\ C!Owner(were) \in 0..Records
         /\ (C!Owner(were) # 0 /\ were[C!Owner(were)] = "active") <=> \E r \in 1..Records : were[r] = "active"
<1> DEFINE g == CHOOSE f : AreOwners(f, were, Records)
<1>0. Records \in Nat /\ Records \in 0..Records
  BY CheckoutsAre
<1>1. C!Owner(were) = g[Records]
  BY DEF C!Owner, AreOwners, NextOwner
<1>2. \E f : AreOwners(f, were, Records)
  BY <1>0, OwnersExist
<1>3. AreOwners(g, were, Records)
  BY <1>2, Zenon
<1> HIDE DEF g
<1> QED
  BY <1>0, <1>1, <1>3, OwnersLive

\* A list that is done replaces the one that was kept, and is shown to whoever waited.
LEMMA DoneIs ==
  ASSUME CheckoutsInv, NEW q \in Queries, C!PhaseEnds(q), ~(inflight[q].phase = "list" /\ q = "status")
  PROVE  LET o == C!Owner(inflight[q].seen) IN
         /\ inflight' = [inflight EXCEPT ![q] = C!Idle] /\ inflight[q].phase # "idle" /\ UNCHANGED <<lives, news>>
         /\ cache' \in [Queries -> Kepts] /\ \A r \in Queries \ {q} : cache'[r] = cache[r]
         /\ cache'[q].has /\ cache'[q].knows = inflight[q].knows /\ (cache'[q].live <=> o # 0 /\ inflight[q].seen[o] = "active")
         /\ waits' \in [Queries -> BOOLEAN] /\ ~waits'[q] /\ \A r \in Queries \ {q} : waits'[r] = waits[r]
         /\ shown' \in [Queries -> Nat] /\ shown'[q] \in {shown[q], inflight[q].knows} /\ \A r \in Queries \ {q} : shown'[r] = shown[r]
<1> DEFINE o == C!Owner(inflight[q].seen)
           l == o # 0 /\ inflight[q].seen[o] = "active"
           k == [has |-> TRUE, fresh |-> TRUE, knows |-> inflight[q].knows, owner |-> o, live |-> l]
<1>1. /\ inflight[q] \in Lists /\ cache \in [Queries -> Kepts] /\ waits \in [Queries -> BOOLEAN] /\ shown \in [Queries -> Nat]
  BY DEF CheckoutsInv, ListTypes
<1>2. inflight[q].knows \in Nat /\ inflight[q].seen \in [1..Records -> Lives] /\ Records \in Nat
  BY <1>1, CheckoutsAre DEF Lists
<1>3. o \in 0..Records /\ o \in Nat
  BY <1>2, OwnerLives
<1>4. /\ inflight' = [inflight EXCEPT ![q] = C!Idle] /\ inflight[q].phase # "idle" /\ UNCHANGED <<lives, news>>
      /\ cache' = [cache EXCEPT ![q] = k] /\ waits' = [waits EXCEPT ![q] = FALSE]
      /\ shown' = IF waits[q] THEN [shown EXCEPT ![q] = inflight[q].knows] ELSE shown
  BY DEF C!PhaseEnds, C!Answers
<1>5. l \in BOOLEAN
  OBVIOUS
<1> HIDE DEF o, l
<1>6. k \in Kepts /\ k.has /\ k.knows = inflight[q].knows /\ k.live = l
  BY <1>2, <1>3, <1>5 DEF Kepts
<1> HIDE DEF k
<1>7. cache' \in [Queries -> Kepts] /\ cache'[q] = k /\ \A r \in Queries \ {q} : cache'[r] = cache[r]
  BY <1>1, <1>4, <1>6
<1>8. shown' \in [Queries -> Nat] /\ shown'[q] \in {shown[q], inflight[q].knows} /\ \A r \in Queries \ {q} : shown'[r] = shown[r]
  BY <1>1, <1>2, <1>4
<1>9. waits' \in [Queries -> BOOLEAN] /\ ~waits'[q] /\ \A r \in Queries \ {q} : waits'[r] = waits[r]
  BY <1>1, <1>4
<1> QED
  BY <1>4, <1>6, <1>7, <1>8, <1>9 DEF o, l

LEMMA PhaseEndsKeeps ==
  ASSUME CheckoutsInv, NEW q \in Queries, C!PhaseEnds(q)
  PROVE  CheckoutsInv'
<1> DEFINE p == inflight[q]
<1>1. p \in Lists /\ inflight \in [Queries -> Lists] /\ p.phase # "idle" /\ p.running = {}
  BY DEF CheckoutsInv, ListTypes, C!PhaseEnds
<1>2. IsFiniteSet({}) /\ Cardinality({}) = 0 /\ 0 <= Concurrency
  BY FS_EmptySet, CheckoutsAre
<1>3. CASE p.phase = "list" /\ q = "status"
  <2> DEFINE n == [p EXCEPT !.phase = "status", !.left = Paths, !.out = {}]
  <2>1. inflight' = [inflight EXCEPT ![q] = n] /\ UNCHANGED <<lives, news, cache, waits, shown>>
    BY <1>1, <1>3 DEF C!PhaseEnds
  <2>2. /\ n \in Lists /\ n.phase = "status" /\ n.left = Paths /\ n.out = {} /\ n.knows = p.knows /\ n.running = {}
    BY <1>1, CheckoutsAre DEF Lists
  <2> HIDE DEF n
  <2>3. n.out \cup n.running \cup Elements(n.left) = Elements(Whole(n.phase))
    BY <2>2 DEF Whole
  <2> QED
    BY <1>1, <1>2, <2>1, <2>2, <2>3, MakingKeeps
<1>4. CASE ~(p.phase = "list" /\ q = "status")
  <2>1. /\ inflight' = [inflight EXCEPT ![q] = C!Idle] /\ UNCHANGED <<lives, news>>
        /\ cache' \in [Queries -> Kepts] /\ \A r \in Queries \ {q} : cache'[r] = cache[r]
        /\ cache'[q].has /\ cache'[q].knows = p.knows
        /\ waits' \in [Queries -> BOOLEAN] /\ ~waits'[q] /\ \A r \in Queries \ {q} : waits'[r] = waits[r]
        /\ shown' \in [Queries -> Nat] /\ shown'[q] \in {shown[q], p.knows} /\ \A r \in Queries \ {q} : shown'[r] = shown[r]
    BY <1>4, DoneIs
  <2>2. inflight' \in [Queries -> Lists] /\ inflight'[q] = C!Idle /\ \A r \in Queries \ {q} : inflight'[r] = inflight[r]
    BY <1>1, <2>1, NoListIs
  <2>3. ListTypes'
    BY <2>1, <2>2 DEF CheckoutsInv, ListTypes
  <2>4. PoolInv'
    BY <1>2, <2>2, NoListIs DEF CheckoutsInv, PoolInv
  <2>5. p.knows \in Nat /\ shown[q] \in Nat /\ cache[q].knows \in Nat
    BY <1>1 DEF Lists, CheckoutsInv, ListTypes, Kepts
  <2>6. shown[q] <= p.knows /\ p.knows <= news
    BY <1>1, <2>5 DEF CheckoutsInv, NewsInv
  <2>7. shown'[q] <= cache'[q].knows /\ cache'[q].knows <= news
    BY <2>1, <2>5, <2>6
  <2>8. NewsInv'
    BY <2>1, <2>2, <2>7, NoListIs DEF CheckoutsInv, NewsInv
  <2> QED
    BY <2>3, <2>4, <2>8 DEF CheckoutsInv
<1> QED
  BY <1>3, <1>4

LEMMA GoesStaleKeeps ==
  ASSUME CheckoutsInv, NEW q \in Queries, C!GoesStale(q)
  PROVE  CheckoutsInv'
<1> DEFINE k == [cache[q] EXCEPT !.fresh = FALSE]
<1>1. cache \in [Queries -> Kepts] /\ cache[q] \in Kepts
  BY DEF CheckoutsInv, ListTypes
<1>2. cache' = [cache EXCEPT ![q] = k] /\ UNCHANGED <<lives, news, inflight, waits, shown>>
  BY <1>1 DEF C!GoesStale
<1>3. k \in Kepts /\ k.knows = cache[q].knows /\ ~k.fresh
  BY <1>1 DEF Kepts
<1> HIDE DEF k
<1>4. cache' \in [Queries -> Kepts] /\ cache'[q] = k /\ \A r \in Queries \ {q} : cache'[r] = cache[r]
  BY <1>1, <1>2, <1>3
<1>5. ListTypes' /\ PoolInv'
  BY <1>2, <1>4 DEF CheckoutsInv, ListTypes, PoolInv
<1>6. NewsInv'
  BY <1>2, <1>3, <1>4 DEF CheckoutsInv, NewsInv
<1> QED
  BY <1>5, <1>6 DEF CheckoutsInv

LEMMA RecordChangesKeeps ==
  ASSUME CheckoutsInv, NEW r \in 1..Records, C!RecordChanges(r)
  PROVE  CheckoutsInv'
<1>1. /\ lives \in [1..Records -> Lives] /\ news' = news + 1 /\ news \in Nat /\ UNCHANGED <<cache, inflight, waits, shown>>
  BY DEF CheckoutsInv, ListTypes, C!RecordChanges
<1>2. lives' \in [1..Records -> Lives]
  BY <1>1 DEF C!RecordChanges, Lives
<1>3. ListTypes' /\ PoolInv'
  BY <1>1, <1>2 DEF CheckoutsInv, ListTypes, PoolInv
<1>4. \A q \in Queries : cache[q].knows \in Nat /\ inflight[q].knows \in Nat
  BY DEF CheckoutsInv, ListTypes, Kepts, Lists
<1>5. NewsInv'
  BY <1>1, <1>4 DEF CheckoutsInv, NewsInv
<1> QED
  BY <1>3, <1>5 DEF CheckoutsInv

LEMMA CheckoutsStep == CheckoutsInv /\ C!CheckoutsNext => CheckoutsInv'
<1> SUFFICES ASSUME CheckoutsInv, C!CheckoutsNext PROVE CheckoutsInv'
  OBVIOUS
<1>1. CASE \E q \in Queries : C!Asks(q) \/ C!StartsGit(q) \/ C!PhaseEnds(q) \/ C!GoesStale(q)
  BY <1>1, AsksKeeps, StartsGitKeeps, PhaseEndsKeeps, GoesStaleKeeps
<1>2. CASE \E q \in Queries, item \in C!Items : C!GitAnswers(q, item)
  BY <1>2, GitAnswersKeeps
<1>3. CASE \E r \in 1..Records : C!RecordChanges(r)
  BY <1>3, RecordChangesKeeps
<1> QED
  BY <1>1, <1>2, <1>3 DEF C!CheckoutsNext

LEMMA CheckoutsRest == CheckoutsInv /\ UNCHANGED C!listvars => CheckoutsInv'
BY DEF CheckoutsInv, ListTypes, PoolInv, NewsInv, C!listvars

LEMMA FewStay == CheckoutsInv => C!FewProcesses
BY CountedAlike DEF CheckoutsInv, PoolInv, NewsInv, C!FewProcesses

\* No reader is shown an older list; a list that is done was asked for whole, and names one that lives.
LEMMA ListsAreTrue == CheckoutsInv /\ C!CheckoutsNext => C!NeverOlder /\ C!AllWereAsked /\ C!LiveOneOwns
<1> SUFFICES ASSUME CheckoutsInv, C!CheckoutsNext PROVE C!NeverOlder /\ C!AllWereAsked /\ C!LiveOneOwns
  OBVIOUS
<1>0. /\ inflight \in [Queries -> Lists] /\ shown \in [Queries -> Nat] /\ \A q \in Queries : cache[q].knows \in Nat
  BY DEF CheckoutsInv, ListTypes, Kepts
<1>1. C!NeverOlder
  <2>1. ASSUME NEW q \in Queries PROVE shown'[q] = shown[q] \/ shown'[q] = cache[q].knows
                                       \/ (inflight[q].phase # "idle" /\ shown'[q] = inflight[q].knows)
    <3>1. ASSUME NEW r \in Queries, C!Asks(r) PROVE shown'[q] = shown[q] \/ shown'[q] = cache[q].knows
      BY <1>0, <3>1 DEF C!Asks, C!Answers
    <3>2. ASSUME NEW r \in Queries, C!PhaseEnds(r)
          PROVE  shown'[q] = shown[q] \/ (inflight[q].phase # "idle" /\ shown'[q] = inflight[q].knows)
      BY <1>0, <3>2 DEF C!PhaseEnds, C!Answers
    <3>3. CASE UNCHANGED shown
      BY <3>3
    <3> QED
      BY <3>1, <3>2, <3>3 DEF C!CheckoutsNext, C!StartsGit, C!GitAnswers, C!GoesStale, C!RecordChanges
  <2>2. ASSUME NEW q \in Queries PROVE shown'[q] >= shown[q]
    <3>1. /\ shown[q] \in Nat /\ cache[q].knows \in Nat /\ inflight[q].knows \in Nat /\ shown[q] <= cache[q].knows
          /\ inflight[q].phase # "idle" => cache[q].knows <= inflight[q].knows
      BY <1>0 DEF CheckoutsInv, NewsInv, Lists
    <3> QED
      BY <2>1, <3>1
  <2> QED
    BY <2>2 DEF C!NeverOlder
<1>2. ASSUME NEW q \in Queries, inflight[q].phase # "idle", inflight'[q].phase # inflight[q].phase
      PROVE  C!PhaseEnds(q)
  <2>1. ASSUME NEW r \in Queries, C!Asks(r) PROVE FALSE
    BY <1>0, <1>2, <2>1 DEF C!Asks
  <2>2. ASSUME NEW r \in Queries, C!StartsGit(r) PROVE FALSE
    <3>1. C!Pooled(r).phase = inflight[r].phase
      BY <2>2, PooledIs
    <3>2. inflight' = [inflight EXCEPT ![r] = C!Pooled(r)]
      BY <2>2 DEF C!StartsGit
    <3> QED
      BY <1>0, <1>2, <3>1, <3>2
  <2>3. ASSUME NEW r \in Queries, NEW item \in C!Items, C!GitAnswers(r, item) PROVE FALSE
    <3>1. inflight'[q].phase = inflight[q].phase
      BY <1>0, <2>3 DEF C!GitAnswers, Lists
    <3> QED
      BY <1>2, <3>1
  <2>4. ASSUME NEW r \in Queries, C!PhaseEnds(r) PROVE r = q
    BY <1>0, <1>2, <2>4 DEF C!PhaseEnds
  <2> QED
    BY <1>2, <2>1, <2>2, <2>3, <2>4 DEF C!CheckoutsNext, C!GoesStale, C!RecordChanges
<1>3. ASSUME NEW q \in Queries, C!PhaseEnds(q)
      PROVE  inflight[q].out = Elements(Whole(inflight[q].phase))
  <2>1. inflight[q].phase # "idle" /\ inflight[q].left = <<>> /\ inflight[q].running = {}
    BY <1>3 DEF C!PhaseEnds
  <2>2. Elements(<<>>) = {}
    BY DEF Elements
  <2> QED
    BY <2>1, <2>2 DEF CheckoutsInv, PoolInv
<1>4. C!AllWereAsked
  <2>1. ASSUME NEW q \in Queries, inflight[q].phase # "idle", inflight'[q].phase # inflight[q].phase
        PROVE  inflight[q].out = {IF inflight[q].phase = "list" THEN Repos[k] ELSE Paths[k] :
                                  k \in 1..Len(IF inflight[q].phase = "list" THEN Repos ELSE Paths)}
    <3>1. inflight[q].out = Elements(Whole(inflight[q].phase))
      BY <1>2, <1>3, <2>1
    <3>2. CASE inflight[q].phase = "list"
      BY <3>1, <3>2 DEF Elements, Whole
    <3>3. CASE inflight[q].phase # "list"
      BY <3>1, <3>3 DEF Elements, Whole
    <3> QED
      BY <3>2, <3>3
  <2> QED
    BY <2>1 DEF C!AllWereAsked
<1>5. C!LiveOneOwns
  <2>1. ASSUME NEW q \in Queries, inflight[q].phase # "idle", inflight'[q].phase = "idle"
        PROVE  (\E r \in 1..Records : inflight[q].seen[r] = "active") <=> cache'[q].live
    <3>1. C!PhaseEnds(q)
      BY <1>2, <2>1
    <3>2. ~(inflight[q].phase = "list" /\ q = "status")
      <4> SUFFICES ASSUME inflight[q].phase = "list" /\ q = "status" PROVE FALSE
        OBVIOUS
      <4>1. inflight'[q].phase = "status"
        BY <1>0, <3>1 DEF C!PhaseEnds, Lists
      <4> QED
        BY <2>1, <4>1
    <3>3. cache'[q].live <=> C!Owner(inflight[q].seen) # 0 /\ inflight[q].seen[C!Owner(inflight[q].seen)] = "active"
      BY <3>1, <3>2, DoneIs
    <3>4. inflight[q].seen \in [1..Records -> Lives]
      BY <1>0 DEF Lists
    <3> QED
      BY <3>3, <3>4, OwnerLives
  <2> QED
    BY <2>1 DEF C!LiveOneOwns
<1> QED
  BY <1>1, <1>4, <1>5

\* The checkouts and the list of them: two that write share none, work is lost by force alone and stays named,
\* and what the board shows of them is no older than before, asked for whole, and names an owner that lives.
THEOREM TreesHoldThm == RecordsSpec => TreesHold
<1> DEFINE Inv == (part = "worktrees" => TreesInv) /\ (part = "checkouts" => CheckoutsInv)
           TreesAct == part = "worktrees" => W!WorkIsKept
           ListAct == part = "checkouts" => C!NeverOlder /\ C!AllWereAsked /\ C!LiveOneOwns
<1>1. RecordsInit => Inv
  BY TreesStart, CheckoutsStart DEF RecordsInit
<1>2. Inv /\ [RecordsNext]_recordsVars => Inv'
  <2> SUFFICES ASSUME Inv, [RecordsNext]_recordsVars PROVE Inv'
    OBVIOUS
  <2>1. CASE part = "worktrees" /\ W!WorktreesNext /\ UNCHANGED part
    BY <2>1, TreesStep
  <2>2. CASE part = "checkouts" /\ C!CheckoutsNext /\ UNCHANGED part
    BY <2>2, CheckoutsStep
  <2>3. CASE part \notin {"worktrees", "checkouts"} /\ UNCHANGED part
    BY <2>3
  <2>4. CASE UNCHANGED recordsVars
    BY <2>4, TreesRest, CheckoutsRest DEF recordsVars, Wvars, Cvars, W!treevars, C!listvars
  <2> QED
    BY <2>1, <2>2, <2>3, <2>4 DEF RecordsNext
<1>3. Inv => (part = "worktrees" => W!OneWriter /\ W!WorkIsNamed)
  BY OneWriterStays, WorkHasName
<1>4. Inv => (part = "checkouts" => C!FewProcesses)
  BY FewStay
<1>5. Inv /\ [RecordsNext]_recordsVars => [TreesAct]_recordsVars
  <2> SUFFICES ASSUME Inv, RecordsNext, part = "worktrees" PROVE W!WorkIsKept
    OBVIOUS
  <2> QED
    BY WorkStays DEF RecordsNext
<1>6. Inv /\ [RecordsNext]_recordsVars => [ListAct]_recordsVars
  <2> SUFFICES ASSUME Inv, RecordsNext, part = "checkouts" PROVE C!NeverOlder /\ C!AllWereAsked /\ C!LiveOneOwns
    OBVIOUS
  <2> QED
    BY ListsAreTrue DEF RecordsNext
<1> QED
  BY <1>1, <1>2, <1>3, <1>4, <1>5, <1>6, PTL DEF RecordsSpec, TreesHold

-----------------------------------------------------------------------------
(* The index of conversations (History.tla).                               *)

AnyConv == Convs \cup {Hi!NoConv}
IndexReadings == [entries : [Transcripts -> Nat], live : SUBSET AnyConv]
Scans == [at : Nat, full : BOOLEAN, next : [Hi!Stores -> IndexReadings]]
TermRecords == [status : {"none", "active", "ended"}, runs : AnyConv, learned : SUBSET AnyConv, updated : Nat, beside : SUBSET Hi!Terms]
HistoryTypes ==
  /\ stamp \in [Transcripts -> Nat] /\ happened \in Nat \ {0} /\ running \subseteq AnyConv /\ listed \subseteq AnyConv
  /\ term \in [Hi!Terms -> TermRecords] /\ index \in [Hi!Stores -> IndexReadings] /\ refresh \in [Refreshers -> Scans]
  /\ asked.conv \in AnyConv
\* Nobody was answered for a conversation that a terminal was known to run.
BesideInv == asked.beside = {} /\ \A i \in Hi!Terms : term[i].beside = {}
\* No reading is newer than its file, but for those of a file that was missing or not readable at some time.
Unread(t) == store[StoreOf[t]] \in {"gone", "unreadable"} \/ t \in unparsed
Reads(x) == \A t \in Transcripts : x[StoreOf[t]].entries[t] <= stamp[t] \/ t \in away
StampInv ==
  /\ \A t \in Transcripts : stamp[t] <= happened /\ (Unread(t) => t \in away)
  /\ Reads(index) /\ \A p \in Refreshers : Reads(refresh[p].next)
\* While no lock was outlived, who refreshes holds it, and what it has (of a store it scanned, or took over
\* from the last index) is no older than the index.
RefreshInv ==
  ~stolen => \A p \in Refreshers : Hi!Scanning(p) =>
    /\ ilock = p
    /\ \A k \in 1..Len(StoreOrder), t \in Transcripts :
         (k < refresh[p].at \/ ~refresh[p].full) /\ StoreOf[t] = StoreOrder[k] =>
           index[StoreOf[t]].entries[t] <= refresh[p].next[StoreOf[t]].entries[t] \/ t \in away
HistoryInv == HistoryTypes /\ BesideInv /\ StampInv /\ RefreshInv

LEMMA IndexIs ==
  /\ MaxTerms \in Nat /\ StoreOf \in [Transcripts -> Hi!Stores] /\ ConvOf \in [Transcripts -> Convs]
  /\ Len(StoreOrder) \in Nat /\ "free" \notin Refreshers
  /\ \A k \in 1..Len(StoreOrder) : StoreOrder[k] \in Hi!Stores
  /\ \A s \in Hi!Stores : \E k \in 1..Len(StoreOrder) : s = StoreOrder[k]
BY IndexAssumption DEF Hi!HistoryAssumption, Hi!Stores

LEMMA NeverIs ==
  /\ Hi!Never \in IndexReadings /\ \A t \in Transcripts : Hi!Never.entries[t] = 0
  /\ Hi!AtRest \in Scans /\ Hi!AtRest.at = 0
  /\ \A s \in Hi!Stores : Hi!AtRest.next[s] = Hi!Never
<1>1. Hi!Never \in IndexReadings /\ \A t \in Transcripts : Hi!Never.entries[t] = 0
  BY DEF Hi!Never, IndexReadings
<1>2. [s \in Hi!Stores |-> Hi!Never] \in [Hi!Stores -> IndexReadings]
  BY <1>1
<1> QED
  BY <1>1, <1>2 DEF Hi!AtRest, Scans

LEMMA HistoryStart == Hi!HistoryInit => HistoryInv
<1> SUFFICES ASSUME Hi!HistoryInit PROVE HistoryInv
  OBVIOUS
<1>1. /\ stamp = [t \in Transcripts |-> IF t \in Old THEN 1 ELSE 0] /\ unparsed = {} /\ store = [s \in Hi!Stores |-> "here"]
      /\ running = {} /\ listed = {} /\ term = [i \in Hi!Terms |-> Hi!NoTerm] /\ index = [s \in Hi!Stores |-> Hi!Never]
      /\ refresh = [p \in Refreshers |-> Hi!AtRest] /\ asked = Hi!NotAsked /\ happened = 1
  BY DEF Hi!HistoryInit
<1>2. Hi!NoTerm \in TermRecords /\ Hi!NoTerm.beside = {} /\ Hi!NotAsked.beside = {} /\ Hi!NotAsked.conv = Hi!NoConv
  BY DEF Hi!NoTerm, Hi!NotAsked, TermRecords, AnyConv
<1>3. HistoryTypes
  BY <1>1, <1>2, NeverIs DEF HistoryTypes, AnyConv
<1>4. BesideInv
  BY <1>1, <1>2 DEF BesideInv
<1>5. StampInv
  BY <1>1, NeverIs, IndexIs DEF StampInv, Unread, Reads
<1>6. RefreshInv
  BY <1>1, NeverIs DEF RefreshInv, Hi!Scanning
<1> QED
  BY <1>3, <1>4, <1>5, <1>6 DEF HistoryInv

\* The world moves, and no refresh: files only become newer, or were missing.
LEMMA WorldKeeps ==
  ASSUME HistoryInv, HistoryTypes', BesideInv', UNCHANGED <<index, ilock, refresh, stolen>>, away \subseteq away',
         \A t \in Transcripts : /\ stamp'[t] >= stamp[t] \/ t \in away'
                                /\ stamp'[t] <= happened' /\ (Unread(t)' => t \in away')
  PROVE  HistoryInv'
<1>1. \A x \in [Hi!Stores -> IndexReadings] : Reads(x) => \A t \in Transcripts : x[StoreOf[t]].entries[t] <= stamp'[t] \/ t \in away'
  <2> SUFFICES ASSUME NEW x \in [Hi!Stores -> IndexReadings], Reads(x), NEW t \in Transcripts
               PROVE  x[StoreOf[t]].entries[t] <= stamp'[t] \/ t \in away'
    OBVIOUS
  <2>1. x[StoreOf[t]].entries[t] \in Nat /\ stamp[t] \in Nat /\ stamp'[t] \in Nat
    BY IndexIs DEF IndexReadings, HistoryInv, HistoryTypes
  <2> QED
    BY <2>1 DEF Reads
<1>2. index \in [Hi!Stores -> IndexReadings] /\ \A p \in Refreshers : refresh[p].next \in [Hi!Stores -> IndexReadings]
  BY DEF HistoryInv, HistoryTypes, Scans
<1>3. StampInv'
  BY <1>1, <1>2 DEF HistoryInv, StampInv, Reads
<1>4. RefreshInv'
  BY DEF HistoryInv, RefreshInv, Hi!Scanning
<1> QED
  BY <1>3, <1>4 DEF HistoryInv

\* What the store of a transcript says of it when it is scanned.
LEMMA ScannedIs ==
  ASSUME HistoryInv, NEW s \in Hi!Stores, NEW prev \in IndexReadings
  PROVE  LET n == Hi!Scanned(s, prev) IN
         /\ n \in IndexReadings
         /\ \A t \in Transcripts : StoreOf[t] = s =>
              \/ n.entries[t] = stamp[t]
              \/ store[s] = "broken" /\ n.entries[t] = prev.entries[t]
              \/ t \in away
<1>1. stamp \in [Transcripts -> Nat] /\ running \subseteq AnyConv /\ listed \subseteq AnyConv
  BY DEF HistoryInv, HistoryTypes
<1>2. Hi!Alive \subseteq AnyConv
  BY <1>1 DEF Hi!Alive, HistoryInv, HistoryTypes, TermRecords
<1>3. /\ Hi!Held(s) \in [Transcripts -> Nat]
      /\ \A t \in Transcripts : StoreOf[t] = s => Hi!Held(s)[t] = stamp[t] \/ t \in unparsed
  BY <1>1 DEF Hi!Held
<1>4. /\ Hi!ClaudeScan(s) \in IndexReadings /\ Hi!ClaudeScan(s).entries = Hi!Held(s)
      /\ Hi!CodexScan(s) \in IndexReadings /\ Hi!CodexScan(s).entries = Hi!Held(s)
      /\ Hi!GrokScan(s) \in IndexReadings /\ Hi!GrokScan(s).entries = Hi!Held(s)
  BY <1>1, <1>2, <1>3 DEF Hi!ClaudeScan, Hi!CodexScan, Hi!GrokScan, IndexReadings
<1>5. Hi!Lists(s) \in IndexReadings /\ Hi!Lists(s).entries = Hi!Held(s)
  <2>1. Hi!Lists(s) \in {Hi!ClaudeScan(s), Hi!GrokScan(s), Hi!CodexScan(s)}
    BY DEF Hi!Lists
  <2> QED
    BY <1>4, <2>1
<1> DEFINE n == Hi!Scanned(s, prev)
<1>6. /\ store[s] \in {"gone", "unreadable"} => n = Hi!Never
      /\ store[s] = "broken" => n = prev
      /\ store[s] \notin {"gone", "unreadable", "broken"} => n = Hi!Lists(s)
  BY DEF Hi!Scanned
<1> HIDE DEF n
<1>7. n \in IndexReadings
  BY <1>5, <1>6, NeverIs
<1>8. ASSUME NEW t \in Transcripts, StoreOf[t] = s
      PROVE  \/ n.entries[t] = stamp[t]
             \/ store[s] = "broken" /\ n.entries[t] = prev.entries[t]
             \/ t \in away
  <2>1. store[s] \in {"gone", "unreadable"} \/ t \in unparsed => t \in away
    BY <1>8 DEF HistoryInv, StampInv, Unread
  <2>2. store[s] \notin {"gone", "unreadable", "broken"} => n.entries[t] = stamp[t] \/ t \in unparsed
    BY <1>3, <1>5, <1>6, <1>8
  <2> QED
    BY <1>6, <2>1, <2>2
<1> QED
  BY <1>7, <1>8 DEF n

LEMMA ScansStoreKeeps ==
  ASSUME HistoryInv, NEW p \in Refreshers, Hi!ScansStore(p)
  PROVE  HistoryInv'
<1> DEFINE s == StoreOrder[refresh[p].at]
           prev == refresh[p].next[s]
           n == Hi!Scanned(s, prev)
           m == [refresh[p].next EXCEPT ![s] = n]
           r == [refresh[p] EXCEPT !.at = refresh[p].at + 1, !.next = m]
<1>1. /\ refresh \in [Refreshers -> Scans] /\ refresh[p] \in Scans /\ index \in [Hi!Stores -> IndexReadings]
      /\ Hi!Scanning(p) /\ refresh[p].at <= Len(StoreOrder) /\ stamp \in [Transcripts -> Nat]
      /\ refresh[p].next \in [Hi!Stores -> IndexReadings] /\ refresh[p].at \in Nat \ {0}
  BY DEF Hi!ScansStore, Hi!Scanning, HistoryInv, HistoryTypes, Scans
<1>2. refresh[p].at \in 1..Len(StoreOrder) /\ s \in Hi!Stores /\ prev \in IndexReadings
  BY <1>1, IndexIs
<1>3. /\ refresh' = [refresh EXCEPT ![p] = r]
      /\ away' = IF refresh[p].full /\ store[s] = "broken" THEN away \cup Hi!In(s) ELSE away
      /\ UNCHANGED <<stamp, unparsed, store, running, listed, term, asked, happened, outside, index, ilock, stolen>>
  BY <1>1 DEF Hi!ScansStore, Hi!World
<1>4. /\ n \in IndexReadings
      /\ \A t \in Transcripts : StoreOf[t] = s =>
           \/ n.entries[t] = stamp[t]
           \/ store[s] = "broken" /\ n.entries[t] = prev.entries[t]
           \/ t \in away
  BY <1>2, ScannedIs
<1>5. /\ away \subseteq away'
      /\ refresh[p].full /\ store[s] = "broken" => \A t \in Transcripts : StoreOf[t] = s => t \in away'
  BY <1>3 DEF Hi!In
<1> HIDE DEF n
<1>6. m \in [Hi!Stores -> IndexReadings] /\ m[s] = n /\ \A x \in Hi!Stores \ {s} : m[x] = refresh[p].next[x]
  <2> HIDE DEF s
  <2> QED
    BY <1>1, <1>2, <1>4
<1> HIDE DEF s, m, prev
<1>7. r \in Scans /\ r.at = refresh[p].at + 1 /\ r.full = refresh[p].full /\ r.next = m
  <2> DEFINE a == refresh[p].at + 1
             z == [refresh[p] EXCEPT !.at = a, !.next = m]
  <2>1. a \in Nat
    BY <1>1
  <2>2. r = z
    OBVIOUS
  <2> HIDE DEF a, r
  <2>3. z \in Scans
    BY <1>1, <1>6, <2>1 DEF Scans
  <2>4. z.at = a /\ z.full = refresh[p].full /\ z.next = m
    BY <1>1 DEF Scans
  <2> HIDE DEF z
  <2> QED
    BY <2>2, <2>3, <2>4 DEF a
<1> HIDE DEF r
<1>8. refresh' \in [Refreshers -> Scans] /\ refresh'[p] = r /\ \A q \in Refreshers \ {p} : refresh'[q] = refresh[q]
  BY <1>1, <1>3, <1>7
<1>9. HistoryTypes' /\ BesideInv'
  BY <1>3, <1>8 DEF HistoryInv, HistoryTypes, BesideInv
<1>10. \A t \in Transcripts : /\ index[StoreOf[t]].entries[t] \in Nat /\ stamp[t] \in Nat /\ StoreOf[t] \in Hi!Stores
                              /\ index[StoreOf[t]].entries[t] <= stamp[t] \/ t \in away
                              /\ refresh[p].next[StoreOf[t]].entries[t] <= stamp[t] \/ t \in away
  BY <1>1, IndexIs DEF HistoryInv, StampInv, Reads, IndexReadings
<1>11. StampInv'
  <2>1. ASSUME NEW t \in Transcripts PROVE m[StoreOf[t]].entries[t] <= stamp[t] \/ t \in away
    <3>1. CASE StoreOf[t] = s
      BY <1>4, <1>6, <1>10, <3>1 DEF prev
    <3>2. CASE StoreOf[t] # s
      BY <1>6, <1>10, <3>2
    <3> QED
      BY <3>1, <3>2
  <2> QED
    BY <1>3, <1>5, <1>7, <1>8, <2>1 DEF HistoryInv, StampInv, Unread, Reads
<1>12. RefreshInv'
  <2> SUFFICES ASSUME ~stolen PROVE RefreshInv'
    BY <1>3 DEF RefreshInv
  <2>1. ilock = p
    BY <1>1 DEF HistoryInv, RefreshInv
  <2>2. ASSUME NEW k \in 1..Len(StoreOrder), NEW t \in Transcripts, k < r.at \/ ~r.full, StoreOf[t] = StoreOrder[k]
        PROVE  index[StoreOf[t]].entries[t] <= r.next[StoreOf[t]].entries[t] \/ t \in away'
    <3>1. CASE StoreOf[t] = s
      <4>1. CASE refresh[p].full
        BY <1>4, <1>5, <1>6, <1>7, <1>10, <3>1, <4>1
      <4>2. CASE ~refresh[p].full
        <5>1. index[s].entries[t] <= prev.entries[t] \/ t \in away
          BY <1>1, <2>2, <3>1, <4>2 DEF HistoryInv, RefreshInv, prev
        <5> QED
          BY <1>4, <1>5, <1>6, <1>7, <1>10, <3>1, <5>1
      <4> QED
        BY <4>1, <4>2
    <3>2. CASE StoreOf[t] # s
      <4>1. k < refresh[p].at \/ ~refresh[p].full
        BY <1>1, <1>7, <2>2, <3>2 DEF s
      <4>2. r.next[StoreOf[t]] = refresh[p].next[StoreOf[t]]
        BY <1>6, <1>7, <1>10, <3>2
      <4>3. index[StoreOf[t]].entries[t] <= refresh[p].next[StoreOf[t]].entries[t] \/ t \in away
        BY <1>1, <2>2, <4>1 DEF HistoryInv, RefreshInv
      <4> QED
        BY <1>5, <4>2, <4>3
    <3> QED
      BY <3>1, <3>2
  <2>3. \A q \in Refreshers \ {p} : ~Hi!Scanning(q)
    BY <2>1 DEF HistoryInv, RefreshInv
  <2> QED
    BY <1>3, <1>8, <2>1, <2>2, <2>3 DEF RefreshInv, Hi!Scanning
<1> QED
  BY <1>9, <1>11, <1>12 DEF HistoryInv

LEMMA RefreshStartsKeeps ==
  ASSUME HistoryInv, NEW p \in Refreshers, NEW full \in BOOLEAN, Hi!RefreshStarts(p, full)
  PROVE  HistoryInv'
<1> DEFINE x == IF full THEN Hi!AtRest.next ELSE index
           r == [Hi!AtRest EXCEPT !.at = 1, !.full = full, !.next = x]
<1>1. /\ refresh' = [refresh EXCEPT ![p] = r] /\ ilock = "free" /\ ilock' = p
      /\ UNCHANGED <<stamp, unparsed, store, running, listed, term, asked, happened, outside, away, index, stolen>>
  BY DEF Hi!RefreshStarts, Hi!World
<1>2. /\ index \in [Hi!Stores -> IndexReadings] /\ Hi!AtRest.next \in [Hi!Stores -> IndexReadings]
      /\ x \in [Hi!Stores -> IndexReadings] /\ (~full => x = index)
      /\ \A s \in Hi!Stores : x[s] = index[s] \/ x[s] = Hi!Never
  BY NeverIs DEF HistoryInv, HistoryTypes, Scans
<1> HIDE DEF x
<1>3. r \in Scans /\ r.at = 1 /\ r.full = full /\ r.next = x
  BY <1>2, NeverIs DEF Scans
<1> HIDE DEF r
<1>4. refresh' \in [Refreshers -> Scans] /\ refresh'[p] = r /\ \A q \in Refreshers \ {p} : refresh'[q] = refresh[q]
  BY <1>1, <1>3 DEF HistoryInv, HistoryTypes
<1>5. HistoryTypes' /\ BesideInv'
  BY <1>1, <1>4 DEF HistoryInv, HistoryTypes, BesideInv
<1>6. StampInv'
  <2>1. Reads(x)
    <3>1. \A t \in Transcripts : StoreOf[t] \in Hi!Stores /\ stamp[t] \in Nat
      BY IndexIs DEF HistoryInv, HistoryTypes
    <3> QED
      BY <1>2, <3>1, NeverIs DEF HistoryInv, StampInv, Reads
  <2> QED
    BY <1>1, <1>3, <1>4, <2>1 DEF HistoryInv, StampInv, Unread, Reads
<1>7. RefreshInv'
  <2> SUFFICES ASSUME ~stolen PROVE RefreshInv'
    BY <1>1 DEF RefreshInv
  <2>1. \A q \in Refreshers \ {p} : ~Hi!Scanning(q)
    BY <1>1, IndexIs DEF HistoryInv, RefreshInv
  <2>2. ASSUME NEW k \in 1..Len(StoreOrder), NEW t \in Transcripts, k < r.at \/ ~r.full
        PROVE  index[StoreOf[t]].entries[t] <= r.next[StoreOf[t]].entries[t]
    <3>1. ~(k < r.at)
      BY <1>3
    <3>2. r.next = index /\ index[StoreOf[t]].entries[t] \in Nat
      BY <1>2, <1>3, <2>2, <3>1, IndexIs DEF IndexReadings
    <3> QED
      BY <3>2
  <2> QED
    BY <1>1, <1>4, <2>1, <2>2 DEF RefreshInv, Hi!Scanning
<1> QED
  BY <1>5, <1>6, <1>7 DEF HistoryInv

\* A refresh that is over, or dies, or whose lock is taken.
LEMMA RefreshStopsKeeps ==
  ASSUME HistoryInv, NEW p \in Refreshers, Hi!RefreshEnds(p) \/ Hi!RefreshDies(p) \/ Hi!LockIsStolen(p)
  PROVE  HistoryInv'
<1>1. UNCHANGED <<stamp, unparsed, store, running, listed, term, asked, happened, outside, away>>
  BY DEF Hi!RefreshEnds, Hi!RefreshDies, Hi!LockIsStolen, Hi!World
<1>2. refresh \in [Refreshers -> Scans] /\ \A q \in Refreshers : refresh[q].next \in [Hi!Stores -> IndexReadings]
  BY DEF HistoryInv, HistoryTypes, Scans
<1>3. CASE Hi!LockIsStolen(p)
  <2>1. stolen' /\ UNCHANGED <<index, refresh>>
    BY <1>3 DEF Hi!LockIsStolen
  <2> QED
    BY <1>1, <2>1 DEF HistoryInv, HistoryTypes, BesideInv, StampInv, Unread, Reads, RefreshInv
<1>4. CASE Hi!RefreshEnds(p) \/ Hi!RefreshDies(p)
  <2>1. /\ refresh' = [refresh EXCEPT ![p] = Hi!AtRest] /\ UNCHANGED stolen /\ Hi!Scanning(p)
        /\ index' = index \/ index' = refresh[p].next
        /\ ilock # p => Hi!RefreshEnds(p) \/ UNCHANGED <<index, ilock>>
        /\ ilock' \in {ilock, "free"}
    BY <1>2, <1>4, IndexIs DEF Hi!RefreshEnds, Hi!RefreshDies, Hi!Scanning
  <2>2. refresh' \in [Refreshers -> Scans] /\ refresh'[p] = Hi!AtRest /\ \A q \in Refreshers \ {p} : refresh'[q] = refresh[q]
    BY <1>2, <2>1, NeverIs
  <2>3. HistoryTypes' /\ BesideInv'
    BY <1>1, <1>2, <2>1, <2>2 DEF HistoryInv, HistoryTypes, BesideInv
  <2>4. StampInv'
    <3>1. Reads(index)' /\ \A t \in Transcripts : stamp[t] \in Nat /\ 0 <= stamp[t] /\ StoreOf[t] \in Hi!Stores
      BY <1>1, <2>1, IndexIs DEF HistoryInv, HistoryTypes, StampInv, Reads
    <3> QED
      BY <1>1, <2>2, <3>1, NeverIs DEF HistoryInv, StampInv, Unread, Reads
  <2>5. RefreshInv'
    <3> SUFFICES ASSUME ~stolen, NEW q \in Refreshers \ {p}, Hi!Scanning(q) PROVE FALSE
      BY <2>1, <2>2, NeverIs DEF RefreshInv, Hi!Scanning
    <3> QED
      BY <2>1 DEF HistoryInv, RefreshInv
  <2> QED
    BY <2>3, <2>4, <2>5 DEF HistoryInv
<1> QED
  BY <1>3, <1>4
\* The row of a conversation, with one terminal after the other folded into it.
NextRow(c, row, i) == IF c \in term[i].learned THEN Hi!Claim(row, i) ELSE row
FirstRow(c) == [named |-> 0, updated |-> 0, live |-> Hi!MarkedLive(c)]
AreRows(f, c, m) == f = [i \in 0..m |-> IF i = 0 THEN FirstRow(c) ELSE NextRow(c, f[i - 1], i)]

LEMMA RowsExist ==
  ASSUME NEW c, NEW m \in Nat
  PROVE  \E f : AreRows(f, c, m)
<1> DEFINE Bad == {k \in Nat : ~\E f : AreRows(f, c, k)}
<1>1. SUFFICES ASSUME Bad # {} PROVE FALSE
  OBVIOUS
<1>2. PICK b \in Bad : \A k \in Bad : b <= k
  <2>1. Bad \subseteq Nat
    OBVIOUS
  <2> HIDE DEF Bad
  <2> QED
    BY <1>1, <2>1, LeastElement
<1>3. CASE b = 0
  <2> DEFINE f == [n \in 0..0 |-> FirstRow(c)]
  <2>1. 0..0 = {0}
    OBVIOUS
  <2>2. AreRows(f, c, 0)
    BY <2>1 DEF AreRows
  <2> QED
    BY <1>3, <2>2
<1>4. CASE b # 0
  <2>1. b \in Nat /\ b - 1 \in Nat /\ ~(b <= b - 1)
    BY <1>4
  <2>2. PICK e : AreRows(e, c, b - 1)
    BY <1>2, <2>1
  <2> DEFINE f == [n \in 0..b |-> IF n < b THEN e[n] ELSE NextRow(c, e[b - 1], b)]
  <2>3. ASSUME NEW n \in 0..b PROVE f[n] = IF n = 0 THEN FirstRow(c) ELSE NextRow(c, f[n - 1], n)
    <3>1. CASE n < b
      <4>1. n \in 0..(b - 1) /\ f[n] = e[n]
        BY <2>1, <3>1
      <4>2. e[n] = IF n = 0 THEN FirstRow(c) ELSE NextRow(c, e[n - 1], n)
        BY <2>2, <4>1 DEF AreRows
      <4>3. n # 0 => n - 1 \in 0..b /\ n - 1 < b
        BY <2>1, <4>1
      <4>4. n # 0 => f[n - 1] = e[n - 1]
        BY <4>3
      <4> HIDE DEF f
      <4> QED
        BY <4>1, <4>2, <4>4
    <3>2. CASE ~(n < b)
      <4>1. n = b /\ n - 1 \in 0..b /\ n - 1 < b
        BY <2>1, <1>4, <3>2
      <4>2. b \in 0..b /\ ~(b < b)
        BY <2>1
      <4>3. f[b] = NextRow(c, e[b - 1], b)
        BY <4>2
      <4>4. f[b - 1] = e[b - 1]
        BY <4>1
      <4> HIDE DEF f
      <4> QED
        BY <1>4, <4>1, <4>3, <4>4
    <3> QED
      BY <3>1, <3>2
  <2>4. f = [n \in 0..b |-> f[n]]
    OBVIOUS
  <2> HIDE DEF f
  <2>5. AreRows(f, c, b)
    BY <2>3, <2>4 DEF AreRows
  <2> QED
    BY <2>5
<1> QED
  BY <1>3, <1>4

\* What a row says of the first n terminals.
Knows(c, i) == c \in term[i].learned
RowTells(c, n, row) ==
  /\ row \in [named : 0..n, updated : Nat, live : BOOLEAN]
  /\ row.named # 0 => Knows(c, row.named) /\ row.updated = term[row.named].updated
  /\ \A i \in 1..n : Knows(c, i) => row.named # 0
  /\ row.live <=> Hi!MarkedLive(c) \/ \E i \in 1..n : Knows(c, i) /\ Hi!Active(i)
  /\ (\E i \in 1..n : Knows(c, i) /\ Hi!Active(i)) => Hi!Active(row.named)
  /\ row.live \/ \A i \in 1..n : Knows(c, i) => term[i].updated <= row.updated

LEMMA ClaimTells ==
  ASSUME HistoryTypes, NEW c, NEW b \in Nat, b # 0, b <= MaxTerms, NEW row, RowTells(c, b - 1, row)
  PROVE  RowTells(c, b, NextRow(c, row, b))
<1>1. /\ b \in Hi!Terms /\ 1..b = 1..(b - 1) \cup {b} /\ b - 1 \in Nat /\ 0..(b - 1) \subseteq 0..b /\ b \in 0..b
      /\ \A i \in 1..b : term[i] \in TermRecords /\ term[i].updated \in Nat
  BY IndexIs DEF HistoryTypes, Hi!Terms, TermRecords
<1>2. CASE ~Knows(c, b)
  <2>1. NextRow(c, row, b) = row
    BY <1>2 DEF NextRow, Knows
  <2>2. row \in [named : 0..b, updated : Nat, live : BOOLEAN]
    BY <1>1 DEF RowTells
  <2>3. \A i \in 1..b : Knows(c, i) => i \in 1..(b - 1)
    BY <1>1, <1>2
  <2> QED
    BY <1>1, <2>1, <2>2, <2>3 DEF RowTells
<1>3. CASE Knows(c, b)
  <2> DEFINE r == NextRow(c, row, b)
  <2>1. /\ Hi!Takes(row, b) => r = [named |-> b, updated |-> term[b].updated, live |-> row.live \/ Hi!Active(b)]
        /\ ~Hi!Takes(row, b) => r = [named |-> row.named, updated |-> row.updated, live |-> row.live \/ Hi!Active(b)]
    BY <1>3 DEF NextRow, Knows, Hi!Claim
  <2>2. row.named \in 0..(b - 1) /\ row.updated \in Nat /\ row.live \in BOOLEAN
    BY DEF RowTells
  <2>3. (row.live \/ Hi!Active(b)) \in BOOLEAN
    BY <2>2 DEF Hi!Active
  <2> HIDE DEF r
  <2>a. /\ Hi!Takes(row, b) => r.named = b /\ r.updated = term[b].updated
        /\ ~Hi!Takes(row, b) => r.named = row.named /\ r.updated = row.updated
    BY <2>1
  <2>b. r.live = (row.live \/ Hi!Active(b))
    BY <2>1
  <2>4. /\ Hi!Takes(row, b) => r.named = b /\ r.updated = term[b].updated
        /\ ~Hi!Takes(row, b) => r.named = row.named /\ r.updated = row.updated
        /\ r.live <=> row.live \/ Hi!Active(b)
    BY <2>a, <2>b, <2>3
  <2>5. r \in [named : 0..b, updated : Nat, live : BOOLEAN]
    <3> DEFINE x == row.live \/ Hi!Active(b)
    <3>0. x \in BOOLEAN
      BY <2>3
    <3>1. /\ Hi!Takes(row, b) => r = [named |-> b, updated |-> term[b].updated, live |-> x]
          /\ ~Hi!Takes(row, b) => r = [named |-> row.named, updated |-> row.updated, live |-> x]
      BY <2>1
    <3> HIDE DEF x
    <3> QED
      BY <1>1, <2>2, <3>0, <3>1
  <2>6. r.named # 0 => Knows(c, r.named) /\ r.updated = term[r.named].updated
    BY <1>3, <2>4 DEF RowTells
  <2>7. r.named # 0
    BY <2>4 DEF Hi!Takes
  <2>8. r.live <=> Hi!MarkedLive(c) \/ \E i \in 1..b : Knows(c, i) /\ Hi!Active(i)
    BY <1>1, <1>3, <2>4 DEF RowTells
  <2>9. (\E i \in 1..b : Knows(c, i) /\ Hi!Active(i)) => Hi!Active(r.named)
    <3>1. CASE Hi!Active(b)
      BY <2>4, <3>1 DEF Hi!Takes
    <3>2. CASE ~Hi!Active(b)
      <4> SUFFICES ASSUME \E i \in 1..(b - 1) : Knows(c, i) /\ Hi!Active(i) PROVE Hi!Active(r.named)
        BY <1>1, <3>2
      <4>1. row.live /\ row.named # 0 /\ Hi!Active(row.named)
        BY DEF RowTells
      <4> QED
        BY <2>4, <3>2, <4>1 DEF Hi!Takes
    <3> QED
      BY <3>1, <3>2
  <2>10. r.live \/ \A i \in 1..b : Knows(c, i) => term[i].updated <= r.updated
    <3> SUFFICES ASSUME ~r.live, NEW i \in 1..b, Knows(c, i) PROVE term[i].updated <= r.updated
      OBVIOUS
    <3>1. ~row.live /\ ~Hi!Active(b)
      BY <2>4
    <3>2. i # b => row.named # 0 /\ term[i].updated <= row.updated
      BY <1>1, <3>1 DEF RowTells
    <3>3. Hi!Takes(row, b) <=> row.named = 0 \/ term[b].updated > row.updated
      BY <3>1 DEF Hi!Takes
    <3> QED
      BY <1>1, <2>2, <2>4, <3>2, <3>3
  <2> QED
    BY <2>5, <2>6, <2>7, <2>8, <2>9, <2>10 DEF RowTells, r
<1> QED
  BY <1>2, <1>3

LEMMA MergedTells ==
  ASSUME HistoryTypes, NEW c
  PROVE  RowTells(c, MaxTerms, Hi!Merged(c))
<1> DEFINE f == CHOOSE g : AreRows(g, c, MaxTerms)
<1>1. Hi!Merged(c) = f[MaxTerms]
  BY DEF Hi!Merged, AreRows, NextRow, FirstRow
<1>2. MaxTerms \in Nat
  BY IndexIs
<1>3. AreRows(f, c, MaxTerms)
  <2>1. \E g : AreRows(g, c, MaxTerms)
    BY <1>2, RowsExist
  <2> QED
    BY <2>1, Zenon
<1> HIDE DEF f
<1> DEFINE Bad == {n \in 0..MaxTerms : ~RowTells(c, n, f[n])}
<1>4. SUFFICES ASSUME Bad # {} PROVE FALSE
  BY <1>1, <1>2
<1>5. PICK b \in Bad : \A k \in Bad : b <= k
  <2>1. Bad \subseteq Nat
    OBVIOUS
  <2> HIDE DEF Bad
  <2> QED
    BY <1>4, <2>1, LeastElement
<1>6. f[b] = IF b = 0 THEN FirstRow(c) ELSE NextRow(c, f[b - 1], b)
  BY <1>3, <1>5 DEF AreRows
<1>7. CASE b = 0
  <2>1. f[0] = FirstRow(c) /\ 0 \in 0..0 /\ 1..0 = {}
    BY <1>6, <1>7
  <2>2. Hi!MarkedLive(c) \in BOOLEAN
    BY DEF Hi!MarkedLive
  <2>3. RowTells(c, 0, FirstRow(c))
    BY <2>1, <2>2 DEF RowTells, FirstRow
  <2> QED
    BY <1>5, <1>7, <2>1, <2>3
<1>8. CASE b # 0
  <2>1. b \in Nat /\ b - 1 \in 0..MaxTerms /\ ~(b <= b - 1) /\ b <= MaxTerms
    BY <1>2, <1>5, <1>8
  <2>2. RowTells(c, b - 1, f[b - 1])
    BY <1>5, <2>1
  <2>3. RowTells(c, b, f[b])
    BY <1>6, <1>8, <2>1, <2>2, ClaimTells
  <2> QED
    BY <1>5, <2>3
<1> QED
  BY <1>7, <1>8

\* The row of a conversation names the terminal a reader must look at.
LEMMA RowsAreRight == HistoryTypes => Hi!RowNamesTheRightOne
<1> SUFFICES ASSUME HistoryTypes, NEW c \in Convs
             PROVE  LET known == {i \in Hi!Terms : c \in term[i].learned}
                        active == {i \in known : Hi!Active(i)}
                        named == Hi!Merged(c).named
                    IN (Hi!Listed(c) # {} /\ known # {}) =>
                         IF active # {} THEN named \in active
                         ELSE Hi!MarkedLive(c) \/ \A i \in known : term[i].updated <= term[named].updated
  BY DEF Hi!RowNamesTheRightOne
<1> DEFINE row == Hi!Merged(c)
<1>1. RowTells(c, MaxTerms, row) /\ Hi!Terms = 1..MaxTerms /\ MaxTerms \in Nat
  BY MergedTells, IndexIs DEF Hi!Terms
<1> HIDE DEF row
<1>2. row.named \in 0..MaxTerms
  BY <1>1 DEF RowTells
<1>3. (\E i \in Hi!Terms : Knows(c, i)) => row.named \in Hi!Terms /\ Knows(c, row.named)
  BY <1>1, <1>2 DEF RowTells
<1>4. (\E i \in Hi!Terms : Knows(c, i) /\ Hi!Active(i)) => Hi!Active(row.named)
  BY <1>1 DEF RowTells
<1>5. \/ Hi!MarkedLive(c) \/ \E i \in Hi!Terms : Knows(c, i) /\ Hi!Active(i)
      \/ \A i \in Hi!Terms : Knows(c, i) => term[i].updated <= term[row.named].updated
  BY <1>1 DEF RowTells
<1> QED
  BY <1>3, <1>4, <1>5 DEF Knows, row
\* One terminal's record is written.
LEMMA TermWritten ==
  ASSUME HistoryInv, NEW i, NEW r \in TermRecords, r.beside = {}, term' = [term EXCEPT ![i] = r],
         happened' \in {happened, happened + 1}, UNCHANGED <<stamp, unparsed, store, running, index, ilock, refresh, stolen, away>>,
         listed' \subseteq AnyConv, asked'.conv \in AnyConv, asked'.beside = {}
  PROVE  HistoryInv'
<1>0. term \in [Hi!Terms -> TermRecords] /\ happened \in Nat \ {0}
  BY DEF HistoryInv, HistoryTypes
<1>t. term' \in [Hi!Terms -> TermRecords]
  BY <1>0
<1>s. \A j \in Hi!Terms : term'[j] = r \/ term'[j] = term[j]
  BY <1>0
<1>h. happened' \in Nat \ {0} /\ happened' >= happened
  BY <1>0
<1>1. /\ term' \in [Hi!Terms -> TermRecords] /\ \A j \in Hi!Terms : term'[j] = r \/ term'[j] = term[j]
      /\ happened' \in Nat \ {0} /\ happened' >= happened
  BY <1>t, <1>s, <1>h
<1>2. HistoryTypes'
  BY <1>1 DEF HistoryInv, HistoryTypes
<1>3. BesideInv'
  BY <1>1 DEF HistoryInv, BesideInv
<1>4. \A t \in Transcripts : /\ stamp'[t] >= stamp[t] \/ t \in away'
                             /\ stamp'[t] <= happened' /\ (Unread(t)' => t \in away')
  BY <1>1 DEF HistoryInv, HistoryTypes, StampInv, Unread
<1> QED
  BY <1>2, <1>3, <1>4, WorldKeeps

\* What terminals do.
LEMMA TermsKeep ==
  ASSUME HistoryInv,
         \/ \E c \in Convs : Hi!TermStarts(c) \/ Hi!Continues(c)
         \/ \E i \in Hi!Terms : Hi!Learns(i) \/ Hi!TermEnds(i, FALSE) \/ Hi!TermEnds(i, TRUE) \/ Hi!RecordTouched(i)
                                \/ \E c \in Convs : Hi!HandsOff(i, c)
         \/ Hi!Attaches
  PROVE  HistoryInv'
<1>1. /\ term \in [Hi!Terms -> TermRecords] /\ happened \in Nat \ {0} /\ happened + 1 \in Nat /\ listed \subseteq AnyConv /\ asked.conv \in AnyConv
      /\ \A i \in Hi!Terms : term[i] \in TermRecords /\ term[i].runs \in AnyConv /\ term[i].learned \subseteq AnyConv /\ term[i].beside = {}
      /\ asked.beside = {} /\ Convs \subseteq AnyConv
  BY DEF HistoryInv, HistoryTypes, BesideInv, TermRecords, AnyConv
<1>2. /\ Hi!NoTerm \in TermRecords /\ Hi!NoTerm.beside = {}
      /\ Hi!NotAsked.conv \in AnyConv /\ Hi!NotAsked.beside = {}
  BY DEF Hi!NoTerm, Hi!NotAsked, TermRecords, AnyConv
<1>3. ASSUME NEW c \in Convs, Hi!TermStarts(c) PROVE HistoryInv'
  <2> DEFINE r == [Hi!NoTerm EXCEPT !.status = "active", !.runs = c, !.updated = happened + 1]
  <2>1. /\ term' = [term EXCEPT ![Hi!NextTerm] = r] /\ happened' = happened + 1
        /\ UNCHANGED <<stamp, unparsed, store, running, listed, asked, away, index, ilock, refresh, stolen>>
    BY <1>3 DEF Hi!TermStarts, Hi!Happens, Hi!Ticks, Hi!Machine
  <2>2. r \in TermRecords /\ r.beside = {}
    BY <1>1, <1>2 DEF TermRecords
  <2> HIDE DEF r
  <2> QED
    BY <1>1, <2>1, <2>2, TermWritten
<1>4. ASSUME NEW c \in Convs, Hi!Continues(c) PROVE HistoryInv'
  <2>1. /\ asked' = [conv |-> c, beside |-> {i \in Hi!Beside(c) : c \in term[i].learned}] /\ Hi!CanContinue(c)
        /\ UNCHANGED <<stamp, unparsed, store, running, listed, term, happened, away, index, ilock, refresh, stolen>>
    BY <1>4 DEF Hi!Continues, Hi!Machine
  <2>2. {i \in Hi!Beside(c) : c \in term[i].learned} = {}
    <3> SUFFICES ASSUME NEW i \in Hi!Terms, Knows(c, i), Hi!Active(i) PROVE FALSE
      BY DEF Hi!Beside, Knows
    <3> DEFINE row == Hi!Merged(c)
    <3>1. RowTells(c, MaxTerms, row) /\ ~(row.named # 0 /\ row.live)
      BY <2>1, MergedTells DEF HistoryInv, Hi!CanContinue
    <3> HIDE DEF row
    <3> QED
      BY <3>1 DEF RowTells, Hi!Terms
  <2>3. HistoryTypes' /\ BesideInv'
    BY <1>1, <2>1, <2>2 DEF HistoryInv, HistoryTypes, BesideInv
  <2>4. \A t \in Transcripts : /\ stamp'[t] >= stamp[t] \/ t \in away'
                               /\ stamp'[t] <= happened' /\ (Unread(t)' => t \in away')
    BY <2>1 DEF HistoryInv, HistoryTypes, StampInv, Unread
  <2> QED
    BY <2>1, <2>3, <2>4, WorldKeeps
<1>5. ASSUME NEW i \in Hi!Terms, Hi!Learns(i) PROVE HistoryInv'
  <2> DEFINE x == term[i].learned \cup {term[i].runs}
             r == [term[i] EXCEPT !.learned = x]
  <2>1. /\ term' = [term EXCEPT ![i] = r]
        /\ UNCHANGED <<stamp, unparsed, store, running, listed, asked, happened, away, index, ilock, refresh, stolen>>
    BY <1>1, <1>5 DEF Hi!Learns, Hi!Machine
  <2>2. r \in TermRecords /\ r.beside = {}
    <3>1. x \in SUBSET AnyConv
      BY <1>1
    <3> HIDE DEF x
    <3>2. r \in TermRecords
      BY <1>1, <3>1 DEF TermRecords
    <3>3. r.beside = {}
      BY <1>1 DEF TermRecords
    <3> QED
      BY <3>2, <3>3
  <2> HIDE DEF r, x
  <2> QED
    BY <1>1, <2>1, <2>2, TermWritten
<1>6. ASSUME NEW i \in Hi!Terms, Hi!TermEnds(i, FALSE) \/ Hi!TermEnds(i, TRUE) PROVE HistoryInv'
  <2> DEFINE x == happened + 1
             r == [term[i] EXCEPT !.status = "ended", !.updated = x]
  <2>1. /\ term' = [term EXCEPT ![i] = r] /\ happened' = happened + 1 /\ listed' \in {listed, listed \cup {term[i].runs}}
        /\ UNCHANGED <<stamp, unparsed, store, running, asked, away, index, ilock, refresh, stolen>>
    BY <1>6 DEF Hi!TermEnds, Hi!Happens, Hi!Ticks, Hi!Machine
  <2>2. r \in TermRecords /\ r.beside = {}
    <3>1. x \in Nat
      BY <1>1
    <3> HIDE DEF x
    <3>2. r \in TermRecords
      <4>1. term[i] \in TermRecords
        BY <1>1
      <4> QED
        BY <3>1, <4>1 DEF TermRecords
    <3>3. r.beside = {}
      BY <1>1 DEF TermRecords
    <3> QED
      BY <3>2, <3>3
  <2> HIDE DEF r
  <2>3. listed' \subseteq AnyConv
    BY <1>1, <2>1
  <2> QED
    BY <1>1, <2>1, <2>2, <2>3, TermWritten
<1>7. ASSUME NEW i \in Hi!Terms, Hi!RecordTouched(i) PROVE HistoryInv'
  <2> DEFINE x == happened + 1
             r == [term[i] EXCEPT !.updated = x]
  <2>1. /\ term' = [term EXCEPT ![i] = r] /\ happened' = happened + 1
        /\ UNCHANGED <<stamp, unparsed, store, running, listed, asked, away, index, ilock, refresh, stolen>>
    BY <1>7 DEF Hi!RecordTouched, Hi!Happens, Hi!Ticks, Hi!Machine
  <2>2. r \in TermRecords /\ r.beside = {}
    <3>1. x \in Nat
      BY <1>1
    <3> HIDE DEF x
    <3>2. r \in TermRecords
      BY <1>1, <3>1 DEF TermRecords
    <3>3. r.beside = {}
      BY <1>1 DEF TermRecords
    <3> QED
      BY <3>2, <3>3
  <2> HIDE DEF r
  <2> QED
    BY <1>1, <2>1, <2>2, TermWritten
<1>8. ASSUME NEW i \in Hi!Terms, NEW c \in Convs, Hi!HandsOff(i, c) PROVE HistoryInv'
  <2> DEFINE x == happened + 1
             r == [term[i] EXCEPT !.runs = c, !.updated = x]
  <2>1. /\ term' = [term EXCEPT ![i] = r] /\ happened' = happened + 1
        /\ UNCHANGED <<stamp, unparsed, store, running, listed, asked, away, index, ilock, refresh, stolen>>
    BY <1>1, <1>8 DEF Hi!HandsOff, Hi!Happens, Hi!Ticks, Hi!Machine
  <2>2. r \in TermRecords /\ r.beside = {}
    <3>1. x \in Nat
      BY <1>1
    <3> HIDE DEF x
    <3>2. r \in TermRecords
      <4>1. term[i] \in TermRecords /\ c \in AnyConv
        BY <1>1
      <4> QED
        BY <3>1, <4>1 DEF TermRecords
    <3>3. r.beside = {}
      BY <1>1 DEF TermRecords
    <3> QED
      BY <3>2, <3>3
  <2> HIDE DEF r
  <2> QED
    BY <1>1, <2>1, <2>2, TermWritten
<1>9. ASSUME Hi!Attaches PROVE HistoryInv'
  <2> DEFINE r == [status |-> "active", runs |-> asked.conv, learned |-> {asked.conv}, updated |-> happened + 1, beside |-> asked.beside]
  <2>1. /\ term' = [term EXCEPT ![Hi!NextTerm] = r] /\ happened' = happened + 1 /\ asked' = Hi!NotAsked
        /\ UNCHANGED <<stamp, unparsed, store, running, listed, away, index, ilock, refresh, stolen>>
    BY <1>9 DEF Hi!Attaches, Hi!Happens, Hi!Ticks, Hi!Machine
  <2>2. r \in TermRecords /\ r.beside = {}
    BY <1>1 DEF TermRecords
  <2> HIDE DEF r
  <2> QED
    BY <1>1, <1>2, <2>1, <2>2, TermWritten
<1> QED
  BY <1>3, <1>4, <1>5, <1>6, <1>7, <1>8, <1>9

\* What agents, stores and the user do.
LEMMA WorldTurns ==
  ASSUME HistoryInv,
         \/ \E t \in Transcripts : Hi!Removed(t) \/ \E whole \in BOOLEAN : Hi!Writes(t, whole)
         \/ \E s \in Hi!Stores, how \in {"here", "broken", "unreadable", "gone"} : Hi!StoreTurns(s, how)
         \/ \E c \in Convs : Hi!UserRuns(c)
  PROVE  HistoryInv'
<1>1. /\ happened' = happened + 1 /\ UNCHANGED <<listed, term, asked, index, ilock, refresh, stolen>>
      /\ happened \in Nat \ {0} /\ happened' \in Nat \ {0} /\ stamp \in [Transcripts -> Nat]
      /\ \A t \in Transcripts : stamp[t] \in Nat /\ stamp[t] <= happened /\ StoreOf[t] \in Hi!Stores /\ (Unread(t) => t \in away)
  BY IndexIs DEF Hi!Writes, Hi!Removed, Hi!StoreTurns, Hi!UserRuns, Hi!HappensOutside, Hi!Ticks, Hi!Machine, HistoryInv, HistoryTypes, StampInv
<1>2. \/ \E t \in Transcripts : /\ stamp' = [stamp EXCEPT ![t] = happened + 1] /\ UNCHANGED <<store, running>>
                                /\ \/ unparsed' = unparsed \ {t} /\ UNCHANGED away
                                   \/ unparsed' = unparsed \cup {t} /\ away' = away \cup {t}
      \/ \E t \in Transcripts : stamp' = [stamp EXCEPT ![t] = 0] /\ away' = away \cup {t} /\ UNCHANGED <<unparsed, store, running>>
      \/ \E s \in Hi!Stores, how \in {"here", "broken", "unreadable", "gone"} :
           /\ store' = [store EXCEPT ![s] = how] /\ UNCHANGED <<stamp, unparsed, running>>
           /\ away' = IF how \in {"gone", "unreadable"} THEN away \cup Hi!In(s) ELSE away
      \/ \E c \in Convs : running' \in {running \ {c}, running \cup {c}} /\ UNCHANGED <<stamp, unparsed, store, away>>
  BY DEF Hi!Writes, Hi!Removed, Hi!StoreTurns, Hi!UserRuns
<1>3. running' \subseteq AnyConv /\ stamp' \in [Transcripts -> Nat]
  BY <1>1, <1>2 DEF HistoryInv, HistoryTypes, AnyConv
<1>4. HistoryTypes' /\ BesideInv'
  BY <1>1, <1>3 DEF HistoryInv, HistoryTypes, BesideInv
<1>5. away \subseteq away'
  BY <1>2
<1>6. ASSUME NEW t \in Transcripts
      PROVE  /\ stamp'[t] >= stamp[t] \/ t \in away'
             /\ stamp'[t] <= happened'
  BY <1>1, <1>2
<1>7. ASSUME NEW t \in Transcripts, Unread(t)' PROVE t \in away'
  <2>1. CASE t \in unparsed'
    <3>1. t \in unparsed \/ t \in away'
      BY <1>2, <2>1
    <3> QED
      BY <1>1, <1>5, <3>1 DEF Unread
  <2>2. CASE store'[StoreOf[t]] \in {"gone", "unreadable"} /\ UNCHANGED store
    BY <1>1, <1>5, <2>2 DEF Unread
  <2>3. ASSUME store'[StoreOf[t]] \in {"gone", "unreadable"}, NEW s \in Hi!Stores, NEW how, store' = [store EXCEPT ![s] = how],
               away' = IF how \in {"gone", "unreadable"} THEN away \cup Hi!In(s) ELSE away
        PROVE  t \in away'
    <3>1. CASE StoreOf[t] = s /\ s \in DOMAIN store
      BY <2>3, <3>1 DEF Hi!In
    <3>2. CASE ~(StoreOf[t] = s /\ s \in DOMAIN store)
      <4>1. store'[StoreOf[t]] = store[StoreOf[t]]
        BY <2>3, <3>2
      <4> QED
        BY <1>1, <1>5, <2>3, <4>1 DEF Unread
    <3> QED
      BY <3>1, <3>2
  <2>4. t \in unparsed' \/ store'[StoreOf[t]] \in {"gone", "unreadable"}
    BY <1>7 DEF Unread
  <2> QED
    BY <1>2, <2>1, <2>2, <2>3, <2>4
<1> QED
  BY <1>1, <1>4, <1>5, <1>6, <1>7, WorldKeeps

LEMMA HistoryStep ==
  ASSUME HistoryInv, Hi!HistoryNext
  PROVE  HistoryInv'
BY ScansStoreKeeps, RefreshStartsKeeps, RefreshStopsKeeps, WorldTurns, TermsKeep DEF Hi!HistoryNext

LEMMA HistoryRests ==
  ASSUME HistoryInv, UNCHANGED Hivars
  PROVE  HistoryInv'
<1>1. UNCHANGED <<stamp, unparsed, store, running, listed, term, index, ilock, refresh, asked, happened, outside, away, stolen>>
  BY DEF Hivars
<1>2. HistoryTypes' /\ BesideInv'
  BY <1>1 DEF HistoryInv, HistoryTypes, BesideInv
<1>3. \A t \in Transcripts : /\ stamp'[t] >= stamp[t] \/ t \in away'
                             /\ stamp'[t] <= happened' /\ (Unread(t)' => t \in away')
  BY <1>1 DEF HistoryInv, HistoryTypes, StampInv, Unread
<1> QED
  BY <1>1, <1>2, <1>3, WorldKeeps

\* The index is written when every store was scanned.
LEMMA IndexGoesForward ==
  ASSUME HistoryInv, Hi!HistoryNext
  PROVE  Hi!IndexMovesForward
<1>1. SUFFICES ASSUME ~stolen, NEW t \in Transcripts
               PROVE  index'[StoreOf[t]].entries[t] >= index[StoreOf[t]].entries[t] \/ t \in away
  BY DEF Hi!IndexMovesForward
<1>2. StoreOf[t] \in Hi!Stores /\ index[StoreOf[t]].entries[t] \in Nat
  BY IndexIs DEF HistoryInv, HistoryTypes, IndexReadings
<1>3. CASE UNCHANGED index
  BY <1>2, <1>3
<1>4. ASSUME NEW p \in Refreshers, Hi!RefreshEnds(p) PROVE index'[StoreOf[t]].entries[t] >= index[StoreOf[t]].entries[t] \/ t \in away
  <2>1. /\ refresh[p].at > Len(StoreOrder) /\ index' = refresh[p].next /\ refresh[p].at \in Nat
        /\ refresh[p].next[StoreOf[t]].entries[t] \in Nat
    BY <1>2, <1>4 DEF Hi!RefreshEnds, HistoryInv, HistoryTypes, Scans, IndexReadings
  <2>2. PICK k \in 1..Len(StoreOrder) : StoreOf[t] = StoreOrder[k]
    BY <1>2, IndexIs
  <2>3. k < refresh[p].at /\ refresh[p].at # 0
    BY <2>1, <2>2, IndexIs
  <2>4. index[StoreOf[t]].entries[t] <= refresh[p].next[StoreOf[t]].entries[t] \/ t \in away
    BY <1>1, <2>2, <2>3 DEF HistoryInv, RefreshInv, Hi!Scanning
  <2> QED
    BY <1>2, <2>1, <2>4
<1>5. UNCHANGED index \/ \E p \in Refreshers : Hi!RefreshEnds(p)
  BY DEF Hi!HistoryNext, Hi!RefreshStarts, Hi!LockIsStolen, Hi!RefreshDies, Hi!ScansStore, Hi!Writes, Hi!Removed, Hi!StoreTurns,
         Hi!UserRuns, Hi!TermStarts, Hi!Continues, Hi!Learns, Hi!TermEnds, Hi!RecordTouched, Hi!HandsOff, Hi!Attaches, Hi!Machine
<1> QED
  BY <1>3, <1>4, <1>5

\* RecordsSpec => HistoryHolds: a conversation is never continued beside a terminal that was known to run it, its row names the
\* terminal a reader must look at, and the index never goes back while no lock was outlived (refreshIndex, mergeWithSessions).
THEOREM HistoryHoldsThm == RecordsSpec => HistoryHolds
<1> DEFINE Inv == part = "history" => HistoryInv
           Act == part = "history" => Hi!IndexMovesForward
<1>1. RecordsInit => Inv
  BY HistoryStart DEF RecordsInit
<1>2. Inv /\ [RecordsNext]_recordsVars => Inv'
  <2> SUFFICES ASSUME Inv, [RecordsNext]_recordsVars PROVE Inv'
    OBVIOUS
  <2>1. CASE part = "history" /\ Hi!HistoryNext /\ UNCHANGED part
    BY <2>1, HistoryStep
  <2>2. CASE part # "history" /\ UNCHANGED part
    BY <2>2
  <2>3. CASE part = "history" /\ UNCHANGED recordsVars
    BY <2>3, HistoryRests DEF recordsVars, Hivars
  <2> QED
    BY <2>1, <2>2, <2>3 DEF RecordsNext, recordsVars
<1>3. Inv => (part = "history" => Hi!NeverBesideAKnownOne /\ Hi!RowNamesTheRightOne)
  BY RowsAreRight DEF HistoryInv, BesideInv, Hi!NeverBesideAKnownOne
<1>4. Inv /\ [RecordsNext]_recordsVars => [Act]_recordsVars
  <2> SUFFICES ASSUME Inv, RecordsNext, part = "history" PROVE Hi!IndexMovesForward
    OBVIOUS
  <2> QED
    BY IndexGoesForward DEF RecordsNext
<1> QED
  BY <1>1, <1>2, <1>3, <1>4, PTL DEF RecordsSpec, HistoryHolds
=============================================================================
