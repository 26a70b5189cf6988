--------------------------- MODULE SchedulerProofs ---------------------------
(***************************************************************************)
(* Theorems about Scheduler.tla: its types, and that what a tick starts    *)
(* may run beside what runs, for any cards, processes and bounds.          *)
(***************************************************************************)
EXTENDS Scheduler, FiniteSetTheorems, TLAPS

-----------------------------------------------------------------------------
(* What is committed.                                                      *)

LEMMA CommittedIsFinite ==
  ASSUME NEW S \in SUBSET Cards
  PROVE  IsFiniteSet(S) /\ Cardinality(S) \in Nat
BY CardsAssumption, FS_Subset, FS_CardinalityType

\* No step but a tick commits another card.
LEMMA Shrinks ==
  ASSUME ApartInv, CountInv, Committed' \subseteq Committed, both => both'
  PROVE  ApartInv' /\ CountInv'
<1>1. ApartInv'
  BY DEF ApartInv
<1>2. Committed \in SUBSET Cards /\ Committed' \in SUBSET Cards
  BY DEF Committed
<1>3. /\ Cardinality(Committed') <= Cardinality(Committed)
      /\ Cardinality(Committed) \in Nat /\ Cardinality(Committed') \in Nat
  BY <1>2, CommittedIsFinite, FS_Subset
<1>4. CountInv'
  BY <1>3, BoundsAssumption DEF CountInv
<1>5. QED
  BY <1>1, <1>4

-----------------------------------------------------------------------------
(* Every step but a tick.                                                  *)

LEMMA BootCreateStep ==
  ASSUME SchedInv, NEW s \in Scheds, BootCreate(s)
  PROVE  SchedInv'
<1>1. TypeOK'
  BY DEF SchedInv, TypeOK, BootCreate, BootTo, cards, terminals
<1>2. ProcsInv'
  BY DEF SchedInv, TypeOK, ProcsInv, On, BootCreate, BootTo, cards
<1>3. DriversInv'
  BY DEF SchedInv, DriversInv, Planned, Driven, BootCreate, BootTo, cards
<1>4. Committed' \subseteq Committed /\ (both => both')
  BY DEF SchedInv, Committed, Planned, Driven, BootCreate, BootTo, cards
<1>5. AloneInv'
  BY DEF SchedInv, AloneInv, Active, Planned, Driven, BootCreate, BootTo, cards, terminals
<1>6. QED
  BY <1>1, <1>2, <1>3, <1>4, <1>5, Shrinks DEF SchedInv

LEMMA BootWriteStep ==
  ASSUME SchedInv, NEW s \in Scheds, BootWrite(s)
  PROVE  SchedInv'
<1>1. TypeOK'
  BY DEF SchedInv, TypeOK, BootWrite, BootTo, cards, terminals
<1>2. ProcsInv'
  <2>1. ~both' => ~both /\ \A r \in Scheds \ {s} : ~On(r)
    BY DEF BootWrite, BootTo
  <2>2. UNCHANGED <<up, plan, busy, driver>> /\ \A r \in Scheds \ {s} : On(r)' => On(r)
    BY DEF SchedInv, BootWrite, BootTo, On, cards
  <2>3. On(s)'
    BY DEF SchedInv, TypeOK, BootWrite, BootTo, On
  <2>4. \A r \in Scheds : On(r) => On(r)'
    BY <2>2, <2>3 DEF SchedInv, BootWrite, BootTo, On
  <2>5. QED
    BY <2>1, <2>2, <2>3, <2>4 DEF SchedInv, ProcsInv
<1>3. DriversInv'
  BY DEF SchedInv, DriversInv, Planned, Driven, BootWrite, BootTo, cards
<1>4. Committed' \subseteq Committed /\ (both => both')
  BY DEF SchedInv, Committed, Planned, Driven, BootWrite, BootTo, cards
<1>5. AloneInv'
  BY DEF SchedInv, AloneInv, Active, Planned, Driven, BootWrite, BootTo, cards, terminals
<1>6. QED
  BY <1>1, <1>2, <1>3, <1>4, <1>5, Shrinks DEF SchedInv

LEMMA BootCheckStep ==
  ASSUME SchedInv, NEW s \in Scheds, BootCheck(s)
  PROVE  SchedInv'
<1>1. TypeOK'
  BY DEF SchedInv, TypeOK, BootCheck, BootTo, cards, terminals
<1>2. ProcsInv'
  BY DEF SchedInv, TypeOK, ProcsInv, On, BootCheck, BootTo, cards
<1>3. DriversInv'
  BY DEF SchedInv, DriversInv, Planned, Driven, BootCheck, BootTo, cards
<1>4. Committed' \subseteq Committed /\ (both => both')
  BY DEF SchedInv, Committed, Planned, Driven, BootCheck, BootTo, cards
<1>5. AloneInv'
  BY DEF SchedInv, AloneInv, Active, Planned, Driven, BootCheck, BootTo, cards, terminals
<1>6. QED
  BY <1>1, <1>2, <1>3, <1>4, <1>5, Shrinks DEF SchedInv

LEMMA BootOverwriteStep ==
  ASSUME SchedInv, NEW s \in Scheds, BootOverwrite(s)
  PROVE  SchedInv'
<1>1. TypeOK'
  BY DEF SchedInv, TypeOK, BootOverwrite, BootTo, cards, terminals
<1>2. ProcsInv'
  <2>1. ~both' => ~both /\ \A r \in Scheds \ {s} : ~On(r)
    BY DEF BootOverwrite, BootTo
  <2>2. UNCHANGED <<up, plan, busy, driver>> /\ \A r \in Scheds \ {s} : On(r)' => On(r)
    BY DEF SchedInv, BootOverwrite, BootTo, On, cards
  <2>3. On(s)'
    BY DEF SchedInv, TypeOK, BootOverwrite, BootTo, On
  <2>4. \A r \in Scheds : On(r) => On(r)'
    BY <2>2, <2>3 DEF SchedInv, BootOverwrite, BootTo, On
  <2>5. QED
    BY <2>1, <2>2, <2>3, <2>4 DEF SchedInv, ProcsInv
<1>3. DriversInv'
  BY DEF SchedInv, DriversInv, Planned, Driven, BootOverwrite, BootTo, cards
<1>4. Committed' \subseteq Committed /\ (both => both')
  BY DEF SchedInv, Committed, Planned, Driven, BootOverwrite, BootTo, cards
<1>5. AloneInv'
  BY DEF SchedInv, AloneInv, Active, Planned, Driven, BootOverwrite, BootTo, cards, terminals
<1>6. QED
  BY <1>1, <1>2, <1>3, <1>4, <1>5, Shrinks DEF SchedInv

LEMMA FinishStep ==
  ASSUME SchedInv, NEW s \in Scheds, Finish(s)
  PROVE  SchedInv'
<1>1. TypeOK'
  <2>1. pidfile' \in Scheds \cup {"none", "dead"} /\ written' \in BOOLEAN /\ armed' \subseteq Adopted
    BY DEF SchedInv, TypeOK, Finish
  <2>2. acts' \in 0..MaxActs /\ up' \subseteq Procs
    BY BoundsAssumption DEF SchedInv, TypeOK, Finish
  <2>3. QED
    BY <2>1, <2>2 DEF SchedInv, TypeOK, Finish, cards
<1>2. ProcsInv'
  BY DEF SchedInv, ProcsInv, On, Finish, cards
<1>3. DriversInv'
  BY DEF SchedInv, DriversInv, Planned, Driven, Finish, cards
<1>4. Committed' \subseteq Committed /\ (both => both')
  BY DEF SchedInv, Committed, Planned, Driven, Finish, cards
<1>5. AloneInv'
  BY DEF SchedInv, AloneInv, Active, Planned, Driven, Finish, cards
<1>6. QED
  BY <1>1, <1>2, <1>3, <1>4, <1>5, Shrinks DEF SchedInv

LEMMA RunCardStep ==
  ASSUME SchedInv, NEW s \in Scheds, NEW c \in Cards, RunCard(s, c)
  PROVE  SchedInv'
<1>1. TypeOK'
  BY DEF SchedInv, TypeOK, RunCard, On, terminals, pid
<1>2. ProcsInv'
  BY DEF SchedInv, TypeOK, ProcsInv, On, RunCard, Claimed, pid
<1>3. DriversInv'
  BY ProcsAssumption, CardsAssumption DEF SchedInv, TypeOK, DriversInv, Planned, Driven, RunCard
<1>4. Committed' \subseteq Committed /\ (both => both')
  BY DEF SchedInv, TypeOK, Committed, Planned, Driven, RunCard, pid
<1>5. AloneInv'
  BY CardsAssumption DEF SchedInv, TypeOK, AloneInv, Active, Planned, Driven, RunCard, terminals
<1>6. QED
  BY <1>1, <1>2, <1>3, <1>4, <1>5, Shrinks DEF SchedInv

LEMMA CardRunStep ==
  ASSUME SchedInv, NEW r \in Runners, NEW c \in Cards, CardRun(r, c)
  PROVE  SchedInv'
<1>1. TypeOK'
  BY BoundsAssumption DEF SchedInv, TypeOK, Statuses, CardRun, SetStatus, terminals, pid
<1>2. ProcsInv'
  BY ProcsAssumption DEF SchedInv, TypeOK, ProcsInv, On, CardRun, Claimed, pid
<1>3. DriversInv'
  BY DEF SchedInv, TypeOK, DriversInv, Planned, Driven, CardRun, SetStatus
<1>4. Committed' \subseteq Committed /\ (both => both')
  BY DEF SchedInv, Committed, Planned, Driven, CardRun, SetStatus, pid
<1>5. AloneInv'
  BY DEF SchedInv, AloneInv, Active, Planned, Driven, CardRun, SetStatus, terminals
<1>6. QED
  BY <1>1, <1>2, <1>3, <1>4, <1>5, Shrinks DEF SchedInv

LEMMA DriveHandoffStep ==
  ASSUME SchedInv, NEW p \in Procs, DriveHandoff(p)
  PROVE  SchedInv'
<1>1. TypeOK'
  BY DEF SchedInv, TypeOK, Statuses, DriveHandoff, SetStatus, Rest, terminals, pid
<1>2. ProcsInv'
  BY DEF SchedInv, ProcsInv, On, DriveHandoff, pid
<1>3. DriversInv'
  BY CardsAssumption DEF SchedInv, TypeOK, ProcsInv, DriversInv, Planned, Driven, DriveHandoff, SetStatus, Rest
<1>4. Committed' \subseteq Committed /\ (both => both')
  BY DEF SchedInv, TypeOK, Committed, Planned, Driven, ActiveStatuses, DriveHandoff, SetStatus, Rest, pid
<1>5. AloneInv'
  BY DEF SchedInv, TypeOK, AloneInv, Active, ActiveStatuses, Planned, Driven, DriveHandoff, SetStatus, Rest, terminals
<1>6. QED
  BY <1>1, <1>2, <1>3, <1>4, <1>5, Shrinks DEF SchedInv

LEMMA DriveStartStep ==
  ASSUME SchedInv, NEW p \in Procs, DriveStart(p)
  PROVE  SchedInv'
<1>1. TypeOK'
  BY DEF SchedInv, TypeOK, Statuses, DriveStart, SetStatus, terminals, pid
<1>2. ProcsInv'
  BY DEF SchedInv, ProcsInv, On, DriveStart, pid
<1>3. DriversInv'
  BY DEF SchedInv, TypeOK, DriversInv, Planned, Driven, DriveStart, SetStatus
<1>4. Committed' \subseteq Committed /\ (both => both')
  BY CardsAssumption DEF SchedInv, ProcsInv, Committed, Planned, Driven, DriveStart, SetStatus, pid
<1>5. AloneInv'
  BY CardsAssumption DEF SchedInv, ProcsInv, AloneInv, Active, Planned, Driven, DriveStart, SetStatus, terminals
<1>6. QED
  BY <1>1, <1>2, <1>3, <1>4, <1>5, Shrinks DEF SchedInv

LEMMA DriveReturnStep ==
  ASSUME SchedInv, NEW p \in Procs, DriveReturn(p)
  PROVE  SchedInv'
<1>1. TypeOK'
  BY DEF SchedInv, TypeOK, DriveReturn, LetGo, terminals, pid
<1>2. ProcsInv'
  BY ProcsAssumption DEF SchedInv, TypeOK, ProcsInv, On, DriveReturn, LetGo, pid
<1>3. DriversInv'
  BY ProcsAssumption DEF SchedInv, TypeOK, DriversInv, Planned, Driven, DriveReturn, LetGo
<1>4. Committed' \subseteq Committed /\ (both => both')
  BY DEF SchedInv, Committed, Planned, Driven, DriveReturn, LetGo, pid
<1>5. AloneInv'
  BY CardsAssumption DEF SchedInv, ProcsInv, AloneInv, Active, Planned, Driven, DriveReturn, LetGo, terminals
<1>6. QED
  BY <1>1, <1>2, <1>3, <1>4, <1>5, Shrinks DEF SchedInv

LEMMA WorkEndsStep ==
  ASSUME SchedInv, NEW p \in Procs, NEW c \in Cards, WorkEnds(p, c)
  PROVE  SchedInv'
<1>1. TypeOK'
  BY BoundsAssumption DEF SchedInv, TypeOK, Statuses, WorkEnds, Awaits, Idle, SetStatus, Rest, terminals, pid
<1>2. ProcsInv'
  BY DEF SchedInv, ProcsInv, On, WorkEnds, Awaits, Idle, pid
<1>3. DriversInv'
  BY CardsAssumption DEF SchedInv, TypeOK, DriversInv, Planned, Driven, WorkEnds, Awaits, Idle, SetStatus, Rest
<1>4. Committed' \subseteq Committed /\ (both => both')
  BY DEF SchedInv, TypeOK, Committed, Planned, Driven, ActiveStatuses, WorkEnds, Awaits, Idle, SetStatus, Rest, pid
<1>5. AloneInv'
  BY DEF SchedInv, TypeOK, AloneInv, Active, Planned, Driven, WorkEnds, Awaits, Idle, SetStatus, Rest, terminals
<1>6. QED
  BY <1>1, <1>2, <1>3, <1>4, <1>5, Shrinks DEF SchedInv

LEMMA WorkEndsMovedStep ==
  ASSUME SchedInv, NEW p \in Procs, NEW c \in Cards, WorkEndsMoved(p, c)
  PROVE  SchedInv'
<1>1. TypeOK'
  BY DEF SchedInv, TypeOK, WorkEndsMoved, Awaits, Idle, terminals, pid
<1>2. ProcsInv'
  BY DEF SchedInv, ProcsInv, On, WorkEndsMoved, Awaits, Idle, pid
<1>3. DriversInv'
  BY CardsAssumption DEF SchedInv, DriversInv, Planned, Driven, WorkEndsMoved, Awaits, Idle
<1>4. Committed' \subseteq Committed /\ (both => both')
  BY DEF SchedInv, Committed, Planned, Driven, WorkEndsMoved, Awaits, Idle, pid
<1>5. AloneInv'
  BY DEF SchedInv, AloneInv, Active, Planned, Driven, WorkEndsMoved, Awaits, Idle, terminals
<1>6. QED
  BY <1>1, <1>2, <1>3, <1>4, <1>5, Shrinks DEF SchedInv

LEMMA EnqueueStep ==
  ASSUME SchedInv, NEW c \in Cards, Enqueue(c)
  PROVE  SchedInv'
<1>1. TypeOK'
  BY DEF SchedInv, TypeOK, Statuses, Enqueue, HumanUnchanged, SetStatus, terminals, pid
<1>2. ProcsInv'
  BY DEF SchedInv, ProcsInv, On, Enqueue, HumanUnchanged, pid
<1>3. DriversInv'
  BY DEF SchedInv, DriversInv, Planned, Driven, Enqueue, HumanUnchanged, SetStatus
<1>4. Committed' \subseteq Committed /\ (both => both')
  BY DEF SchedInv, DriversInv, Committed, Planned, Driven, ActiveStatuses, Enqueue, HumanUnchanged, SetStatus, pid
<1>5. AloneInv'
  BY DEF SchedInv, AloneInv, Active, ActiveStatuses, Planned, Driven, Enqueue, HumanUnchanged, SetStatus, terminals
<1>6. QED
  BY <1>1, <1>2, <1>3, <1>4, <1>5, Shrinks DEF SchedInv

LEMMA RequeueStep ==
  ASSUME SchedInv, NEW c \in Cards, Requeue(c)
  PROVE  SchedInv'
<1>1. TypeOK'
  BY BoundsAssumption DEF SchedInv, TypeOK, Statuses, Requeue, QueueAgain, HumanUnchanged, Act, SetStatus, terminals, pid
<1>2. ProcsInv'
  BY DEF SchedInv, ProcsInv, On, Requeue, HumanUnchanged, pid
<1>3. DriversInv'
  BY DEF SchedInv, DriversInv, Planned, Driven, Requeue, QueueAgain, HumanUnchanged, SetStatus
<1>4. Committed' \subseteq Committed /\ (both => both')
  BY DEF SchedInv, Committed, Planned, Driven, ActiveStatuses, Requeue, QueueAgain, HumanUnchanged, SetStatus, pid
<1>5. AloneInv'
  BY DEF SchedInv, AloneInv, Active, ActiveStatuses, Planned, Driven, Requeue, QueueAgain, HumanUnchanged, SetStatus, terminals
<1>6. QED
  BY <1>1, <1>2, <1>3, <1>4, <1>5, Shrinks DEF SchedInv

LEMMA StopStep ==
  ASSUME SchedInv, NEW c \in Cards, Stop(c)
  PROVE  SchedInv'
<1>1. TypeOK'
  BY BoundsAssumption DEF SchedInv, TypeOK, Statuses, Stop, Rest, HumanUnchanged, Act, SetStatus, terminals, pid
<1>2. ProcsInv'
  BY DEF SchedInv, ProcsInv, On, Stop, HumanUnchanged, pid
<1>3. DriversInv'
  BY DEF SchedInv, DriversInv, Planned, Driven, Stop, Rest, HumanUnchanged, SetStatus
<1>4. Committed' \subseteq Committed /\ (both => both')
  BY DEF SchedInv, Committed, Planned, Driven, ActiveStatuses, Stop, Rest, HumanUnchanged, SetStatus, pid
<1>5. AloneInv'
  BY DEF SchedInv, AloneInv, Active, ActiveStatuses, Planned, Driven, Stop, Rest, HumanUnchanged, SetStatus, terminals
<1>6. QED
  BY <1>1, <1>2, <1>3, <1>4, <1>5, Shrinks DEF SchedInv

LEMMA ReassignStep ==
  ASSUME SchedInv, NEW c \in Cards, Reassign(c)
  PROVE  SchedInv'
<1>1. TypeOK'
  BY BoundsAssumption DEF SchedInv, TypeOK, Statuses, Reassign, QueueAgain, HumanUnchanged, Act, SetStatus, terminals, pid
<1>2. ProcsInv'
  BY DEF SchedInv, ProcsInv, On, Reassign, HumanUnchanged, pid
<1>3. DriversInv'
  BY DEF SchedInv, DriversInv, Planned, Driven, Reassign, QueueAgain, HumanUnchanged, SetStatus
<1>4. Committed' \subseteq Committed /\ (both => both')
  BY DEF SchedInv, Committed, Planned, Driven, ActiveStatuses, Reassign, QueueAgain, HumanUnchanged, SetStatus, pid
<1>5. AloneInv'
  BY DEF SchedInv, AloneInv, Active, ActiveStatuses, Planned, Driven, Reassign, QueueAgain, HumanUnchanged, SetStatus, terminals
<1>6. QED
  BY <1>1, <1>2, <1>3, <1>4, <1>5, Shrinks DEF SchedInv

LEMMA HandOffNowStep ==
  ASSUME SchedInv, NEW c \in Cards, HandOffNow(c)
  PROVE  SchedInv'
<1>1. TypeOK'
  BY BoundsAssumption DEF SchedInv, TypeOK, Statuses, HandOffNow, HumanUnchanged, Act, SetStatus, terminals, pid
<1>2. ProcsInv'
  BY DEF SchedInv, ProcsInv, On, HandOffNow, HumanUnchanged, pid
<1>3. DriversInv'
  BY DEF SchedInv, DriversInv, Planned, Driven, HandOffNow, HumanUnchanged, SetStatus
<1>4. Committed' \subseteq Committed /\ (both => both')
  BY DEF SchedInv, Committed, Planned, Driven, ActiveStatuses, HandOffNow, HumanUnchanged, SetStatus, pid
<1>5. AloneInv'
  BY DEF SchedInv, AloneInv, Active, ActiveStatuses, Planned, Driven, HandOffNow, HumanUnchanged, SetStatus, terminals
<1>6. QED
  BY <1>1, <1>2, <1>3, <1>4, <1>5, Shrinks DEF SchedInv

LEMMA TerminalStopsStep ==
  ASSUME SchedInv, NEW c \in Cards, TerminalStops(c)
  PROVE  SchedInv'
<1>1. TypeOK'
  BY DEF SchedInv, TypeOK, TerminalStops, cards, pid
<1>2. ProcsInv'
  BY DEF SchedInv, ProcsInv, On, TerminalStops, cards, pid
<1>3. DriversInv'
  BY DEF SchedInv, DriversInv, Planned, Driven, TerminalStops, cards
<1>4. Committed' \subseteq Committed /\ (both => both')
  BY DEF SchedInv, Committed, Planned, Driven, TerminalStops, cards, pid
<1>5. AloneInv'
  BY DEF SchedInv, AloneInv, Active, Planned, Driven, TerminalStops, cards
<1>6. QED
  BY <1>1, <1>2, <1>3, <1>4, <1>5, Shrinks DEF SchedInv

LEMMA TimerStep ==
  ASSUME SchedInv, NEW c \in Cards, Timer(c)
  PROVE  SchedInv'
<1>1. TypeOK'
  BY DEF SchedInv, TypeOK, Statuses, Timer, SetStatus, pid
<1>2. ProcsInv'
  BY DEF SchedInv, ProcsInv, On, Timer, pid
<1>3. DriversInv'
  BY DEF SchedInv, TypeOK, DriversInv, Planned, Driven, Timer, SetStatus
<1>4. Committed' \subseteq Committed /\ (both => both')
  BY DEF SchedInv, TypeOK, DriversInv, Committed, Planned, Driven, ActiveStatuses, Timer, SetStatus, pid
<1>5. AloneInv'
  BY DEF SchedInv, TypeOK, AloneInv, Active, Planned, Driven, Timer, SetStatus
<1>6. QED
  BY <1>1, <1>2, <1>3, <1>4, <1>5, Shrinks DEF SchedInv

LEMMA DieStep ==
  ASSUME SchedInv, NEW p \in Procs, Die(p)
  PROVE  SchedInv'
<1>1. TypeOK'
  BY BoundsAssumption DEF SchedInv, TypeOK, Die, cards, pid
<1>2. ProcsInv'
  BY DEF SchedInv, TypeOK, ProcsInv, On, Die, cards, pid
<1>3. DriversInv'
  BY DEF SchedInv, DriversInv, Planned, Driven, Die, cards
<1>4. Committed' \subseteq Committed /\ (both => both')
  BY DEF SchedInv, Committed, Planned, Driven, Die, cards, pid
<1>5. AloneInv'
  BY DEF SchedInv, AloneInv, Active, Planned, Driven, Die, cards
<1>6. QED
  BY <1>1, <1>2, <1>3, <1>4, <1>5, Shrinks DEF SchedInv

LEMMA RestartStep ==
  ASSUME SchedInv, NEW p \in Procs, Restart(p)
  PROVE  SchedInv'
<1>1. TypeOK'
  BY DEF SchedInv, TypeOK, Restart, terminals
<1>2. ProcsInv'
  BY ProcsAssumption DEF SchedInv, TypeOK, ProcsInv, On, Restart
<1>3. DriversInv'
  BY ProcsAssumption DEF SchedInv, TypeOK, DriversInv, Planned, Driven, Restart
<1>4. Committed' \subseteq Committed /\ (both => both')
  BY ProcsAssumption DEF SchedInv, TypeOK, Committed, Planned, Driven, Restart
<1>5. AloneInv'
  BY ProcsAssumption, CardsAssumption DEF SchedInv, TypeOK, AloneInv, Active, Planned, Driven, Restart, terminals
<1>6. QED
  BY <1>1, <1>2, <1>3, <1>4, <1>5, Shrinks DEF SchedInv

-----------------------------------------------------------------------------
(* A tick.                                                                 *)

\* What pickRunnable takes fits under the cap together with what runs: each card it took has
\* a place of its own among the free ones.
LEMMA PickIsSmall ==
  ASSUME NEW picked \in SUBSET Queued, IsPick(picked), picked # {}
  PROVE  Cardinality(Active) + Cardinality(picked) <= Max
<1> DEFINE older(c) == {d \in picked : Older(d, c)}
           room == Max - Cardinality(Active)
           place == [c \in picked |-> Cardinality(older(c))]
<1>1. /\ picked \in SUBSET Cards /\ Active \in SUBSET Cards
      /\ IsFiniteSet(picked) /\ Cardinality(picked) \in Nat /\ Cardinality(Active) \in Nat
  BY CommittedIsFinite DEF Queued, Active
<1>2. ASSUME NEW c \in picked
      PROVE  Cardinality(older(c)) \in Nat /\ Cardinality(older(c)) < room
  <2>1. Cardinality(older(c)) \in Nat
    BY <1>1, CommittedIsFinite
  <2>2. Cardinality(Active) + Cardinality(older(c)) < Max
    BY DEF IsPick, Fits
  <2>3. QED
    BY <1>1, <2>1, <2>2, BoundsAssumption
<1>3. room \in Nat /\ room # 0
  <2>1. PICK c \in picked : TRUE
    OBVIOUS
  <2>2. Cardinality(older(c)) \in Nat /\ Cardinality(older(c)) < room
    BY <1>2
  <2>3. room \in Int
    BY <1>1, BoundsAssumption
  <2>4. QED
    BY <2>2, <2>3
<1>4. ASSUME NEW c \in picked, NEW d \in picked, Older(c, d)
      PROVE  Cardinality(older(c)) < Cardinality(older(d))
  <2>1. older(c) \subseteq older(d) /\ c \in older(d) /\ c \notin older(c)
    BY <1>1, <1>4, CreatedAssumption DEF Older
  <2>2. IsFiniteSet(older(d)) /\ Cardinality(older(d)) \in Nat /\ Cardinality(older(c)) \in Nat
    BY <1>1, CommittedIsFinite
  <2>3. QED
    BY <2>1, <2>2, FS_Subset
<1>5. place \in Injection(picked, 0 .. room - 1)
  <2>1. place \in [picked -> 0 .. room - 1]
    BY <1>2, <1>3
  <2>2. ASSUME NEW c \in picked, NEW d \in picked, c # d PROVE place[c] # place[d]
    <3>1. Older(c, d) \/ Older(d, c)
      BY <1>1, <2>2, CreatedAssumption DEF Older
    <3>2. QED
      BY <1>2, <1>4, <3>1
  <2>3. QED
    BY <2>1, <2>2 DEF Injection, IsInjective
<1>6. IsFiniteSet(0 .. room - 1) /\ Cardinality(0 .. room - 1) = room
  BY <1>3, FS_Interval
<1> HIDE DEF room, place
<1>7. Cardinality(picked) <= room
  BY <1>5, <1>6, FS_Injection
<1>8. QED
  BY <1>1, <1>7, BoundsAssumption DEF room

LEMMA TickStep ==
  ASSUME SchedInv, NEW s \in Scheds, Tick(s)
  PROVE  SchedInv'
<1>1. PICK picked \in SUBSET Queued :
        /\ IsPick(picked)
        /\ LET start == {c \in picked : ~HeldByLiveTerminal(c) /\ driver[c] # s}
           IN  /\ plan' = [plan EXCEPT ![s] = start \cup Reattachable]
               /\ bypass' = bypass \ {c \in start : driver[c] \notin up}
  BY DEF Tick
<1> DEFINE start == {c \in picked : ~HeldByLiveTerminal(c) /\ driver[c] # s}
<1>2. /\ start \subseteq Queued /\ start \subseteq picked /\ start \cap live = {}
      /\ plan' = [plan EXCEPT ![s] = start \cup Reattachable]
      /\ bypass' = bypass \ {c \in start : driver[c] \notin up}
  BY <1>1 DEF HeldByLiveTerminal
<1>3. /\ On(s) /\ Idle(s)
      /\ UNCHANGED <<status, station, legs, driver, live, armed, up, boot, pidfile, written, both,
                     busy, acts, deaths>>
  BY DEF Tick, terminals, pid
<1> HIDE DEF start
<1>4. TypeOK'
  BY <1>2, <1>3 DEF SchedInv, TypeOK, Queued, Reattachable, Active
<1>5. ProcsInv'
  BY <1>2, <1>3 DEF SchedInv, ProcsInv, On
<1>6. \A c \in Cards : Planned(c)' => Planned(c) \/ c \in start \/ c \in Active
  BY <1>2, <1>3 DEF SchedInv, Planned, Reattachable
<1>7. DriversInv'
  <2>1. \A c \in Cards : status'[c] = "backlog" => ~Driven(c)' /\ ~Planned(c)'
    BY <1>2, <1>3, <1>6 DEF SchedInv, DriversInv, Driven, Queued, Active, ActiveStatuses
  <2>2. \A c \in Cards : driver'[c] \in up' \cap Runners => c \in bypass'
    BY <1>2, <1>3 DEF SchedInv, DriversInv
  <2>3. \A c \in Cards : Driven(c)' /\ status'[c] = "queued" => busy'[driver'[c]] = c \/ c \in bypass'
    BY <1>2, <1>3 DEF SchedInv, DriversInv, Driven
  <2>4. QED
    BY <2>1, <2>2, <2>3 DEF DriversInv, Driven, Planned
<1>8. AloneInv'
  <2> SUFFICES ASSUME NEW c \in live, c \notin bypass'
               PROVE  c \notin Active' /\ ~Planned(c)' /\ ~Driven(c)'
    BY <1>3 DEF AloneInv
  <2>1. c \in Cards /\ c \notin start /\ c \notin bypass
    BY <1>2, CardsAssumption DEF SchedInv, TypeOK
  <2>2. c \notin Active /\ ~Planned(c) /\ ~Driven(c)
    BY <2>1 DEF SchedInv, AloneInv
  <2>3. ~Planned(c)'
    BY <1>2, <1>3, <2>1, <2>2 DEF SchedInv, Planned, Reattachable
  <2>4. QED
    BY <1>3, <2>2, <2>3 DEF Active, Driven
<1>9. ASSUME ~both
      PROVE  /\ \A c, d \in Committed' : c # d => {c, d} \notin Conflicts
             /\ Cardinality(Committed') <= Max
  <2>1. \A r \in Scheds : plan[r] = {}
    BY <1>3, <1>9 DEF SchedInv, ProcsInv, Idle
  <2>2. ASSUME NEW c \in Cards, Driven(c), status[c] = "queued" PROVE c \in bypass
    <3>1. CASE driver[c] \in Runners
      BY <2>2, <3>1 DEF SchedInv, DriversInv, Driven
    <3>2. CASE driver[c] \in Scheds
      <4>1. On(driver[c]) /\ driver[c] = s
        BY <1>3, <1>9, <2>2, <3>2 DEF SchedInv, ProcsInv, Driven
      <4>2. busy[s] # c
        BY <1>3, CardsAssumption DEF Idle
      <4>3. QED
        BY <2>2, <4>1, <4>2 DEF SchedInv, DriversInv
    <3>3. driver[c] \in Procs
      BY <2>2 DEF SchedInv, TypeOK, Driven
    <3>4. QED
      BY <3>1, <3>2, <3>3 DEF Procs
  <2>3. Committed' \subseteq (Active \ bypass) \cup start
    <3>1. ASSUME NEW c \in Cards, c \in Committed', c \notin start
          PROVE  c \in Active \ bypass
      <4>1. c \notin bypass
        BY <1>2, <3>1 DEF Committed
      <4>2. ~(Driven(c)' /\ status'[c] = "queued")
        BY <1>3, <2>2, <4>1 DEF Driven
      <4>3. c \in Active
        BY <1>3, <1>6, <2>1, <3>1, <4>2 DEF Committed, Active, Planned
      <4>4. QED
        BY <4>1, <4>3
    <3>2. QED
      BY <3>1 DEF Committed
  <2>4. Active \ bypass \subseteq Committed
    BY DEF Active, Committed
  <2>5. ASSUME NEW c \in start, NEW d \in Active \cup start, c # d, d \in start => Older(d, c)
        PROVE  {c, d} \notin Conflicts
    BY <1>1, <1>2, <2>5 DEF IsPick, Fits, Clashes
  <2>6. ASSUME NEW c \in start, NEW d \in start, c # d PROVE Older(c, d) \/ Older(d, c)
    BY <1>2, <2>6, CreatedAssumption DEF Older, Queued
  <2>7. ASSUME NEW c \in Committed', NEW d \in Committed', c # d PROVE {c, d} \notin Conflicts
    <3>1. {c, d} = {d, c}
      OBVIOUS
    <3>2. CASE c \in start \/ d \in start
      BY <2>3, <2>5, <2>6, <2>7, <3>1, <3>2
    <3>3. CASE c \notin start /\ d \notin start
      BY <1>9, <2>3, <2>4, <2>7, <3>3 DEF SchedInv, ApartInv
    <3>4. QED
      BY <3>2, <3>3
  <2>8. Cardinality(Committed') <= Max
    <3>1. CASE start = {}
      <4>1. Committed' \subseteq Committed
        BY <2>3, <2>4, <3>1
      <4>2. QED
        BY <1>3, <1>9, <4>1, Shrinks DEF SchedInv, CountInv
    <3>2. CASE start # {}
      <4>1. /\ Committed' \subseteq Active \cup picked
            /\ Active \in SUBSET Cards /\ picked \in SUBSET Cards
        BY <1>2, <2>3 DEF Active, Queued
      <4>2. /\ IsFiniteSet(Active) /\ IsFiniteSet(picked) /\ Cardinality(Active) \in Nat
            /\ Cardinality(picked) \in Nat /\ Cardinality(Active \cap picked) \in Nat
            /\ Cardinality(Committed') \in Nat /\ Cardinality(Active \cup picked) \in Nat
        BY <4>1, CommittedIsFinite
      <4>3. Cardinality(Active \cup picked) <= Cardinality(Active) + Cardinality(picked)
        <5>1. Cardinality(Active \cup picked)
                = Cardinality(Active) + Cardinality(picked) - Cardinality(Active \cap picked)
          BY <4>2, FS_Union
        <5>2. QED
          BY <4>2, <5>1
      <4>4. IsFiniteSet(Active \cup picked)
        BY <4>1, CommittedIsFinite
      <4>5. Cardinality(Committed') <= Cardinality(Active \cup picked)
        BY <4>1, <4>4, FS_Subset
      <4>6. Cardinality(Active) + Cardinality(picked) <= Max
        BY <1>1, <1>2, <3>2, PickIsSmall
      <4>7. QED
        BY <4>2, <4>3, <4>5, <4>6, BoundsAssumption
    <3>3. QED
      BY <3>1, <3>2
  <2>9. QED
    BY <2>7, <2>8
<1>10. ApartInv' /\ CountInv'
  BY <1>3, <1>9 DEF ApartInv, CountInv
<1>11. QED
  BY <1>4, <1>5, <1>7, <1>8, <1>10 DEF SchedInv

-----------------------------------------------------------------------------
(* The theorems.                                                           *)

LEMMA InitSched == Init => SchedInv
<1> SUFFICES ASSUME Init PROVE SchedInv
  OBVIOUS
<1>1. /\ \A c \in Cards : status[c] = "backlog" /\ driver[c] = "none" /\ legs[c] = 0
      /\ \A s \in Scheds : plan[s] = {} /\ boot[s] = "off"
      /\ \A p \in Procs : busy[p] = "none"
      /\ up = Procs /\ live \subseteq Cards /\ "none" \notin Procs
  BY ProcsAssumption, CardsAssumption DEF Init
<1>2. TypeOK
  <2>1. acts \in 0..MaxActs /\ deaths \in 0..MaxDeaths
    BY BoundsAssumption DEF Init
  <2>2. legs \in [Cards -> Nat] /\ \A c \in Cards : legs[c] <= MaxLegs[c]
    BY BoundsAssumption DEF Init
  <2>3. status \in [Cards -> Statuses] /\ station \in [Cards -> {"agent", "land"}]
    BY DEF Init, Statuses
  <2>4. driver \in [Cards -> Procs \cup {"none", "dead"}] /\ busy \in [Procs -> Cards \cup {"none"}]
    BY DEF Init
  <2>5. QED
    BY <2>1, <2>2, <2>3, <2>4 DEF Init, TypeOK
<1>3. ProcsInv /\ DriversInv /\ AloneInv
  BY <1>1 DEF ProcsInv, On, DriversInv, AloneInv, Active, ActiveStatuses, Planned, Driven
<1>4. Committed = {}
  BY <1>1 DEF Committed, ActiveStatuses, Planned, Driven
<1>5. ApartInv /\ CountInv
  BY <1>4, FS_EmptySet, BoundsAssumption DEF ApartInv, CountInv
<1>6. QED
  BY <1>2, <1>3, <1>5 DEF SchedInv

LEMMA StepSched == SchedInv /\ [Next]_vars => SchedInv'
<1> SUFFICES ASSUME SchedInv, [Next]_vars PROVE SchedInv'
  OBVIOUS
<1>1. ASSUME NEW s \in Scheds, Booting(s) \/ Scheduling(s) \/ Finish(s) PROVE SchedInv'
  BY <1>1, BootCreateStep, BootWriteStep, BootCheckStep, BootOverwriteStep, TickStep, RunCardStep,
     FinishStep DEF Booting, Scheduling
<1>2. ASSUME NEW p \in Procs, Driving(p) \/ Die(p) \/ Restart(p) PROVE SchedInv'
  BY <1>2, DriveHandoffStep, DriveStartStep, DriveReturnStep, DieStep, RestartStep DEF Driving
<1>3. ASSUME NEW p \in Procs, NEW c \in Cards, Awaiting(p, c) PROVE SchedInv'
  BY <1>3, WorkEndsStep, WorkEndsMovedStep DEF Awaiting
<1>4. ASSUME NEW r \in Runners, NEW c \in Cards, CardRun(r, c) PROVE SchedInv'
  BY <1>4, CardRunStep
<1>5. ASSUME NEW c \in Cards, Human(c) \/ TerminalStops(c) \/ Timer(c) PROVE SchedInv'
  BY <1>5, EnqueueStep, RequeueStep, StopStep, ReassignStep, HandOffNowStep, TerminalStopsStep,
     TimerStep DEF Human
<1>6. CASE UNCHANGED vars
  BY <1>6 DEF vars, cards, terminals, pid, SchedInv, TypeOK, ProcsInv, On, DriversInv, Planned, Driven,
     Committed, ApartInv, CountInv, AloneInv, Active
<1>7. QED
  BY <1>1, <1>2, <1>3, <1>4, <1>5, <1>6 DEF Next

\* The invariant of the scheduler, for any cards, processes and bounds.
THEOREM SchedInvariance == Spec => []SchedInv
BY InitSched, StepSched, PTL DEF Spec

\* The variables keep their types.
THEOREM TypeCorrect == Spec => []TypeOK
<1>1. SchedInv => TypeOK
  BY DEF SchedInv
<1>2. QED
  BY <1>1, SchedInvariance, PTL

\* What a tick starts never runs beside a card whose leases overlap its own, never exceeds the cap
\* and never works in the checkout of a live terminal; what does was started by `leg card run' or
\* by a driver a human queued it under, or two schedulers ran at once.
THEOREM StartsAreSoundThm == Spec => []StartsAreSound
<1>1. SchedInv => StartsAreSound
  <2> SUFFICES ASSUME SchedInv PROVE StartsAreSound
    OBVIOUS
  <2>1. Active \ bypass \subseteq Committed /\ Committed \in SUBSET Cards
    BY DEF Active, Committed
  <2>2. OverlapsExplained
    BY <2>1 DEF SchedInv, ApartInv, OverlapsExplained, Active
  <2>3. CapKept
    <3>1. /\ Cardinality(Active \ bypass) <= Cardinality(Committed)
          /\ Cardinality(Active \ bypass) \in Nat /\ Cardinality(Committed) \in Nat
      BY <2>1, CommittedIsFinite, FS_Subset
    <3>2. QED
      BY <3>1, BoundsAssumption DEF SchedInv, CountInv, CapKept
  <2>4. LiveTerminalIsAlone
    BY DEF SchedInv, AloneInv, LiveTerminalIsAlone
  <2>5. QED
    BY <2>2, <2>3, <2>4 DEF StartsAreSound
<1>2. QED
  BY <1>1, SchedInvariance, PTL

=============================================================================
