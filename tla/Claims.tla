------------------------------- MODULE Claims -------------------------------
(***************************************************************************)
(* The two locks between Leg's processes.  driver.lock says who drives a   *)
(* card (orchestrator.mjs): a file created with 'wx' that holds a pid, and *)
(* is removed by whoever finds its pid dead.  .card.lock guards the read-  *)
(* modify-write of card.json (fsx.mjs withFileLock, ledger.mjs update): a  *)
(* file created with 'wx' that is removed when it is old, and not waited   *)
(* for longer than a budget.  Every file operation is a step.              *)
(*                                                                         *)
(* A process that is started again after a crash is another member of      *)
(* Procs.  Each process makes one change, named after it.                  *)
(***************************************************************************)
EXTENDS Naturals, FiniteSets

CONSTANTS
  Procs,       \* the processes: schedulers, `card run`, board, supervisors
  Drivers,     \* those that drive the card, the others only update it
  Attempts,    \* how often a driver may try to claim the card
  Tries,       \* the loop bound of claimDriver
  MaxDeaths,   \* how many processes may die
  MaxStalls    \* how often a live process is slower than the others' patience

ASSUME ProcsAssumption == Drivers \subseteq Procs /\ "none" \notin Procs
ASSUME BoundsAssumption ==
  /\ Attempts \in Nat /\ Tries \in Nat \ {0} /\ MaxDeaths \in Nat /\ MaxStalls \in Nat

VARIABLES
  pc,       \* where each process stands
  alive,    \* the processes that run
  claim,    \* driver.lock: "none", or the process that created it
  written,  \* its pid is in the file (created empty, then written)
  tries,    \* passes through the loop of claimDriver
  starts,   \* claims each driver has tried
  lock,     \* .card.lock: "none", or the process that created it
  old,      \* the lock file is older than staleMs
  fd,       \* the processes that created the lock file they run under
  card,     \* the changes card.json holds
  seen,     \* what each process read of it
  log,      \* the changes the event log tells of
  judged,   \* the file each process found stale, named by its creator
  stalls,   \* how many stalls there were
  robbed,   \* a claim was removed that is not the one judged, or a live one's
  torn      \* the same of a lock, or a lock was not waited for

claiming == <<claim, written, tries, starts, robbed>>
locking == <<lock, old, fd, torn>>
data == <<card, seen, log>>
vars == <<pc, alive, claiming, locking, data, judged, stalls>>

Init ==
  /\ pc = [p \in Procs |-> "idle"] /\ alive = Procs
  /\ claim = "none" /\ written = FALSE /\ robbed = FALSE
  /\ tries = [p \in Procs |-> 0] /\ starts = [p \in Procs |-> 0]
  /\ lock = "none" /\ old = FALSE /\ fd = {} /\ torn = FALSE
  /\ card = {} /\ seen = [p \in Procs |-> {}] /\ log = {}
  /\ judged = [p \in Procs |-> "none"] /\ stalls = 0

At(p, l) == p \in alive /\ pc[p] = l
Goto(p, l) == pc' = [pc EXCEPT ![p] = l]
Judge(p, f) == judged' = [judged EXCEPT ![p] = f]
Claiming == {"create", "look", "evict", "pid", "drive", "release"}
Updating == {"open", "stat", "steal", "read", "write", "close", "append"}
Outside == {"idle", "create", "look", "evict"}
\* A process between the creation of its claim and the removal of it.
Drives(p) == p \in Drivers /\ pc[p] \notin Outside
\* A process inside the read-modify-write.
Inside(p) == pc[p] \in {"read", "write", "close"}

-----------------------------------------------------------------------------
(* claimDriver and releaseDriver.                                          *)

\* runCard begins.
Start(p) ==
  /\ At(p, "idle") /\ p \in Drivers /\ starts[p] < Attempts
  /\ starts' = [starts EXCEPT ![p] = @ + 1]
  /\ tries' = [tries EXCEPT ![p] = 0]
  /\ Goto(p, "create")
  /\ UNCHANGED <<alive, claim, written, robbed, locking, data, judged, stalls>>

\* writeFileSync with 'wx' creates the file: EEXIST leads to a look at it.
Create(p) ==
  /\ At(p, "create") /\ tries[p] < Tries
  /\ IF claim = "none"
     THEN claim' = p /\ written' = FALSE /\ Goto(p, "pid")
     ELSE Goto(p, "look") /\ UNCHANGED <<claim, written>>
  /\ tries' = [tries EXCEPT ![p] = @ + 1]
  /\ UNCHANGED <<alive, starts, robbed, locking, data, judged, stalls>>

\* ... and writes the pid into it (into an unlinked file, if it was removed).
WritePid(p) ==
  /\ At(p, "pid")
  /\ written' = (written \/ claim = p)
  /\ Goto(p, "drive")
  /\ UNCHANGED <<alive, claim, tries, starts, robbed, locking, data, judged, stalls>>

\* The loop is out of tries: another process drives the card.
Refuse(p) ==
  /\ At(p, "create") /\ tries[p] = Tries
  /\ Goto(p, "idle")
  /\ UNCHANGED <<alive, claiming, locking, data, judged, stalls>>

\* (mutant) A live pid is as good as a dead one.
LookAtPid_Any(p) ==
  /\ At(p, "look") /\ written
  /\ Goto(p, "evict") /\ Judge(p, claim)
  /\ UNCHANGED <<alive, claiming, locking, data, stalls>>

\* readDriver: a live pid refuses, a dead one is stale.  (A process claims a
\* card once at a time, so the pid is not its own.)
LookAtPid(p) ==
  /\ At(p, "look") /\ written
  /\ IF claim \in alive
     THEN Goto(p, "idle") /\ UNCHANGED judged
     ELSE Goto(p, "evict") /\ Judge(p, claim)
  /\ UNCHANGED <<alive, claiming, locking, data, stalls>>

\* A file that cannot be read is stale when it is gone, or older than a second;
\* else it is being written, and is looked at again.
LookAgain(p) ==
  /\ At(p, "look") /\ claim # "none" /\ ~written
  /\ Goto(p, "create")
  /\ UNCHANGED <<alive, claiming, locking, data, judged, stalls>>

LookGone(p) ==
  /\ At(p, "look") /\ ~written /\ claim \notin alive
  /\ Goto(p, "evict") /\ Judge(p, claim)
  /\ UNCHANGED <<alive, claiming, locking, data, stalls>>

\* ... which a live writer's file is only if that writer stalls.
LookStalled(p) ==
  /\ At(p, "look") /\ ~written /\ claim \in alive /\ stalls < MaxStalls
  /\ Goto(p, "evict") /\ Judge(p, claim)
  /\ stalls' = stalls + 1 /\ robbed' = TRUE
  /\ UNCHANGED <<alive, claim, written, tries, starts, locking, data>>

\* unlinkSync of whatever is there now.
Evict(p) ==
  /\ At(p, "evict")
  /\ claim' = "none" /\ written' = FALSE
  /\ robbed' = (robbed \/ claim \notin {"none", judged[p]})
  /\ Goto(p, "create")
  /\ UNCHANGED <<alive, tries, starts, locking, data, judged, stalls>>

\* The card is let go: releaseDriver reads the file, and removes its own.
LetGo(p) ==
  /\ At(p, "drive")
  /\ IF claim = p /\ written THEN Goto(p, "release") ELSE Goto(p, "idle")
  /\ UNCHANGED <<alive, claiming, locking, data, judged, stalls>>

Release(p) ==
  /\ At(p, "release")
  /\ claim' = "none" /\ written' = FALSE
  /\ Goto(p, "idle")
  /\ UNCHANGED <<alive, tries, starts, robbed, locking, data, judged, stalls>>

-----------------------------------------------------------------------------
(* withFileLock around the update of card.json.                            *)

Begin(p) ==
  /\ At(p, IF p \in Drivers THEN "drive" ELSE "idle")
  /\ seen[p] = {}
  /\ Goto(p, "open")
  /\ UNCHANGED <<alive, claiming, locking, data, judged, stalls>>

\* (mutant) The file is opened without 'x'.
Open_Shared(p) ==
  /\ At(p, "open")
  /\ lock' = p /\ old' = FALSE /\ fd' = fd \cup {p} /\ Goto(p, "read")
  /\ UNCHANGED <<alive, claiming, torn, data, judged, stalls>>

\* openSync with 'wx'.
Open(p) ==
  /\ At(p, "open")
  /\ IF lock = "none"
     THEN lock' = p /\ old' = FALSE /\ fd' = fd \cup {p} /\ Goto(p, "read")
     ELSE Goto(p, "stat") /\ UNCHANGED <<lock, old, fd>>
  /\ UNCHANGED <<alive, claiming, torn, data, judged, stalls>>

\* (mutant) Every file is stale.
Stat_AnyAge(p) ==
  /\ At(p, "stat")
  /\ IF lock # "none"
     THEN Goto(p, "steal") /\ Judge(p, lock)
     ELSE Goto(p, "open") /\ UNCHANGED judged
  /\ UNCHANGED <<alive, claiming, locking, data, stalls>>

\* statSync: an old file is removed, a young or vanished one waited for.
Stat(p) ==
  /\ At(p, "stat")
  /\ IF lock # "none" /\ old
     THEN Goto(p, "steal") /\ Judge(p, lock)
     ELSE Goto(p, "open") /\ UNCHANGED judged
  /\ UNCHANGED <<alive, claiming, locking, data, stalls>>

Steal(p) ==
  /\ At(p, "steal")
  /\ lock' = "none" /\ old' = FALSE
  /\ torn' = (torn \/ lock \notin {"none", judged[p]})
  /\ Goto(p, "open")
  /\ UNCHANGED <<alive, claiming, fd, data, judged, stalls>>

\* The retries are used up: fn runs without the lock.  A dead holder's file
\* outlasts them (1.2 s of retries, 5 s to be old), a live one's if it stalls.
GiveUp(p) ==
  /\ At(p, "stat") /\ lock # "none" /\ ~old
  /\ IF lock \in alive THEN stalls < MaxStalls /\ stalls' = stalls + 1 ELSE UNCHANGED stalls
  /\ torn' = TRUE
  /\ Goto(p, "read")
  /\ UNCHANGED <<alive, claiming, lock, old, fd, data, judged>>

Read(p) ==
  /\ At(p, "read")
  /\ seen' = [seen EXCEPT ![p] = card \cup {p}]
  /\ Goto(p, "write")
  /\ UNCHANGED <<alive, claiming, locking, card, log, judged, stalls>>

\* writeJsonAtomic: the rename.
Write(p) ==
  /\ At(p, "write")
  /\ card' = seen[p]
  /\ Goto(p, "close")
  /\ UNCHANGED <<alive, claiming, locking, seen, log, judged, stalls>>

\* The lock file is unlinked by who created one, whoever's it is by now.
Close(p) ==
  /\ At(p, "close")
  /\ IF p \in fd
     THEN /\ lock' = "none" /\ old' = FALSE /\ fd' = fd \ {p}
     ELSE UNCHANGED <<lock, old, fd>>
  /\ Goto(p, "append")
  /\ UNCHANGED <<alive, claiming, torn, data, judged, stalls>>

\* The event that tells of the change is appended by the caller afterwards.
AppendEvent(p) ==
  /\ At(p, "append")
  /\ log' = log \cup {p}
  /\ Goto(p, IF p \in Drivers THEN "drive" ELSE "idle")
  /\ UNCHANGED <<alive, claiming, locking, card, seen, judged, stalls>>

-----------------------------------------------------------------------------
(* Time and crashes.                                                       *)

\* The lock file of a dead holder grows old, or that of one that stalls.
Age ==
  /\ lock # "none" /\ lock \notin alive /\ ~old
  /\ old' = TRUE
  /\ UNCHANGED <<pc, alive, claiming, lock, fd, torn, data, judged, stalls>>

Stall ==
  /\ lock \in alive /\ ~old /\ stalls < MaxStalls
  /\ old' = TRUE /\ torn' = TRUE /\ stalls' = stalls + 1
  /\ UNCHANGED <<pc, alive, claiming, lock, fd, data, judged>>

Die(p) ==
  /\ p \in alive /\ Cardinality(Procs \ alive) < MaxDeaths
  /\ alive' = alive \ {p}
  /\ UNCHANGED <<pc, claiming, locking, data, judged, stalls>>

ClaimStep(p) ==
  \/ Start(p) \/ Create(p) \/ WritePid(p) \/ Refuse(p) \/ LookAtPid(p) \/ LookAgain(p)
  \/ LookGone(p) \/ LookStalled(p) \/ Evict(p) \/ LetGo(p) \/ Release(p)
LockStep(p) ==
  \/ Begin(p) \/ Open(p) \/ Stat(p) \/ Steal(p) \/ GiveUp(p) \/ Read(p) \/ Write(p)
  \/ Close(p) \/ AppendEvent(p)

Step(p) == ClaimStep(p) \/ LockStep(p)
Next == Age \/ Stall \/ \E p \in Procs : Step(p) \/ Die(p)

Spec == Init /\ [][Next]_vars

-----------------------------------------------------------------------------
(* Properties.                                                             *)

TypeOK ==
  /\ pc \in [Procs -> {"idle"} \cup Claiming \cup Updating]
  /\ alive \subseteq Procs
  /\ claim \in Procs \cup {"none"} /\ lock \in Procs \cup {"none"}
  /\ judged \in [Procs -> Procs \cup {"none"}]
  /\ written \in BOOLEAN /\ old \in BOOLEAN /\ robbed \in BOOLEAN /\ torn \in BOOLEAN
  /\ fd \subseteq Procs /\ card \subseteq Procs /\ log \subseteq Procs
  /\ seen \in [Procs -> SUBSET Procs]
  /\ tries \in [Procs -> 0..Tries] /\ starts \in [Procs -> 0..Attempts]
  /\ stalls \in 0..MaxStalls

\* Two live processes drive one card only after a process removed a claim that
\* is not the one it had judged stale (orchestrator.mjs:127), or the claim of a
\* writer that stalled for a second: no dead driver, and no order of claims,
\* looks and releases, leads there otherwise.
OneDriver == robbed \/ \A p, q \in alive : Drives(p) /\ Drives(q) => p = q

\* The claim as the comment above driverLockPath has it (orchestrator.mjs:98):
\* two processes never both drive a card.
NeverTwoDrivers == \A p, q \in alive : Drives(p) /\ Drives(q) => p = q

\* card.json and the event log agree: a change that is in the one is told of in
\* the other, unless its writer died between the two (ledger.mjs:340) or is about
\* to tell, and what was told stays in card.json while no lock is broken.
LogFollowsCard ==
  /\ \A p \in card \ log : p \in alive => pc[p] \in {"close", "append"}
  /\ log \subseteq card \/ torn

\* The locked update implements the atomic one, as long as no lock is taken from
\* a live holder or given up: no change of another process is lost.
A == INSTANCE AtomicCard WITH Changes <- Procs
CardIsAtomic == A!Spec

-----------------------------------------------------------------------------
(* The inductive invariant behind them.                                    *)

\* A claim is held by the live process that drives, and is only evicted when
\* its creator is dead or it is gone.
ClaimInv ==
  /\ \A p \in Procs \ Drivers : pc[p] \notin Claiming
  /\ robbed \/ \A p \in alive : Drives(p) => claim = p
  /\ robbed \/ \A p \in alive : pc[p] = "evict" => judged[p] \notin alive

\* The same of the lock, and what its holder read is still what the card holds.
LockInv ==
  torn \/ /\ \A p \in alive : Inside(p) => lock = p
          /\ \A p \in alive : pc[p] = "steal" => judged[p] \notin alive
          /\ old => lock \notin alive
          /\ \A p \in alive : pc[p] = "write" => seen[p] = card \cup {p}

\* A process whose change is in the card, or about to be put there by another,
\* has written it.
Wrote(p) == p \in log \/ p \notin alive \/ pc[p] \in {"close", "append"}
LogInv ==
  /\ \A p \in card : Wrote(p)
  /\ \A q \in Procs : \A p \in seen[q] \ {q} : Wrote(p)
  /\ torn \/ (log \subseteq card /\ \A p \in alive : pc[p] \in {"close", "append"} => p \in card)

IInv == TypeOK /\ ClaimInv /\ LockInv /\ LogInv
=============================================================================
