----------------------------- MODULE Scheduler ------------------------------
(***************************************************************************)
(* Which cards run (scheduler.mjs).  Every tick reads all the cards, picks *)
(* the queued ones that fit under the cap, whose leases no running card    *)
(* holds, and starts a driver for each, and one for each running card that *)
(* nobody drives.  A driver (orchestrator.mjs runCard, driveCard) takes    *)
(* the card's claim and moves the card between `queued', `running' and     *)
(* `handing_off' on its own, until the card rests.  `leg card run' is such *)
(* a driver in a process of its own, humans move cards meanwhile, and a    *)
(* card that continues a terminal waits until that terminal has stopped.   *)
(*                                                                         *)
(* Within a process everything up to the next await is one step as far as  *)
(* that process is concerned; the others act in between.                   *)
(***************************************************************************)
EXTENDS Naturals, FiniteSets

CONSTANTS
  Cards,
  Created,       \* the place of each card by created_at
  Conflicts,     \* the pairs {c, d} of one repository whose leases overlap
  Repo,          \* the repository of each card
  Landers,       \* the cards whose pipeline ends in a land station
  Adopted,       \* the cards born in the checkout of a live terminal
  Scheds,        \* the processes that host a scheduler
  Board,         \* the one that is the board's
  Runners,       \* the processes of `leg card run'
  Max,           \* LEG_MAX_CONCURRENT
  MaxLegs,       \* hand-offs and bounces each card may have
  MaxActs,       \* what humans do, in all
  MaxDeaths      \* how many processes die

Procs == Scheds \cup Runners
ASSUME ProcsAssumption ==
  {"none", "dead"} \cap Procs = {} /\ Scheds \cap Runners = {} /\ Board \in Scheds
ASSUME CardsAssumption ==
  IsFiniteSet(Cards) /\ Landers \subseteq Cards /\ Adopted \subseteq Cards /\ "none" \notin Cards
ASSUME CreatedAssumption ==
  Created \in [Cards -> Nat] /\ \A c, d \in Cards : Created[c] = Created[d] => c = d
ASSUME BoundsAssumption ==
  Max \in Nat \ {0} /\ MaxLegs \in [Cards -> Nat] /\ MaxActs \in Nat /\ MaxDeaths \in Nat

VARIABLES
  status,    \* of each card; "rested" stands for every waiting or final one
  station,   \* the kind of station the card is at: "agent" or "land"
  legs,      \* how often each card was handed on
  driver,    \* who holds the card's claim: "none", a process, "dead"
  bypass,    \* the cards that were last driven without a tick's check
  live,      \* the adopted cards whose terminal still runs
  armed,     \* the adopted cards the board's timer waits for
  up,        \* the processes that run
  boot,      \* where the start of each scheduler stands
  pidfile,   \* scheduler.pid: "none", who created or overwrote it, "dead"
  written,   \* its pid is in it
  both,      \* two schedulers ran at once
  plan,      \* the cards each tick chose that were not started yet
  busy,      \* the card each process drives without having awaited
  acts, deaths

cards == <<status, station, legs, driver, bypass>>
terminals == <<live, armed>>
pid == <<boot, pidfile, written, both>>
vars == <<cards, terminals, up, pid, plan, busy, acts, deaths>>

Statuses == {"backlog", "queued", "running", "handing_off", "rested"}
ActiveStatuses == {"running", "handing_off"}
Active == {c \in Cards : status[c] \in ActiveStatuses}
Queued == {c \in Cards : status[c] = "queued"}

Init ==
  /\ status = [c \in Cards |-> "backlog"] /\ station = [c \in Cards |-> "agent"]
  /\ legs = [c \in Cards |-> 0] /\ driver = [c \in Cards |-> "none"] /\ bypass = {}
  /\ live = Adopted /\ armed = Adopted
  /\ up = Procs
  /\ boot = [s \in Scheds |-> "off"] /\ pidfile = "none" /\ written = FALSE /\ both = FALSE
  /\ plan = [s \in Scheds |-> {}] /\ busy = [p \in Procs |-> "none"]
  /\ acts = 0 /\ deaths = 0

-----------------------------------------------------------------------------
(* One scheduler per home: run() and the pidfile.                          *)

On(s) == s \in up /\ boot[s] = "on"
BootTo(s, b) ==
  /\ boot' = [boot EXCEPT ![s] = b]
  /\ both' = (both \/ (b = "on" /\ \E r \in Scheds \ {s} : On(r)))

BootCreate(s) ==
  /\ s \in up /\ boot[s] = "off"
  /\ IF pidfile = "none"
     THEN pidfile' = s /\ written' = FALSE /\ BootTo(s, "write")
     ELSE BootTo(s, "check") /\ UNCHANGED <<pidfile, written>>
  /\ UNCHANGED <<cards, terminals, up, plan, busy, acts, deaths>>

BootWrite(s) ==
  /\ s \in up /\ boot[s] = "write"
  /\ written' = (written \/ pidfile = s)
  /\ BootTo(s, "on")
  /\ UNCHANGED <<cards, terminals, up, pidfile, plan, busy, acts, deaths>>

\* schedulerStatus: a file without a pid in it is as good as a dead pid.
BootCheck(s) ==
  /\ s \in up /\ boot[s] = "check"
  /\ BootTo(s, IF written /\ pidfile \in up \ {s} THEN "refused" ELSE "overwrite")
  /\ UNCHANGED <<cards, terminals, up, pidfile, written, plan, busy, acts, deaths>>

BootOverwrite(s) ==
  /\ s \in up /\ boot[s] = "overwrite"
  /\ pidfile' = s /\ written' = TRUE
  /\ BootTo(s, "on")
  /\ UNCHANGED <<cards, terminals, up, plan, busy, acts, deaths>>

\* The loop was stopped, what is in flight has settled, and the process ends.
Finish(s) ==
  /\ On(s) /\ busy[s] = "none" /\ plan[s] = {} /\ \A c \in Cards : driver[c] # s
  /\ acts < MaxActs /\ acts' = acts + 1
  /\ IF pidfile = s THEN pidfile' = "none" /\ written' = FALSE ELSE UNCHANGED <<pidfile, written>>
  /\ up' = up \ {s}
  /\ armed' = IF s = Board THEN {} ELSE armed
  /\ UNCHANGED <<cards, live, boot, both, plan, busy, deaths>>

-----------------------------------------------------------------------------
(* A tick.                                                                 *)

\* The process is at an await, or between two timers.
Idle(p) == busy[p] = "none" /\ (p \in Scheds => plan[p] = {})

Clashes(c, S) == \E d \in S : d # c /\ {c, d} \in Conflicts
\* The repositories that are landing.
Landing == {Repo[c] : c \in {d \in Cards : status[d] = "running" /\ station[d] = "land"}}

Older(d, c) == Created[d] < Created[c]
\* (mutant) The leases are not compared.
Fits_AnyLease(c, picked) ==
  /\ Cardinality(Active) + Cardinality({d \in picked : Older(d, c)}) < Max
  /\ ~(station[c] = "land" /\ Repo[c] \in Landing)
\* pickRunnable takes the queued cards oldest first: each is measured against the
\* running cards and the older ones that were picked.
Fits(c, picked) ==
  LET before == Active \cup {d \in picked : Older(d, c)}
  IN /\ Cardinality(Active) + Cardinality({d \in picked : Older(d, c)}) < Max
     /\ ~(station[c] = "land" /\ Repo[c] \in Landing)
     /\ ~Clashes(c, before)
IsPick(picked) == picked \subseteq Queued /\ \A c \in Queued : c \in picked <=> Fits(c, picked)

\* (mutant) A stopped terminal still holds its card.
HeldByLiveTerminal_Forever(c) == c \in Adopted
HeldByLiveTerminal(c) == c \in live
\* ACTIVE, not in flight here, and no live process has the claim.
Reattachable == {c \in Active : driver[c] \notin up}

Tick(s) ==
  /\ On(s) /\ Idle(s)
  /\ \E picked \in SUBSET Queued :
       /\ IsPick(picked)
       /\ LET start == {c \in picked : ~HeldByLiveTerminal(c) /\ driver[c] # s} IN
            /\ plan' = [plan EXCEPT ![s] = start \cup Reattachable]
            /\ bypass' = bypass \ {c \in start : driver[c] \notin up}
  /\ UNCHANGED <<status, station, legs, driver, terminals, up, pid, busy, acts, deaths>>

-----------------------------------------------------------------------------
(* Driving a card.                                                         *)

SetStatus(c, s) == status' = [status EXCEPT ![c] = s]
Claimed(c, p) == driver[c] \in up \ {p}
LetGo(c) == driver' = [driver EXCEPT ![c] = "none"]
Rest(c) == SetStatus(c, "rested")

\* runCard of a card the tick chose: not if another process has the claim, and
\* not for long if the card rests by now.
RunCard(s, c) ==
  /\ On(s) /\ busy[s] = "none" /\ c \in plan[s]
  /\ plan' = [plan EXCEPT ![s] = @ \ {c}]
  /\ IF Claimed(c, s) \/ status[c] = "rested"
     THEN UNCHANGED <<driver, busy>>
     ELSE driver' = [driver EXCEPT ![c] = s] /\ busy' = [busy EXCEPT ![s] = c]
  /\ UNCHANGED <<status, station, legs, bypass, terminals, up, pid, acts, deaths>>

\* `leg card run': the card is enqueued first if it has to be.
CardRun(r, c) ==
  /\ r \in up /\ busy[r] = "none" /\ \A d \in Cards : driver[d] # r
  /\ acts < MaxActs /\ acts' = acts + 1
  /\ ~Claimed(c, r) /\ status[c] # "rested"
  /\ driver' = [driver EXCEPT ![c] = r] /\ busy' = [busy EXCEPT ![r] = c]
  /\ SetStatus(c, IF status[c] = "backlog" THEN "queued" ELSE status[c])
  /\ bypass' = bypass \cup {c}
  /\ UNCHANGED <<station, legs, terminals, up, pid, plan, deaths>>

\* driveCard up to its next await, or to its return.
DriveHandoff(p) ==
  /\ p \in up
  /\ \E c \in Cards :
       /\ busy[p] = c /\ status[c] = "handing_off"
       /\ \/ SetStatus(c, "queued")
          \/ Rest(c)                  \* the next leg needs approval
  /\ UNCHANGED <<station, legs, driver, bypass, terminals, up, pid, plan, busy, acts, deaths>>

DriveStart(p) ==
  /\ p \in up
  /\ \E c \in Cards :
       /\ busy[p] = c /\ status[c] \in {"queued", "running"}
       /\ SetStatus(c, "running")
  /\ busy' = [busy EXCEPT ![p] = "none"]
  /\ UNCHANGED <<station, legs, driver, bypass, terminals, up, pid, plan, acts, deaths>>

DriveReturn(p) ==
  /\ p \in up
  /\ \E c \in Cards :
       /\ busy[p] = c /\ status[c] = "rested"
       /\ LetGo(c)
  /\ busy' = [busy EXCEPT ![p] = "none"]
  /\ UNCHANGED <<status, station, legs, bypass, terminals, up, pid, plan, acts, deaths>>

\* What the driver awaited has ended, and the card is still running: it rests,
\* its leg hands off, or it goes on to another station.
Awaits(p, c) == p \in up /\ driver[c] = p /\ Idle(p)

WorkEnds(p, c) ==
  /\ Awaits(p, c) /\ status[c] = "running"
  /\ busy' = [busy EXCEPT ![p] = c]
  /\ \/ Rest(c) /\ UNCHANGED <<station, legs>>
     \/ /\ station[c] = "agent" /\ legs[c] < MaxLegs[c]
        /\ legs' = [legs EXCEPT ![c] = @ + 1]
        /\ SetStatus(c, "handing_off") /\ UNCHANGED station
     \/ /\ station[c] = "agent" /\ c \in Landers
        /\ station' = [station EXCEPT ![c] = "land"]
        /\ SetStatus(c, "queued") /\ UNCHANGED legs
     \/ /\ station[c] = "land" /\ legs[c] < MaxLegs[c]
        /\ station' = [station EXCEPT ![c] = "agent"]
        /\ legs' = [legs EXCEPT ![c] = @ + 1]
        /\ SetStatus(c, "queued")
  /\ UNCHANGED <<driver, bypass, terminals, up, pid, plan, acts, deaths>>

\* ... or a human moved the card meanwhile: the driver goes on with what it is now.
WorkEndsMoved(p, c) ==
  /\ Awaits(p, c) /\ status[c] # "running"
  /\ busy' = [busy EXCEPT ![p] = c]
  /\ UNCHANGED <<status, station, legs, driver, bypass, terminals, up, pid, plan, acts, deaths>>

-----------------------------------------------------------------------------
(* Humans, terminals, crashes.                                             *)

Act == acts < MaxActs /\ acts' = acts + 1
HumanUnchanged == UNCHANGED <<station, legs, driver, terminals, up, pid, plan, busy, deaths>>

\* A card that is queued under a driver is started by it, without a tick.
QueueAgain(c) ==
  /\ SetStatus(c, "queued")
  /\ bypass' = IF driver[c] \in up THEN bypass \cup {c} ELSE bypass

Enqueue(c) ==
  /\ status[c] = "backlog" /\ SetStatus(c, "queued") /\ UNCHANGED <<acts, bypass>> /\ HumanUnchanged

\* Resume, approve, rerun; kill, pause, take over; reassign; hand off now.
Requeue(c) ==
  Act /\ status[c] = "rested" /\ QueueAgain(c) /\ HumanUnchanged
Stop(c) ==
  Act /\ status[c] \in {"queued", "running", "handing_off"} /\ Rest(c) /\ UNCHANGED bypass /\ HumanUnchanged
Reassign(c) ==
  /\ Act /\ status[c] = "running" /\ station[c] = "agent"
  /\ QueueAgain(c) /\ HumanUnchanged
HandOffNow(c) ==
  /\ Act /\ status[c] = "running" /\ station[c] = "agent"
  /\ SetStatus(c, "handing_off") /\ UNCHANGED bypass /\ HumanUnchanged

TerminalStops(c) ==
  /\ c \in live /\ live' = live \ {c}
  /\ UNCHANGED <<cards, armed, up, pid, plan, busy, acts, deaths>>

\* enqueueWhenSessionEnds: the board's timer.
Timer(c) ==
  /\ Board \in up /\ Idle(Board) /\ c \in armed
  /\ \/ status[c] # "backlog" /\ UNCHANGED status
     \/ status[c] = "backlog" /\ c \notin live /\ SetStatus(c, "queued")
     \/ status[c] = "backlog" /\ c \in live /\ UNCHANGED status   \* gives up after ten minutes
  /\ armed' = armed \ {c}
  /\ UNCHANGED <<station, legs, driver, bypass, live, up, pid, plan, busy, acts, deaths>>

Die(p) ==
  /\ p \in up /\ deaths < MaxDeaths /\ deaths' = deaths + 1
  /\ up' = up \ {p}
  /\ busy' = [busy EXCEPT ![p] = "none"]
  /\ plan' = [s \in Scheds |-> IF s = p THEN {} ELSE plan[s]]
  /\ armed' = IF p = Board THEN {} ELSE armed
  /\ UNCHANGED <<cards, live, pid, acts>>

\* A new process, with a pid of its own.
Restart(p) ==
  /\ p \notin up
  /\ up' = up \cup {p}
  /\ driver' = [c \in Cards |-> IF driver[c] = p THEN "dead" ELSE driver[c]]
  /\ pidfile' = IF pidfile = p THEN "dead" ELSE pidfile
  /\ boot' = [s \in Scheds |-> IF s = p THEN "off" ELSE boot[s]]
  /\ UNCHANGED <<status, station, legs, bypass, terminals, written, both, plan, busy, acts, deaths>>

Booting(s) == BootCreate(s) \/ BootWrite(s) \/ BootCheck(s) \/ BootOverwrite(s)
Scheduling(s) == Tick(s) \/ \E c \in Cards : RunCard(s, c)
Driving(p) == DriveHandoff(p) \/ DriveStart(p) \/ DriveReturn(p)
Awaiting(p, c) == WorkEnds(p, c) \/ WorkEndsMoved(p, c)
Human(c) == Enqueue(c) \/ Requeue(c) \/ Stop(c) \/ Reassign(c) \/ HandOffNow(c)

Next ==
  \/ \E s \in Scheds : Booting(s) \/ Scheduling(s) \/ Finish(s)
  \/ \E p \in Procs : Driving(p) \/ Die(p) \/ Restart(p)
  \/ \E p \in Procs, c \in Cards : Awaiting(p, c)
  \/ \E r \in Runners, c \in Cards : CardRun(r, c)
  \/ \E c \in Cards : Human(c) \/ TerminalStops(c) \/ Timer(c)

Spec == Init /\ [][Next]_vars

\* Ticks recur, an agent ends or is stalled out, terminals are closed one day, and
\* a board that died is started again.
Fairness ==
  /\ \A s \in Scheds : WF_vars(Booting(s)) /\ WF_vars(Scheduling(s))
  /\ \A p \in Procs : WF_vars(Driving(p)) /\ WF_vars(Restart(p))
  /\ \A p \in Procs, c \in Cards : WF_vars(Awaiting(p, c))
  /\ \A c \in Cards : WF_vars(TerminalStops(c))
FairSpec == Spec /\ Fairness

-----------------------------------------------------------------------------
(* Properties.                                                             *)

TypeOK ==
  /\ status \in [Cards -> Statuses] /\ station \in [Cards -> {"agent", "land"}]
  /\ legs \in [Cards -> Nat] /\ \A c \in Cards : legs[c] <= MaxLegs[c]
  /\ driver \in [Cards -> Procs \cup {"none", "dead"}]
  /\ bypass \subseteq Cards /\ live \subseteq Adopted /\ armed \subseteq Adopted
  /\ up \subseteq Procs
  /\ boot \in [Scheds -> {"off", "write", "check", "overwrite", "on", "refused"}]
  /\ pidfile \in Scheds \cup {"none", "dead"} /\ written \in BOOLEAN /\ both \in BOOLEAN
  /\ plan \in [Scheds -> SUBSET Cards] /\ busy \in [Procs -> Cards \cup {"none"}]
  /\ acts \in 0..MaxActs /\ deaths \in 0..MaxDeaths

\* Two running cards hold overlapping leases only if one of them was started
\* outside a tick (`leg card run', or the driver of a card that a human queued
\* again under it), or two schedulers ran at once.
OverlapsExplained ==
  both \/ \A c, d \in Active : c # d /\ {c, d} \in Conflicts => {c, d} \cap bypass # {}

\* "overlapping leases never start together" (docs/DEVIATIONS.md:11).
OverlapsNeverRun == \A c, d \in Active : c = d \/ {c, d} \notin Conflicts

\* No more cards run than the cap allows, but for the same exceptions.
CapKept == both \/ Cardinality(Active \ bypass) <= Max

\* An agent never works in the checkout of a live terminal, unless the card was
\* started there by `leg card run', or by the driver a human queued it under.
LiveTerminalIsAlone == \A c \in Active \cap live : c \in bypass

\* What a tick starts may run beside what runs already.
StartsAreSound == OverlapsExplained /\ CapKept /\ LiveTerminalIsAlone

\* The invariant behind it.  A scheduler that has chosen or drives cards is on, and a process in
\* the middle of a card holds its claim.  A card that waits under a driver was either queued by
\* that driver, which goes on with it before its next await, or by a human.
ProcsInv ==
  /\ \A s \in Scheds : plan[s] # {} => On(s)
  /\ \A s \in Scheds : s \in up /\ (\E c \in Cards : driver[c] = s) => On(s)
  /\ \A p \in Procs : busy[p] # "none" => p \in up /\ driver[busy[p]] = p
  /\ ~both => \A r, s \in Scheds : On(r) /\ On(s) => r = s
Planned(c) == \E s \in Scheds : c \in plan[s]
Driven(c) == driver[c] \in up
DriversInv ==
  /\ \A c \in Cards : status[c] = "backlog" => ~Driven(c) /\ ~Planned(c)
  /\ \A c \in Cards : driver[c] \in up \cap Runners => c \in bypass
  /\ \A c \in Cards : Driven(c) /\ status[c] = "queued" => busy[driver[c]] = c \/ c \in bypass

\* What runs, and what will run without another tick's look, was compared and counted together.
Committed ==
  {c \in Cards \ bypass : status[c] \in ActiveStatuses \/ Planned(c) \/ (Driven(c) /\ status[c] = "queued")}
ApartInv == ~both => \A c, d \in Committed : c # d => {c, d} \notin Conflicts
CountInv == ~both => Cardinality(Committed) <= Max
AloneInv == \A c \in live \ bypass : c \notin Active /\ ~Planned(c) /\ ~Driven(c)

SchedInv == TypeOK /\ ProcsInv /\ DriversInv /\ ApartInv /\ CountInv /\ AloneInv

\* A queued card is started one day (or moved by a human), unless every scheduler
\* was refused: one that found another running does not try again when that ends.
QueuedStarts ==
  \A c \in Cards :
    status[c] = "queued" ~> status[c] # "queued" \/ \A s \in Scheds : boot[s] = "refused"

\* Two schedulers never run at once ("one scheduler per home", scheduler.mjs:106).
OneScheduler == ~both
=============================================================================
