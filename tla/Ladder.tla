-------------------------------- MODULE Ladder --------------------------------
(***************************************************************************)
(* Where a terminal goes when its agent stops: the walk over the fallback  *)
(* ladder (usage.mjs candidates, evaluateLadder, chooseNext) by the        *)
(* records of the logins, and what claimHandoffChoice and the all-out wait *)
(* of attach.mjs make of it, hand-off after hand-off.                      *)
(*                                                                         *)
(* The records are those of UsageRecord, the ladder and the rules those of *)
(* Settings, and each changes by its writers at any moment.                *)
(***************************************************************************)
EXTENDS Settings, FiniteSets, FiniteSetsExt

CONSTANTS
  Default,       \* the model an agent runs when it is not told one
  Installed,
  Metered,       \* the agents that bill every request
  Credits,       \* the model that bills credits on a login that has them enabled
  Learns,        \* the agents whose transcript says which model answers
  First,         \* the rung a terminal is started on
  Readings,      \* what the endpoint of an agent may answer
  WallEnds, DefaultLimit, \* as in UsageRecord
  MaxClock

Agents == DOMAIN Names
Logins == UNION {{<<a, n>> : n \in Names[a] \cup {"default"}} : a \in Agents}

ASSUME LadderAssumption ==
  /\ First.agent \in Agents /\ Installed \subseteq Agents /\ Metered \subseteq Agents /\ Learns \subseteq Agents
  /\ Default \in [Agents -> Models \cup {"none"}]
  /\ \A f \in FirstFiles : f.climb_back \in {"next-handoff", "never"} /\ f.reserve \in [Agents -> 0..100]

VARIABLES
  now, use,      \* the clock, and the usage record of each login
  extra,         \* the logins that have usage credits enabled
  on,            \* the leg: its rung, the model that answers, and the model on the record
  phase,         \* "none", "runs", "stopped" at a limit or by a human, "waits" for a reset
  reason, prefer, until

terminal == <<on, phase, reason, prefer, until>>
ladderVars == <<now, use, extra, terminal, settings>>

Record == INSTANCE UsageRecord
  WITH Readings <- UNION {Readings[a] : a \in Agents}, clock <- now, rec <- use, pending <- {}, sightings <- 0, given <- {},
       HistoryMax <- 0, FlatGap <- 0, MinGap <- 0, WindowLength <- [k \in {"weekly_all", "weekly_scoped", "session"} |-> 0], MaxSeen <- 0

Login(r) == <<r.agent, r.account>>

\* The ladder and the rules of a choice: the start has its copy, a hand-off reads them again.
ladder == IF phase = "none" THEN copy.ladder ELSE ladderFor(rec)
prefs == IF phase = "none" THEN copy ELSE readPreferences

-----------------------------------------------------------------------------
(* The list: every rung once, with the other accounts around it.           *)

Others(agent, account, model, when) ==
  LET all == accounts[agent]
      rest == Kept(all, {i \in DOMAIN all : all[i] # account})
  IN [i \in DOMAIN rest |-> Rung(agent, rest[i], model, when)]

Stays(from, r) == Login(r) = Login(from) /\ r.model \in {"none", from.model}

candidates(from) ==
  LET own == Others(from.agent, from.account, "none", "always")
      around(r) == <<r>> \o Others(r.agent, r.account, r.model, r.when)
      all == own \o FlattenSeq([i \in DOMAIN ladder |-> around(ladder[i])])
  IN Distinct(Kept(all, {i \in DOMAIN all : ~Stays(from, all[i])}))

-----------------------------------------------------------------------------
(* The gates.                                                              *)

\* (mutant) The cost is the word the rung was saved with.
rungCost_Saved(r) == IF r.agent \in Metered THEN "metered" ELSE "plan"

\* By the agent and the live login; the word saved with the rung is never consulted.
rungCost(r) ==
  IF r.agent \in Metered THEN "metered"
  ELSE IF <<r.agent, r.model>> = Credits /\ Login(r) \in extra THEN "credits" ELSE "plan"

Bound(r) == Record!Binding(use[Login(r)], r.model)
Full(r) == \E b \in Bound(r) : b.pct >= 100
\* Every model of a login shares the account's windows.
AccountFull(r) == \E b \in Bound(r) : b.model = "none" /\ b.pct >= 100
LoginOpen(r) == Record!isAvailable(use[Login(r)])
ModelOut(r) == r.model # "none" /\ Record!wallActive(use[Login(r)].walls[r.model])

\* What `walled-only' counts as walled: what could not take this hand-off either way.
Walled(r) == ~LoginOpen(r) \/ ModelOut(r) \/ r.agent \notin Installed \/ Full(r)

Barred(r) == r.agent \notin Installed \/ (rungCost(r) # "plan" /\ ~prefs.may_spend)
Shares(from, r) == Login(r) = Login(from) /\ (~LoginOpen(r) \/ AccountFull(r))
Out(from, r) == Shares(from, r) \/ ~LoginOpen(r) \/ ModelOut(r)
Resets(from, r) ==
  LET u == use[Login(r)]
  IN IF Shares(from, r) \/ ~LoginOpen(r) THEN u.wall.until ELSE u.walls[r.model].until

Rank(r) == LET at == {i \in DOMAIN ladder : Key(ladder[i]) = Key(r)} IN IF at = {} THEN 0 ELSE Min(at)
Climbs(from, r) ==
  /\ prefs.climb_back = "never" /\ Login(r) = Login(from)
  /\ Rank(from) > 0 /\ Rank(r) > 0 /\ Rank(r) < Rank(from)
PastReserve(r) == \E b \in Bound(r) : b.pct > 100 - prefs.reserve[r.agent]

\* (mutant) One walled rung above is enough.
WhenHolds_Some(list, i) ==
  list[i].when = "walled-only" => i = 1 \/ \E j \in 1..(i - 1) : Walled(list[j])

WhenHolds(list, i) ==
  CASE list[i].when = "always" -> TRUE
    [] list[i].when = "below" -> \E b \in Bound(list[i]) : b.pct < 50
    [] list[i].when = "walled-only" -> \A j \in 1..(i - 1) : Walled(list[j])

\* A human may go past the reserve, and then past the rung's condition too.
Takeable(from, list, i, automatic) ==
  LET r == list[i]
  IN /\ ~Barred(r) /\ ~Out(from, r)
     /\ ~(automatic /\ Climbs(from, r))
     /\ IF PastReserve(r) THEN ~automatic ELSE WhenHolds(list, i)

-----------------------------------------------------------------------------
(* The choice.                                                             *)

\* The clocks of what was passed over: one for each login, that of the first rung on it.
Clocks(from, list) ==
  LET out == {i \in DOMAIN list : ~Barred(list[i]) /\ Out(from, list[i]) /\ Resets(from, list[i]) # 0}
  IN {Resets(from, list[i]) : i \in {j \in out : \A k \in out : k < j => Login(list[k]) # Login(list[j])}}

Wanted(list, want) ==
  {i \in DOMAIN list : /\ Login(list[i]) = Login(want)
                       /\ want.model # "none" => list[i].model = want.model}

\* chooseNext: the pick if it is open, else the first rung that is; 0 is none.
chooseNext(from, list, automatic) ==
  LET open == {i \in DOMAIN list : Takeable(from, list, i, automatic)}
      asked == IF prefer.agent = "none" THEN {} ELSE Wanted(list, prefer)
  IN IF asked # {} /\ Min(asked) \in open THEN Min(asked)
     ELSE IF open # {} THEN Min(open) ELSE 0

\* (mutant) The own login is open although the model is not: the loop of twelve legs.
OwnOpen_Account(from) == LoginOpen(from)

\* Nothing on the ladder: the login the terminal is on already, with its model.
OwnOpen(from) == LoginOpen(from) /\ ~ModelOut(from)

NoPick == [agent |-> "none", account |-> "none", model |-> "none"]
Recorded == Rung(on.agent, on.account, on.known, "always")

-----------------------------------------------------------------------------
(* The terminal.                                                           *)

Leg(r) == [agent |-> r.agent, account |-> r.account, asked |-> r.model, known |-> r.model,
           answers |-> IF r.model # "none" THEN r.model ELSE Default[r.agent]]

LadderInit ==
  /\ SettingsInit /\ now = 1 /\ use = [l \in Logins |-> Record!EmptyUsage]
  /\ extra \in {{}, {l \in Logins : l[1] = Credits[1]}}
  /\ on = Leg(First) /\ phase = "none" /\ reason = "none" /\ prefer = NoPick /\ until = 0

\* The terminal starts on what it was asked for, or on what an automatic choice puts in its place.
BeginLeg ==
  /\ CreateRecord /\ phase' = "runs"
  /\ LET list == candidates(First)
         next == chooseNext(First, list, TRUE)
     IN on' = Leg(IF LoginOpen(First) \/ next = 0 THEN First ELSE list[next])
  /\ UNCHANGED <<now, use, extra, reason, prefer, until>>

\* The model claude answers with is read from its transcript.
Learn ==
  /\ phase = "runs" /\ start = "runs" /\ on.agent \in Learns /\ on.known # on.answers
  /\ on' = [on EXCEPT !.known = on.answers]
  /\ UNCHANGED <<now, use, extra, phase, reason, prefer, until, settings>>

\* The agent stops at its limit: the whole login's, or that of the model which answers.
HitWall(model, ends) ==
  /\ phase = "runs" /\ start = "runs" /\ Event /\ model \in {"none", on.answers}
  /\ LET l == <<on.agent, on.account>>
         o == [kind |-> "wall", login |-> l, seen |-> now, model |-> model, ends |-> ends]
     IN use' = [use EXCEPT ![l] = IF model = "none" THEN Record!markLimited(@, o)
                                  ELSE Record!markModelLimited(@, o)]
  /\ phase' = "stopped" /\ reason' = "limit" /\ prefer' = NoPick
  /\ UNCHANGED <<now, extra, on, until, quiet>>

\* Hand off now, with or without a destination.
HandOffNow(want) ==
  /\ phase = "runs" /\ start = "runs" /\ Event
  /\ phase' = "stopped" /\ reason' = "handoff" /\ prefer' = want
  /\ UNCHANGED <<now, use, extra, on, until, quiet>>

Goes(r) ==
  /\ on' = Leg(r) /\ phase' = "runs" /\ reason' = "none" /\ prefer' = NoPick /\ until' = 0

\* claimHandoffChoice, and what the loop does when nothing was chosen: it waits for the first
\* reset it knows of, its own login's included, and not at all if it knows none.
Choose ==
  /\ phase = "stopped"
  /\ LET list == candidates(Recorded)
         next == chooseNext(Recorded, list, reason # "handoff")
         own == use[Login(Recorded)].wall.until
         clocks == Clocks(Recorded, list) \cup ({own} \ {0})
     IN \/ next # 0 /\ Goes(list[next])
        \/ next = 0 /\ OwnOpen(Recorded) /\ Goes(Recorded)
        \/ /\ next = 0 /\ ~OwnOpen(Recorded)
           /\ phase' = "waits" /\ until' = (IF clocks = {} THEN 0 ELSE Min(clocks))
           /\ UNCHANGED <<on, reason, prefer>>
  /\ UNCHANGED <<now, use, extra, settings>>

\* The countdown is over: choose again.
Ready ==
  /\ phase = "waits" /\ until <= now /\ phase' = "stopped"
  /\ UNCHANGED <<now, use, extra, on, reason, prefer, until, settings>>

\* A poller's reading of a login.
ReadUsage(l) ==
  /\ Event
  /\ \E r \in Readings[l[1]] : use' = [use EXCEPT ![l] = Record!recordUsage(@, [reading |-> r, seen |-> now])]
  /\ UNCHANGED <<now, extra, terminal, quiet>>

Tick ==
  /\ now < MaxClock /\ now' = now + 1
  /\ UNCHANGED <<use, extra, terminal, settings>>

Picks == {NoPick} \cup {[agent |-> r.agent, account |-> r.account, model |-> r.model] : r \in ToSet(ladderFor(rec))}
LadderNext ==
  \/ BeginLeg \/ Learn \/ Choose \/ Ready \/ Tick
  \/ (StartReads \/ CopyLadder \/ Writes) /\ UNCHANGED <<now, use, extra, terminal>>
  \/ \E m \in Models \cup {"none"}, e \in WallEnds : HitWall(m, e)
  \/ \E p \in Picks : HandOffNow(p)
  \/ \E l \in Logins : ReadUsage(l)

LadderSpec == LadderInit /\ [][LadderNext]_ladderVars
-----------------------------------------------------------------------------
(* Properties.                                                             *)

LadderTypeOK ==
  /\ SettingsTypeOK /\ now \in 1..MaxClock /\ extra \subseteq Logins
  /\ <<on.agent, on.account>> \in Logins /\ {on.asked, on.known, on.answers} \subseteq Models \cup {"none"}
  /\ phase \in {"none", "runs", "stopped", "waits"} /\ reason \in {"none", "limit", "handoff"}
  /\ until \in Nat

Starts == phase # "runs" /\ phase' = "runs"
OnMachine(r) == r.account \in ToSet(accounts[r.agent])
Asked == Rung(on'.agent, on'.account, on'.asked, "always")

\* A leg starts only where the login is open and the model it is told is, the login it stopped on
\* included: otherwise it stops at once, and twelve legs are burned (attach.mjs:881-892); and, but
\* for the login it stopped on, on an account the machine still has. The first leg starts where it
\* was asked to if nothing else is open. A leg that is told no model may run into the wall of its
\* own default.
LegsAreOpen ==
  [][Starts => \/ LoginOpen(Asked) /\ ~ModelOut(Asked) /\ (OnMachine(Asked) \/ Login(Asked) = Login(Recorded) \/ phase = "none")
               \/ phase = "none" /\ Login(Asked) = Login(First)]_ladderVars

\* Nobody pays who did not allow it: a hand-off goes to an agent or a model that bills, by the word
\* of the login at that time, only with leave, or if that is where the terminal was already
\* (usage.mjs:561-565, preferences.mjs:45-62).
Bills(agent, account, model) ==
  agent \in Metered \/ (<<agent, model>> = Credits /\ <<agent, account>> \in extra)
SpendsWithLeave ==
  [][Starts =>
      \/ prefs.may_spend \/ ~Bills(on'.agent, on'.account, on'.asked)
      \/ Login(Asked) = Login(Recorded) /\ Asked.model = Recorded.model]_ladderVars

\* What the ladder keeps for when every rung above it is walled is not reached before, unless a
\* human went past a reserve, or it is another account of the agent that stopped, which comes first
\* without a condition. A login is reached by the first rung it stands around, and that rung's
\* condition is the one that counts (usage.mjs:479-489, :602-605).
Reaches(r) ==
  {i \in DOMAIN ladder : /\ ladder[i].agent = r.agent /\ ladder[i].model = r.model
                         /\ ladder[i].account = r.account \/ OnMachine(r)}
WhenIsKept ==
  [][Starts /\ ~(reason = "handoff" /\ PastReserve(Asked)) /\ Key(Asked) # Key(Recorded)
      /\ ~(Asked.agent = on.agent /\ Asked.model = "none") =>
        \A i \in Reaches(Asked) : (\A j \in Reaches(Asked) : i <= j) /\ ladder[i].when = "walled-only" =>
          \A j \in 1..(i - 1) : Walled(ladder[j]) \/ Stays(Recorded, ladder[j])]_ladderVars

\* A terminal goes where it may: the leg is open, paid for with leave, and its turn has come.
LegsAreAllowed == LegsAreOpen /\ SpendsWithLeave /\ WhenIsKept

\* Not so in the code. "starts the first option back" (docs/concepts.md:225): it waits no longer
\* than until the first reset among the rungs that are out.
FirstBack ==
  [][phase = "stopped" /\ phase' = "waits" =>
      LET list == candidates(Recorded)
      IN \A i \in DOMAIN list :
           ~Barred(list[i]) /\ Out(Recorded, list[i]) /\ Resets(Recorded, list[i]) # 0
             => until' <= Resets(Recorded, list[i])]_ladderVars
=============================================================================
