------------------------------ MODULE UsagePoll ------------------------------
(***************************************************************************)
(* Who reads a login's usage endpoint (usage-poll.mjs, the fallback of     *)
(* attach.mjs, the readers of taps/).  The board has one poller a login:   *)
(* it asks, tells every active terminal of the login, promises when it asks*)
(* next, and waits longer after each refusal.  A terminal reads for itself *)
(* when the last reading is old and no promise stands.  Meanwhile terminals*)
(* move from login to login, and the board stops and starts.               *)
(* Times are ticks.  Timers fire, and answers arrive, within the tick.     *)
(***************************************************************************)
EXTENDS Naturals, FiniteSets

CONSTANTS PollLogins, PollTerms,
          Interval, MaxDelay,     \* USAGE_POLL_MS, USAGE_POLL_MAX_MS
          StaleAge, Grace,        \* usageIsStale, boardIsPolling
          Errors,                \* why an endpoint refuses
          MaxPollClock, MaxTurns  \* bounds: ticks; changes of endpoints, terminals and boards

\* The grace outlasts an answer (usage.mjs:97), and answers arrive within the tick.
PollAssumption == {Interval, MaxDelay, Grace} \subseteq Nat \ {0} /\ StaleAge \in Nat

VARIABLES
  now,
  endpoint,  \* per login: "ok" or why it refuses
  accounts,  \* the logins accounts.json names
  boardUp,
  slot,      \* per login: the poller's delay, when its timer is due, what it is at
  usage,     \* per login, the record: when observed, its error, the next promised poll
  card,      \* per terminal: its login, active, the error and the figures it shows
  own,       \* per terminal: the reading it waits for, and when it last asked
  changes,
  told       \* (history) the terminals a round of this board listed, since their leg began or they
             \* last wrote their own card

pollVars == <<now, endpoint, accounts, boardUp, slot, usage, card, own, changes, told>>

NoSlot == [delay |-> Interval, due |-> 0, at |-> "none", since |-> 0, saw |-> "none", todo |-> {}, changed |-> FALSE]
Change == changes < MaxTurns /\ changes' = changes + 1
NoError == "none"
Lesser(a, b) == IF a < b THEN a ELSE b
OnLogin(l) == {t \in PollTerms : card[t].active /\ card[t].login = l}

-----------------------------------------------------------------------------
(* The record (usage.mjs).                                                 *)

usageIsStale(u) == now - u.observed > StaleAge \/ u.observed = 0
boardIsPolling(u) == u.next > 0 /\ now <= u.next + Grace
\* noteUsageError: the record keeps the reason; only a beginning or an end is a change.
noteUsageError(u, why) == [u EXCEPT !.error = why]
Changed(u, why) == (u.error = NoError) # (why = NoError)

\* (mutant) Only a reading that works renews the promise.
notePoll_OnSuccess(u, l, next) == IF slot[l].saw = "ok" THEN [u EXCEPT !.next = next] ELSE u
notePoll(u, l, next) == [u EXCEPT !.next = next]

-----------------------------------------------------------------------------
(* The board's pollers.                                                    *)

Asked(s) == [s EXCEPT !.at = "asked", !.since = now, !.due = 0]

BoardStarts ==
  /\ ~boardUp /\ Change /\ boardUp' = TRUE
  /\ slot' = [l \in PollLogins |-> IF l \in accounts THEN Asked(NoSlot) ELSE NoSlot]
  /\ told' = {}
  /\ UNCHANGED <<now, endpoint, accounts, usage, card, own>>

\* stop(), or the end of the process: what is under way writes nothing any more.
BoardStops ==
  /\ boardUp /\ Change /\ boardUp' = FALSE
  /\ slot' = [l \in PollLogins |-> NoSlot]
  /\ UNCHANGED <<now, endpoint, accounts, usage, card, own, told>>

TimerFires(l) ==
  /\ slot[l].at = "none" /\ slot[l].due > 0 /\ slot[l].due <= now
  /\ slot' = [slot EXCEPT ![l] = Asked(@)]
  /\ UNCHANGED <<now, endpoint, accounts, boardUp, usage, card, own, changes, told>>

\* (mutant) A card hears of a refusal only when an outage begins or ends.
Behind_OnChange(l, changed, why) == IF changed THEN OnLogin(l) ELSE {}
\* sessionsOf, and whom of them to write to.
Behind(l, changed, why) ==
  IF why = NoError \/ changed THEN OnLogin(l) ELSE {t \in OnLogin(l) : card[t].err # why}

\* readLogin: the record is written; then the terminals that are on the login now are listed.
Answers(l) ==
  LET saw == endpoint[l]
      why == IF saw = "ok" THEN NoError ELSE saw
      read == IF saw = "ok" THEN [usage[l] EXCEPT !.observed = now] ELSE usage[l]
  IN /\ slot[l].at = "asked"
     /\ usage' = [usage EXCEPT ![l] = noteUsageError(read, why)]
     /\ slot' = [slot EXCEPT ![l] = [@ EXCEPT !.at = "tells", !.saw = saw,
                   !.todo = Behind(l, Changed(usage[l], why), why), !.changed = Changed(usage[l], why)]]
     /\ told' = told \cup OnLogin(l)
     /\ UNCHANGED <<now, endpoint, accounts, boardUp, card, own, changes>>

\* (mutant) What was listed is written to, whatever it is on by now.
StillOn_Listed(t, l) == TRUE
StillOn(t, l) == card[t].active /\ card[t].login = l
pushToSession(l, t) ==
  /\ slot[l].at = "tells" /\ t \in slot[l].todo
  /\ slot' = [slot EXCEPT ![l].todo = @ \ {t}]
  /\ card' = IF ~StillOn(t, l) THEN card
             ELSE IF slot[l].saw = "ok" THEN [card EXCEPT ![t].err = NoError, ![t].figures = l]
             ELSE [card EXCEPT ![t].err = slot[l].saw]
  /\ UNCHANGED <<now, endpoint, accounts, boardUp, usage, own, changes, told>>

\* The delay, the promise, logins that came meanwhile, and the timer.
RoundEnds(l) ==
  LET delay == IF slot[l].saw = "ok" THEN Interval ELSE Lesser(MaxDelay, slot[l].delay * 2)
  IN /\ slot[l].at = "tells" /\ slot[l].todo = {}
     /\ usage' = [usage EXCEPT ![l] = notePoll(@, l, now + delay)]
     /\ slot' = [m \in PollLogins |->
          IF m = l THEN [NoSlot EXCEPT !.delay = delay, !.due = now + delay]
          ELSE IF m \in accounts /\ slot[m] = NoSlot THEN Asked(NoSlot) ELSE slot[m]]
     /\ UNCHANGED <<now, endpoint, accounts, boardUp, card, own, changes, told>>

-----------------------------------------------------------------------------
(* A terminal reads for itself.                                            *)

TerminalAsks(t) ==
  LET u == usage[card[t].login]
  IN /\ card[t].active /\ own[t].of = "none" /\ own[t].last < now
     /\ usageIsStale(u) /\ ~boardIsPolling(u)
     /\ own' = [own EXCEPT ![t] = [of |-> card[t].login, last |-> now]]
     /\ UNCHANGED <<now, endpoint, accounts, boardUp, slot, usage, card, changes, told>>

\* The answer is for the leg that asked, or for nobody; a refusal is not written to the record.
TerminalHears(t) ==
  LET l == own[t].of IN
  /\ l # "none" /\ own' = [own EXCEPT ![t].of = "none"]
  /\ told' = IF StillOn(t, l) THEN told \ {t} ELSE told
  /\ IF ~StillOn(t, l) THEN UNCHANGED <<usage, card>>
     ELSE IF endpoint[l] = "ok"
     THEN /\ usage' = [usage EXCEPT ![l].observed = now]
          /\ card' = [card EXCEPT ![t].err = NoError, ![t].figures = l]
     ELSE /\ card' = [card EXCEPT ![t].err = IF @ = NoError THEN endpoint[l] ELSE @]
          /\ UNCHANGED usage
  /\ UNCHANGED <<now, endpoint, accounts, boardUp, slot, changes>>

-----------------------------------------------------------------------------
(* What else happens.                                                      *)

\* A leg begins: on this login, with an empty card.
LegBegins(t, l) ==
  /\ l \in accounts /\ (card[t].active => card[t].login # l) /\ Change
  /\ card' = [card EXCEPT ![t] = [login |-> l, active |-> TRUE, err |-> NoError, figures |-> "none"]]
  /\ told' = told \ {t}
  /\ UNCHANGED <<now, endpoint, accounts, boardUp, slot, usage, own>>
TerminalEnds(t) ==
  /\ card[t].active /\ Change
  /\ card' = [card EXCEPT ![t].active = FALSE]
  /\ UNCHANGED <<now, endpoint, accounts, boardUp, slot, usage, own, told>>
EndpointTurns(l, how) ==
  /\ endpoint[l] # how /\ Change /\ endpoint' = [endpoint EXCEPT ![l] = how]
  /\ UNCHANGED <<now, accounts, boardUp, slot, usage, card, own, told>>
AddsLogin(l) ==
  /\ l \notin accounts /\ Change /\ accounts' = accounts \cup {l}
  /\ UNCHANGED <<now, endpoint, boardUp, slot, usage, card, own, told>>

\* Nobody is late by more than a tick.
Passes ==
  /\ now < MaxPollClock /\ now' = now + 1
  /\ \A l \in PollLogins : slot[l].at # "tells" /\ (slot[l].at = "asked" => slot[l].since = now)
                           /\ (slot[l].due = 0 \/ slot[l].due > now)
  /\ UNCHANGED <<endpoint, accounts, boardUp, slot, usage, card, own, changes, told>>

PollInit ==
  /\ now = 1 /\ endpoint = [l \in PollLogins |-> "ok"] /\ accounts \in {{l} : l \in PollLogins}
  /\ boardUp = FALSE /\ slot = [l \in PollLogins |-> NoSlot]
  /\ usage = [l \in PollLogins |-> [observed |-> 0, error |-> NoError, next |-> 0]]
  /\ card = [t \in PollTerms |-> [login |-> "none", active |-> FALSE, err |-> NoError, figures |-> "none"]]
  /\ own = [t \in PollTerms |-> [of |-> "none", last |-> 0]] /\ changes = 0 /\ told = {}

PollNext ==
  \/ BoardStarts \/ BoardStops \/ Passes
  \/ \E l \in PollLogins : TimerFires(l) \/ Answers(l) \/ RoundEnds(l) \/ AddsLogin(l)
                           \/ (\E t \in PollTerms : pushToSession(l, t) \/ LegBegins(t, l))
                           \/ (\E how \in {"ok"} \cup Errors : EndpointTurns(l, how))
  \/ \E t \in PollTerms : TerminalAsks(t) \/ TerminalHears(t) \/ TerminalEnds(t)

PollSpec == PollInit /\ [][PollNext]_pollVars

-----------------------------------------------------------------------------
(* A terminal asks an endpoint only while no board is up, or one that has   *)
(* not finished its first round on the login: a poller that was refused and *)
(* waits is a poller still.                                                 *)
AsksWhileNoneDoes ==
  \A t \in PollTerms : own'[t].of # "none" /\ own[t].of = "none" =>
    LET s == slot[own'[t].of] IN ~boardUp \/ s = NoSlot \/ (s.due = 0 /\ s.delay = Interval)
OneAsks == [][AsksWhileNoneDoes]_pollVars

(* A card shows figures of the login it is on, and once a round has listed  *)
(* it, what the round found: a reason that changes during an outage too.    *)
CardsTell ==
  \A t \in PollTerms : card[t].active =>
    /\ card[t].figures \in {"none", card[t].login}
    /\ boardUp /\ t \in told /\ slot[card[t].login].at # "tells" => card[t].err = usage[card[t].login].error
=============================================================================
