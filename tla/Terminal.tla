------------------------------ MODULE Terminal ------------------------------
(***************************************************************************)
(* One interactive terminal of Leg (attach.mjs): a runner starts an agent, *)
(* polls the session record, and when the agent stops at its usage limit,  *)
(* or a human asks for it, kills it, chooses the next login and starts     *)
(* that agent in the same terminal, or waits until one is back.            *)
(*                                                                         *)
(* The record (session.json) and the requests (control.json) are shared:   *)
(* the runner, the hook processes Claude Code starts (taps/claude.mjs),    *)
(* the poller of the board (usage-poll.mjs), its buttons, and the reaper   *)
(* of lost terminals write them, one locked update at a time.              *)
(*                                                                         *)
(* A login stands for a rung of the ladder; which one is chosen among the  *)
(* open ones is left open here.                                            *)
(***************************************************************************)
EXTENDS Naturals, FiniteSets

CONSTANTS
  Logins,
  Claude,     \* the logins of Claude Code, which reports by hooks; the others are read by the runner
  Absent,     \* the logins whose agent is not installed, or would spend what may not be spent
  Refused,    \* the ones the strict harness policy refuses
  First,      \* the login the terminal starts on
  MaxLegs,    \* 12 in the code
  MaxActs     \* hooks run (those for a wall not counted), readings and listings of the board,
              \* buttons pressed: all of them together

ASSUME LoginsAssumption ==
  /\ Claude \subseteq Logins /\ Absent \subseteq Logins /\ Refused \subseteq Logins
  /\ First \in Logins /\ "none" \notin Logins
ASSUME BoundsAssumption ==
  MaxLegs \in Nat \ {0} /\ MaxActs \in Nat

VARIABLES
  sess,      \* session.json
  control,   \* control.json: the requests in it
  pc,        \* where the runner stands
  seen,      \* what a tick knows of the record
  leg, login, \* the leg it runs, and on which login
  reason,    \* why the leg stopped
  warned,    \* the tick has warned in this leg
  stoodDown, \* it has said in this leg that it does not hand off
  excluded,  \* refused in this hand-off
  first,     \* the login an all-out wait is for
  agent,     \* the child
  unread,    \* its wall is in its log and the tick has not read it
  hooks,     \* hook processes that have not written yet
  wall,      \* what the usage record of each login says: "open", "model", "login"
  reading,   \* readings of the board that were not pushed yet
  editing,   \* a new order was accepted and is not saved yet
  listed,    \* a board saw the terminal active, and is about to look for its process
  chosen,    \* the order the claimed login was chosen by
  grounds,   \* in this leg a wall was hit, or its login was said to be out
  late,      \* a hook of an agent that is gone has written
  pushed,    \* a poller has put `limit' over `handing_off'
  spent

tick == <<seen, warned, stoodDown>>
choice == <<excluded, first, chosen>>
runner == <<pc, leg, login, reason, tick, choice>>
child == <<agent, unread, hooks>>
board == <<reading, editing, listed>>
history == <<grounds, late, pushed, spent>>
vars == <<sess, control, runner, child, wall, board, history>>

ActiveStatuses == {"starting", "running", "warning", "limit", "waiting", "handing_off"}
isActive == sess.status \in ActiveStatuses
EditableStatuses == ActiveStatuses \ {"handing_off"}

Nothing == [status |-> "none", limit |-> FALSE, limits |-> "none", waiting |-> "none"]
Known(s) == [status |-> s.status, limit |-> s.limit, limits |-> s.limits, waiting |-> s.waiting]

Init ==
  /\ sess = [status |-> "starting", login |-> First, limit |-> FALSE, limits |-> "none",
             waiting |-> "none", order |-> 0]
  /\ control = {} /\ pc = "spawn" /\ seen = Nothing
  /\ leg = 0 /\ login = First /\ reason = "none" /\ warned = FALSE /\ stoodDown = FALSE
  /\ excluded = {} /\ first = "none" /\ chosen = 0
  /\ agent = "none" /\ unread = FALSE /\ hooks = {}
  /\ wall = [l \in Logins |-> "open"]
  /\ reading = {} /\ editing = 0 /\ listed = FALSE
  /\ grounds = FALSE /\ late = FALSE /\ pushed = FALSE
  /\ spent = 0

Spend == spent < MaxActs /\ spent' = spent + 1
Alive == pc \notin {"gone", "dead"}

-----------------------------------------------------------------------------
(* The runner: one leg.                                                    *)

\* (mutant) A leg keeps the limit of the one before.
Spawn_KeepsLimit ==
  /\ pc = "spawn" /\ pc' = "idle"
  /\ leg' = leg + 1 /\ agent' = "works" /\ unread' = FALSE /\ reason' = "none"
  /\ warned' = FALSE /\ stoodDown' = FALSE
  /\ sess' = [sess EXCEPT !.login = login, !.limits = "none"]
  /\ excluded' = {} /\ first' = "none" /\ chosen' = 0 /\ grounds' = FALSE /\ pushed' = FALSE
  /\ UNCHANGED <<control, login, seen, hooks, wall, board, late, spent>>

\* Every leg starts on its own card.
Spawn ==
  /\ pc = "spawn" /\ pc' = "idle"
  /\ leg' = leg + 1 /\ agent' = "works" /\ unread' = FALSE /\ reason' = "none"
  /\ warned' = FALSE /\ stoodDown' = FALSE
  /\ sess' = [sess EXCEPT !.login = login, !.limit = FALSE, !.limits = "none",
                          !.status = IF login \in Claude THEN "starting" ELSE "running"]
  /\ excluded' = {} /\ first' = "none" /\ chosen' = 0 /\ grounds' = FALSE /\ pushed' = FALSE
  /\ UNCHANGED <<control, login, seen, hooks, wall, board, late, spent>>

TickRead ==
  /\ pc = "idle" /\ agent # "none" /\ pc' = "read" /\ seen' = Known(sess)
  /\ UNCHANGED <<sess, control, leg, login, reason, warned, stoodDown, choice, child, wall, board, history>>

\* The patch of a tick is computed from the record it read: a wall in the agent's log,
\* and one warning per leg.  A tick without a patch goes on with what it read.
TickWrite(limited, warns) ==
  /\ pc = "read" /\ pc' = "take"
  /\ limited <=> unread
  /\ warns => ~warned /\ seen.limits # "none"
  /\ LET next == [sess EXCEPT !.limit = @ \/ limited,
                              !.status = IF limited THEN "limit"
                                         ELSE IF warns /\ seen.status = "running" THEN "warning" ELSE @]
     IN IF limited \/ warns THEN sess' = next /\ seen' = Known(next) ELSE UNCHANGED <<sess, seen>>
  /\ wall' = [wall EXCEPT ![login] = IF limited THEN "login" ELSE @]
  /\ unread' = FALSE /\ warned' = (warned \/ warns)
  /\ UNCHANGED <<control, leg, login, reason, stoodDown, choice, agent, hooks, board, history>>

Kill(why) == agent' = "none" /\ unread' = FALSE /\ reason' = why /\ seen' = Nothing
StandsDown(s) == s.waiting = "resume"

TickEnd ==
  /\ pc = "take" /\ "end" \in control
  /\ control' = {} /\ Kill("exit") /\ pc' = "finish"
  /\ UNCHANGED <<sess, leg, login, warned, stoodDown, choice, hooks, wall, board, history>>

TickHandOff ==
  /\ pc = "take" /\ control = {"handoff"}
  /\ control' = {} /\ Kill("handoff") /\ pc' = "save"
  /\ sess' = [sess EXCEPT !.status = "handing_off"]
  /\ UNCHANGED <<leg, login, warned, stoodDown, choice, hooks, wall, board, history>>

\* (mutant) Only the status counts.
Limited_ByStatus(s) == s.status = "limit"
Limited(s) == s.status = "limit" \/ s.limit
TickLimit ==
  /\ pc = "take" /\ control = {} /\ Limited(seen) /\ ~StandsDown(seen)
  /\ Kill("limit") /\ pc' = "save"
  /\ UNCHANGED <<sess, control, leg, login, warned, stoodDown, choice, hooks, wall, board, history>>

TickOver ==
  /\ pc = "take" /\ control = {} /\ (Limited(seen) => StandsDown(seen))
  /\ pc' = "idle" /\ seen' = Nothing /\ stoodDown' = (stoodDown \/ Limited(seen))
  /\ UNCHANGED <<sess, control, leg, login, reason, warned, choice, child, wall, board, history>>

\* The child has exited on its own: the terminal is over.
SeesExit ==
  /\ pc = "idle" /\ agent = "none" /\ pc' = "finish" /\ reason' = "exit"
  /\ UNCHANGED <<sess, control, leg, login, tick, choice, child, wall, board, history>>

-----------------------------------------------------------------------------
(* The runner: between two legs.                                           *)

SaveBundle ==
  /\ pc = "save" /\ pc' = "claim"
  /\ UNCHANGED <<sess, control, leg, login, reason, tick, choice, child, wall, board, history>>

\* The rungs that may be taken: another login that is open, else the terminal's own.
Others == Logins \ ({login} \cup Absent \cup excluded)
Open == {l \in Others : wall[l] = "open"}
Candidates ==
  IF Open # {} THEN Open ELSE IF wall[login] = "open" /\ login \notin excluded THEN {login} ELSE {}

\* claimHandoffChoice: the choice and the claim are one update of the record.
Claim(l) ==
  /\ pc = "claim" /\ l \in Candidates /\ pc' = "harness"
  /\ first' = l /\ chosen' = sess.order
  /\ sess' = [sess EXCEPT !.status = "handing_off", !.waiting = "none"]
  /\ UNCHANGED <<control, leg, login, reason, tick, excluded, child, wall, board, history>>

\* Nothing to choose: in the hand-off's first choice the terminal waits, after a refusal it stops.
NothingLeft ==
  /\ pc = "claim" /\ Candidates = {} /\ excluded # {} /\ pc' = "finish"
  /\ sess' = [sess EXCEPT !.status = "ended", !.waiting = "none"]
  /\ UNCHANGED <<control, leg, login, reason, tick, choice, child, wall, board, history>>

\* The logins with a clock: the others at a wall, and the terminal's own account.
Clocks == {l \in Others : wall[l] # "open"} \cup {l \in {login} : wall[l] = "login"}
AllOut ==
  /\ pc = "claim" /\ Candidates = {} /\ excluded = {} /\ pc' = "wait"
  /\ IF Clocks = {} THEN first' = "none" ELSE first' \in Clocks
  /\ sess' = [sess EXCEPT !.status = "waiting", !.waiting = IF Clocks = {} THEN "none" ELSE "reset"]
  /\ UNCHANGED <<control, leg, login, reason, tick, excluded, chosen, child, wall, board, history>>

\* Every tick of the wait takes the requests: End is heard, a hand-off is dropped.  It is over
\* when the reset has passed, with no clock to wait for at once.
WaitTick ==
  /\ pc = "wait" /\ control' = {}
  /\ IF "end" \in control
     THEN pc' = "finish" /\ sess' = [sess EXCEPT !.status = "ended", !.waiting = "none"]
     ELSE /\ IF first = "none" \/ wall[first] = "open" THEN pc' = "claim" ELSE UNCHANGED pc
          /\ UNCHANGED sess
  /\ UNCHANGED <<leg, login, reason, tick, choice, child, wall, board, history>>

Harness ==
  /\ pc = "harness"
  /\ IF first \in Refused THEN pc' = "claim" /\ excluded' = excluded \cup {first}
     ELSE pc' = "go" /\ UNCHANGED excluded
  /\ UNCHANGED <<sess, control, leg, login, reason, tick, first, chosen, child, wall, board, history>>

Go ==
  /\ pc = "go"
  /\ IF leg >= MaxLegs THEN pc' = "finish" /\ sess' = [sess EXCEPT !.status = "ended"] /\ UNCHANGED login
     ELSE pc' = "spawn" /\ login' = first /\ UNCHANGED sess
  /\ UNCHANGED <<control, leg, reason, tick, choice, child, wall, board, history>>

Finish ==
  /\ pc = "finish" /\ pc' = "clear"
  /\ sess' = [sess EXCEPT !.status = "ended"]
  /\ UNCHANGED <<control, leg, login, reason, tick, choice, child, wall, board, history>>

Clear ==
  /\ pc = "clear" /\ pc' = "gone" /\ control' = {}
  /\ UNCHANGED <<sess, leg, login, reason, tick, choice, child, wall, board, history>>

\* The terminal window is closed, or the runner is killed.
Die ==
  /\ Alive /\ pc' = "dead" /\ agent' = "none" /\ unread' = FALSE
  /\ UNCHANGED <<sess, control, leg, login, reason, tick, choice, hooks, wall, board, history>>

Runner ==
  \/ Spawn \/ TickRead \/ (\E limited, warns \in BOOLEAN : TickWrite(limited, warns))
  \/ TickEnd \/ TickHandOff \/ TickLimit \/ TickOver \/ SeesExit
  \/ SaveBundle \/ (\E l \in Logins : Claim(l)) \/ NothingLeft \/ AllOut
  \/ WaitTick \/ Harness \/ Go \/ Finish \/ Clear

-----------------------------------------------------------------------------
(* The agent and the hooks it runs; a kill of the agent spares them.       *)

Report(kind, warn) ==
  hooks' = hooks \cup {[kind |-> kind, warn |-> warn, leg |-> leg, login |-> login]}

AgentWalls ==
  /\ agent = "works" /\ agent' = "walled" /\ grounds' = TRUE
  /\ IF login \in Claude THEN Report("failure", FALSE) /\ UNCHANGED unread
     ELSE unread' = TRUE /\ UNCHANGED hooks
  /\ UNCHANGED <<sess, control, runner, wall, board, late, pushed, spent>>

\* Claude Code may decide to wait for the reset itself, and go on by itself.
AgentRests ==
  /\ agent = "walled" /\ login \in Claude /\ agent' = "rests" /\ Report("resume", FALSE)
  /\ Spend
  /\ UNCHANGED <<sess, control, runner, unread, wall, board, grounds, late, pushed>>
AgentResumes ==
  /\ agent = "rests" /\ agent' = "works"
  /\ UNCHANGED <<sess, control, runner, unread, hooks, wall, board, history>>

\* A turn begins or ends, a question is asked, the status line is drawn.
AgentReports(kind, warn) ==
  /\ agent = "works" /\ login \in Claude /\ Spend /\ Report(kind, warn)
  /\ UNCHANGED <<sess, control, runner, agent, unread, wall, board, grounds, late, pushed>>

AgentExits ==
  /\ agent # "none" /\ agent' = "none" /\ unread' = FALSE
  /\ UNCHANGED <<sess, control, runner, hooks, wall, board, history>>

\* handleHook and handleStatusline: only `waiting' and a status of their own are taken
\* from the record they find, but a wall is written over any.
Hooked(h) ==
  CASE h.kind = "turn" -> [sess EXCEPT !.status = IF @ = "starting" THEN "running" ELSE @,
                                       !.waiting = IF @ = "reset" THEN @ ELSE "none"]
    [] h.kind \in {"ask", "resume"} -> [sess EXCEPT !.waiting = IF @ = "reset" THEN @ ELSE h.kind]
    [] h.kind = "line" -> [sess EXCEPT !.limits = h.login,
                                       !.status = IF h.warn /\ @ = "running" THEN "warning"
                                                  ELSE IF ~h.warn /\ @ = "warning" THEN "running" ELSE @]
    [] h.kind = "failure" -> [sess EXCEPT !.status = "limit", !.limit = TRUE]

\* The wall goes to Claude Code's login of the account the record names by now, if there is one.
Walled == IF sess.login \in Claude THEN {sess.login} ELSE Claude \cup {"none"}

HookWrites(h) ==
  /\ hooks' = hooks \ {h} /\ sess' = Hooked(h)
  /\ IF h.kind = "failure"
     THEN \E scope \in {"model", "login"}, l \in Walled :
            wall' = [x \in Logins |-> IF x = l /\ wall[x] # "login" THEN scope ELSE wall[x]]
     ELSE UNCHANGED wall
  /\ late' = (late \/ h.leg # leg \/ agent = "none")
  /\ UNCHANGED <<control, runner, agent, unread, board, grounds, pushed, spent>>

-----------------------------------------------------------------------------
(* The board: the poller of a login, the buttons, the order, the reaper.   *)

PollReads(l) ==
  /\ isActive /\ sess.login = l /\ l \notin reading /\ Spend
  /\ reading' = reading \cup {l}
  /\ UNCHANGED <<sess, control, runner, child, wall, editing, listed, grounds, late, pushed>>

\* (mutant) Onto one that ended.
PollPushes_Ended(l, isOut) ==
  /\ l \in reading /\ reading' = reading \ {l}
  /\ isOut => l \notin Claude
  /\ wall' = [wall EXCEPT ![l] = IF isOut THEN "login" ELSE @]
  /\ IF sess.login = l
     THEN sess' = [sess EXCEPT !.limits = l, !.limit = @ \/ isOut, !.status = IF isOut THEN "limit" ELSE @]
     ELSE UNCHANGED sess
  /\ UNCHANGED <<control, runner, child, editing, listed, history>>

\* pushToSession: inside the record's lock, only onto the terminal of this login. Codex can
\* answer that the login is out.
PollPushes(l, isOut) ==
  /\ l \in reading /\ reading' = reading \ {l}
  /\ isOut => l \notin Claude
  /\ wall' = [wall EXCEPT ![l] = IF isOut THEN "login" ELSE @]
  /\ IF sess.login = l /\ isActive
     THEN /\ sess' = [sess EXCEPT !.limits = l, !.limit = @ \/ isOut,
                                  !.status = IF isOut THEN "limit" ELSE @]
          /\ grounds' = (grounds \/ isOut)
          /\ pushed' = (pushed \/ (isOut /\ sess.status = "handing_off"))
     ELSE UNCHANGED <<sess, grounds, pushed>>
  /\ UNCHANGED <<control, runner, child, editing, listed, late, spent>>

\* (mutant) A request replaces the other.
Request_Replaces(what) ==
  /\ isActive /\ Spend /\ control' = {what}
  /\ UNCHANGED <<sess, runner, child, wall, board, grounds, late, pushed>>

\* requestControl merges: a request does not replace another.
Request(what) ==
  /\ isActive /\ Spend /\ control' = control \cup {what}
  /\ UNCHANGED <<sess, runner, child, wall, board, grounds, late, pushed>>

\* A new order is looked at before the body is read, and again under the lock.
EditOrder ==
  /\ sess.status \in EditableStatuses /\ editing = 0 /\ Spend
  /\ editing' = sess.order + 1
  /\ UNCHANGED <<sess, control, runner, child, wall, reading, listed, grounds, late, pushed>>
SaveOrder ==
  /\ editing # 0 /\ editing' = 0
  /\ sess' = [sess EXCEPT !.order = IF sess.status \in EditableStatuses THEN editing ELSE @]
  /\ UNCHANGED <<control, runner, child, wall, reading, listed, history>>

\* reapLost: the list was read, then each process is looked for, then the record is patched.
List ==
  /\ isActive /\ ~listed /\ listed' = TRUE /\ Spend
  /\ UNCHANGED <<sess, control, runner, child, wall, reading, editing, grounds, late, pushed>>
Reap ==
  /\ listed /\ listed' = FALSE
  /\ sess' = [sess EXCEPT !.status = IF Alive THEN @ ELSE "lost"]
  /\ UNCHANGED <<control, runner, child, wall, reading, editing, history>>

WallEnds(l) ==
  /\ wall[l] # "open" /\ wall' = [wall EXCEPT ![l] = "open"]
  /\ UNCHANGED <<sess, control, runner, child, board, history>>

Next ==
  \/ Runner \/ Die
  \/ AgentWalls \/ AgentRests \/ AgentResumes \/ AgentExits
  \/ \E kind \in {"turn", "ask", "line"}, warn \in BOOLEAN : (warn => kind = "line") /\ AgentReports(kind, warn)
  \/ \E h \in hooks : HookWrites(h)
  \/ \E l \in Logins : PollReads(l) \/ WallEnds(l) \/ \E isOut \in BOOLEAN : PollPushes(l, isOut)
  \/ \E what \in {"end", "handoff"} : Request(what)
  \/ EditOrder \/ SaveOrder \/ List \/ Reap

Spec == Init /\ [][Next]_vars

\* A runner's timers and a hook process run on, clocks of walls run out. What an agent or a human
\* does, and the board, may not happen.
FairSpec ==
  /\ Spec /\ WF_vars(Runner)
  /\ WF_vars(\E h \in hooks : HookWrites(h))
  /\ \A l \in Logins : WF_vars(WallEnds(l))

-----------------------------------------------------------------------------
(* Properties.                                                             *)

TypeOK ==
  /\ sess.status \in ActiveStatuses \cup {"ended", "lost"} /\ sess.login \in Logins
  /\ sess.limits \in Logins \cup {"none"} /\ sess.waiting \in {"none", "ask", "resume", "reset"}
  /\ leg \in 0..MaxLegs /\ login \in Logins
  /\ control \subseteq {"end", "handoff"} /\ first \in Logins \cup {"none"}
  /\ agent # "none" => pc \in {"idle", "read", "take"}

\* The percentages on a card are those of the login the terminal runs on: a reading that was
\* under way during a hand-off never follows onto the next agent's card (usage-poll.mjs:157-161),
\* unless a hook of an agent that was killed writes late.
PercentagesFollowLogin == late \/ sess.limits \in {"none", sess.login}

\* An agent is stopped at a limit only if it, or its login's endpoint, said so in that leg: a leg
\* starts without the limit of the one before (attach.mjs:576).
LimitIsOwn == reason = "limit" => late \/ grounds

\* A card shows, and is stopped by, what is true of the agent that runs.
CardIsOwn == PercentagesFollowLogin /\ LimitIsOwn

\* The invariant behind it.  While an agent runs the record names its login, what its hooks report
\* is of that login, and what says it is at a limit has grounds in its leg.
Pcs == {"spawn", "idle", "read", "take", "save", "claim", "wait", "harness", "go", "finish", "clear",
        "gone", "dead"}
Hooks == [kind : {"turn", "ask", "line", "resume", "failure"}, warn : BOOLEAN, leg : Nat, login : Logins]
LegTypeOK ==
  /\ sess \in [status : ActiveStatuses \cup {"ended", "lost"}, login : Logins, limit : BOOLEAN,
               limits : Logins \cup {"none"}, waiting : {"none", "ask", "resume", "reset"}, order : Nat]
  /\ pc \in Pcs /\ leg \in Nat /\ login \in Logins /\ hooks \subseteq Hooks /\ editing \in Nat
  /\ pc \in {"harness", "go"} => first \in Logins
  /\ {unread, grounds, late} \subseteq BOOLEAN
Grounded(r) == r.limit \/ r.status = "limit" => late \/ grounds
Over == {"finish", "clear", "gone", "dead"}
LegInv ==
  /\ LegTypeOK /\ CardIsOwn
  /\ agent # "none" => pc \in {"idle", "read", "take"} /\ sess.login = login
  /\ \A h \in hooks : /\ h.leg <= leg
                      /\ h.leg = leg /\ agent # "none" => h.login = login
                      /\ h.leg = leg /\ h.kind = "failure" => grounds
  /\ (unread => grounds) /\ Grounded(sess) /\ Grounded(seen)
  /\ pc \notin {"read", "take", "dead"} => seen = Nothing
  /\ sess.status \in {"ended", "lost"} => late \/ pc \in Over

\* A terminal that ended stays ended (or is called lost by a board that listed it before), also
\* when the poller was reading for it: usage-poll.mjs:157-161.
FinalStays ==
  [][sess.status \in {"ended", "lost"} => late' \/ sess'.status \in {"ended", "lost"}]_vars

\* End is obeyed wherever the runner stands, a hand-off, a wait or a start included, and whatever
\* else is asked (sessions.mjs:145-162, attach.mjs:781-792).
EndIsObeyed == ("end" \in control /\ Alive) ~> ~Alive

\* An agent that stops at its limit does not keep the terminal: it is handed off, unless it waits
\* for the reset itself. No warning of a tick that read the record before the limit was written
\* hides it (attach.mjs:793-795).
LimitHandsOff == agent = "walled" ~> (agent # "walled" \/ late \/ sess.waiting = "resume")

\* What a terminal is told to do, by its user or by a limit, it comes to do.
TerminalAnswers == EndIsObeyed /\ LimitHandsOff

\* Not so in the code. Claude Code waits at the limit itself, the terminal has stood down, and
\* Claude Code goes on: it is not killed for the limit it waited for (attach.mjs:796-803).
ResumedAgentLives ==
  [][reason # "limit" /\ reason' = "limit" /\ stoodDown /\ ~late => agent # "works"]_vars
\* Not so in the code. Whichever writer acquires the lock first wins: an order save is consumed,
\* or refused (attach.mjs:850-854).
SavedOrderIsConsumed == pc \in {"harness", "go", "spawn"} /\ leg > 0 => late \/ chosen = sess.order
=============================================================================
