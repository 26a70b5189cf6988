---------------------------- MODULE TerminalLand ----------------------------
(***************************************************************************)
(* The Land button of a terminal (src/land.mjs): the board commits what    *)
(* the agent left in the terminal's worktree, checks the guards, takes the *)
(* target branch's lock, builds the branch rebased onto its base in a      *)
(* scratch worktree, runs the tests, moves the base, and resets the        *)
(* terminal's branch to what landed.  Beside it: the dry run (prepare),    *)
(* the fixes the board offers, the queue, and the removal of a terminal.   *)
(*                                                                         *)
(* All of it runs on the board's one event loop, which waits only for the  *)
(* tests; agents, humans and card landings use git between any two of its  *)
(* steps.  One repository, one base branch.  A commit is the sequence of   *)
(* changes that led to it; <<s, n>> is the n-th change of terminal s.      *)
(***************************************************************************)
EXTENDS Naturals, FiniteSets, SequencesExt

CONSTANTS
  Sessions,     \* the terminals that have a worktree of their own
  NoTests,      \* no test command is found
  MaxWork,      \* changes an agent makes
  Budget,       \* how often each thing outside happens, and each button but Land,
  MaxOutside    \* and how many of them in all

Outside == {"commit", "checkout", "edit", "restart", "land", "prepare", "fix"}
NamesAssumption == {"none", "dead", "root"} \cap Sessions = {}
BudgetAssumption ==
  NoTests \in BOOLEAN /\ MaxWork \in Nat /\ Budget \in [Outside -> Nat] /\ MaxOutside \in Nat

VARIABLES
  trunk,     \* the commit the base branch points at
  side,      \* the commit of another branch a human may check out in the root
  root,      \* the branch checked out in the root: "trunk" or "side"
  edited,    \* another live terminal has uncommitted changes there
  tip,       \* the commit each terminal's branch points at
  made,      \* how many changes each agent has made
  dirty,     \* the terminals whose last change is not committed yet
  stash,     \* what was stashed
  running,   \* the terminals whose agent works
  there,     \* the terminals that were not removed
  lock,      \* the target branch's lock file: "none", its session, "dead"
  land,      \* where landSession stands for each terminal
  prep,      \* how many dry runs of it await their tests
  note,      \* the state of the landing on disk
  queue,     \* landingQueue
  drain,     \* drainLandingQueue is about to run
  tested,    \* the commits the tests were green on
  landed,    \* every commit the base branch ever pointed at
  late,      \* what was committed between a scratch worktree and the reset after it
  shared,    \* a dry run of a terminal was under way when another, or a landing, began
  spent      \* how much of Budget was used

git == <<trunk, side, root, edited, tip, made, dirty, stash>>
board == <<lock, land, prep, note, queue, drain>>
seen == <<tested, landed, late, shared>>
vars == <<git, running, there, board, seen, spent>>

NotLanding == [pc |-> "idle", head |-> <<>>, onTrunk |-> FALSE, moved |-> FALSE]

Init ==
  /\ trunk = <<>> /\ side = <<>> /\ root = "trunk" /\ edited = FALSE
  /\ tip = [s \in Sessions |-> <<>>] /\ made = [s \in Sessions |-> 0] /\ dirty = {} /\ stash = {}
  /\ running = Sessions /\ there = Sessions
  /\ lock = "none" /\ land = [s \in Sessions |-> NotLanding]
  /\ prep = [s \in Sessions |-> 0] /\ note = [s \in Sessions |-> "none"]
  /\ queue = <<>> /\ drain = FALSE
  /\ tested = {} /\ landed = {<<>>} /\ late = {} /\ shared = FALSE
  /\ spent = [k \in Outside |-> 0]

Spend(k) ==
  /\ spent[k] < Budget[k] /\ SumFunction(spent) < MaxOutside
  /\ spent' = [spent EXCEPT ![k] = @ + 1]

-----------------------------------------------------------------------------
(* Git.                                                                    *)

Ahead(s) == ~IsPrefix(tip[s], trunk)                 \* rev-list base..branch
Work(s) == <<s, made[s]>>                            \* what is not committed yet
Fork(s) == Cardinality({i \in DOMAIN tip[s] : IsPrefix(SubSeq(tip[s], 1, i), trunk)})
Picks(s) == SubSeq(tip[s], Fork(s) + 1, Len(tip[s])) \* cherry-pick base..branch
\* A commit whose change the base has already is an empty cherry-pick, which fails.
Picked(s) == \A i \in DOMAIN Picks(s) : ~Contains(trunk, Picks(s)[i])
Rebased(s) == IF IsPrefix(trunk, tip[s]) THEN tip[s] ELSE trunk \o Picks(s)
\* git rebase drops what the base has.
Lacking(s) == {i \in Fork(s) + 1 .. Len(tip[s]) : ~Contains(trunk, tip[s][i])}
Replayed(s) ==
  [n \in 1 .. Cardinality(Lacking(s)) |->
     tip[s][CHOOSE i \in Lacking(s) : Cardinality(Lacking(s) \cap 1 .. i) = n]]

MoveTrunk(c) == trunk' = c /\ landed' = landed \cup {c}
CommitIn(s) == tip' = [tip EXCEPT ![s] = Append(@, Work(s))] /\ dirty' = dirty \ {s}
Commit(s) == IF s \in dirty THEN CommitIn(s) ELSE UNCHANGED <<tip, dirty>>
\* The base moved under the other landings.
Moved(s) == [t \in Sessions |-> IF t = s THEN land[t] ELSE [land[t] EXCEPT !.moved = TRUE]]

-----------------------------------------------------------------------------
(* The guards.                                                             *)

InFlight(s) == land[s].pc # "idle"
\* The event loop: one landing runs up to its tests before anything else does.
Loop == ~drain /\ \A s \in Sessions : land[s].pc \in {"idle", "test", "stuck"}
\* (mutant) The target lock is not asked.
LockedFor_No(s) == FALSE
\* checkTargetLock, by the board itself: a dead holder's lock is removed.
LockedFor(s) == lock \notin {"none", "dead", s}
TargetActive == edited /\ root = "trunk"

\* canLand, without the guards the Land button ignores.
Landable(s) == s \in there /\ s \notin dirty /\ Ahead(s) /\ ~LockedFor(s)
CanLand(s) == Landable(s) /\ s \notin running /\ ~InFlight(s) /\ ~TargetActive

-----------------------------------------------------------------------------
(* landSession.                                                            *)

At(s, pc) == land[s].pc = pc
Go(s, pc) == land' = [land EXCEPT ![s].pc = pc]
Note(s, n) == note' = [note EXCEPT ![s] = n]

\* In flight, `landing' on disk, and the work left in the worktree committed.  When
\* git refuses that (an index.lock, a hook), it throws before the try: only logged,
\* and the terminal stays as it is until the board restarts.
Enter(s) ==
  /\ Note(s, "landing")
  /\ \/ land' = [land EXCEPT ![s] = [NotLanding EXCEPT !.pc = "check"]] /\ Commit(s)
     \/ land' = [land EXCEPT ![s] = [NotLanding EXCEPT !.pc = "stuck"]] /\ UNCHANGED <<tip, dirty>>

Press(s) ==
  /\ Loop /\ s \in there /\ ~InFlight(s)
  /\ Spend("land")
  /\ Enter(s)
  /\ shared' = (shared \/ prep[s] > 0)
  /\ UNCHANGED <<trunk, side, root, edited, made, stash, running, there, lock, prep, queue, drain,
                 tested, landed, late>>

\* Blocked, or merge-tree conflicts: bounced before the lock, and nothing is drained.
Check(s) ==
  /\ At(s, "check")
  /\ \/ Landable(s) /\ lock' = s /\ Go(s, "scratch") /\ UNCHANGED note
     \/ /\ ~Landable(s) \/ ~IsPrefix(trunk, tip[s])
        /\ Note(s, "bounced") /\ Go(s, "idle")
        /\ lock' = IF lock = "dead" THEN "none" ELSE lock
  /\ UNCHANGED <<git, running, there, prep, queue, drain, seen, spent>>

\* The scratch worktree: the branch if it is ahead of its base, else picked onto it.
Scratch(s) ==
  /\ At(s, "scratch")
  /\ land' = [land EXCEPT ![s].head = Rebased(s), ![s].moved = FALSE,
                          ![s].pc = IF Picked(s) THEN IF NoTests THEN "root" ELSE "test" ELSE "fail"]
  /\ UNCHANGED <<git, running, there, lock, prep, note, queue, drain, seen, spent>>

\* The tests run in the terminal's worktree, on what is there.
TestsDone(s) ==
  /\ At(s, "test") /\ Loop
  /\ \/ /\ Go(s, "root")
        /\ tested' = IF s \in dirty THEN tested ELSE tested \cup {tip[s]}
     \/ Go(s, "fail") /\ UNCHANGED tested
  /\ UNCHANGED <<git, running, there, lock, prep, note, queue, drain, landed, late, shared, spent>>

ReadRoot(s) ==
  /\ At(s, "root")
  /\ land' = [land EXCEPT ![s].onTrunk = (root = "trunk"), ![s].pc = "move"]
  /\ UNCHANGED <<git, running, there, lock, prep, note, queue, drain, seen, spent>>

\* (mutant) git merge --ff-only as a reset.
Merge_Hard(s) ==
  /\ At(s, "move") /\ land[s].onTrunk /\ MoveTrunk(land[s].head)
  /\ land' = [Moved(s) EXCEPT ![s].pc = "reset"]
  /\ UNCHANGED <<side, root, edited, tip, made, dirty, stash, running, there, lock, prep, note, queue,
                 drain, tested, late, shared, spent>>

\* git merge --ff-only in the root, into whatever is checked out there by now.
Merge(s) ==
  /\ At(s, "move") /\ land[s].onTrunk
  /\ \/ /\ root = "trunk" /\ IsPrefix(trunk, land[s].head)
        /\ MoveTrunk(land[s].head) /\ UNCHANGED side
        /\ land' = [Moved(s) EXCEPT ![s].pc = "reset"]
     \/ /\ root = "side" /\ IsPrefix(side, land[s].head)
        /\ side' = land[s].head /\ Go(s, "reset") /\ UNCHANGED <<trunk, landed>>
     \/ /\ edited \/ ~IsPrefix(IF root = "trunk" THEN trunk ELSE side, land[s].head)
        /\ Go(s, "fail") /\ UNCHANGED <<trunk, side, landed>>
  /\ UNCHANGED <<root, edited, tip, made, dirty, stash, running, there, lock, prep, note, queue, drain,
                 tested, late, shared, spent>>

\* git update-ref, which does not ask where the base points by now.
UpdateRef(s) ==
  /\ At(s, "move") /\ ~land[s].onTrunk
  /\ MoveTrunk(land[s].head)
  /\ land' = [Moved(s) EXCEPT ![s].pc = "reset"]
  /\ UNCHANGED <<side, root, edited, tip, made, dirty, stash, running, there, lock, prep, note, queue,
                 drain, tested, late, shared, spent>>

\* git checkout -B of the terminal's branch; it may refuse a dirty worktree, and
\* nobody asks.
Reset(s) ==
  /\ At(s, "reset")
  /\ \/ tip' = [tip EXCEPT ![s] = land[s].head]
     \/ s \in dirty /\ UNCHANGED tip
  /\ Note(s, "landed") /\ Go(s, "end")
  /\ UNCHANGED <<trunk, side, root, edited, made, dirty, stash, running, there, lock, prep, queue, drain,
                 seen, spent>>

\* Git refuses inside the try: no scratch worktree, no status of the root, no update-ref.
GitFails(s) ==
  /\ land[s].pc \in {"scratch", "root", "move"} /\ Go(s, "fail")
  /\ UNCHANGED <<git, running, there, lock, prep, note, queue, drain, seen, spent>>

\* (mutant) A failure is not noted.
Fail_Silent(s) ==
  /\ At(s, "fail") /\ Go(s, "end")
  /\ UNCHANGED <<git, running, there, lock, prep, note, queue, drain, seen, spent>>

Fail(s) ==
  /\ At(s, "fail")
  /\ Note(s, "bounced") /\ Go(s, "end")
  /\ UNCHANGED <<git, running, there, lock, prep, queue, drain, seen, spent>>

\* finally: the lock goes if it is this landing's, or this process's.
Unlock == lock' = IF lock = "dead" THEN "dead" ELSE "none"
End(s) ==
  /\ At(s, "end")
  /\ Unlock /\ Go(s, "idle") /\ drain' = TRUE
  /\ UNCHANGED <<git, running, there, prep, note, queue, seen, spent>>

\* drainLandingQueue: the first terminal in it that was not removed, if it can land.
NextThere == SelectInSeq(queue, LAMBDA s : s \in there)
Drain ==
  /\ drain /\ drain' = FALSE
  /\ \/ NextThere = 0 /\ queue' = <<>> /\ UNCHANGED <<tip, dirty, land, note, shared>>
     \/ \E s \in Sessions :
          /\ NextThere # 0 /\ s = queue[NextThere]
          /\ IF CanLand(s)
             THEN /\ queue' = SubSeq(queue, NextThere + 1, Len(queue))
                  /\ Enter(s) /\ shared' = (shared \/ prep[s] > 0)
             ELSE /\ queue' = SubSeq(queue, NextThere, Len(queue))
                  /\ UNCHANGED <<tip, dirty, land, note, shared>>
  /\ UNCHANGED <<trunk, side, root, edited, made, stash, running, there, lock, prep, tested, landed,
                 late, spent>>

-----------------------------------------------------------------------------
(* The other buttons.                                                      *)

\* prepareLanding: the same guards, lock and scratch worktree, then the tests there.
\* Without tests, or when the cherry-pick stops, it gives the lock back at once.
Prepare(s) ==
  /\ Loop /\ CanLand(s)
  /\ Spend("prepare")
  /\ IF Picked(s) /\ ~NoTests
     THEN lock' = s /\ prep' = [prep EXCEPT ![s] = @ + 1]
     ELSE lock' = "none" /\ UNCHANGED prep
  /\ shared' = (shared \/ prep[s] > 0)
  /\ UNCHANGED <<git, running, there, land, note, queue, drain, tested, landed, late>>

Prepared(s) ==
  /\ Loop /\ prep[s] > 0
  /\ prep' = [prep EXCEPT ![s] = @ - 1]
  /\ Unlock
  /\ UNCHANGED <<git, running, there, land, note, queue, drain, seen, spent>>

\* Between the scratch worktree and the reset, what is committed is not landed.
Late(s) == late' = IF land[s].pc \in {"test", "root", "move", "reset"} THEN late \cup {Work(s)} ELSE late

\* applyLandFix: commit, stash, rebase_now (of a clean worktree), queue_landing.
Fix(s) == Loop /\ s \in there /\ Spend("fix")
FixCommit(s) ==
  /\ Fix(s) /\ s \in dirty /\ CommitIn(s) /\ Late(s)
  /\ UNCHANGED <<trunk, side, root, edited, made, stash, running, there, board, tested, landed, shared>>
FixStash(s) ==
  /\ Fix(s) /\ s \in dirty /\ dirty' = dirty \ {s} /\ stash' = stash \cup {Work(s)}
  /\ UNCHANGED <<trunk, side, root, edited, tip, made, running, there, board, seen>>
FixRebase(s) ==
  /\ Fix(s) /\ s \notin dirty
  /\ tip' = [tip EXCEPT ![s] = trunk \o Replayed(s)]
  /\ UNCHANGED <<trunk, side, root, edited, made, dirty, stash, running, there, board, seen>>
FixQueue(s) ==
  /\ Fix(s) /\ ~Contains(queue, s)
  /\ queue' = Append(queue, s)
  /\ UNCHANGED <<git, running, there, lock, land, prep, note, drain, seen>>

\* (mutant) The branch goes with the terminal, whatever is on it.
RemoveTerminal_Whole(s) ==
  /\ Loop /\ s \in there \ running /\ ~InFlight(s)
  /\ there' = there \ {s} /\ tip' = [tip EXCEPT ![s] = <<>>]
  /\ UNCHANGED <<trunk, side, root, edited, made, dirty, stash, running, board, seen, spent>>

\* DELETE of a stopped terminal: its worktree and branch go if they are clean and
\* all of it is on the base; forced, they stay behind.
RemoveTerminal(s) ==
  /\ Loop /\ s \in there \ running /\ ~InFlight(s)
  /\ there' = there \ {s}
  /\ \/ /\ s \notin dirty /\ \A i \in DOMAIN tip[s] : Contains(trunk, tip[s][i])
        /\ tip' = [tip EXCEPT ![s] = <<>>]
     \/ UNCHANGED tip
  /\ UNCHANGED <<trunk, side, root, edited, made, dirty, stash, running, board, seen, spent>>

-----------------------------------------------------------------------------
(* Agents, humans and card landings; the board is stopped and started.     *)

AgentEdits(s) ==
  /\ s \in running \ dirty /\ made[s] < MaxWork
  /\ made' = [made EXCEPT ![s] = @ + 1] /\ dirty' = dirty \cup {s}
  /\ UNCHANGED <<trunk, side, root, edited, tip, stash, running, there, board, seen, spent>>
AgentCommits(s) ==
  /\ s \in running \cap dirty /\ CommitIn(s) /\ Late(s)
  /\ UNCHANGED <<trunk, side, root, edited, made, stash, running, there, board, tested, landed, shared, spent>>
AgentStops(s) ==
  /\ running' = running \ {s} /\ s \in running
  /\ UNCHANGED <<git, there, board, seen, spent>>

OutsideCommit ==
  /\ Spend("commit")
  /\ MoveTrunk(Append(trunk, <<"root", spent["commit"]>>)) /\ land' = Moved("none")
  /\ UNCHANGED <<side, root, edited, tip, made, dirty, stash, running, there, lock, prep, note, queue,
                 drain, tested, late, shared>>
Checkout ==
  /\ Spend("checkout")
  /\ root' = IF root = "trunk" THEN "side" ELSE "trunk"
  /\ UNCHANGED <<trunk, side, edited, tip, made, dirty, stash, running, there, board, seen>>
Edit ==
  /\ Spend("edit")
  /\ edited' = ~edited
  /\ UNCHANGED <<trunk, side, root, tip, made, dirty, stash, running, there, board, seen>>

\* What the process knew is gone; the records and the lock file stay.
Restart ==
  /\ Spend("restart")
  /\ land' = [s \in Sessions |-> NotLanding] /\ prep' = [s \in Sessions |-> 0]
  /\ queue' = <<>> /\ drain' = FALSE
  /\ lock' = IF lock = "none" THEN "none" ELSE "dead"
  /\ UNCHANGED <<git, running, there, note, seen>>

Landing(s) ==
  Check(s) \/ Scratch(s) \/ TestsDone(s) \/ ReadRoot(s) \/ Merge(s) \/ UpdateRef(s) \/ Reset(s)
  \/ GitFails(s) \/ Fail(s) \/ End(s)
Button(s) ==
  Press(s) \/ Prepare(s) \/ FixCommit(s) \/ FixStash(s) \/ FixRebase(s) \/ FixQueue(s) \/ RemoveTerminal(s)
Agent(s) == AgentEdits(s) \/ AgentCommits(s) \/ AgentStops(s)

Next ==
  \/ \E s \in Sessions : Landing(s) \/ Prepared(s) \/ Button(s) \/ Agent(s)
  \/ Drain \/ OutsideCommit \/ Checkout \/ Edit \/ Restart

Spec == Init /\ [][Next]_vars

\* The event loop goes on; the tests end, or are killed after their timeout.
Fairness == WF_vars(Drain) /\ \A s \in Sessions : WF_vars(Landing(s)) /\ WF_vars(Prepared(s))
FairSpec == Spec /\ Fairness

-----------------------------------------------------------------------------
(* Properties.                                                             *)

Changes == (Sessions \X (1..MaxWork)) \cup ({"root"} \X Nat)
CommitSet == Seq(Changes)
Pcs == {"idle", "check", "stuck", "scratch", "test", "root", "move", "reset", "fail", "end"}
\* (the part the landing's refs and lock need)
LandTypeOK ==
  /\ trunk \in CommitSet /\ trunk \in landed /\ tip \in [Sessions -> CommitSet]
  /\ made \in [Sessions -> 0..MaxWork] /\ dirty \subseteq {s \in Sessions : made[s] > 0}
  /\ lock \in Sessions \cup {"none", "dead"} /\ prep \in [Sessions -> Nat]
  /\ land \in [Sessions -> [pc : Pcs, head : CommitSet, onTrunk : BOOLEAN, moved : BOOLEAN]]
  /\ shared \in BOOLEAN /\ spent \in [Outside -> Nat]
TypeOK ==
  /\ LandTypeOK
  /\ side \in CommitSet /\ root \in {"trunk", "side"} /\ edited \in BOOLEAN /\ stash \subseteq Changes
  /\ running \subseteq Sessions /\ there \subseteq Sessions
  /\ note \in [Sessions -> {"none", "landing", "landed", "bounced"}]
  /\ queue \in Seq(Sessions) /\ drain \in BOOLEAN
  /\ tested \subseteq CommitSet /\ landed \subseteq CommitSet /\ late \subseteq Changes

HasLock(s) == land[s].pc \in {"scratch", "test", "root", "move", "reset", "fail", "end"}

\* Of all landings only one is between taking and giving back the target lock,
\* unless a dry run of the same terminal was under way: their ends give back each
\* other's lock.
OneLanding ==
  shared \/ \A s, t \in Sessions : HasLock(s) /\ HasLock(t) => s = t

\* The base only loses a commit to an update-ref (the root being on another branch)
\* of a landing under which the base had moved.
TrunkKeeps ==
  [][IsPrefix(trunk, trunk') \/ \E s \in Sessions : UpdateRef(s) /\ land[s].moved]_vars

\* Whatever was committed for a terminal is on its branch, or reached the base, or was
\* committed while its landing ran the tests: no other commit ever leaves a branch.
WorkIsKept ==
  \A s \in Sessions, n \in 1..MaxWork :
    \/ <<s, n>> \in late \cup stash
    \/ Contains(tip[s], <<s, n>>)
    \/ \E c \in landed : Contains(c, <<s, n>>)
    \/ n > made[s] \/ (n = made[s] /\ s \in dirty)

\* Landings exclude each other and lose nothing that was committed.
LandingsAreSafe == OneLanding /\ WorkIsKept

\* The invariant behind it.  Who landed or tries to holds the lock file, which nobody else gives
\* back; what a scratch worktree was built from goes into it, or is on the base, or came late; and
\* while the base has not moved the scratch worktree is ahead of it.
LockInv ==
  shared \/ \A s \in Sessions : /\ HasLock(s) => lock = s
                                /\ prep[s] > 0 => lock = s /\ ~InFlight(s) /\ prep[s] = 1
Safe(s, n) == <<s, n>> \in late \/ \E c \in landed : Contains(c, <<s, n>>)
HeadInv(s) ==
  /\ land[s].pc \in {"test", "root", "move", "reset"} =>
       \A n \in 1..MaxWork :
         Contains(tip[s], <<s, n>>) => Safe(s, n) \/ Contains(land[s].head, <<s, n>>)
  /\ land[s].pc \in {"test", "root", "move"} /\ ~land[s].moved => IsPrefix(trunk, land[s].head)
LandInv == LandTypeOK /\ LockInv /\ (\A s \in Sessions : HeadInv(s)) /\ WorkIsKept

\* A Land that was accepted is answered on disk, unless the board is restarted or git
\* refused the commit it begins with: such a terminal says `landing' for ever.
LandingIsAnswered ==
  \A s \in Sessions :
    note[s] = "landing" ~> note[s] # "landing" \/ spent["restart"] > 0 \/ At(s, "stuck")

\* "rebases it onto its base, runs the tests" (docs/board-guide.md:428): what the base
\* is moved to was green.
LandedWasTested ==
  \A s \in Sessions : At(s, "reset") => NoTests \/ land[s].head \in tested

\* "fast-forwards the base or bounces" (docs/board-guide.md:428).
TrunkFastForwards == [][IsPrefix(trunk, trunk')]_vars

\* "Two worktrees landing onto main at once serialize" (test/guarded-landing.test.mjs:90).
LandsSerialize == \A s, t \in Sessions : HasLock(s) /\ HasLock(t) => s = t
=============================================================================
