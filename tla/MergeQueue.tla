----------------------------- MODULE MergeQueue -----------------------------
(***************************************************************************)
(* The land station (src/mergequeue.mjs): landings of several processes    *)
(* into one repository.  Each process keeps its landings in a chain of     *)
(* promises; across processes a claim file is the turn, and a short file   *)
(* lock guards the read and the write of that file.  Every git command is  *)
(* a step, and other processes and humans act between any two.             *)
(*                                                                         *)
(* A commit is the sequence of changes that led to it; a change is a pair, *)
(* who made it and a number.  <<l, 0>> is the work of landing l.           *)
(***************************************************************************)
EXTENDS Naturals, FiniteSets, SequencesExt

CONSTANTS
  Landings,    \* the cards at the land station (names)
  Procs,       \* the processes: the board, a `leg card run`, ...
  ProcsOf,     \* which of them may land which card
  NoTests,     \* the cards of which no test command is found
  Budget,      \* how often each thing outside Leg's control happens,
  MaxOutside   \* and how many of them in all

Outside == {"commit", "extra", "checkout", "death", "stall", "again"}
ASSUME NamesAssumption ==
  {"none", "dead", "root"} \cap Landings = {} /\ "none" \notin Procs
ASSUME ProcsOfAssumption == ProcsOf \in [Landings -> SUBSET Procs]
ASSUME NoTestsAssumption == NoTests \subseteq Landings
ASSUME BudgetAssumption == Budget \in [Outside -> Nat] /\ MaxOutside \in Nat

VARIABLES
  trunk,    \* the commit the trunk branch points at
  side,     \* the commit of another branch a human may check out in the root
  root,     \* the branch checked out in the root: "trunk" or "side"
  tip,      \* the commit each card's branch points at
  tested,   \* the commits the test command was green on
  claim,    \* the claim file: "none", its holder, or "dead"
  stale,    \* the claim is older than LOCK_STALE_MS
  guard,    \* the lock file beside the claim file: "none", its holder, "dead"
  queue,    \* the promise chain of each process
  land,     \* where landNow, or the turn around it, stands for each card
  answer,   \* what `land` resolved to
  spent     \* how much of Budget was used

git == <<trunk, side, root, tip>>
turn == <<claim, stale, guard>>
vars == <<git, tested, turn, queue, land, answer, spent>>

Work(l) == <<l, 0>>
NoLanding ==
  [pc |-> "idle", proc |-> "none", locked |-> FALSE, before |-> <<>>, under |-> <<>>,
   retried |-> FALSE, verdict |-> "none"]

Init ==
  /\ trunk = <<>> /\ side = <<>> /\ root = "trunk"
  /\ tip = [l \in Landings |-> <<Work(l)>>]
  /\ tested = {}
  /\ claim = "none" /\ stale = FALSE /\ guard = "none"
  /\ queue = [p \in Procs |-> <<>>]
  /\ land = [l \in Landings |-> NoLanding]
  /\ answer = [l \in Landings |-> "none"]
  /\ spent = [k \in Outside |-> 0]

RootHead == IF root = "trunk" THEN trunk ELSE side
At(l, pc) == land[l].pc = pc
Goto(l, pc) == land' = [land EXCEPT ![l].pc = pc]
Ends(l, v) ==
  land' = [land EXCEPT ![l] = [NoLanding EXCEPT !.pc = "drop", !.proc = land[l].proc, !.verdict = v]]
Bounce(l) == Ends(l, "bounced")
Spend(k) ==
  /\ spent[k] < Budget[k] /\ SumFunction(spent) < MaxOutside
  /\ spent' = [spent EXCEPT ![k] = @ + 1]

-----------------------------------------------------------------------------
(* The turn.                                                               *)

\* land(): the landing joins its process's chain.  A card comes here for the
\* first time, or again: after its process died, a bounce, or an exception.
Request(l) ==
  /\ At(l, "idle")
  /\ \/ answer[l] = "none" /\ UNCHANGED spent
     \/ answer[l] \in {"bounced", "threw"} /\ Spend("again")
  /\ \E p \in ProcsOf[l] :
       /\ queue' = [queue EXCEPT ![p] = Append(@, l)]
       /\ land' = [land EXCEPT ![l].pc = "queued", ![l].proc = p]
  /\ answer' = [answer EXCEPT ![l] = "none"]
  /\ UNCHANGED <<git, tested, turn>>

\* withFileLock around the claim file: taken when free.  One that stays, because
\* its holder died or stalls, is waited for for a second, after which the caller
\* goes on without it, or is stolen once it is older than staleMs.
Guarded(l) == IF At(l, "queued") THEN "read" ELSE "dropread"
TakeGuard(l) ==
  /\ \/ At(l, "queued") /\ Head(queue[land[l].proc]) = l
     \/ At(l, "drop")
  /\ IF guard \in Landings THEN Spend("stall") ELSE UNCHANGED spent
  /\ \E got \in BOOLEAN :
       /\ guard = "none" => got
       /\ guard' = IF got THEN l ELSE guard
       /\ land' = [land EXCEPT ![l].pc = Guarded(l), ![l].locked = got]
  /\ UNCHANGED <<git, tested, claim, stale, queue, answer>>

\* The lock file is unlinked by whoever once took it.
ReleaseGuard(l) == guard' = IF land[l].locked THEN "none" ELSE guard

\* takeTurn: a claim that is neither stale nor the caller's own refuses it.
Held == claim # "none" /\ ~ stale
ReadClaim(l) ==
  /\ At(l, "read")
  /\ IF Held THEN ReleaseGuard(l) /\ Goto(l, "queued")
             ELSE UNCHANGED guard /\ Goto(l, "claim")
  /\ UNCHANGED <<git, tested, claim, stale, queue, answer, spent>>
WriteClaim(l) ==
  /\ At(l, "claim")
  /\ claim' = l /\ stale' = FALSE
  /\ ReleaseGuard(l)
  /\ Goto(l, "check")
  /\ UNCHANGED <<git, tested, queue, answer, spent>>

\* dropTurn: unlinks the claim if it is the caller's, and `land` resolves.
\* (mutant) the promise stays the tail of the chain
Resolve_StaysQueued(l) ==
  /\ ReleaseGuard(l)
  /\ answer' = [answer EXCEPT ![l] = land[l].verdict]
  /\ land' = [land EXCEPT ![l] = NoLanding]
  /\ UNCHANGED queue
Resolve(l) ==
  /\ ReleaseGuard(l)
  /\ answer' = [answer EXCEPT ![l] = land[l].verdict]
  /\ queue' = [queue EXCEPT ![land[l].proc] = Tail(@)]
  /\ land' = [land EXCEPT ![l] = NoLanding]
DropRead(l) ==
  /\ At(l, "dropread")
  /\ IF claim \in {l, "none"}
     THEN Goto(l, "unlink") /\ UNCHANGED <<guard, answer, queue>>
     ELSE Resolve(l)
  /\ UNCHANGED <<git, tested, claim, stale, spent>>
\* (mutant) the claim is left behind
Unlink_Forgotten(l) ==
  /\ At(l, "unlink")
  /\ Resolve(l)
  /\ UNCHANGED <<git, tested, claim, stale, spent>>
Unlink(l) ==
  /\ At(l, "unlink")
  /\ claim' = "none" /\ stale' = FALSE
  /\ Resolve(l)
  /\ UNCHANGED <<git, tested, spent>>

-----------------------------------------------------------------------------
(* landNow.                                                                *)

\* Worktree on its branch, nothing in progress there, root on trunk and clean;
\* then the worktree's changes are committed.  A git command that fails throws.
Check(l) ==
  /\ At(l, "check")
  /\ \/ Bounce(l) \/ Ends(l, "threw")
     \/ root = "trunk" /\ Goto(l, "begin")
  /\ UNCHANGED <<git, tested, turn, queue, answer, spent>>
Begin(l) ==
  /\ At(l, "begin")
  /\ land' = [land EXCEPT ![l].pc = "rebase", ![l].before = RootHead]
  /\ UNCHANGED <<git, tested, turn, queue, answer, spent>>

\* git rebase: the commits of the branch that trunk does not have, put on top
\* of trunk.
Shared(l) == Cardinality({i \in DOMAIN tip[l] : IsPrefix(SubSeq(tip[l], 1, i), trunk)})
\* (mutant) the branch is replayed whole, commits trunk already has included
Own_Whole(l) == tip[l]
Own(l) == SubSeq(tip[l], Shared(l) + 1, Len(tip[l]))
Rebased(l) == trunk \o Own(l)
\* (mutant) the second rebase is not tested again
AfterRebase_Once(l) == IF l \in NoTests \/ land[l].retried THEN "merge" ELSE "test"
AfterRebase(l) == IF l \in NoTests THEN "merge" ELSE "test"
Rebase(l) ==
  /\ At(l, "rebase")
  /\ \/ Bounce(l) /\ UNCHANGED tip
     \/ /\ tip' = [tip EXCEPT ![l] = Rebased(l)]
        /\ land' = [land EXCEPT ![l].pc = AfterRebase(l), ![l].under = Rebased(l)]
  /\ UNCHANGED <<trunk, side, root, tested, turn, queue, answer, spent>>

TestDone(l, green) ==
  /\ At(l, "test")
  /\ IF green THEN tested' = tested \union {land[l].under} /\ Goto(l, "merge")
              ELSE Bounce(l) /\ UNCHANGED tested
  /\ UNCHANGED <<git, turn, queue, answer, spent>>

\* git merge --ff-only, in the root, of whatever the card's branch holds now,
\* into whatever branch is checked out there.  It may also be refused because
\* of local changes.  One retry, if the head moved.
FastForwards(l) == IsPrefix(RootHead, tip[l]) \/ IsPrefix(tip[l], RootHead)
\* (mutant) a refused merge counts as done
Merged_Refused(l) == RootHead
Merged(l) == IF IsPrefix(tip[l], RootHead) THEN RootHead ELSE tip[l]
Merge(l) ==
  /\ At(l, "merge")
  /\ \/ /\ FastForwards(l)
        /\ IF root = "trunk" THEN trunk' = Merged(l) /\ UNCHANGED side
                             ELSE side' = Merged(l) /\ UNCHANGED trunk
        /\ Ends(l, "landed")
     \/ /\ IF RootHead # land[l].before /\ ~ land[l].retried
           THEN land' = [land EXCEPT ![l].pc = "rebase", ![l].retried = TRUE]
           ELSE Bounce(l)
        /\ UNCHANGED <<trunk, side>>
  /\ UNCHANGED <<root, tip, tested, turn, queue, answer, spent>>

Step(l) ==
  \/ TakeGuard(l) \/ ReadClaim(l) \/ WriteClaim(l) \/ DropRead(l) \/ Unlink(l)
  \/ Check(l) \/ Begin(l) \/ Rebase(l) \/ Merge(l)
  \/ \E green \in BOOLEAN : TestDone(l, green)

-----------------------------------------------------------------------------
(* The world around.                                                       *)

\* LOCK_STALE_MS is one test budget and two minutes: a holder that died gets
\* that old, and so does one in its second test run.
Ages ==
  /\ ~ stale
  /\ \/ claim = "dead"
     \/ claim \in Landings /\ land[claim].retried /\ At(claim, "test")
  /\ stale' = TRUE
  /\ UNCHANGED <<git, tested, claim, guard, queue, land, answer, spent>>

\* Somebody commits in the root (a human, or a terminal that lands).
OutsideCommit ==
  /\ Spend("commit")
  /\ LET more == <<"root", spent["commit"] + 1>>
     IN  IF root = "trunk" THEN trunk' = Append(trunk, more) /\ UNCHANGED side
                           ELSE side' = Append(side, more) /\ UNCHANGED trunk
  /\ UNCHANGED <<root, tip, tested, turn, queue, land, answer>>

\* Somebody commits in the card's worktree: a human who took the card over
\* while it lands, or an agent that is still dying.
WorktreeCommit(l) ==
  /\ Spend("extra")
  /\ tip' = [tip EXCEPT ![l] = Append(@, <<l, spent["extra"] + 1>>)]
  /\ UNCHANGED <<trunk, side, root, tested, turn, queue, land, answer>>

\* A human checks out another branch in the root, cut from trunk the first
\* time, or trunk again.
Checkout ==
  /\ Spend("checkout")
  /\ root' = IF root = "trunk" THEN "side" ELSE "trunk"
  /\ side' = IF side = <<>> THEN trunk ELSE side
  /\ UNCHANGED <<trunk, tip, tested, turn, queue, land, answer>>

\* A process dies, whatever it was doing.
HeldBy(p) == {l \in Landings : land[l].proc = p}
ProcDies(p) ==
  /\ Spend("death")
  /\ queue' = [queue EXCEPT ![p] = <<>>]
  /\ land' = [l \in Landings |-> IF l \in HeldBy(p) THEN NoLanding ELSE land[l]]
  /\ claim' = IF claim \in HeldBy(p) THEN "dead" ELSE claim
  /\ guard' = IF guard \in HeldBy(p) THEN "dead" ELSE guard
  /\ UNCHANGED <<git, tested, stale, answer>>

World ==
  \/ Ages \/ OutsideCommit \/ Checkout
  \/ \E l \in Landings : WorktreeCommit(l)
  \/ \E p \in Procs : ProcDies(p)

Next == World \/ \E l \in Landings : Request(l) \/ Step(l)

\* Processes run, the test command ends or times out, and a claim gets old.  A
\* caller tries the guard sixty times and goes on without it in any case, so
\* others that hold it for a moment each do not keep it out for ever.
Fairness ==
  /\ WF_vars(Ages)
  /\ \A l \in Landings : WF_vars(Step(l)) /\ SF_vars(TakeGuard(l))

Spec == Init /\ [][Next]_vars
FairSpec == Spec /\ Fairness

-----------------------------------------------------------------------------
(* Properties.                                                             *)

Changes == (Landings \union {"root"}) \X Nat
Pcs == {"idle", "queued", "read", "claim", "check", "begin", "rebase", "test",
        "merge", "drop", "dropread", "unlink"}
Landing ==
  [pc : Pcs, proc : Procs \union {"none"}, locked : BOOLEAN, before : Seq(Changes), under : Seq(Changes),
   retried : BOOLEAN, verdict : {"none", "landed", "bounced", "threw"}]
GitTypeOK ==
  /\ trunk \in Seq(Changes) /\ side \in Seq(Changes) /\ root \in {"trunk", "side"}
  /\ tip \in [Landings -> Seq(Changes)]
  /\ land \in [Landings -> Landing]
  /\ spent \in [Outside -> Nat] /\ \A k \in Outside : spent[k] <= Budget[k]
TypeOK ==
  /\ GitTypeOK
  /\ tested \subseteq Seq(Changes)
  /\ claim \in Landings \union {"none", "dead"}
  /\ stale \in BOOLEAN
  /\ guard \in Landings \union {"none", "dead"}
  /\ queue \in [Procs -> Seq(Landings)]
  /\ answer \in [Landings -> {"none", "landed", "bounced", "threw"}]
  /\ \A p \in Procs, l \in Landings : land[l].proc = p <=> l \in Range(queue[p])

\* Trunk only moves forward, by somebody's commit in the root or to a commit the
\* tests were green on; all that may have come on top of that since is what was
\* committed in the landing card's own worktree while it landed.  It does not
\* rest on the turn: landings that overlap keep it.
Meddled(l) ==
  /\ IsPrefix(land[l].under, tip[l])
  /\ \A i \in DOMAIN tip[l] :
       i > Len(land[l].under) => tip[l][i][1] = l /\ tip[l][i][2] > 0
TrunkAdvances ==
  [][\/ \E n \in 1 .. Budget["commit"] : trunk' = Append(trunk, <<"root", n>>)
     \/ \E l \in Landings :
          /\ land[l].under \in tested \/ l \in NoTests
          /\ Meddled(l)
          /\ IsPrefix(trunk, trunk') /\ trunk' = tip[l]]_trunk

\* The inductive invariant behind it: whoever is about to fast-forward holds a
\* commit the tests were green on, and its branch has moved from there only by
\* commits made in its own worktree.
MergeInv ==
  \A l \in Landings :
    /\ land[l].pc \in {"test", "merge"} => Meddled(l)
    /\ land[l].pc = "merge" => land[l].under \in tested \/ l \in NoTests
IInv == GitTypeOK /\ MergeInv

\* No change is on trunk twice, whatever crashed after its landing and was
\* landed again.
LandedOnce == IsInjective(trunk)

\* `landed` is never said of work that is nowhere: it is on trunk, or on the
\* branch a human checked out in the root while the tests ran.
LandedIsSomewhere ==
  \A l \in Landings :
    answer[l] = "landed" => Work(l) \in Range(trunk) \union Range(side)

\* A card that is told it landed has landed, and once.
LandingsAreTrue == LandedOnce /\ LandedIsSomewhere

\* The invariant behind it.  A branch is a stretch of trunk and then its card's own changes, none
\* of which is on trunk and one of which is the card's work, unless trunk has it; a change that
\* is made is new; and what was said to have landed stays where it went.
Made == {c \in Changes : c[2] <= spent[IF c[1] = "root" THEN "commit" ELSE "extra"]}
Parts(l, s) ==
  /\ \A i \in 1 .. s : i \in DOMAIN trunk /\ tip[l][i] = trunk[i]
  /\ \A i \in s + 1 .. Len(tip[l]) : tip[l][i][1] = l /\ tip[l][i] \notin Range(trunk)
BranchInv(l) ==
  /\ IsInjective(tip[l])
  /\ \A i \in DOMAIN tip[l] : tip[l][i] \in Made
  /\ Work(l) \in Range(tip[l])
  /\ \E s \in 0 .. Len(tip[l]) : Parts(l, s)
LandInv ==
  /\ answer \in [Landings -> {"none", "landed", "bounced", "threw"}]
  /\ LandedOnce
  /\ \A i \in DOMAIN trunk : trunk[i] \in Made
  /\ \A l \in Landings : BranchInv(l)
  /\ \A l \in Landings : "landed" \in {answer[l], land[l].verdict} =>
       Work(l) \in Range(trunk) \union Range(side)

\* Every landing gets its answer, unless its own process dies: neither a dead
\* holder of the turn, nor a guard left behind, nor a queue blocks it for ever.
EveryLandingIsAnswered ==
  \A l \in Landings : At(l, "queued") ~> At(l, "idle")

\* One land at a time per repository (mergequeue.mjs, the head of the file).
InTurn == {l \in Landings : land[l].pc \in {"check", "begin", "rebase", "test", "merge"}}
OneLandAtATime == \A l, m \in InTurn : l = m

\* A card that landed has its work on trunk (docs/VOCABULARY.md, `landed`).
LandedIsOnTrunk ==
  \A l \in Landings : answer[l] = "landed" => Work(l) \in Range(trunk)
=============================================================================
