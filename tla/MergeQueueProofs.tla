-------------------------- MODULE MergeQueueProofs --------------------------
(***************************************************************************)
(* What TLAPS proves of MergeQueue.tla, for any cards, processes and       *)
(* budgets: trunk takes only tested commits, whoever has the turn.         *)
(***************************************************************************)
EXTENDS MergeQueue, FiniteSetTheorems, TLAPS

-----------------------------------------------------------------------------
(* Commits.                                                                *)

\* A commit is an ancestor of itself.
LEMMA PrefixRefl ==
  ASSUME NEW s \in Seq(Changes)
  PROVE  IsPrefix(s, s)
BY DEF IsPrefix

\* And of whatever is committed on top of what it is an ancestor of.
LEMMA PrefixAppend ==
  ASSUME NEW s \in Seq(Changes), NEW t \in Seq(Changes), NEW c \in Changes, IsPrefix(s, t)
  PROVE  IsPrefix(s, Append(t, c))
<1>1. Len(Append(t, c)) = Len(t) + 1 /\ \A i \in 1 .. Len(t) : Append(t, c)[i] = t[i]
  OBVIOUS
<1>2. SubSeq(Append(t, c), 1, Len(s)) = SubSeq(t, 1, Len(s))
  BY <1>1 DEF IsPrefix
<1>3. QED
  BY <1>1, <1>2 DEF IsPrefix

\* A rebased branch is a commit.
LEMMA RebasedTyped ==
  ASSUME GitTypeOK, NEW l \in Landings
  PROVE  Rebased(l) \in Seq(Changes)
<1> DEFINE shared == {i \in DOMAIN tip[l] : IsPrefix(SubSeq(tip[l], 1, i), trunk)}
<1>1. tip[l] \in Seq(Changes) /\ trunk \in Seq(Changes)
  BY DEF GitTypeOK
<1>2. IsFiniteSet(1 .. Len(tip[l]))
  BY <1>1, FS_Interval
<1>3. IsFiniteSet(shared)
  BY <1>1, <1>2, FS_Subset
<1>4. Shared(l) \in Nat
  BY <1>3, FS_CardinalityType DEF Shared
<1>5. Own(l) \in Seq(Changes)
  BY <1>1, <1>4 DEF Own
<1>6. QED
  BY <1>1, <1>5 DEF Rebased

-----------------------------------------------------------------------------
(* The invariant.                                                          *)

LEMMA InitIInv == Init => IInv
<1> SUFFICES ASSUME Init PROVE IInv
  OBVIOUS
<1>1. \A l \in Landings : Work(l) \in Changes
  BY DEF Work, Changes
<1>2. NoLanding \in Landing
  BY DEF NoLanding, Landing, Pcs
<1>3. GitTypeOK
  BY <1>1, <1>2, BudgetAssumption DEF Init, GitTypeOK
<1>4. MergeInv
  BY DEF Init, MergeInv, NoLanding
<1>5. QED
  BY <1>3, <1>4 DEF IInv

\* What a step that leaves the repository alone must show: each landing's
\* record keeps its type, and one that stands before a fast-forward stood
\* there before.
LEMMA RecordMoves ==
  ASSUME IInv, UNCHANGED git, tested \subseteq tested',
         spent' \in [Outside -> Nat], \A k \in Outside : spent'[k] <= Budget[k],
         land' \in [Landings -> Landing],
         \A l \in Landings :
           land'[l].pc \in {"test", "merge"} =>
             land'[l].pc = land[l].pc /\ land'[l].under = land[l].under
  PROVE  IInv'
<1>1. GitTypeOK'
  BY DEF IInv, GitTypeOK, git
<1>2. MergeInv'
  BY DEF IInv, MergeInv, Meddled, git
<1>3. QED
  BY <1>1, <1>2 DEF IInv

\* Moving one landing somewhere that is not a test or a fast-forward.
LEMMA GotoKeeps ==
  ASSUME IInv, NEW l \in Landings, NEW r \in Landing, r.pc \notin {"test", "merge"},
         land' = [land EXCEPT ![l] = r],
         UNCHANGED <<git, tested>>,
         spent' \in [Outside -> Nat], \A k \in Outside : spent'[k] <= Budget[k]
  PROVE  IInv'
<1>1. land \in [Landings -> Landing]
  BY DEF IInv, GitTypeOK
<1>2. land' \in [Landings -> Landing]
  BY <1>1
<1>3. \A m \in Landings :
        land'[m].pc \in {"test", "merge"} =>
          land'[m].pc = land[m].pc /\ land'[m].under = land[m].under
  BY <1>1
<1>4. tested \subseteq tested'
  OBVIOUS
<1>5. QED
  BY <1>2, <1>3, <1>4, RecordMoves DEF git

LEMMA SpendTyped ==
  ASSUME IInv, NEW k \in Outside, Spend(k)
  PROVE  spent' \in [Outside -> Nat] /\ \A j \in Outside : spent'[j] <= Budget[j]
<1>1. spent[k] < Budget[k] /\ spent' = [spent EXCEPT ![k] = @ + 1]
  BY DEF Spend
<1>2. spent \in [Outside -> Nat] /\ \A j \in Outside : spent[j] <= Budget[j]
  BY DEF IInv, GitTypeOK
<1>3. \A j \in Outside : Budget[j] \in Nat
  BY BudgetAssumption
<1>4. QED
  BY <1>1, <1>2, <1>3

LEMMA NoSpendTyped ==
  ASSUME IInv, UNCHANGED spent
  PROVE  spent' \in [Outside -> Nat] /\ \A j \in Outside : spent'[j] <= Budget[j]
BY DEF IInv, GitTypeOK

\* The records a landing may become.
LEMMA Records ==
  ASSUME IInv, NEW l \in Landings
  PROVE  /\ land[l] \in Landing
         /\ \A pc \in Pcs : [land[l] EXCEPT !.pc = pc] \in Landing
         /\ NoLanding \in Landing
         /\ \A v \in {"landed", "bounced", "threw"} :
              [NoLanding EXCEPT !.pc = "drop", !.proc = land[l].proc, !.verdict = v] \in Landing
<1>1. land[l] \in Landing
  BY DEF IInv, GitTypeOK
<1>2. ASSUME NEW pc \in Pcs PROVE [land[l] EXCEPT !.pc = pc] \in Landing
  BY <1>1 DEF Landing
<1>3. NoLanding \in Landing
  BY DEF NoLanding, Landing, Pcs
<1>4. ASSUME NEW v \in {"landed", "bounced", "threw"}
      PROVE  [NoLanding EXCEPT !.pc = "drop", !.proc = land[l].proc, !.verdict = v] \in Landing
  <2>1. land[l].proc \in Procs \union {"none"}
    BY <1>1 DEF Landing
  <2>2. "drop" \in Pcs /\ v \in {"none", "landed", "bounced", "threw"}
    BY DEF Pcs
  <2> HIDE DEF Pcs
  <2>3. QED
    BY <1>3, <2>1, <2>2 DEF Landing
<1>5. QED
  BY <1>1, <1>2, <1>3, <1>4

LEMMA EndsKeeps ==
  ASSUME IInv, NEW l \in Landings, NEW v \in {"landed", "bounced", "threw"}, Ends(l, v),
         UNCHANGED <<git, tested, spent>>
  PROVE  IInv'
<1> DEFINE r == [NoLanding EXCEPT !.pc = "drop", !.proc = land[l].proc, !.verdict = v]
<1>1. r \in Landing
  BY Records
<1>2. r.pc \notin {"test", "merge"}
  BY DEF NoLanding
<1>3. land' = [land EXCEPT ![l] = r]
  BY DEF Ends
<1> HIDE DEF r
<1>4. QED
  BY <1>1, <1>2, <1>3, GotoKeeps, NoSpendTyped

\* Goto, for the control points that are neither.
LEMMA WalkKeeps ==
  ASSUME IInv, NEW l \in Landings, NEW pc \in Pcs \ {"test", "merge"}, Goto(l, pc),
         UNCHANGED <<git, tested, spent>>
  PROVE  IInv'
<1> DEFINE r == [land[l] EXCEPT !.pc = pc]
<1>1. r \in Landing
  BY Records
<1>2. r.pc \notin {"test", "merge"}
  BY Records DEF Landing
<1>3. land' = [land EXCEPT ![l] = r]
  BY DEF Goto
<1> HIDE DEF r
<1>4. QED
  BY <1>1, <1>2, <1>3, GotoKeeps, NoSpendTyped

\* Every step but the ones that touch the repository, or lead to a test or a
\* fast-forward, is one of those.
LEMMA TurnKeeps ==
  ASSUME IInv, NEW l \in Landings,
         Request(l) \/ TakeGuard(l) \/ ReadClaim(l) \/ WriteClaim(l)
           \/ DropRead(l) \/ Unlink(l)
  PROVE  IInv'
<1>1. land[l] \in Landing /\ NoLanding \in Landing
  BY Records
<1>2. CASE Request(l)
  <2>1. PICK p \in ProcsOf[l] : land' = [land EXCEPT ![l].pc = "queued", ![l].proc = p]
    BY <1>2 DEF Request
  <2> DEFINE r == [land[l] EXCEPT !.pc = "queued", !.proc = p]
  <2>2. p \in Procs
    BY ProcsOfAssumption
  <2>3. r \in Landing /\ r.pc = "queued"
    BY <1>1, <2>2 DEF Landing, Pcs
  <2>4. land' = [land EXCEPT ![l] = r]
    BY <2>1 DEF IInv, GitTypeOK
  <2>5. spent' \in [Outside -> Nat] /\ \A k \in Outside : spent'[k] <= Budget[k]
    <3>1. UNCHANGED spent \/ Spend("again")
      BY <1>2 DEF Request
    <3>2. "again" \in Outside
      BY DEF Outside
    <3>3. QED
      BY <3>1, <3>2, SpendTyped, NoSpendTyped
  <2>6. UNCHANGED <<git, tested>>
    BY <1>2 DEF Request, git
  <2>7. r.pc \notin {"test", "merge"}
    BY <2>3
  <2> HIDE DEF r
  <2>8. QED
    BY <2>3, <2>4, <2>5, <2>6, <2>7, GotoKeeps
<1>3. CASE TakeGuard(l)
  <2>1. PICK got \in BOOLEAN :
          land' = [land EXCEPT ![l].pc = Guarded(l), ![l].locked = got]
    BY <1>3 DEF TakeGuard
  <2> DEFINE r == [land[l] EXCEPT !.pc = Guarded(l), !.locked = got]
  <2>2. Guarded(l) \in {"read", "dropread"}
    BY DEF Guarded
  <2>3. r \in Landing /\ r.pc \in {"read", "dropread"}
    BY <1>1, <2>2 DEF Landing, Pcs
  <2>4. land' = [land EXCEPT ![l] = r]
    BY <2>1 DEF IInv, GitTypeOK
  <2>5. spent' \in [Outside -> Nat] /\ \A k \in Outside : spent'[k] <= Budget[k]
    <3>1. UNCHANGED spent \/ Spend("stall")
      BY <1>3 DEF TakeGuard
    <3>2. "stall" \in Outside
      BY DEF Outside
    <3>3. QED
      BY <3>1, <3>2, SpendTyped, NoSpendTyped
  <2>6. UNCHANGED <<git, tested>>
    BY <1>3 DEF TakeGuard, git
  <2>7. r.pc \notin {"test", "merge"}
    BY <2>3
  <2> HIDE DEF r
  <2>8. QED
    BY <2>3, <2>4, <2>5, <2>6, <2>7, GotoKeeps
<1>4. CASE ReadClaim(l)
  <2>1. Goto(l, "queued") \/ Goto(l, "claim")
    BY <1>4 DEF ReadClaim
  <2>2. UNCHANGED <<git, tested, spent>>
    BY <1>4 DEF ReadClaim, git
  <2>3. {"queued", "claim"} \subseteq Pcs \ {"test", "merge"}
    BY DEF Pcs
  <2>4. QED
    BY <2>1, <2>2, <2>3, WalkKeeps
<1>5. CASE WriteClaim(l)
  <2>1. Goto(l, "check") /\ UNCHANGED <<git, tested, spent>>
    BY <1>5 DEF WriteClaim, git
  <2>2. "check" \in Pcs \ {"test", "merge"}
    BY DEF Pcs
  <2>3. QED
    BY <2>1, <2>2, WalkKeeps
<1>6. ASSUME land' = [land EXCEPT ![l] = NoLanding], UNCHANGED <<git, tested, spent>>
      PROVE  IInv'
  <2>1. NoLanding.pc \notin {"test", "merge"}
    BY DEF NoLanding
  <2>2. QED
    BY <1>1, <1>6, <2>1, GotoKeeps, NoSpendTyped
<1>7. CASE DropRead(l)
  <2>1. Goto(l, "unlink") \/ land' = [land EXCEPT ![l] = NoLanding]
    BY <1>7 DEF DropRead, Resolve
  <2>2. UNCHANGED <<git, tested, spent>>
    BY <1>7 DEF DropRead, git
  <2>3. "unlink" \in Pcs \ {"test", "merge"}
    BY DEF Pcs
  <2>4. QED
    BY <1>6, <2>1, <2>2, <2>3, WalkKeeps
<1>8. CASE Unlink(l)
  BY <1>6, <1>8 DEF Unlink, Resolve, git
<1>9. QED
  BY <1>2, <1>3, <1>4, <1>5, <1>7, <1>8

\* landNow up to the rebase.
LEMMA CheckKeeps ==
  ASSUME IInv, NEW l \in Landings, Check(l) \/ Begin(l)
  PROVE  IInv'
<1>1. CASE Check(l)
  <2>1. Ends(l, "bounced") \/ Ends(l, "threw") \/ Goto(l, "begin")
    BY <1>1 DEF Check, Bounce
  <2>2. UNCHANGED <<git, tested, spent>>
    BY <1>1 DEF Check, git
  <2>3. "begin" \in Pcs \ {"test", "merge"}
    BY DEF Pcs
  <2>4. QED
    BY <2>1, <2>2, <2>3, EndsKeeps, WalkKeeps
<1>2. CASE Begin(l)
  <2> DEFINE r == [land[l] EXCEPT !.pc = "rebase", !.before = RootHead]
  <2>1. land[l] \in Landing /\ RootHead \in Seq(Changes)
    BY Records DEF IInv, GitTypeOK, RootHead
  <2>2. r \in Landing /\ r.pc \notin {"test", "merge"}
    BY <2>1 DEF Landing, Pcs
  <2>3. land' = [land EXCEPT ![l] = r] /\ UNCHANGED <<git, tested, spent>>
    BY <1>2 DEF Begin, git, IInv, GitTypeOK
  <2> HIDE DEF r
  <2>4. QED
    BY <2>2, <2>3, GotoKeeps, NoSpendTyped
<1>3. QED
  BY <1>1, <1>2

\* A rebase makes the commit that is about to be tested the tip of the branch.
LEMMA RebaseKeeps ==
  ASSUME IInv, NEW l \in Landings, Rebase(l)
  PROVE  IInv'
<1>1. CASE Bounce(l) /\ UNCHANGED tip
  <2>1. UNCHANGED <<git, tested, spent>>
    BY <1>1 DEF Rebase, git
  <2>2. QED
    BY <1>1, <2>1, EndsKeeps DEF Bounce
<1>2. CASE /\ tip' = [tip EXCEPT ![l] = Rebased(l)]
           /\ land' = [land EXCEPT ![l].pc = AfterRebase(l), ![l].under = Rebased(l)]
  <2> DEFINE new == Rebased(l)
             r == [land[l] EXCEPT !.pc = AfterRebase(l), !.under = new]
  <2>1. new \in Seq(Changes)
    BY RebasedTyped DEF IInv
  <2>2. land[l] \in Landing /\ land \in [Landings -> Landing]
          /\ tip \in [Landings -> Seq(Changes)]
    BY DEF IInv, GitTypeOK
  <2>3. AfterRebase(l) \in {"test", "merge"}
          /\ (AfterRebase(l) = "merge" => l \in NoTests)
    BY DEF AfterRebase
  <2>4. /\ r \in Landing /\ r.under = new
        /\ r.pc = AfterRebase(l)
    BY <2>1, <2>2, <2>3 DEF Landing, Pcs
  <2>5. land' = [land EXCEPT ![l] = r] /\ tip' = [tip EXCEPT ![l] = new]
    BY <1>2, <2>2
  <2>6. UNCHANGED <<trunk, side, root, tested, spent>>
    BY DEF Rebase
  <2> HIDE DEF new, r
  <2>7. GitTypeOK'
    BY <2>1, <2>2, <2>4, <2>5, <2>6 DEF IInv, GitTypeOK
  <2>8. Meddled(l)'
    <3>1. land'[l].under = new /\ tip'[l] = new
      BY <2>2, <2>4, <2>5
    <3>2. IsPrefix(new, new) /\ \A i \in DOMAIN new : ~ i > Len(new)
      BY <2>1, PrefixRefl
    <3>3. QED
      BY <3>1, <3>2 DEF Meddled
  <2>9. \A m \in Landings \ {l} : land'[m] = land[m] /\ tip'[m] = tip[m]
    BY <2>2, <2>5
  <2>10. land'[l].pc = "merge" => l \in NoTests
    BY <2>2, <2>3, <2>4, <2>5
  <2>11. MergeInv'
    <3>1. ASSUME NEW m \in Landings \ {l}
          PROVE  /\ land'[m].pc \in {"test", "merge"} => Meddled(m)'
                 /\ land'[m].pc = "merge" => land'[m].under \in tested' \/ m \in NoTests
      BY <2>6, <2>9 DEF IInv, MergeInv, Meddled
    <3>2. QED
      BY <2>8, <2>10, <3>1 DEF MergeInv
  <2>12. QED
    BY <2>7, <2>11 DEF IInv
<1>3. QED
  BY <1>1, <1>2 DEF Rebase

LEMMA TestKeeps ==
  ASSUME IInv, NEW l \in Landings, NEW green \in BOOLEAN, TestDone(l, green)
  PROVE  IInv'
<1>1. CASE green
  <2> DEFINE r == [land[l] EXCEPT !.pc = "merge"]
  <2>1. At(l, "test") /\ tested' = tested \union {land[l].under} /\ Goto(l, "merge")
          /\ UNCHANGED <<git, spent>>
    BY <1>1 DEF TestDone, git
  <2>2. land[l] \in Landing /\ land \in [Landings -> Landing]
    BY DEF IInv, GitTypeOK
  <2>3. r \in Landing /\ r.pc = "merge" /\ r.under = land[l].under
    <3>1. "merge" \in Pcs
      BY DEF Pcs
    <3>2. r \in Landing
      BY <3>1, Records
    <3>3. QED
      BY <2>2, <3>2 DEF Landing
  <2>4. land' = [land EXCEPT ![l] = r]
    BY <2>1, <2>2 DEF Goto
  <2> HIDE DEF r
  <2>5. GitTypeOK'
    BY <2>1, <2>2, <2>3, <2>4 DEF IInv, GitTypeOK, git
  <2>6. ASSUME NEW m \in Landings
        PROVE  /\ land'[m].pc \in {"test", "merge"} => Meddled(m)'
               /\ land'[m].pc = "merge" => land'[m].under \in tested' \/ m \in NoTests
    <3>1. CASE m = l
      <4>1. land'[m] = r
        BY <2>2, <2>4, <3>1
      <4>2. Meddled(l)
        BY <2>1 DEF IInv, MergeInv, At
      <4>3. Meddled(m)'
        BY <2>1, <2>3, <3>1, <4>1, <4>2 DEF Meddled, git
      <4>4. QED
        BY <2>1, <2>3, <3>1, <4>1, <4>3
    <3>2. CASE m # l
      <4>1. land'[m] = land[m] /\ tip' = tip
        BY <2>1, <2>2, <2>4, <3>2 DEF git
      <4>2. QED
        BY <2>1, <4>1 DEF IInv, MergeInv, Meddled
    <3>3. QED
      BY <3>1, <3>2
  <2>7. QED
    BY <2>5, <2>6 DEF IInv, MergeInv
<1>2. CASE ~ green
  <2>1. Ends(l, "bounced") /\ UNCHANGED <<git, tested, spent>>
    BY <1>2 DEF TestDone, Bounce, git
  <2>2. QED
    BY <2>1, EndsKeeps
<1>3. QED
  BY <1>1, <1>2

\* The fast-forward: trunk becomes the landing's branch, or nothing moves.
LEMMA MergeMoves ==
  ASSUME IInv, NEW l \in Landings, Merge(l)
  PROVE  /\ trunk' = trunk \/ (trunk' = tip[l] /\ IsPrefix(trunk, tip[l]))
         /\ trunk' \in Seq(Changes) /\ side' \in Seq(Changes)
         /\ UNCHANGED <<root, tip, tested, spent>>
<1>1. trunk \in Seq(Changes) /\ side \in Seq(Changes) /\ tip[l] \in Seq(Changes)
  BY DEF IInv, GitTypeOK
<1>2. UNCHANGED <<root, tip, tested, spent>>
  BY DEF Merge
<1>3. CASE UNCHANGED <<trunk, side>>
  BY <1>1, <1>2, <1>3
<1>4. CASE /\ FastForwards(l)
           /\ IF root = "trunk" THEN trunk' = Merged(l) /\ UNCHANGED side
                                ELSE side' = Merged(l) /\ UNCHANGED trunk
  <2>1. CASE root = "trunk"
    <3>1. trunk' = Merged(l) /\ side' = side /\ RootHead = trunk
      BY <1>4, <2>1 DEF RootHead
    <3>2. CASE IsPrefix(tip[l], RootHead)
      BY <1>1, <1>2, <3>1, <3>2 DEF Merged
    <3>3. CASE ~ IsPrefix(tip[l], RootHead)
      BY <1>1, <1>2, <1>4, <3>1, <3>3 DEF Merged, FastForwards
    <3>4. QED
      BY <3>2, <3>3
  <2>2. CASE root # "trunk"
    BY <1>1, <1>2, <1>4, <2>2 DEF Merged, RootHead
  <2>3. QED
    BY <2>1, <2>2
<1>5. QED
  BY <1>3, <1>4 DEF Merge

LEMMA MergeKeeps ==
  ASSUME IInv, NEW l \in Landings, Merge(l)
  PROVE  IInv'
<1>1. PICK r \in Landing :
        r.pc \notin {"test", "merge"} /\ land' = [land EXCEPT ![l] = r]
  <2>1. CASE \E v \in {"landed", "bounced"} : Ends(l, v)
    <3>1. PICK v \in {"landed", "bounced"} : Ends(l, v)
      BY <2>1
    <3> DEFINE r == [NoLanding EXCEPT !.pc = "drop", !.proc = land[l].proc, !.verdict = v]
    <3>2. r \in Landing /\ r.pc = "drop" /\ land' = [land EXCEPT ![l] = r]
      BY <3>1, Records DEF Ends, NoLanding
    <3>3. QED
      BY <3>2
  <2>2. CASE land' = [land EXCEPT ![l].pc = "rebase", ![l].retried = TRUE]
    <3> DEFINE r == [land[l] EXCEPT !.pc = "rebase", !.retried = TRUE]
    <3>1. r \in Landing /\ r.pc = "rebase"
      <4>1. land[l] \in Landing
        BY Records
      <4>2. QED
        BY <4>1 DEF Landing, Pcs
    <3>2. land' = [land EXCEPT ![l] = r]
      BY <2>2 DEF IInv, GitTypeOK
    <3>3. QED
      BY <3>1, <3>2
  <2>3. QED
    BY <2>1, <2>2 DEF Merge, Bounce
<1>2. land \in [Landings -> Landing]
  BY DEF IInv, GitTypeOK
<1>3. GitTypeOK'
  BY <1>1, <1>2, MergeMoves DEF IInv, GitTypeOK
<1>4. ASSUME NEW m \in Landings, land'[m].pc \in {"test", "merge"}
      PROVE  /\ Meddled(m)'
             /\ land'[m].pc = "merge" => land'[m].under \in tested' \/ m \in NoTests
  <2>1. land'[m] = land[m] /\ tip' = tip /\ tested' = tested
    BY <1>1, <1>2, <1>4, MergeMoves
  <2>2. QED
    BY <1>4, <2>1 DEF IInv, MergeInv, Meddled
<1>5. QED
  BY <1>3, <1>4 DEF IInv, MergeInv

-----------------------------------------------------------------------------
(* The world around.                                                       *)

\* A commit in a worktree goes on top of what is being tested there.
LEMMA WorktreeKeeps ==
  ASSUME IInv, NEW l \in Landings, WorktreeCommit(l)
  PROVE  IInv'
<1> DEFINE c == <<l, spent["extra"] + 1>>
<1>1. "extra" \in Outside /\ Spend("extra")
  BY DEF WorktreeCommit, Outside
<1>2. /\ tip \in [Landings -> Seq(Changes)] /\ land \in [Landings -> Landing]
      /\ spent["extra"] \in Nat
  BY <1>1 DEF IInv, GitTypeOK
<1>3. c \in Changes /\ c[1] = l /\ c[2] > 0
  BY <1>2 DEF Changes
<1>4. tip' = [tip EXCEPT ![l] = Append(@, c)] /\ UNCHANGED <<trunk, side, root, tested, land>>
  BY DEF WorktreeCommit
<1> HIDE DEF c
<1>5. tip' \in [Landings -> Seq(Changes)]
  BY <1>2, <1>3, <1>4
<1>6. GitTypeOK'
  BY <1>1, <1>4, <1>5, SpendTyped DEF IInv, GitTypeOK
<1>7. ASSUME NEW m \in Landings, Meddled(m) PROVE Meddled(m)'
  <2>1. CASE m = l
    <3>1. tip'[l] = Append(tip[l], c) /\ tip[l] \in Seq(Changes) /\ land'[l] = land[l]
      BY <1>2, <1>4
    <3>2. land[l].under \in Seq(Changes)
      BY <1>2 DEF Landing
    <3>3. IsPrefix(land[l].under, tip'[l])
      BY <1>3, <1>7, <2>1, <3>1, <3>2, PrefixAppend DEF Meddled
    <3>4. /\ DOMAIN tip'[l] = 1 .. Len(tip[l]) + 1
          /\ DOMAIN tip[l] = 1 .. Len(tip[l])
          /\ \A i \in 1 .. Len(tip[l]) : tip'[l][i] = tip[l][i]
          /\ tip'[l][Len(tip[l]) + 1] = c
      BY <1>3, <3>1
    <3>5. ASSUME NEW i \in DOMAIN tip'[l], i > Len(land[l].under)
          PROVE  tip'[l][i][1] = l /\ tip'[l][i][2] > 0
      <4>1. i \in 1 .. Len(tip[l]) \/ i = Len(tip[l]) + 1
        BY <3>1, <3>4
      <4>2. CASE i \in 1 .. Len(tip[l])
        BY <1>7, <2>1, <3>4, <3>5, <4>2 DEF Meddled
      <4>3. CASE i = Len(tip[l]) + 1
        BY <1>3, <3>4, <4>3
      <4>4. QED
        BY <4>1, <4>2, <4>3
    <3>6. QED
      BY <2>1, <3>1, <3>3, <3>5 DEF Meddled
  <2>2. CASE m # l
    <3>1. tip'[m] = tip[m] /\ land'[m] = land[m]
      BY <1>2, <1>4, <2>2
    <3>2. QED
      BY <1>7, <3>1 DEF Meddled
  <2>3. QED
    BY <2>1, <2>2
<1>8. QED
  BY <1>4, <1>6, <1>7 DEF IInv, MergeInv

\* The rest of the world leaves branches and landings alone, or ends them.
LEMMA WorldKeeps ==
  ASSUME IInv, World
  PROVE  IInv'
<1>1. CASE Ages
  <2>1. UNCHANGED <<git, tested, land, spent>>
    BY <1>1 DEF Ages
  <2>2. QED
    BY <2>1 DEF IInv, GitTypeOK, MergeInv, Meddled, git
<1>2. CASE OutsideCommit
  <2> DEFINE more == <<"root", spent["commit"] + 1>>
  <2>1. "commit" \in Outside /\ Spend("commit")
    BY <1>2 DEF OutsideCommit, Outside
  <2>2. more \in Changes
    BY <2>1 DEF IInv, GitTypeOK, Changes
  <2>3. /\ trunk' \in {trunk, Append(trunk, more)} /\ side' \in {side, Append(side, more)}
        /\ UNCHANGED <<root, tip, tested, land>>
    BY <1>2 DEF OutsideCommit
  <2> HIDE DEF more
  <2>4. trunk' \in Seq(Changes) /\ side' \in Seq(Changes)
    <3>1. trunk \in Seq(Changes) /\ side \in Seq(Changes)
      BY DEF IInv, GitTypeOK
    <3>2. Append(trunk, more) \in Seq(Changes) /\ Append(side, more) \in Seq(Changes)
      BY <2>2, <3>1
    <3>3. QED
      BY <2>3, <3>1, <3>2
  <2>5. spent' \in [Outside -> Nat] /\ \A k \in Outside : spent'[k] <= Budget[k]
    BY <2>1, SpendTyped
  <2>6. GitTypeOK'
    BY <2>3, <2>4, <2>5 DEF IInv, GitTypeOK
  <2>7. QED
    BY <2>3, <2>6 DEF IInv, MergeInv, Meddled
<1>3. CASE Checkout
  <2>1. "checkout" \in Outside /\ Spend("checkout")
    BY <1>3 DEF Checkout, Outside
  <2>2. root' \in {"trunk", "side"} /\ side' \in {trunk, side}
          /\ UNCHANGED <<trunk, tip, tested, land>>
    BY <1>3 DEF Checkout
  <2>3. GitTypeOK'
    BY <2>1, <2>2, SpendTyped DEF IInv, GitTypeOK
  <2>4. QED
    BY <2>2, <2>3 DEF IInv, MergeInv, Meddled
<1>4. CASE \E l \in Landings : WorktreeCommit(l)
  BY <1>4, WorktreeKeeps
<1>5. ASSUME NEW p \in Procs, ProcDies(p) PROVE IInv'
  <2>1. "death" \in Outside /\ Spend("death") /\ UNCHANGED <<git, tested>>
    BY <1>5 DEF ProcDies, Outside, git
  <2>2. \A l \in Landings : land'[l] \in {NoLanding, land[l]}
    BY <1>5 DEF ProcDies
  <2>3. land' \in [Landings -> Landing]
    <3>1. \A l \in Landings : land[l] \in Landing /\ NoLanding \in Landing
      BY Records
    <3>2. land' = [l \in Landings |-> IF l \in HeldBy(p) THEN NoLanding ELSE land[l]]
      BY <1>5 DEF ProcDies
    <3>3. QED
      BY <3>1, <3>2
  <2>4. NoLanding.pc \notin {"test", "merge"}
    BY DEF NoLanding
  <2>5. \A l \in Landings :
          land'[l].pc \in {"test", "merge"} =>
            land'[l].pc = land[l].pc /\ land'[l].under = land[l].under
    BY <2>2, <2>4
  <2>6. spent' \in [Outside -> Nat] /\ \A k \in Outside : spent'[k] <= Budget[k]
    BY <2>1, SpendTyped
  <2>7. QED
    BY <2>1, <2>3, <2>5, <2>6, RecordMoves
<1>6. QED
  BY <1>1, <1>2, <1>3, <1>4, <1>5 DEF World

LEMMA StepIInv == IInv /\ [Next]_vars => IInv'
<1> SUFFICES ASSUME IInv, [Next]_vars PROVE IInv'
  OBVIOUS
<1>1. ASSUME NEW l \in Landings, Request(l) \/ Step(l) PROVE IInv'
  BY <1>1, TurnKeeps, CheckKeeps, RebaseKeeps, TestKeeps, MergeKeeps DEF Step
<1>2. CASE UNCHANGED vars
  BY <1>2 DEF vars, git, turn, IInv, GitTypeOK, MergeInv, Meddled
<1>3. QED
  BY <1>1, <1>2, WorldKeeps DEF Next

-----------------------------------------------------------------------------
(* The theorems.                                                           *)

\* Before every fast-forward the branch is a commit the tests were green on,
\* and what was committed in its own worktree since (mergequeue.mjs landNow).
THEOREM Invariance == Spec => []IInv
<1>1. QED
  BY InitIInv, StepIInv, PTL DEF Spec

\* Only tested work, or a commit in the root, moves trunk, and always forward,
\* for any number of processes that land at once, dead or stalled.
THEOREM TrunkAdvancesThm == Spec => TrunkAdvances
<1> DEFINE A == \/ \E n \in 1 .. Budget["commit"] : trunk' = Append(trunk, <<"root", n>>)
               \/ \E l \in Landings :
                    /\ land[l].under \in tested \/ l \in NoTests
                    /\ Meddled(l)
                    /\ IsPrefix(trunk, trunk') /\ trunk' = tip[l]
<1>1. IInv /\ [Next]_vars => [A]_trunk
  <2> SUFFICES ASSUME IInv, [Next]_vars, trunk' # trunk PROVE A
    OBVIOUS
  <2>1. CASE OutsideCommit
    <3>1. "commit" \in Outside /\ Spend("commit")
      BY <2>1 DEF OutsideCommit, Outside
    <3>2. spent["commit"] \in Nat /\ Budget["commit"] \in Nat /\ spent["commit"] < Budget["commit"]
      BY <3>1, BudgetAssumption DEF IInv, GitTypeOK, Spend
    <3>3. spent["commit"] + 1 \in 1 .. Budget["commit"]
      BY <3>2
    <3>4. trunk' = Append(trunk, <<"root", spent["commit"] + 1>>)
      BY <2>1 DEF OutsideCommit
    <3>5. QED
      BY <3>3, <3>4
  <2>2. ASSUME NEW l \in Landings, Merge(l) PROVE A
    <3>1. trunk' = tip[l] /\ IsPrefix(trunk, tip[l])
      BY <2>2, MergeMoves
    <3>2. Meddled(l) /\ (land[l].under \in tested \/ l \in NoTests)
      BY <2>2 DEF Merge, At, IInv, MergeInv
    <3>3. QED
      BY <3>1, <3>2
  <2>3. ASSUME NEW l \in Landings, Request(l) \/ Step(l), ~ Merge(l) PROVE FALSE
    BY <2>3 DEF Request, Step, TakeGuard, ReadClaim, WriteClaim, DropRead, Unlink, Check,
                Begin, Rebase, TestDone, git
  <2>4. CASE World /\ ~ OutsideCommit
    BY <2>4 DEF World, Ages, Checkout, WorktreeCommit, ProcDies, git
  <2>5. CASE UNCHANGED vars
    BY <2>5 DEF vars, git
  <2>6. QED
    BY <2>1, <2>2, <2>3, <2>4, <2>5 DEF Next
<1>2. QED
  BY <1>1, Invariance, PTL DEF Spec, TrunkAdvances

-----------------------------------------------------------------------------
(* What is on trunk, and what landed.                                      *)

\* The repository, by its types.
LEMMA Git ==
  ASSUME IInv
  PROVE  /\ trunk \in Seq(Changes) /\ side \in Seq(Changes)
         /\ Len(trunk) \in Nat /\ DOMAIN trunk = 1 .. Len(trunk)
         /\ DOMAIN side = 1 .. Len(side) /\ Len(side) \in Nat
         /\ \A l \in Landings : /\ tip[l] \in Seq(Changes) /\ Len(tip[l]) \in Nat
                                /\ DOMAIN tip[l] = 1 .. Len(tip[l])
         /\ tip \in [Landings -> Seq(Changes)] /\ land \in [Landings -> Landing]
         /\ spent \in [Outside -> Nat]
BY DEF IInv, GitTypeOK

\* A change that was made stays made.
LEMMA MadeKept ==
  ASSUME IInv, IInv', \A k \in Outside : spent[k] <= spent'[k]
  PROVE  Made \subseteq Made'
<1> SUFFICES ASSUME NEW c \in Changes, c \in Made
             PROVE  c \in Made'
  BY DEF Made
<1> DEFINE k == IF c[1] = "root" THEN "commit" ELSE "extra"
<1>1. k \in Outside /\ c[2] \in Nat
  BY DEF Outside, Changes
<1>2. spent[k] \in Nat /\ spent'[k] \in Nat /\ spent[k] <= spent'[k]
  BY <1>1, Git DEF IInv, GitTypeOK
<1>3. c[2] <= spent[k]
  BY DEF Made
<1> HIDE DEF k
<1>4. c[2] <= spent'[k]
  BY <1>1, <1>2, <1>3
<1>5. QED
  BY <1>4 DEF Made, k

\* What is spent only grows.
LEMMA SpentGrows ==
  ASSUME IInv, NEW k \in Outside, UNCHANGED spent \/ Spend(k)
  PROVE  \A j \in Outside : spent[j] <= spent'[j]
<1>1. spent \in [Outside -> Nat]
  BY Git
<1>2. CASE UNCHANGED spent
  BY <1>1, <1>2
<1>3. CASE Spend(k)
  <2>1. spent' = [spent EXCEPT ![k] = spent[k] + 1]
    BY <1>3 DEF Spend
  <2>2. ASSUME NEW j \in Outside PROVE spent[j] <= spent'[j]
    <3>1. spent[j] \in Nat /\ spent'[j] \in {spent[j], spent[j] + 1}
      BY <1>1, <2>1
    <3>2. QED
      BY <3>1
  <2>3. QED
    BY <2>2
<1>4. QED
  BY <1>2, <1>3

\* A branch stays where it forked when trunk grows by the changes of others.
LEMMA PartsKept ==
  ASSUME IInv, IInv', NEW l \in Landings, NEW s \in 0 .. Len(tip[l]), Parts(l, s),
         tip'[l] = tip[l],
         \A i \in DOMAIN trunk : i \in DOMAIN trunk' /\ trunk'[i] = trunk[i],
         \A i \in DOMAIN trunk' \ DOMAIN trunk : trunk'[i][1] # l
  PROVE  Parts(l, s)'
<1>1. \A i \in 1 .. s : i \in DOMAIN trunk' /\ tip'[l][i] = trunk'[i]
  BY DEF Parts
<1>2. ASSUME NEW i \in s + 1 .. Len(tip[l])
      PROVE  tip[l][i][1] = l /\ tip[l][i] \notin Range(trunk')
  <2>1. tip[l][i][1] = l /\ tip[l][i] \notin Range(trunk)
    BY <1>2 DEF Parts
  <2>2. \A j \in DOMAIN trunk' : trunk'[j] # tip[l][i]
    BY <2>1 DEF Range
  <2>3. QED
    BY <2>1, <2>2 DEF Range
<1>3. QED
  BY <1>1, <1>2 DEF Parts

\* What leaves trunk and the branches alone keeps the invariant.
LEMMA LandKept ==
  ASSUME IInv, IInv', LandInv, UNCHANGED <<trunk, tip>>,
         answer' \in [Landings -> {"none", "landed", "bounced", "threw"}], Range(side) \subseteq Range(side'),
         \A k \in Outside : spent[k] <= spent'[k],
         \A l \in Landings : "landed" \in {answer'[l], land'[l].verdict} =>
                               "landed" \in {answer[l], land[l].verdict}
  PROVE  LandInv'
<1>1. LandedOnce' /\ \A i \in DOMAIN trunk : trunk[i] \in Made'
  <2>1. \A i \in DOMAIN trunk : trunk[i] \in Changes
    BY Git
  <2>2. QED
    BY <2>1, MadeKept DEF LandInv, LandedOnce
<1>2. ASSUME NEW l \in Landings PROVE BranchInv(l)'
  <2>1. BranchInv(l) /\ \A i \in DOMAIN tip[l] : tip[l][i] \in Changes
    BY Git DEF LandInv
  <2>2. \A i \in DOMAIN tip[l] : tip[l][i] \in Made'
    BY <2>1, MadeKept DEF BranchInv
  <2>3. QED
    BY <2>1, <2>2 DEF BranchInv, Parts, Work
<1>3. ASSUME NEW l \in Landings, "landed" \in {answer'[l], land'[l].verdict}
      PROVE  Work(l) \in Range(trunk') \union Range(side')
  BY <1>3 DEF LandInv
<1>4. QED
  BY <1>1, <1>2, <1>3 DEF LandInv, Work, Made

\* The branch and trunk part where the changes of the card begin: that is what `git rebase`
\* finds, by counting the commits they share.
LEMMA SharedIs ==
  ASSUME IInv, NEW l \in Landings, NEW s \in 0 .. Len(tip[l]), Parts(l, s)
  PROVE  Shared(l) = s
<1> DEFINE b == tip[l]
           both == {i \in DOMAIN b : IsPrefix(SubSeq(b, 1, i), trunk)}
<1>1. /\ b \in Seq(Changes) /\ Len(b) \in Nat /\ DOMAIN b = 1 .. Len(b) /\ s \in Nat /\ s <= Len(b)
      /\ trunk \in Seq(Changes) /\ Len(trunk) \in Nat /\ DOMAIN trunk = 1 .. Len(trunk)
  BY Git
<1>2. /\ \A i \in 1 .. s : i \in DOMAIN trunk /\ b[i] = trunk[i]
      /\ \A i \in s + 1 .. Len(b) : b[i] \notin Range(trunk)
  BY DEF Parts
<1> HIDE DEF b
<1>3. ASSUME NEW i \in 1 .. s PROVE i \in both
  <2>1. i \in 1 .. Len(b) /\ i <= Len(trunk) /\ \A j \in 1 .. i : b[j] = trunk[j]
    BY <1>1, <1>2
  <2>2. Len(SubSeq(b, 1, i)) = i /\ SubSeq(b, 1, i) = SubSeq(trunk, 1, i)
    BY <1>1, <2>1
  <2>3. SubSeq(SubSeq(b, 1, i), 1, i) = SubSeq(b, 1, i)
    BY <1>1, <2>1
  <2>4. QED
    BY <1>1, <2>1, <2>2, <2>3 DEF IsPrefix
<1>4. ASSUME NEW i \in both PROVE i \in 1 .. s
  <2>1. i \in 1 .. Len(b) /\ IsPrefix(SubSeq(b, 1, i), trunk)
    BY <1>1
  <2>2. Len(SubSeq(b, 1, i)) = i
    BY <1>1, <2>1
  <2>3. i <= Len(trunk) /\ SubSeq(SubSeq(b, 1, i), 1, i) = SubSeq(trunk, 1, i)
    BY <2>1, <2>2 DEF IsPrefix
  <2>4. SubSeq(SubSeq(b, 1, i), 1, i)[i] = b[i] /\ SubSeq(trunk, 1, i)[i] = trunk[i]
    BY <1>1, <2>1, <2>3
  <2>5. b[i] \in Range(trunk)
    BY <1>1, <2>1, <2>3, <2>4 DEF Range
  <2>6. QED
    BY <1>1, <1>2, <2>1, <2>5
<1>5. both = 1 .. s
  BY <1>3, <1>4
<1>6. Cardinality(1 .. s) = s
  BY <1>1, FS_Interval
<1>7. QED
  BY <1>5, <1>6 DEF Shared, b

\* A rebased branch is trunk, and then the card's own changes.
LEMMA RebasedIs ==
  ASSUME IInv, NEW l \in Landings, NEW s \in 0 .. Len(tip[l]), Parts(l, s)
  PROVE  /\ Rebased(l) \in Seq(Changes)
         /\ Len(Rebased(l)) = Len(trunk) + Len(tip[l]) - s
         /\ \A i \in 1 .. Len(trunk) : Rebased(l)[i] = trunk[i]
         /\ \A i \in Len(trunk) + 1 .. Len(Rebased(l)) :
              /\ i - Len(trunk) + s \in s + 1 .. Len(tip[l])
              /\ Rebased(l)[i] = tip[l][i - Len(trunk) + s]
         /\ \A j \in s + 1 .. Len(tip[l]) :
              /\ Len(trunk) + j - s \in Len(trunk) + 1 .. Len(Rebased(l))
              /\ Rebased(l)[Len(trunk) + j - s] = tip[l][j]
<1> DEFINE b == tip[l]
           own == SubSeq(b, s + 1, Len(b))
<1>1. /\ b \in Seq(Changes) /\ Len(b) \in Nat /\ s \in Nat /\ s <= Len(b)
      /\ trunk \in Seq(Changes) /\ Len(trunk) \in Nat
  BY Git
<1>2. Rebased(l) = trunk \o own
  BY SharedIs DEF Rebased, Own
<1> HIDE DEF b
<1>3. /\ own \in Seq(Changes) /\ Len(own) = Len(b) - s
      /\ \A i \in 1 .. Len(b) - s : own[i] = b[s + i]
  BY <1>1
<1> HIDE DEF own
<1>4. /\ trunk \o own \in Seq(Changes)
      /\ Len(trunk \o own) = Len(trunk) + Len(b) - s
      /\ \A i \in 1 .. Len(trunk) : (trunk \o own)[i] = trunk[i]
      /\ \A i \in Len(trunk) + 1 .. Len(trunk) + Len(b) - s :
           (trunk \o own)[i] = own[i - Len(trunk)]
  <2>1. trunk \o own \in Seq(Changes) /\ Len(trunk \o own) = Len(trunk) + Len(own)
    <3>1. ASSUME NEW u \in Seq(Changes), NEW v \in Seq(Changes)
          PROVE  u \o v \in Seq(Changes) /\ Len(u \o v) = Len(u) + Len(v)
      OBVIOUS
    <3>2. QED
      BY <1>1, <1>3, <3>1
  <2>2. \A i \in 1 .. Len(trunk) : (trunk \o own)[i] = trunk[i]
    <3>1. ASSUME NEW u \in Seq(Changes), NEW v \in Seq(Changes), NEW i \in 1 .. Len(u)
          PROVE  (u \o v)[i] = u[i]
      <4>1. i \in 1 .. Len(u) + Len(v) /\ i <= Len(u)
        OBVIOUS
      <4>2. QED
        BY <4>1
    <3>2. QED
      BY <1>1, <1>3, <3>1
  <2>3. \A i \in Len(trunk) + 1 .. Len(trunk) + Len(own) : (trunk \o own)[i] = own[i - Len(trunk)]
    <3>1. ASSUME NEW u \in Seq(Changes), NEW v \in Seq(Changes),
                 NEW i \in Len(u) + 1 .. Len(u) + Len(v)
          PROVE  (u \o v)[i] = v[i - Len(u)]
      <4>1. i \in 1 .. Len(u) + Len(v) /\ ~ (i <= Len(u))
        OBVIOUS
      <4>2. QED
        BY <4>1
    <3>2. QED
      BY <1>1, <1>3, <3>1
  <2>4. Len(trunk) + Len(own) = Len(trunk) + Len(b) - s
    BY <1>1, <1>3
  <2>5. QED
    BY <2>1, <2>2, <2>3, <2>4
<1>5. ASSUME NEW i \in Len(trunk) + 1 .. Len(trunk) + Len(b) - s
      PROVE  /\ i - Len(trunk) + s \in s + 1 .. Len(b)
             /\ (trunk \o own)[i] = b[i - Len(trunk) + s]
  <2>1. i - Len(trunk) \in 1 .. Len(b) - s /\ s + (i - Len(trunk)) = i - Len(trunk) + s
        /\ i - Len(trunk) + s \in s + 1 .. Len(b)
    BY <1>1
  <2>2. (trunk \o own)[i] = own[i - Len(trunk)] /\ own[i - Len(trunk)] = b[s + (i - Len(trunk))]
    BY <1>3, <1>4, <2>1
  <2>3. QED
    BY <2>1, <2>2
<1>6. ASSUME NEW j \in s + 1 .. Len(b)
      PROVE  /\ Len(trunk) + j - s \in Len(trunk) + 1 .. Len(trunk) + Len(b) - s
             /\ (trunk \o own)[Len(trunk) + j - s] = b[j]
  <2>1. Len(trunk) + j - s \in Len(trunk) + 1 .. Len(trunk) + Len(b) - s
        /\ (Len(trunk) + j - s) - Len(trunk) + s = j
    BY <1>1
  <2>2. QED
    BY <1>5, <2>1
<1>7. QED
  BY <1>2, <1>4, <1>5, <1>6 DEF b

\* What every landing's record says of its verdict may only change by Merge.
LEMMA TurnLand ==
  ASSUME IInv, IInv', LandInv, NEW l \in Landings,
         Request(l) \/ TakeGuard(l) \/ ReadClaim(l) \/ WriteClaim(l)
           \/ DropRead(l) \/ Unlink(l) \/ Check(l) \/ Begin(l)
           \/ \E green \in BOOLEAN : TestDone(l, green)
  PROVE  LandInv'
<1>1. UNCHANGED <<trunk, side, tip>>
  BY DEF Request, TakeGuard, ReadClaim, WriteClaim, DropRead, Unlink, Check, Begin, TestDone, git
<1>2. \A k \in Outside : spent[k] <= spent'[k]
  <2>1. UNCHANGED spent \/ Spend("again") \/ Spend("stall")
    BY DEF Request, TakeGuard, ReadClaim, WriteClaim, DropRead, Unlink, Check, Begin, TestDone
  <2>2. {"again", "stall"} \subseteq Outside
    BY DEF Outside
  <2>3. QED
    BY <2>1, <2>2, SpentGrows
<1>3. /\ land \in [Landings -> Landing] /\ land[l] \in Landing
      /\ answer \in [Landings -> {"none", "landed", "bounced", "threw"}]
  BY Git DEF LandInv
<1>4. PICK r :
        /\ land' = [land EXCEPT ![l] = r]
        /\ \/ answer' = answer \/ answer' = [answer EXCEPT ![l] = "none"]
           \/ answer' = [answer EXCEPT ![l] = land[l].verdict]
        /\ r.verdict \in {land[l].verdict, "none", "bounced", "threw"}
  <2> DEFINE Same(r) == r.verdict \in {land[l].verdict, "none", "bounced", "threw"}
             P == \E r :
                    /\ land' = [land EXCEPT ![l] = r]
                    /\ \/ answer' = answer \/ answer' = [answer EXCEPT ![l] = "none"]
                       \/ answer' = [answer EXCEPT ![l] = land[l].verdict]
                    /\ Same(r)
  <2> SUFFICES P
    OBVIOUS
  <2>1. ASSUME NEW pc, Goto(l, pc), answer' = answer PROVE P
    <3>1. land' = [land EXCEPT ![l] = [land[l] EXCEPT !.pc = pc]]
      BY <1>3, <2>1 DEF Goto
    <3>2. Same([land[l] EXCEPT !.pc = pc])
      BY <1>3 DEF Landing
    <3>3. QED
      BY <2>1, <3>1, <3>2
  <2>2. ASSUME NEW v \in {"bounced", "threw"}, Ends(l, v), answer' = answer PROVE P
    <3>1. Same([NoLanding EXCEPT !.pc = "drop", !.proc = land[l].proc, !.verdict = v])
      BY DEF NoLanding
    <3>2. QED
      BY <2>2, <3>1 DEF Ends
  <2>3. CASE Resolve(l)
    <3>1. Same(NoLanding)
      BY DEF NoLanding
    <3>2. QED
      BY <2>3, <3>1 DEF Resolve
  <2>4. CASE Request(l)
    <3>1. PICK p : land' = [land EXCEPT ![l].pc = "queued", ![l].proc = p]
      BY <2>4 DEF Request
    <3>2. land' = [land EXCEPT ![l] = [land[l] EXCEPT !.pc = "queued", !.proc = p]]
      BY <1>3, <3>1
    <3>3. Same([land[l] EXCEPT !.pc = "queued", !.proc = p])
      BY <1>3 DEF Landing
    <3>4. QED
      BY <2>4, <3>2, <3>3 DEF Request
  <2>5. CASE TakeGuard(l)
    <3>1. PICK got : land' = [land EXCEPT ![l].pc = Guarded(l), ![l].locked = got]
      BY <2>5 DEF TakeGuard
    <3>2. land' = [land EXCEPT ![l] = [land[l] EXCEPT !.pc = Guarded(l), !.locked = got]]
      BY <1>3, <3>1
    <3>3. Same([land[l] EXCEPT !.pc = Guarded(l), !.locked = got])
      BY <1>3 DEF Landing
    <3>4. QED
      BY <2>5, <3>2, <3>3 DEF TakeGuard
  <2>6. CASE Begin(l)
    <3>1. land' = [land EXCEPT ![l] = [land[l] EXCEPT !.pc = "rebase", !.before = RootHead]]
      BY <1>3, <2>6 DEF Begin
    <3>2. Same([land[l] EXCEPT !.pc = "rebase", !.before = RootHead])
      BY <1>3 DEF Landing
    <3>3. QED
      BY <2>6, <3>1, <3>2 DEF Begin
  <2>7. CASE ReadClaim(l)
    BY <2>1, <2>7 DEF ReadClaim
  <2>8. CASE WriteClaim(l)
    BY <2>1, <2>8 DEF WriteClaim
  <2>9. CASE DropRead(l)
    BY <2>1, <2>3, <2>9 DEF DropRead
  <2>10. CASE Unlink(l)
    BY <2>3, <2>10 DEF Unlink
  <2>11. CASE Check(l)
    BY <2>1, <2>2, <2>11 DEF Check, Bounce
  <2>12. CASE \E green \in BOOLEAN : TestDone(l, green)
    BY <2>1, <2>2, <2>12 DEF TestDone, Bounce
  <2>13. QED
    BY <2>4, <2>5, <2>6, <2>7, <2>8, <2>9, <2>10, <2>11, <2>12
<1>5. /\ \A m \in Landings \ {l} : land'[m] = land[m] /\ answer'[m] = answer[m]
      /\ land'[l] = r /\ answer'[l] \in {answer[l], "none", land[l].verdict}
      /\ land[l].verdict \in {"none", "landed", "bounced", "threw"}
  BY <1>3, <1>4 DEF Landing
<1>6. answer' \in [Landings -> {"none", "landed", "bounced", "threw"}]
  BY <1>3, <1>4, <1>5
<1>7. "landed" \in {answer'[l], land'[l].verdict} =>
        "landed" \in {answer[l], land[l].verdict}
  BY <1>4, <1>5
<1>8. QED
  BY <1>1, <1>2, <1>5, <1>6, <1>7, LandKept

\* A rebase keeps the card's changes, each once, behind trunk.
LEMMA RebaseLand ==
  ASSUME IInv, IInv', LandInv, NEW l \in Landings, Rebase(l)
  PROVE  LandInv'
<1>1. UNCHANGED <<trunk, side, spent, answer>> /\ land[l] \in Landing
      /\ \A k \in Outside : spent[k] <= spent'[k]
  <2>1. UNCHANGED <<trunk, side, spent, answer>> /\ land[l] \in Landing
    BY Git DEF Rebase
  <2>2. \A k \in Outside : spent[k] \in Nat
    BY Git
  <2>3. QED
    BY <2>1, <2>2
<1>2. /\ \A m \in Landings \ {l} : land'[m] = land[m]
      /\ "landed" = land'[l].verdict => "landed" = land[l].verdict
  <2>1. CASE Bounce(l)
    <3>1. land' = [land EXCEPT ![l] = [NoLanding EXCEPT !.pc = "drop", !.proc = land[l].proc,
                                                        !.verdict = "bounced"]]
      BY <2>1 DEF Bounce, Ends
    <3>2. [NoLanding EXCEPT !.pc = "drop", !.proc = land[l].proc,
                            !.verdict = "bounced"].verdict = "bounced"
      BY DEF NoLanding
    <3>3. QED
      BY <3>1, <3>2, Git
  <2>2. CASE land' = [land EXCEPT ![l].pc = AfterRebase(l), ![l].under = Rebased(l)]
    BY <1>1, <2>2, Git DEF Landing
  <2>3. QED
    BY <2>1, <2>2 DEF Rebase
<1>3. CASE UNCHANGED tip
  <2>1. answer' \in [Landings -> {"none", "landed", "bounced", "threw"}]
    BY <1>1 DEF LandInv
  <2>2. QED
    BY <1>1, <1>2, <1>3, <2>1, LandKept
<1>4. CASE tip' = [tip EXCEPT ![l] = Rebased(l)]
  <2> DEFINE b == tip[l]
             n == Len(trunk)
  <2>1. PICK new : new = Rebased(l)
    OBVIOUS
  <2>2. BranchInv(l) /\ \A m \in Landings : BranchInv(m)
    BY DEF LandInv
  <2>3. PICK s \in 0 .. Len(b) : Parts(l, s)
    BY <2>2 DEF BranchInv
  <2>4. /\ b \in Seq(Changes) /\ Len(b) \in Nat /\ DOMAIN b = 1 .. Len(b) /\ s \in Nat
        /\ trunk \in Seq(Changes) /\ n \in Nat /\ DOMAIN trunk = 1 .. n
    BY Git
  <2>5. /\ new \in Seq(Changes) /\ Len(new) = n + Len(b) - s /\ DOMAIN new = 1 .. Len(new)
        /\ \A i \in 1 .. n : new[i] = trunk[i]
        /\ \A i \in n + 1 .. Len(new) :
             i - n + s \in s + 1 .. Len(b) /\ new[i] = b[i - n + s]
        /\ \A j \in s + 1 .. Len(b) :
             n + j - s \in n + 1 .. Len(new) /\ new[n + j - s] = b[j]
    <3>1. /\ Rebased(l) \in Seq(Changes)
          /\ Len(Rebased(l)) = Len(trunk) + Len(tip[l]) - s
          /\ \A i \in 1 .. Len(trunk) : Rebased(l)[i] = trunk[i]
          /\ \A i \in Len(trunk) + 1 .. Len(Rebased(l)) :
               /\ i - Len(trunk) + s \in s + 1 .. Len(tip[l])
               /\ Rebased(l)[i] = tip[l][i - Len(trunk) + s]
          /\ \A j \in s + 1 .. Len(tip[l]) :
               /\ Len(trunk) + j - s \in Len(trunk) + 1 .. Len(Rebased(l))
               /\ Rebased(l)[Len(trunk) + j - s] = tip[l][j]
      BY <2>3, RebasedIs
    <3>2. DOMAIN new = 1 .. Len(new)
      BY <2>1, <3>1
    <3>3. QED
      BY <2>1, <3>1, <3>2
  <2>6. /\ \A i \in 1 .. s : i \in 1 .. n /\ b[i] = trunk[i]
        /\ \A i \in s + 1 .. Len(b) : b[i][1] = l /\ b[i] \notin Range(trunk)
    BY <2>3, <2>4 DEF Parts
  <2>7. /\ \A i, j \in 1 .. Len(b) : b[i] = b[j] => i = j
        /\ \A i, j \in 1 .. n : trunk[i] = trunk[j] => i = j
        /\ \A i \in 1 .. Len(b) : b[i] \in Made
        /\ \A i \in 1 .. n : trunk[i] \in Made /\ trunk[i] \in Range(trunk)
        /\ \E i \in 1 .. Len(b) : b[i] = Work(l)
    BY <2>2, <2>4 DEF BranchInv, LandInv, LandedOnce, IsInjective, Range
  <2>8. tip'[l] = new /\ \A m \in Landings \ {l} : tip'[m] = tip[m]
    BY <1>4, <2>1, Git
  <2> HIDE DEF b, n
  <2>9. \A i \in 1 .. Len(new) : i \in 1 .. n \/ i \in n + 1 .. Len(new)
    BY <2>4, <2>5
  <2>10. \A i \in n + 1 .. Len(new) : /\ i - n + s \in 1 .. Len(b)
                                      /\ new[i][1] = l /\ new[i] \notin Range(trunk)
    BY <2>4, <2>5, <2>6
  <2>11. IsInjective(new)
    <3> SUFFICES ASSUME NEW i \in 1 .. Len(new), NEW j \in 1 .. Len(new), new[i] = new[j]
                 PROVE  i = j
      BY <2>5 DEF IsInjective
    <3>1. CASE i \in 1 .. n /\ j \in 1 .. n
      BY <2>5, <2>7, <3>1
    <3>2. CASE i \in n + 1 .. Len(new) /\ j \in n + 1 .. Len(new)
      <4>1. b[i - n + s] = b[j - n + s]
        BY <2>5, <3>2
      <4>2. i - n + s = j - n + s
        BY <2>7, <2>10, <3>2, <4>1
      <4>3. QED
        BY <2>4, <4>2
    <3>3. ASSUME NEW x \in 1 .. n, NEW y \in n + 1 .. Len(new) PROVE new[x] # new[y]
      BY <2>5, <2>7, <2>10
    <3>4. QED
      BY <2>9, <3>1, <3>2, <3>3
  <2>12. \A i \in 1 .. Len(new) : new[i] \in Made
    BY <2>5, <2>7, <2>9, <2>10
  <2>13. Work(l) \in Range(new)
    <3>1. PICK i \in 1 .. Len(b) : b[i] = Work(l)
      BY <2>7
    <3>2. CASE i \in 1 .. s
      <4>1. i \in 1 .. n /\ new[i] = b[i] /\ i \in 1 .. Len(new)
        BY <2>4, <2>5, <2>6, <3>2
      <4>2. QED
        BY <2>5, <3>1, <4>1 DEF Range
    <3>3. CASE i \in s + 1 .. Len(b)
      <4>1. n + i - s \in 1 .. Len(new) /\ new[n + i - s] = b[i]
        BY <2>4, <2>5, <3>3
      <4>2. QED
        BY <2>5, <3>1, <4>1 DEF Range
    <3>4. QED
      BY <2>4, <3>2, <3>3
  <2>14. Parts(l, n)'
    BY <1>1, <2>4, <2>5, <2>8, <2>10 DEF Parts, n
  <2>15. BranchInv(l)'
    <3>1. n \in 0 .. Len(new)
      BY <2>4, <2>5
    <3>2. (\A i \in DOMAIN tip[l] : tip[l][i] \in Made)' /\ (Work(l) \in Range(tip[l]))'
          /\ IsInjective(tip[l])'
      BY <1>1, <2>5, <2>8, <2>11, <2>12, <2>13 DEF Made, Work
    <3>3. PICK u \in 0 .. Len(new) : u = n
      BY <3>1
    <3>4. Parts(l, u)'
      BY <1>1, <2>14, <3>3 DEF n, Parts
    <3>5. QED
      BY <2>8, <3>2, <3>4 DEF BranchInv
  <2>16. ASSUME NEW m \in Landings \ {l} PROVE BranchInv(m)'
    <3>1. BranchInv(m) /\ tip'[m] = tip[m] /\ trunk' = trunk /\ spent' = spent
      BY <1>1, <2>2, <2>8
    <3>2. PICK u \in 0 .. Len(tip[m]) : Parts(m, u)
      BY <3>1 DEF BranchInv
    <3>3. Parts(m, u)'
      BY <3>1, <3>2 DEF Parts
    <3>4. (\A i \in DOMAIN tip[m] : tip[m][i] \in Made)' /\ (Work(m) \in Range(tip[m]))'
          /\ IsInjective(tip[m])'
      BY <3>1 DEF BranchInv, Made, Work
    <3>5. QED
      BY <3>1, <3>3, <3>4 DEF BranchInv
  <2>17. QED
    BY <1>1, <1>2, <2>15, <2>16 DEF LandInv, LandedOnce, Made, Work
<1>5. QED
  BY <1>3, <1>4 DEF Rebase

\* An ancestor holds the same changes at the same places.
LEMMA PrefixAt ==
  ASSUME NEW s \in Seq(Changes), NEW t \in Seq(Changes), IsPrefix(s, t)
  PROVE  /\ Len(s) <= Len(t)
         /\ \A i \in 1 .. Len(s) : i \in 1 .. Len(t) /\ s[i] = t[i]
         /\ Range(s) \subseteq Range(t)
<1>1. Len(s) <= Len(t) /\ SubSeq(s, 1, Len(s)) = SubSeq(t, 1, Len(s))
  BY DEF IsPrefix
<1>2. ASSUME NEW i \in 1 .. Len(s) PROVE i \in 1 .. Len(t) /\ s[i] = t[i]
  <2>1. SubSeq(s, 1, Len(s))[i] = s[i] /\ SubSeq(t, 1, Len(s))[i] = t[i] /\ i \in 1 .. Len(t)
    BY <1>1
  <2>2. QED
    BY <1>1, <2>1
<1>3. Range(s) \subseteq Range(t)
  BY <1>2 DEF Range
<1>4. QED
  BY <1>1, <1>2, <1>3

\* The fast-forward: nothing of trunk or the other branch is lost, and `landed` is said of a
\* branch that one of them holds.
LEMMA MergeEnds ==
  ASSUME IInv, NEW l \in Landings, Merge(l)
  PROVE  /\ Range(trunk) \subseteq Range(trunk') /\ Range(side) \subseteq Range(side')
         /\ \/ Range(tip[l]) \subseteq Range(trunk') \union Range(side')
            \/ land'[l].verdict # "landed" \/ land'[l].verdict = land[l].verdict
         /\ \A m \in Landings \ {l} : land'[m] = land[m]
         /\ UNCHANGED answer
<1>1. trunk \in Seq(Changes) /\ side \in Seq(Changes) /\ tip[l] \in Seq(Changes)
      /\ land \in [Landings -> Landing] /\ land[l] \in Landing
  BY Git
<1>2. \A s \in {trunk, side, tip[l]} : IsPrefix(s, tip[l]) => Range(s) \subseteq Range(tip[l])
  BY <1>1, PrefixAt
<1>3. IsPrefix(tip[l], RootHead) => Range(tip[l]) \subseteq Range(RootHead)
  BY <1>1, PrefixAt DEF RootHead
<1>4. CASE UNCHANGED <<trunk, side>> /\ Bounce(l)
  <2>1. [NoLanding EXCEPT !.pc = "drop", !.proc = land[l].proc,
                          !.verdict = "bounced"].verdict = "bounced"
    BY DEF NoLanding
  <2>2. QED
    BY <1>1, <1>4, <2>1 DEF Bounce, Ends, Merge
<1>5. CASE UNCHANGED <<trunk, side>> /\ land' = [land EXCEPT ![l].pc = "rebase", ![l].retried = TRUE]
  <2>1. land'[l].verdict = land[l].verdict
    BY <1>1, <1>5 DEF Landing
  <2>2. QED
    BY <1>1, <1>5, <2>1 DEF Merge
<1>6. CASE /\ FastForwards(l)
           /\ IF root = "trunk" THEN trunk' = Merged(l) /\ UNCHANGED side
                                ELSE side' = Merged(l) /\ UNCHANGED trunk
           /\ Ends(l, "landed")
  <2>1. Range(RootHead) \subseteq Range(Merged(l)) /\ Range(tip[l]) \subseteq Range(Merged(l))
    <3>1. CASE IsPrefix(tip[l], RootHead)
      BY <1>3, <3>1 DEF Merged
    <3>2. CASE ~ IsPrefix(tip[l], RootHead)
      BY <1>2, <1>6, <3>2 DEF Merged, FastForwards, RootHead
    <3>3. QED
      BY <3>1, <3>2
  <2>2. \A m \in Landings \ {l} : land'[m] = land[m]
    BY <1>1, <1>6 DEF Ends
  <2>3. UNCHANGED answer
    BY DEF Merge
  <2>4. CASE root = "trunk"
    BY <1>6, <2>1, <2>2, <2>3, <2>4 DEF RootHead
  <2>5. CASE root # "trunk"
    BY <1>6, <2>1, <2>2, <2>3, <2>5 DEF RootHead
  <2>6. QED
    BY <2>4, <2>5
<1>7. QED
  BY <1>4, <1>5, <1>6 DEF Merge

LEMMA MergeLand ==
  ASSUME IInv, IInv', LandInv, NEW l \in Landings, Merge(l)
  PROVE  LandInv'
<1>1. /\ trunk' = trunk \/ (trunk' = tip[l] /\ IsPrefix(trunk, tip[l]))
      /\ UNCHANGED <<root, tip, tested, spent>>
  BY MergeMoves
<1>2. /\ trunk \in Seq(Changes) /\ tip[l] \in Seq(Changes) /\ tip[l] = tip'[l]
      /\ DOMAIN trunk = 1 .. Len(trunk) /\ DOMAIN tip[l] = 1 .. Len(tip[l])
      /\ Len(trunk) \in Nat /\ Len(tip[l]) \in Nat
  BY <1>1, Git
<1>3. answer' \in [Landings -> {"none", "landed", "bounced", "threw"}]
  BY MergeEnds DEF LandInv
<1>4. ASSUME NEW m \in Landings, "landed" \in {answer'[m], land'[m].verdict}
      PROVE  Work(m) \in Range(trunk') \union Range(side')
  <2>1. Work(l) \in Range(tip[l])
    BY DEF LandInv, BranchInv
  <2>2. QED
    BY <1>4, <2>1, MergeEnds DEF LandInv
<1>5. \A m \in Landings : tip'[m] = tip[m] /\ BranchInv(m)
  BY <1>1 DEF LandInv
<1>6. CASE trunk' = trunk
  <2>1. ASSUME NEW m \in Landings PROVE BranchInv(m)'
    BY <1>1, <1>5, <1>6 DEF BranchInv, Made, Work, Parts
  <2>2. QED
    BY <1>1, <1>3, <1>4, <1>6, <2>1 DEF LandInv, LandedOnce, Made, Work
<1>7. CASE trunk' = tip[l] /\ IsPrefix(trunk, tip[l])
  <2>1. LandedOnce' /\ (\A i \in DOMAIN trunk : trunk[i] \in Made)'
    BY <1>1, <1>5, <1>7 DEF BranchInv, LandedOnce, Made
  <2>2. PICK s \in 0 .. Len(tip[l]) : Parts(l, s)
    BY <1>5 DEF BranchInv
  <2>3. \A i \in 1 .. Len(trunk) : i \in DOMAIN trunk' /\ trunk'[i] = trunk[i]
    BY <1>2, <1>7, PrefixAt
  <2>4. ASSUME NEW i \in DOMAIN trunk' \ DOMAIN trunk PROVE trunk'[i][1] = l
    <3>1. i \in 1 .. Len(tip[l]) /\ i > Len(trunk)
      BY <1>2, <1>7, <2>4
    <3>2. s <= Len(trunk)
      BY <1>2, <2>2 DEF Parts
    <3>3. i \in s + 1 .. Len(tip[l])
      BY <1>2, <3>1, <3>2
    <3>4. QED
      BY <1>7, <2>2, <3>3 DEF Parts
  <2>5. ASSUME NEW m \in Landings PROVE \E u \in 0 .. Len(tip[m]) : Parts(m, u)'
    <3>1. CASE m # l
      <4>1. PICK u \in 0 .. Len(tip[m]) : Parts(m, u)
        BY <1>5 DEF BranchInv
      <4>2. Parts(m, u)'
        BY <1>2, <1>5, <2>3, <2>4, <3>1, <4>1, PartsKept
      <4>3. QED
        BY <4>2
    <3>2. CASE m = l
      <4>1. PICK u \in 0 .. Len(tip[l]) : u = Len(tip[l])
        BY <1>2
      <4>2. Parts(m, u)'
        BY <1>2, <1>7, <3>2, <4>1 DEF Parts
      <4>3. QED
        BY <3>2, <4>2
    <3>3. QED
      BY <3>1, <3>2
  <2>6. ASSUME NEW m \in Landings PROVE BranchInv(m)'
    <3>1. (\A i \in DOMAIN tip[m] : tip[m][i] \in Made)' /\ (Work(m) \in Range(tip[m]))'
          /\ IsInjective(tip[m])'
      BY <1>1, <1>5 DEF BranchInv, Made, Work
    <3>2. QED
      BY <1>5, <2>5, <3>1 DEF BranchInv
  <2>7. QED
    BY <1>3, <1>4, <2>1, <2>6 DEF LandInv, Work
<1>8. QED
  BY <1>1, <1>6, <1>7

-----------------------------------------------------------------------------
(* The world around, and the theorem.                                      *)

\* A new change on top of a branch, or of trunk.
LEMMA AppendAt ==
  ASSUME NEW s \in Seq(Changes), NEW c \in Changes
  PROVE  /\ Append(s, c) \in Seq(Changes) /\ Len(Append(s, c)) = Len(s) + 1
         /\ DOMAIN Append(s, c) = 1 .. Len(s) + 1
         /\ \A i \in 1 .. Len(s) : i \in DOMAIN Append(s, c) /\ Append(s, c)[i] = s[i]
         /\ Append(s, c)[Len(s) + 1] = c
         /\ \A i \in DOMAIN Append(s, c) : i \in 1 .. Len(s) \/ i = Len(s) + 1
         /\ Range(s) \subseteq Range(Append(s, c))
         /\ IsInjective(s) /\ c \notin Range(s) => IsInjective(Append(s, c))
<1>1. /\ Append(s, c) \in Seq(Changes) /\ Len(Append(s, c)) = Len(s) + 1
      /\ DOMAIN Append(s, c) = 1 .. Len(s) + 1 /\ Len(s) \in Nat /\ DOMAIN s = 1 .. Len(s)
      /\ \A i \in 1 .. Len(s) : Append(s, c)[i] = s[i]
      /\ Append(s, c)[Len(s) + 1] = c
  OBVIOUS
<1> DEFINE t == Append(s, c)
<1> HIDE DEF t
<1>2. \A i \in DOMAIN t : i \in 1 .. Len(s) \/ i = Len(s) + 1
  BY <1>1 DEF t
<1>3. \A i \in 1 .. Len(s) : i \in DOMAIN t /\ t[i] = s[i]
  BY <1>1 DEF t
<1>4. Range(s) \subseteq Range(t)
  BY <1>1, <1>3 DEF Range
<1>5. IsInjective(s) /\ c \notin Range(s) => IsInjective(t)
  <2> SUFFICES ASSUME IsInjective(s), c \notin Range(s) PROVE IsInjective(t)
    OBVIOUS
  <2>1. t[Len(s) + 1] = c /\ \A i \in 1 .. Len(s) : s[i] # c
    BY <1>1 DEF t, Range
  <2>2. \A i, j \in 1 .. Len(s) : s[i] = s[j] => i = j
    BY <1>1 DEF IsInjective
  <2>3. QED
    BY <1>2, <1>3, <2>1, <2>2 DEF IsInjective
<1>6. QED
  BY <1>1, <1>2, <1>3, <1>4, <1>5 DEF t

LEMMA OutsideLand ==
  ASSUME IInv, IInv', LandInv, OutsideCommit
  PROVE  LandInv'
<1>1. PICK more : more = <<"root", spent["commit"] + 1>>
  OBVIOUS
<1>2. "commit" \in Outside /\ Spend("commit") /\ UNCHANGED <<tip, land, answer>>
  BY DEF OutsideCommit, Outside
<1>3. /\ \A k \in Outside : spent[k] <= spent'[k]
      /\ spent["commit"] \in Nat /\ spent'["commit"] = spent["commit"] + 1
  BY <1>2, SpentGrows, Git DEF Spend
<1>4. more \in Changes /\ more \in Made' /\ more \notin Made /\ more[1] = "root"
  BY <1>1, <1>3 DEF Changes, Made
<1>5. answer' \in [Landings -> {"none", "landed", "bounced", "threw"}]
  BY <1>2 DEF LandInv
<1>6. CASE root # "trunk"
  <2>1. trunk' = trunk /\ side' = Append(side, more)
    BY <1>1, <1>6 DEF OutsideCommit
  <2>2. Range(side) \subseteq Range(side')
    BY <1>4, <2>1, AppendAt, Git
  <2>3. QED
    BY <1>2, <1>3, <1>5, <2>1, <2>2, LandKept
<1>7. CASE root = "trunk"
  <2>1. trunk' = Append(trunk, more) /\ side' = side
    BY <1>1, <1>7 DEF OutsideCommit
  <2>2. /\ trunk \in Seq(Changes) /\ DOMAIN trunk = 1 .. Len(trunk)
        /\ \A i \in DOMAIN trunk : i \in DOMAIN trunk' /\ trunk'[i] = trunk[i]
        /\ \A i \in DOMAIN trunk' \ DOMAIN trunk : trunk'[i] = more
        /\ \A i \in DOMAIN trunk' : trunk'[i] = more \/ i \in DOMAIN trunk
        /\ Range(trunk) \subseteq Range(trunk')
    BY <1>4, <2>1, AppendAt, Git
  <2>3. more \notin Range(trunk)
    BY <1>4 DEF LandInv, Range
  <2>4. LandedOnce'
    BY <1>4, <2>1, <2>2, <2>3, AppendAt DEF LandInv, LandedOnce
  <2>5. \A i \in DOMAIN trunk' : trunk'[i] \in Made'
    <3>1. ASSUME NEW i \in DOMAIN trunk PROVE trunk[i] \in Made'
      BY <1>3, <2>2, MadeKept DEF LandInv
    <3>2. QED
      BY <1>4, <2>2, <3>1
  <2>6. ASSUME NEW m \in Landings PROVE BranchInv(m)'
    <3>1. BranchInv(m) /\ tip'[m] = tip[m] /\ m # "root" /\ tip[m] \in Seq(Changes)
      BY <1>2, NamesAssumption, Git DEF LandInv
    <3>2. PICK u \in 0 .. Len(tip[m]) : Parts(m, u)
      BY <3>1 DEF BranchInv
    <3>3. Parts(m, u)'
      BY <1>4, <2>2, <3>1, <3>2, PartsKept
    <3>4. \A i \in DOMAIN tip[m] : tip[m][i] \in Made'
      BY <1>3, <3>1, MadeKept DEF BranchInv
    <3>5. QED
      BY <3>1, <3>3, <3>4 DEF BranchInv, Work
  <2>7. ASSUME NEW m \in Landings, "landed" \in {answer'[m], land'[m].verdict}
        PROVE  Work(m) \in Range(trunk') \union Range(side')
    BY <1>2, <2>1, <2>2, <2>7 DEF LandInv
  <2>8. QED
    BY <1>5, <2>4, <2>5, <2>6, <2>7 DEF LandInv, Work, Made
<1>8. QED
  BY <1>6, <1>7

LEMMA WorktreeLand ==
  ASSUME IInv, IInv', LandInv, NEW l \in Landings, WorktreeCommit(l)
  PROVE  LandInv'
<1>1. PICK c : c = <<l, spent["extra"] + 1>>
  OBVIOUS
<1>2. /\ "extra" \in Outside /\ Spend("extra") /\ UNCHANGED <<trunk, side, land, answer>>
      /\ tip' = [tip EXCEPT ![l] = Append(@, c)]
  BY <1>1 DEF WorktreeCommit, Outside
<1>3. /\ \A k \in Outside : spent[k] <= spent'[k]
      /\ spent["extra"] \in Nat /\ spent'["extra"] = spent["extra"] + 1
  BY <1>2, SpentGrows, Git DEF Spend
<1>4. c \in Changes /\ c \in Made' /\ c \notin Made /\ c[1] = l
  <2>1. l # "root"
    BY NamesAssumption
  <2>2. QED
    BY <1>1, <1>3, <2>1 DEF Changes, Made
<1>5. c \notin Range(trunk) /\ c \notin Range(tip[l])
  BY <1>4 DEF LandInv, BranchInv, Range
<1>6. /\ tip'[l] = Append(tip[l], c) /\ tip[l] \in Seq(Changes) /\ DOMAIN tip[l] = 1 .. Len(tip[l])
      /\ Len(tip[l]) \in Nat
      /\ \A m \in Landings \ {l} : tip'[m] = tip[m]
  BY <1>2, Git
<1>7. BranchInv(l)'
  <2>1. BranchInv(l)
    BY DEF LandInv
  <2>2. /\ DOMAIN tip'[l] = 1 .. Len(tip[l]) + 1 /\ Len(tip'[l]) = Len(tip[l]) + 1
        /\ \A i \in 1 .. Len(tip[l]) : tip'[l][i] = tip[l][i]
        /\ tip'[l][Len(tip[l]) + 1] = c
        /\ \A i \in DOMAIN tip'[l] : i \in 1 .. Len(tip[l]) \/ i = Len(tip[l]) + 1
        /\ Range(tip[l]) \subseteq Range(tip'[l])
        /\ IsInjective(tip'[l])
    BY <1>4, <1>5, <1>6, <2>1, AppendAt DEF BranchInv
  <2>3. \A i \in DOMAIN tip'[l] : tip'[l][i] \in Made'
    <3>1. ASSUME NEW i \in 1 .. Len(tip[l]) PROVE tip[l][i] \in Made'
      BY <1>3, <1>6, <2>1, MadeKept DEF BranchInv
    <3>2. QED
      BY <1>4, <2>2, <3>1
  <2>4. PICK s \in 0 .. Len(tip[l]) : Parts(l, s)
    BY <2>1 DEF BranchInv
  <2>5. Parts(l, s)'
    <3>1. \A i \in 1 .. s : i \in DOMAIN trunk' /\ tip'[l][i] = trunk'[i]
      BY <1>2, <1>6, <2>2, <2>4 DEF Parts
    <3>2. \A i \in s + 1 .. Len(tip'[l]) : i \in s + 1 .. Len(tip[l]) \/ i = Len(tip[l]) + 1
      BY <1>6, <2>2
    <3>3. \A i \in s + 1 .. Len(tip'[l]) : tip'[l][i][1] = l /\ tip'[l][i] \notin Range(trunk')
      BY <1>2, <1>4, <1>5, <1>6, <2>2, <2>4, <3>2 DEF Parts
    <3>4. QED
      BY <3>1, <3>3 DEF Parts
  <2>6. s \in 0 .. Len(tip'[l])
    BY <1>6, <2>2
  <2>7. QED
    BY <2>1, <2>2, <2>3, <2>5, <2>6 DEF BranchInv, Work
<1>8. ASSUME NEW m \in Landings \ {l} PROVE BranchInv(m)'
  <2>1. BranchInv(m) /\ tip'[m] = tip[m] /\ tip[m] \in Seq(Changes) /\ trunk' = trunk
    BY <1>2, <1>6, Git DEF LandInv
  <2>2. \A i \in DOMAIN tip[m] : tip[m][i] \in Made'
    BY <1>3, <2>1, MadeKept DEF BranchInv
  <2>3. QED
    BY <2>1, <2>2 DEF BranchInv, Work, Parts
<1>9. \A i \in DOMAIN trunk : trunk[i] \in Made'
  BY <1>3, MadeKept, Git DEF LandInv
<1>10. QED
  BY <1>2, <1>7, <1>8, <1>9 DEF LandInv, LandedOnce, Work

LEMMA WorldLand ==
  ASSUME IInv, IInv', LandInv, World
  PROVE  LandInv'
<1>1. answer \in [Landings -> {"none", "landed", "bounced", "threw"}]
  BY DEF LandInv
<1>2. CASE Ages
  <2>1. UNCHANGED <<trunk, side, tip, spent, land, answer>>
    BY <1>2 DEF Ages, git
  <2>2. \A k \in Outside : spent[k] <= spent'[k]
    BY <2>1, Git
  <2>3. QED
    BY <1>1, <2>1, <2>2, LandKept
<1>3. CASE Checkout
  <2>1. "checkout" \in Outside /\ Spend("checkout") /\ UNCHANGED <<trunk, tip, land, answer>>
        /\ side' = IF side = <<>> THEN trunk ELSE side
    BY <1>3 DEF Checkout, Outside
  <2>2. Range(side) \subseteq Range(side')
    BY <2>1 DEF Range
  <2>3. QED
    BY <1>1, <2>1, <2>2, SpentGrows, LandKept
<1>4. ASSUME NEW p \in Procs, ProcDies(p) PROVE LandInv'
  <2>1. "death" \in Outside /\ Spend("death") /\ UNCHANGED <<trunk, side, tip, answer>>
        /\ \A m \in Landings : land'[m] \in {NoLanding, land[m]}
    BY <1>4 DEF ProcDies, Outside, git
  <2>2. NoLanding.verdict = "none"
    BY DEF NoLanding
  <2>3. QED
    BY <1>1, <2>1, <2>2, SpentGrows, LandKept
<1>5. QED
  BY <1>2, <1>3, <1>4, OutsideLand, WorktreeLand DEF World

LEMMA InitLand == Init => LandInv
<1> SUFFICES ASSUME Init PROVE LandInv
  OBVIOUS
<1>1. /\ trunk = << >> /\ side = << >> /\ tip = [l \in Landings |-> <<Work(l)>>]
      /\ land = [l \in Landings |-> NoLanding] /\ answer = [l \in Landings |-> "none"]
      /\ spent = [k \in Outside |-> 0]
  BY DEF Init
<1>2. LandedOnce
  BY <1>1 DEF LandedOnce, IsInjective
<1>3. ASSUME NEW l \in Landings PROVE BranchInv(l)
  <2>1. tip[l] = <<Work(l)>> /\ Len(tip[l]) = 1 /\ DOMAIN tip[l] = 1 .. 1 /\ tip[l][1] = Work(l)
    BY <1>1
  <2>2. Parts(l, 0)
    BY <1>1, <2>1 DEF Parts, Work, Range
  <2>3. tip[l][1] \in Made
    <3>1. Work(l) \in Changes /\ Work(l)[1] # "root" /\ Work(l)[2] = 0 /\ spent["extra"] = 0
      BY <1>1, NamesAssumption DEF Changes, Work, Outside
    <3>2. QED
      BY <2>1, <3>1 DEF Made
  <2>4. QED
    BY <2>1, <2>2, <2>3 DEF BranchInv, IsInjective, Range
<1>4. QED
  BY <1>1, <1>2, <1>3 DEF LandInv, NoLanding

\* The invariant of the branches: for any cards, processes and budgets.
THEOREM LandInvariance == Spec => []LandInv
<1>1. IInv /\ IInv' /\ LandInv /\ [Next]_vars => LandInv'
  <2> SUFFICES ASSUME IInv, IInv', LandInv, [Next]_vars PROVE LandInv'
    OBVIOUS
  <2>1. ASSUME NEW l \in Landings, Request(l) \/ Step(l) PROVE LandInv'
    BY <2>1, TurnLand, RebaseLand, MergeLand DEF Step
  <2>2. CASE UNCHANGED vars
    <3>1. UNCHANGED <<trunk, side, tip, spent, land, answer>>
      BY <2>2 DEF vars, git
    <3>2. \A k \in Outside : spent[k] <= spent'[k]
      BY <3>1, Git
    <3>3. answer' \in [Landings -> {"none", "landed", "bounced", "threw"}]
      BY <3>1 DEF LandInv
    <3>4. QED
      BY <3>1, <3>2, <3>3, LandKept
  <2>3. QED
    BY <2>1, <2>2, WorldLand DEF Next
<1>2. QED
  BY <1>1, InitLand, InitIInv, StepIInv, PTL DEF Spec

\* No change is on trunk twice and `landed` is never said of work that is nowhere, whatever
\* crashed after its landing and was landed again, and whoever commits beside it.
THEOREM LandingsAreTrueThm == Spec => []LandingsAreTrue
<1>1. LandInv => LandingsAreTrue
  BY DEF LandInv, LandingsAreTrue, LandedIsSomewhere
<1>2. QED
  BY <1>1, LandInvariance, PTL

=============================================================================
