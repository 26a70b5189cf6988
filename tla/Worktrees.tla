----------------------------- MODULE Worktrees -----------------------------
(***************************************************************************)
(* Who works in which checkout, and who may remove it (worktree.mjs and    *)
(* its callers).  A terminal works in the repository's own checkout unless *)
(* another one does, a card in a checkout cut for it, or in the checkout   *)
(* of the terminal it was born from; a human may sit down in a card's.     *)
(* The board and a command line remove terminals and cards while agents,   *)
(* people and the scheduler's processes go on: between the look at a       *)
(* checkout and its removal only git itself stands guard.                  *)
(***************************************************************************)
EXTENDS Naturals, FiniteSets

CONSTANTS
  Sessions,   \* terminals
  Jobs,       \* cards
  MaxOdd      \* the odd things of one behaviour: force, a removal at the
              \* command line, a shared checkout, a death of the board

Root == "root"
NoTree == "none"
Owners == Sessions \cup Jobs
Trees == Owners \cup {Root}
Doers == {"board", "cli"}

WorktreesAssumption ==
  MaxOdd \in Nat /\ Sessions \cap Jobs = {} /\ Root \notin Owners /\ NoTree \notin Owners

VARIABLES
  tree,    \* each checkout and its branch: there, with uncommitted files, with unmerged commits
  seat,    \* each terminal's record: its status and where it works
  job,     \* each card's: its status, its recorded checkout, the terminal it was born from
  agent,   \* where the agent a card's driver started runs
  timer,   \* cards the board queues when their terminal has stopped
  op,      \* what the board and a command line are in the middle of
  byHand,  \* terminals and cards that somebody put beside another one
  letGo,   \* checkouts whose record somebody let go, or lost in a race, with work in them
  odd      \* how many odd things happened

treevars == <<tree, seat, job, agent, timer, op, byHand, letGo, odd>>

Cut == [here |-> FALSE, dirty |-> FALSE, ahead |-> FALSE, branch |-> FALSE]
NoOp == [do |-> "none"]

WorktreesInit ==
  /\ tree = [x \in Trees |-> [Cut EXCEPT !.here = (x = Root), !.branch = (x = Root)]]
  /\ seat = [s \in Sessions |-> [status |-> "none", at |-> NoTree]]
  /\ job = [c \in Jobs |-> [status |-> "none", at |-> NoTree, from |-> NoTree]]
  /\ agent = [c \in Jobs |-> NoTree] /\ timer = {}
  /\ op = [d \in Doers |-> NoOp] /\ byHand = {} /\ letGo = {} /\ odd = 0

(* An odd thing happens, or not.                                           *)
Oddly(is) == (is => odd < MaxOdd) /\ odd' = IF is THEN odd + 1 ELSE odd

Active(s) == seat[s].status \in {"starting", "live"}
Exists(c) == job[c].status \notin {"none", "removed"}
Writers(x) == {s \in Sessions : seat[s].status = "live" /\ seat[s].at = x}
-----------------------------------------------------------------------------
(* ensure: the checkout if it is there, else one on its branch if that is, *)
(* else one on a new branch.                                               *)
Ensured(x) ==
  IF tree[x].here THEN tree
  ELSE [tree EXCEPT ![x] = [@ EXCEPT !.here = TRUE, !.dirty = FALSE, !.branch = TRUE]]

(* remove: git refuses a checkout with uncommitted files and a branch with *)
(* unmerged commits, except by force.                                      *)
\* (mutant) Git is told to remove the checkout whatever is in it.
RemovableAnyhow(x, force) == tree[x].here

Removable(x, force) == tree[x].here /\ (force \/ ~tree[x].dirty)
Deletable(x, force) == tree[x].branch /\ (force \/ ~tree[x].ahead)

Without(x, force, delBranch) ==
  [tree EXCEPT ![x] = IF delBranch /\ Deletable(x, force) THEN Cut
                      ELSE [@ EXCEPT !.here = FALSE, !.dirty = FALSE]]
-----------------------------------------------------------------------------
(* A terminal is recorded first, in the repository's checkout, and moves   *)
(* to one of its own when another live one is there (isolate); when git    *)
(* will not cut one, it shares.                                            *)
TermStarts(s) ==
  /\ seat[s].status = "none"
  /\ seat' = [seat EXCEPT ![s] = [status |-> "starting", at |-> Root]]
  /\ UNCHANGED <<tree, job, agent, timer, op, byHand, letGo, odd>>

Others(s) == {r \in Sessions \ {s} : Active(r) /\ seat[r].at = Root}

Isolates(s) ==
  /\ seat[s].status = "starting"
  /\ IF Others(s) = {}
     THEN seat' = [seat EXCEPT ![s].status = "live"] /\ UNCHANGED <<tree, byHand>>
     ELSE \/ /\ seat' = [seat EXCEPT ![s] = [status |-> "live", at |-> s]]
             /\ tree' = Ensured(s) /\ UNCHANGED byHand
          \/ /\ seat' = [seat EXCEPT ![s].status = "live"]
             /\ byHand' = byHand \cup {s} \cup Others(s) /\ UNCHANGED tree
  /\ Oddly(byHand' # byHand) /\ UNCHANGED <<job, agent, timer, op, letGo>>

(* leg --resume-card: in the card's checkout, whatever the card does now.  *)
Attaches(s, c) ==
  LET at == IF job[c].at # NoTree /\ tree[job[c].at].here THEN job[c].at ELSE c
  IN /\ seat[s].status = "none" /\ Exists(c) /\ tree[at].here
     /\ seat' = [seat EXCEPT ![s] = [status |-> "live", at |-> at]]
     /\ byHand' = byHand \cup IF job[c].status = "paused" /\ agent[c] = NoTree /\ Writers(at) = {}
                                 /\ \A d \in Jobs \ {c} : job[d].at # at
                              THEN {} ELSE {s, c} \cup Writers(at)
     /\ Oddly(byHand' # byHand) /\ UNCHANGED <<tree, job, agent, timer, op, letGo>>

TermEnds(s) ==
  /\ seat[s].status = "live" /\ seat' = [seat EXCEPT ![s].status = "ended"]
  /\ UNCHANGED <<tree, job, agent, timer, op, byHand, letGo, odd>>

(* Work: files are written, committed, and land on the base.               *)
Writing(x) == Writers(x) # {} \/ \E c \in Jobs : agent[c] = x

FilesChange(x) ==
  /\ tree[x].here /\ Writing(x) /\ tree' = [tree EXCEPT ![x].dirty = TRUE]
  /\ UNCHANGED <<seat, job, agent, timer, op, byHand, letGo, odd>>

Commits(x) ==
  /\ tree[x].dirty /\ tree' = [tree EXCEPT ![x].dirty = FALSE, ![x].ahead = (x # Root)]
  /\ UNCHANGED <<seat, job, agent, timer, op, byHand, letGo, odd>>

Lands(x) ==
  /\ tree[x].here /\ tree[x].ahead /\ ~tree[x].dirty /\ tree' = [tree EXCEPT ![x].ahead = FALSE]
  /\ UNCHANGED <<seat, job, agent, timer, op, byHand, letGo, odd>>
-----------------------------------------------------------------------------
(* Cards: queued by a human or the timer, started by the scheduler unless  *)
(* the terminal they were born from still lives in their checkout.         *)
CardAdded(c) ==
  /\ job[c].status = "none" /\ (\A d \in Doers : op[d].do = "endAsCard" => op[d].card # c)
  /\ job' = [job EXCEPT ![c].status = "queued"]
  /\ UNCHANGED <<tree, seat, agent, timer, op, byHand, letGo, odd>>

Adopted(c) == job[c].from # NoTree
HeldByLiveTerminal(c) == Adopted(c) /\ Active(job[c].from)

(* Run, Resume or Rerun; a human may press it while somebody sits there.   *)
Enqueues(c) ==
  /\ job[c].status \in {"backlog", "paused", "done"}
  /\ job' = [job EXCEPT ![c].status = "queued"]
  /\ byHand' = byHand \cup IF Writers(job[c].at) = {} \/ HeldByLiveTerminal(c) THEN {}
                           ELSE {c} \cup Writers(job[c].at)
  /\ Oddly(byHand' # byHand) /\ UNCHANGED <<tree, seat, agent, timer, op, letGo>>

(* driveCard: the adopted checkout if it is still there, else its own.     *)
Drives(c) ==
  LET at == IF Adopted(c) /\ tree[job[c].at].here THEN job[c].at ELSE c
  IN /\ agent[c] = NoTree
     /\ tree' = IF at = c THEN Ensured(c) ELSE tree
     /\ job' = [job EXCEPT ![c].status = "running", ![c].at = at]
     /\ agent' = [agent EXCEPT ![c] = at]
     /\ UNCHANGED <<seat, timer, op, letGo>>

SchedulerStarts(c) ==
  job[c].status = "queued" /\ ~HeldByLiveTerminal(c) /\ Drives(c) /\ UNCHANGED <<byHand, odd>>

(* leg card run asks nothing of the terminal.                              *)
RunsByHand(c) ==
  /\ job[c].status \in {"backlog", "queued"} /\ Drives(c)
  /\ byHand' = byHand \cup IF HeldByLiveTerminal(c) THEN {c, job[c].from} ELSE {}
  /\ Oddly(byHand' # byHand)

AgentStops(c) ==
  /\ agent[c] # NoTree /\ agent' = [agent EXCEPT ![c] = NoTree]
  /\ job' = [job EXCEPT ![c].status = IF @ = "running" THEN "done" ELSE @]
  /\ UNCHANGED <<tree, seat, timer, op, byHand, letGo, odd>>

(* Take over: paused first, its child is killed a moment later; a card     *)
(* without a checkout gets one now.                                        *)
TakesOver(c) ==
  /\ job[c].status \in {"backlog", "queued", "running", "paused"}
  /\ LET has == job[c].at # NoTree /\ tree[job[c].at].here
     IN /\ job' = [job EXCEPT ![c].status = "paused", ![c].at = IF has THEN @ ELSE c]
        /\ tree' = IF has THEN tree ELSE Ensured(c)
  /\ UNCHANGED <<seat, agent, timer, op, byHand, letGo, odd>>

(* End, and keep going as a card: the uncommitted work is read before the  *)
(* card is made, and its making is awaited.                                *)
EndsAsCard(s, c) ==
  /\ op["board"] = NoOp /\ seat[s].status = "live" /\ seat[s].at \in {Root, s}
  /\ job[c].status = "none"
  /\ op' = [op EXCEPT !["board"] = [do |-> "endAsCard", term |-> s, card |-> c,
                                    carried |-> tree[Root].dirty]]
  /\ UNCHANGED <<tree, seat, job, agent, timer, byHand, letGo, odd>>

(* The card adopts the terminal's own checkout and waits for it to stop;    *)
(* a second one, asked for before it did, adopts the same...               *)
CardAdopts ==
  LET s == op["board"].term  c == op["board"].card
      others == {d \in Jobs : job[d].from = s}
  IN /\ op["board"].do = "endAsCard" /\ seat[s].at = s
     /\ job' = [job EXCEPT ![c] = [status |-> "backlog", at |-> s, from |-> s]]
     /\ timer' = timer \cup {c} /\ op' = [op EXCEPT !["board"] = NoOp]
     /\ byHand' = byHand \cup IF others = {} THEN {} ELSE {c} \cup others \cup Writers(s)
     /\ Oddly(byHand' # byHand) /\ UNCHANGED <<tree, seat, agent, letGo>>

(* ...or gets one with a copy of the work and is queued at once; if the     *)
(* work does not apply, the card and its checkout are taken back.           *)
CardCarries ==
  LET s == op["board"].term  c == op["board"].card
  IN /\ op["board"].do = "endAsCard" /\ seat[s].at = Root
     /\ \/ /\ tree' = [Ensured(c) EXCEPT ![c].dirty = op["board"].carried]
           /\ job' = [job EXCEPT ![c] = [status |-> "queued", at |-> c, from |-> NoTree]]
        \/ op["board"].carried /\ UNCHANGED <<tree, job>>
     /\ op' = [op EXCEPT !["board"] = NoOp]
     /\ UNCHANGED <<seat, agent, timer, byHand, letGo, odd>>

(* The timer queues the card when the terminal has stopped, and gives up   *)
(* after ten minutes or when the card is not in the backlog any more.      *)
TimerFires(c) ==
  /\ c \in timer /\ timer' = timer \ {c}
  /\ job' = IF job[c].status = "backlog" /\ ~Active(job[c].from)
            THEN [job EXCEPT ![c].status = "queued"] ELSE job
  /\ UNCHANGED <<tree, seat, agent, op, byHand, letGo, odd>>

BoardDies ==
  /\ (timer # {} \/ op["board"] # NoOp)
  /\ timer' = {} /\ op' = [op EXCEPT !["board"] = NoOp]
  /\ Oddly(TRUE) /\ UNCHANGED <<tree, seat, job, agent, byHand, letGo>>
-----------------------------------------------------------------------------
(* Removing a terminal looks at its checkout (pruneSessionWorktree) and,   *)
(* if nothing would be lost, removes it and its branch.  The board keeps   *)
(* the record of one it could not remove, unless it is forced; the command *)
(* line drops it and says so.                                              *)
Clean(x) == tree[x].here /\ ~tree[x].dirty /\ ~tree[x].ahead

Forgets(s) == seat' = [seat EXCEPT ![s].status = "removed"]
Work(x) == tree[x].dirty \/ tree[x].ahead

RemovesTerminal(d, s, force) ==
  /\ op[d] = NoOp /\ seat[s].status = "ended"
  /\ IF seat[s].at = s /\ Clean(s)
     THEN /\ op' = [op EXCEPT ![d] = [do |-> "rmTerm", id |-> s, force |-> force, saw |-> tree[s]]]
          /\ UNCHANGED <<seat, letGo>>
     ELSE /\ seat[s].at # s \/ force \/ d = "cli"
          /\ Forgets(s) /\ letGo' = letGo \cup IF seat[s].at = s THEN {s} ELSE {}
          /\ UNCHANGED op
  /\ Oddly(force \/ d = "cli") /\ UNCHANGED <<tree, job, agent, timer, byHand>>

TerminalRemoved(d) ==
  LET s == op[d].id
      removed == Removable(s, FALSE)
  IN /\ op[d].do = "rmTerm"
     /\ tree' = IF removed THEN Without(s, FALSE, TRUE) ELSE tree
     /\ IF removed \/ op[d].force \/ d = "cli"
        THEN Forgets(s) /\ letGo' = letGo \cup IF tree[s] # op[d].saw THEN {s} ELSE {}
        ELSE UNCHANGED <<seat, letGo>>
     /\ op' = [op EXCEPT ![d] = NoOp]
     /\ UNCHANGED <<job, agent, timer, byHand, odd>>

(* Removing a card looks at the checkout of the card's own name, on the    *)
(* board only; the board drops the record also when git refused the        *)
(* checkout, and keeps it when the branch has the only copy of commits.    *)
RemovesCard(d, c, force, delBranch) ==
  /\ op[d] = NoOp /\ Exists(c)
  /\ d = "board" => job[c].status # "running" /\ (force \/ ~tree[c].dirty)
  /\ op' = [op EXCEPT ![d] = [do |-> "rmCard", id |-> c, force |-> force, branch |-> delBranch,
                              saw |-> tree[c]]]
  /\ Oddly(force \/ d = "cli") /\ UNCHANGED <<tree, seat, job, agent, timer, byHand, letGo>>

CardRemoved(d) ==
  LET c == op[d].id
      refused == tree[c].here /\ ~Removable(c, op[d].force)
      kept == IF refused THEN d = "cli"
              ELSE d = "board" /\ op[d].branch /\ ~Deletable(c, op[d].force)
  IN /\ op[d].do = "rmCard"
     /\ tree' = IF refused THEN tree ELSE Without(c, op[d].force, op[d].branch)
     /\ job' = IF kept \/ ~Exists(c) THEN job ELSE [job EXCEPT ![c].status = "removed"]
     /\ letGo' = letGo \cup IF ~kept /\ (op[d].force \/ d = "cli" \/ tree[c] # op[d].saw
                                         \/ ~op[d].branch)
                            THEN {c} ELSE {}
     /\ op' = [op EXCEPT ![d] = NoOp]
     /\ UNCHANGED <<seat, agent, timer, byHand, odd>>

WorktreesNext ==
  \/ \E s \in Sessions : \/ TermStarts(s) \/ Isolates(s) \/ TermEnds(s)
                         \/ \E c \in Jobs : Attaches(s, c) \/ EndsAsCard(s, c)
                         \/ \E d \in Doers, force \in BOOLEAN : RemovesTerminal(d, s, force)
  \/ \E x \in Trees : FilesChange(x) \/ Commits(x) \/ Lands(x)
  \/ \E c \in Jobs : \/ CardAdded(c) \/ Enqueues(c) \/ SchedulerStarts(c) \/ RunsByHand(c)
                     \/ AgentStops(c) \/ TakesOver(c) \/ TimerFires(c)
                     \/ \E d \in Doers, force, branch \in BOOLEAN : RemovesCard(d, c, force, branch)
  \/ \E d \in Doers : TerminalRemoved(d) \/ CardRemoved(d)
  \/ CardAdopts \/ CardCarries \/ BoardDies
-----------------------------------------------------------------------------
WorktreesTypeOK ==
  /\ tree \in [Trees -> [here : BOOLEAN, dirty : BOOLEAN, ahead : BOOLEAN, branch : BOOLEAN]]
  /\ timer \subseteq Jobs /\ letGo \subseteq Owners /\ byHand \subseteq Owners

(* Uncommitted files and unmerged commits go only by force, whatever       *)
(* changed between the look at a checkout and its removal.                 *)
WorkIsKept ==
  \A x \in Owners :
    \/ tree[x].dirty /\ ~tree'[x].here
    \/ tree[x].ahead /\ ~tree'[x].branch
    => \E d \in Doers : op[d] # op'[d] /\ op[d].do = "rmCard" /\ op[d].force

(* Two that write never share a checkout, be they terminals or a card's    *)
(* agent and a terminal, unless somebody put them there by hand: a second  *)
(* terminal that could not be isolated, `--resume-card` on a card that is  *)
(* not at rest, Resume while somebody sits there, `leg card run`, two cards *)
(* made of one terminal.                                                   *)
OneWriter ==
  \A x \in Trees :
    LET agents == {c \in Jobs : agent[c] = x}
    IN Cardinality(Writers(x)) + Cardinality(agents) > 1 => Writers(x) \cup agents \subseteq byHand

(* Work that is not on its base is in a checkout some record names, except *)
(* where the record was dropped by force, by the command line, or because  *)
(* the work came between the look and the removal.                         *)
WorkIsNamed ==
  \A x \in Owners : (tree[x].here /\ Work(x)) =>
    \/ x \in letGo
    \/ x \in Sessions /\ seat[x].status # "removed"
    \/ x \in Jobs /\ Exists(x)
    \/ \E c \in Jobs : Exists(c) /\ job[c].at = x
=============================================================================
