------------------------------- MODULE Resume -------------------------------
(***************************************************************************)
(* The hand-off file of one checkout (resume.mjs, bundle.mjs, and the      *)
(* places of attach.mjs and server.mjs that call them).  Terminals that    *)
(* share the checkout write .leg/RESUME.md when they hand off and when     *)
(* they end, the board when it starts; whoever reads it asks git and the   *)
(* session records whether its stamp is still true.  A write takes two     *)
(* steps: what the stamp says is gathered, then the file is written.       *)
(***************************************************************************)
EXTENDS Naturals, FiniteSets

CONSTANTS Sharers,       \* the terminals of the checkout
          MaxWork,       \* bound: edits and commits
          MaxHandOffs,   \* bound: hand-offs and checkpoints, of all terminals
          MaxBoards      \* bound: starts of the board

VARIABLES
  work,       \* the checkout: HEAD, the set of dirty files, what is in them; each a version
  record,     \* per terminal: its status, and what its bundle describes
  place,      \* where each terminal stands
  hand,       \* what each is about to write
  ckpt,       \* per terminal: what a checkpoint in flight describes, or Idle
  pointer,    \* RESUME.md
  starter,    \* a board that starts: what it listed
  bounds,     \* hand-offs and boards so far
  moved       \* (history) why the file may not tell the truth

resumeVars == <<work, record, place, hand, ckpt, pointer, starter, bounds, moved>>

Absent == [kind |-> "absent"]
Unstamped == [kind |-> "unstamped"]
Idle == 99
NoBoardStart == [at |-> "none", list |-> {}, saw |-> Absent]

ActiveRecord == {"live", "dead"}
Active == {t \in Sharers : record[t].status \in ActiveRecord}

-----------------------------------------------------------------------------
(* What is written.                                                        *)

\* (mutant) The stamp of a hand-off names the other terminals only.
Stamp_Others(kind, t, live, of) ==
  [kind |-> kind, by |-> t, live |-> live \ {t}, of |-> of, head |-> work.head, names |-> work.names, text |-> work.text]
\* makeStamp: HEAD, a hash of the dirty files' names, the terminals; `of' is what the body describes.
Stamp(kind, t, live, of) ==
  [kind |-> kind, by |-> t, live |-> live, of |-> of, head |-> work.head, names |-> work.names, text |-> work.text]

-----------------------------------------------------------------------------
(* What is read: resumeVerdict.                                            *)

\* (mutant) Which terminals live is not asked.
Reasons_GitOnly(f, live) == IF f.kind = "handoff" /\ (f.head # work.head \/ f.names # work.names) THEN {"work"} ELSE {}
Reasons(f, live) ==
  (IF f.kind = "handoff" /\ (f.head # work.head \/ f.names # work.names) THEN {"work"} ELSE {})
  \cup (IF f.live \ live # {} THEN {"gone"} ELSE {})
  \cup (IF live \ f.live # {} THEN {"started"} ELSE {})
Verdict(live) ==
  IF pointer.kind \in {"absent", "unstamped"} THEN pointer.kind
  ELSE IF Reasons(pointer, live) = {} THEN "fresh" ELSE "stale"

-----------------------------------------------------------------------------
(* A terminal.                                                             *)

HandOffs == bounds.handoffs < MaxHandOffs /\ bounds' = [bounds EXCEPT !.handoffs = @ + 1]

Opens(t) ==
  /\ place[t] = "new" /\ place' = [place EXCEPT ![t] = "runs"]
  /\ record' = [record EXCEPT ![t].status = "live"]
  /\ UNCHANGED <<work, hand, ckpt, pointer, starter, bounds, moved>>

\* A checkpoint: the notes are taken now, the CLI runs off the tick, one at a time.
Checkpoints(t) ==
  /\ place[t] = "runs" /\ ckpt[t] = Idle /\ HandOffs
  /\ ckpt' = [ckpt EXCEPT ![t] = work.text]
  /\ UNCHANGED <<work, record, place, hand, pointer, starter, moved>>
CheckpointSaved(t) ==
  /\ ckpt[t] # Idle /\ ckpt' = [ckpt EXCEPT ![t] = Idle]
  /\ record' = [record EXCEPT ![t].bundle = ckpt[t]]
  /\ UNCHANGED <<work, place, hand, pointer, starter, bounds, moved>>

\* (mutant) The hand-off does not wait for a checkpoint.
GateIdle_Never(t) == TRUE
GateIdle(t) == ckpt[t] = Idle
\* The leg is over, the gate idle, the bundle saved, the next rung claimed.
HandsOff(t) ==
  /\ place[t] = "runs" /\ GateIdle(t) /\ HandOffs
  /\ record' = [record EXCEPT ![t] = [@ EXCEPT !.bundle = work.text]]
  /\ place' = [place EXCEPT ![t] = "saved"]
  /\ UNCHANGED <<work, hand, ckpt, pointer, starter, moved>>

\* The next agent keeps the conversation: nothing is written.
KeepsConversation(t) ==
  /\ place[t] = "saved" /\ place' = [place EXCEPT ![t] = "runs"]
  /\ UNCHANGED <<work, record, hand, ckpt, pointer, starter, bounds, moved>>

\* resumePrompt, writeHandoffPointer: the stamp is of now, the text of the bundle.
Gathers(t) ==
  /\ place[t] = "saved" /\ place' = [place EXCEPT ![t] = "gathered"]
  /\ hand' = [hand EXCEPT ![t] = Stamp("handoff", t, IF Active = {} THEN {t} ELSE Active, record[t].bundle)]
  /\ UNCHANGED <<work, record, ckpt, pointer, starter, bounds, moved>>
Writes(t) ==
  /\ place[t] = "gathered" /\ place' = [place EXCEPT ![t] = "runs"]
  /\ pointer' = hand[t] /\ hand' = [hand EXCEPT ![t] = Absent]
  /\ moved' = moved \ {"ended together"}
  /\ UNCHANGED <<work, record, ckpt, starter, bounds>>

\* The end: the record first; then, where there is a pointer, the idle one.
Ends(t) ==
  /\ place[t] = "saved" \/ (place[t] = "runs" /\ GateIdle(t))
  /\ record' = [record EXCEPT ![t].status = "ended"] /\ place' = [place EXCEPT ![t] = "ended"]
  /\ UNCHANGED <<work, hand, ckpt, pointer, starter, bounds, moved>>
EndGathers(t) ==
  /\ place[t] = "ended"
  /\ IF pointer = Absent THEN place' = [place EXCEPT ![t] = "over"] /\ UNCHANGED hand
     ELSE place' = [place EXCEPT ![t] = "idles"] /\ hand' = [hand EXCEPT ![t] = Stamp("idle", "none", Active, Idle)]
  /\ UNCHANGED <<work, record, ckpt, pointer, starter, bounds, moved>>
EndWrites(t) ==
  /\ place[t] = "idles" /\ place' = [place EXCEPT ![t] = "over"]
  /\ pointer' = hand[t] /\ hand' = [hand EXCEPT ![t] = Absent]
  /\ moved' = IF hand[t].live \subseteq Active THEN moved \ {"ended together"} ELSE moved \cup {"ended together"}
  /\ UNCHANGED <<work, record, ckpt, starter, bounds>>

\* The window is closed, or the runner killed: its record still says it is active.
Dies(t) ==
  /\ place[t] \notin {"new", "over", "dead"} /\ place' = [place EXCEPT ![t] = "dead"]
  /\ record' = [record EXCEPT ![t].status = IF @ \in ActiveRecord THEN "dead" ELSE @]
  /\ ckpt' = [ckpt EXCEPT ![t] = Idle] /\ hand' = [hand EXCEPT ![t] = Absent]
  /\ UNCHANGED <<work, pointer, starter, bounds, moved>>

-----------------------------------------------------------------------------
(* The board when it starts: refreshPointers.                              *)

Reaped == [t \in Sharers |-> [record[t] EXCEPT !.status = IF @ = "dead" THEN "lost" ELSE @]]
BoardLists ==
  /\ starter.at = "none" /\ bounds.boards < MaxBoards
  /\ bounds' = [bounds EXCEPT !.boards = @ + 1]
  /\ record' = Reaped
  /\ starter' = IF pointer = Absent \/ \A t \in Sharers : place[t] = "new" THEN starter
                ELSE [at |-> "listed", list |-> {t \in Sharers : record[t].status = "live"}, saw |-> pointer]
  /\ UNCHANGED <<work, place, hand, ckpt, pointer, moved>>

\* (mutant) Whatever is stale is rewritten.
Owned_Never(list) == FALSE
\* The hand-off of a terminal that still runs stays, whatever the repository did since.
Owned(list) == pointer.kind = "handoff" /\ pointer.by \in list
BoardJudges ==
  /\ starter.at = "listed"
  /\ starter' = IF Verdict(starter.list) = "fresh" \/ Owned(starter.list) THEN NoBoardStart ELSE [starter EXCEPT !.at = "judged", !.saw = pointer]
  /\ UNCHANGED <<work, record, place, hand, ckpt, pointer, bounds, moved>>
BoardWrites ==
  /\ starter.at = "judged" /\ starter' = NoBoardStart
  /\ pointer' = Stamp("idle", "none", starter.list, Idle)
  /\ moved' = IF starter.list \subseteq Active THEN moved \ {"ended together"} ELSE moved \cup {"ended together"}
  /\ UNCHANGED <<work, record, place, hand, ckpt, bounds>>

-----------------------------------------------------------------------------
(* Whoever works in the checkout.                                          *)

Works(kind) ==
  /\ work.text < MaxWork
  /\ kind = "again" => work.names > 0
  /\ work' = [head |-> IF kind = "commit" THEN work.head + 1 ELSE work.head,
              names |-> IF kind = "commit" THEN 0 ELSE IF kind = "edit" THEN work.text + 1 ELSE work.names,
              text |-> work.text + 1]
  /\ moved' = moved \cup (IF kind = "again" THEN {"a dirty file was edited again"} ELSE {})
  /\ UNCHANGED <<record, place, hand, ckpt, pointer, starter, bounds>>

ResumeInit ==
  /\ work = [head |-> 0, names |-> 0, text |-> 0]
  /\ record = [t \in Sharers |-> [status |-> "none", bundle |-> Idle]]
  /\ place = [t \in Sharers |-> "new"] /\ hand = [t \in Sharers |-> Absent]
  /\ ckpt = [t \in Sharers |-> Idle]
  /\ pointer \in {Absent, Unstamped}
  /\ starter = NoBoardStart /\ bounds = [handoffs |-> 0, boards |-> 0] /\ moved = {}

ResumeNext ==
  \/ \E t \in Sharers :
       \/ Opens(t) \/ Checkpoints(t) \/ CheckpointSaved(t) \/ HandsOff(t) \/ KeepsConversation(t)
       \/ Gathers(t) \/ Writes(t) \/ Ends(t) \/ EndGathers(t) \/ EndWrites(t) \/ Dies(t)
  \/ BoardLists \/ BoardJudges \/ BoardWrites
  \/ \E kind \in {"edit", "again", "commit"} : Works(kind)

ResumeSpec == ResumeInit /\ [][ResumeNext]_resumeVars

-----------------------------------------------------------------------------
(* A file that reads as current was written by a terminal that still runs,  *)
(* as far as the records know, and describes the checkout as it is; but for *)
(* work done between the bundle and the stamp, and for a file that was dirty *)
(* and is edited again, which the stamp does not see.                       *)
FreshIsTrue ==
  pointer.kind = "handoff" /\ Verdict(Active) = "fresh" =>
    /\ pointer.by \in Active
    /\ pointer.of = work.text \/ pointer.of # pointer.text \/ "a dirty file was edited again" \in moved

(* When every terminal has ended, and none just died, the file describes no *)
(* hand-off and no live terminal; but if two ended together, or one ended while the board started. *)
NothingLooksLive ==
  /\ \A t \in Sharers : place[t] \in {"new", "over"}
  /\ \E t \in Sharers : place[t] = "over"
  /\ starter = NoBoardStart
  => pointer = Absent \/ (pointer.kind = "idle" /\ (pointer.live = {} \/ "ended together" \in moved))

(* No checkpoint is being saved into the bundle a hand-off saves.           *)
OneSave == \A t \in Sharers : place[t] \in {"saved", "gathered", "ended", "idles", "over"} => ckpt[t] = Idle

PointerIsTrue == FreshIsTrue /\ NothingLooksLive /\ OneSave

(* The board that starts takes no hand-off from a terminal that runs, but for one written after   *)
(* it judged the file, and for one by a terminal that was not yet there when it listed them.       *)
Runs(t) == place[t] \in {"runs", "saved", "gathered"}
HandOffKept ==
  starter.at = "judged" /\ starter'.at = "none" /\ pointer.kind = "handoff" /\ Runs(pointer.by)
    => pointer # starter.saw \/ pointer.by \notin starter.list
BoardKeepsHandOff == [][HandOffKept]_resumeVars
=============================================================================
