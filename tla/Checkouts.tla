----------------------------- MODULE Checkouts -----------------------------
(***************************************************************************)
(* The list of checkouts the board serves (history/worktrees.mjs and       *)
(* worktreesFor of the board): gathered from the records of the moment,    *)
(* then completed by git processes, a few at a time, while terminals go on *)
(* and other readers ask.  A list is kept for a while, and the last one is *)
(* served while the next is in the making.                                 *)
(***************************************************************************)
EXTENDS Naturals, FiniteSets, Sequences

CONSTANTS
  Queries,      \* what may be asked: all of them, or without git status
  Repos, Paths, \* what git is asked about, in order
  Records,      \* the terminals recorded with the first of Paths, in the order of their names
  Concurrency,  \* git processes of one list in flight at once
  MaxNews,      \* what happens to the records in one behaviour
  MaxFanOuts    \* lists begun

CheckoutsAssumption ==
  /\ Concurrency \in Nat \ {0} /\ MaxNews \in Nat /\ MaxFanOuts \in Nat /\ Records \in Nat
  /\ Repos \in Seq({Repos[k] : k \in DOMAIN Repos}) /\ Paths \in Seq({Paths[k] : k \in DOMAIN Paths})

VARIABLES
  lives,     \* each terminal's record: "absent", "active" or "ended"
  news,      \* how often the records changed
  cache,     \* per query: the last list, and whether it is fresh
  inflight,  \* per query: the list in the making
  waits,     \* per query: somebody waits for it
  shown,     \* per query: the news that the last answer knew of
  fanOuts

listvars == <<lives, news, cache, inflight, waits, shown, fanOuts>>

NoList == [has |-> FALSE, fresh |-> FALSE, knows |-> 0, owner |-> 0, live |-> FALSE]
Idle == [phase |-> "idle", left |-> <<>>, running |-> {}, out |-> {}, knows |-> 0,
         seen |-> [r \in 1..Records |-> "absent"]]

CheckoutsInit ==
  /\ lives = [r \in 1..Records |-> "absent"] /\ news = 0 /\ fanOuts = 0
  /\ cache = [q \in Queries |-> NoList] /\ inflight = [q \in Queries |-> Idle]
  /\ waits = [q \in Queries |-> FALSE] /\ shown = [q \in Queries |-> 0]
-----------------------------------------------------------------------------
(* pooled: each worker takes the next item when its process answered.      *)
Pooled(q) ==
  LET p == inflight[q]
      started == IF Concurrency - Cardinality(p.running) < Len(p.left)
                 THEN Concurrency - Cardinality(p.running) ELSE Len(p.left)
  IN [p EXCEPT !.running = @ \cup {p.left[k] : k \in 1..started},
               !.left = SubSeq(p.left, started + 1, Len(p.left))]

(* The owner of a checkout (buildRows): the first terminal recorded with   *)
(* it, unless that one is finished and a later one lives.                  *)
Owner(seen) ==
  LET owner[r \in 0..Records] ==
        IF r = 0 THEN 0
        ELSE IF seen[r] = "absent" THEN owner[r - 1]
        ELSE IF owner[r - 1] = 0 \/ (seen[owner[r - 1]] # "active" /\ seen[r] = "active")
             THEN r ELSE owner[r - 1]
  IN owner[Records]
-----------------------------------------------------------------------------
(* A reader asks: a fresh list answers at once; otherwise a list is begun  *)
(* unless one is in the making, and the last one answers, if there is one. *)
Gathered == [Idle EXCEPT !.phase = "list", !.left = Repos, !.knows = news, !.seen = lives]

Answers(q, knows) == shown' = [shown EXCEPT ![q] = knows]

Asks(q) ==
  /\ IF cache[q].fresh \/ inflight[q].phase # "idle" THEN UNCHANGED <<inflight, fanOuts>>
     ELSE /\ fanOuts < MaxFanOuts /\ fanOuts' = fanOuts + 1
          /\ inflight' = [inflight EXCEPT ![q] = Gathered]
  /\ IF cache[q].has THEN Answers(q, cache[q].knows) /\ UNCHANGED waits
     ELSE waits' = [waits EXCEPT ![q] = TRUE] /\ UNCHANGED shown
  /\ UNCHANGED <<lives, news, cache>>

StartsGit(q) ==
  /\ inflight[q].phase # "idle" /\ Pooled(q) # inflight[q]
  /\ inflight' = [inflight EXCEPT ![q] = Pooled(q)]
  /\ UNCHANGED <<lives, news, cache, waits, shown, fanOuts>>

(* A process answers, fails or is stopped after five seconds: an answer.   *)
GitAnswers(q, item) ==
  /\ item \in inflight[q].running
  /\ inflight' = [inflight EXCEPT ![q].running = @ \ {item}, ![q].out = @ \cup {item}]
  /\ UNCHANGED <<lives, news, cache, waits, shown, fanOuts>>

PhaseEnds(q) ==
  /\ inflight[q].phase # "idle" /\ inflight[q].left = <<>> /\ inflight[q].running = {}
  /\ IF inflight[q].phase = "list" /\ q = "status"
     THEN /\ inflight' = [inflight EXCEPT ![q].phase = "status", ![q].left = Paths, ![q].out = {}]
          /\ UNCHANGED <<cache, waits, shown>>
     ELSE LET o == Owner(inflight[q].seen) IN
          /\ cache' = [cache EXCEPT ![q] =
               [has |-> TRUE, fresh |-> TRUE, knows |-> inflight[q].knows, owner |-> o,
                live |-> o # 0 /\ inflight[q].seen[o] = "active"]]
          /\ inflight' = [inflight EXCEPT ![q] = Idle]
          /\ IF waits[q] THEN Answers(q, inflight[q].knows) ELSE UNCHANGED shown
          /\ waits' = [waits EXCEPT ![q] = FALSE]
  /\ UNCHANGED <<lives, news, fanOuts>>

(* Twenty seconds on.                                                      *)
GoesStale(q) ==
  /\ cache[q].fresh /\ cache' = [cache EXCEPT ![q].fresh = FALSE]
  /\ UNCHANGED <<lives, news, inflight, waits, shown, fanOuts>>

RecordChanges(r) ==
  /\ news < MaxNews /\ news' = news + 1
  /\ lives' = [lives EXCEPT ![r] = CASE @ = "absent" -> "active" [] @ = "active" -> "ended"
                                       [] OTHER -> "absent"]
  /\ UNCHANGED <<cache, inflight, waits, shown, fanOuts>>

Items == {Repos[k] : k \in 1..Len(Repos)} \cup {Paths[k] : k \in 1..Len(Paths)}

CheckoutsNext ==
  \/ \E q \in Queries : \/ Asks(q) \/ StartsGit(q) \/ PhaseEnds(q) \/ GoesStale(q)
                        \/ \E item \in Items : GitAnswers(q, item)
  \/ \E r \in 1..Records : RecordChanges(r)
-----------------------------------------------------------------------------
CheckoutsTypeOK ==
  /\ lives \in [1..Records -> {"absent", "active", "ended"}] /\ news \in 0..MaxNews
  /\ \A q \in Queries : inflight[q].phase \in {"idle", "list", "status"}

(* A reader who asks again is never shown an older list than before,       *)
(* whichever list was kept or in the making in between.                    *)
NeverOlder == \A q \in Queries : shown'[q] >= shown[q]

(* However often the page asks, a query has no more git processes than its *)
(* share; a list is done only when each was answered.                      *)
FewProcesses ==
  \A q \in Queries :
    /\ Cardinality(inflight[q].running) <= Concurrency
    /\ waits[q] => inflight[q].phase # "idle"

AllWereAsked ==
  \A q \in Queries : (inflight[q].phase # "idle" /\ inflight'[q].phase # inflight[q].phase) =>
    inflight[q].out = {IF inflight[q].phase = "list" THEN Repos[k] ELSE Paths[k] :
                       k \in 1..Len(IF inflight[q].phase = "list" THEN Repos ELSE Paths)}

(* The list names a terminal that lives as the owner whenever one lived    *)
(* when the list was gathered.                                             *)
LiveOneOwns ==
  \A q \in Queries : inflight[q].phase # "idle" /\ inflight'[q].phase = "idle" =>
    ((\E r \in 1..Records : inflight[q].seen[r] = "active") <=> cache'[q].live)
=============================================================================
