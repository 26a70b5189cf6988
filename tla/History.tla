------------------------------- MODULE History -------------------------------
(***************************************************************************)
(* The conversation index (src/history): every agent keeps its transcripts *)
(* in its own store, Leg keeps one file that lists them, and a listing     *)
(* merges into it the terminals Leg supervised, so that a conversation is  *)
(* shown once, says who runs it, and can be continued under Leg only when  *)
(* Leg is not running it already.                                          *)
(*                                                                         *)
(* A refresh takes long: the board runs it in a child process, a command   *)
(* line does it inline, and in between agents write, stores break, turn    *)
(* unreadable or go away, and terminals start and end.  Only a scan that   *)
(* throws is an error to it: a store or a file that cannot be read is      *)
(* taken for one that holds nothing.                                       *)
(***************************************************************************)
EXTENDS Naturals, FiniteSets, Sequences

CONSTANTS
  StoreOrder,        \* the stores, one per provider and account, as a refresh scans them
  Kind,         \* of each store: "claude", "codex" or "grok"
  Transcripts, Old,  \* the files they may hold, and those they hold from the start
  Convs,        \* conversations
  StoreOf, ConvOf,  \* of each transcript
  Refreshers,   \* processes that may refresh the index
  MaxTerms,     \* terminals Leg starts
  MaxHappens,   \* what agents, stores and terminals do in one behaviour
  MaxOutside    \* how much of it is not the terminals' doing

Stores == {StoreOrder[k] : k \in 1..Len(StoreOrder)}

HistoryAssumption ==
  /\ Kind \in [Stores -> {"claude", "codex", "grok"}] /\ MaxTerms \in Nat /\ MaxHappens \in Nat
  /\ StoreOf \in [Transcripts -> Stores] /\ ConvOf \in [Transcripts -> Convs]
  /\ StoreOrder \in Seq(Stores) /\ "free" \notin Refreshers

VARIABLES
  stamp,     \* the state of each transcript: when it was last written (0: it is not there)
  unparsed,      \* those of them that do not parse now (half written)
  store,     \* [Stores -> "here", "broken" (its scan throws), "unreadable" or "gone"]
  running,   \* conversations the user runs without Leg
  listed,    \* conversations grok's own list of running ones still names after a crash
  term,      \* Leg's terminals: session.json of each, in the order of their names
  index,     \* history/index.json
  ilock,     \* who holds .index.lock
  refresh,   \* what each refresher is doing
  asked,     \* `leg history continue`: the conversation it was answered for
  happened,  \* a clock
  outside,   \* how much of it was not the terminals' doing
  away,      \* transcripts that at some time could not be read, or were not to be kept
  stolen     \* a refresh outlived its lock

hisvars == <<stamp, unparsed, store, running, listed, term, index, ilock, refresh, asked, happened, outside, away, stolen>>

Terms == 1..MaxTerms
NoConv == "none"
Never == [entries |-> [t \in Transcripts |-> 0], live |-> {}]
NoTerm == [status |-> "none", runs |-> NoConv, learned |-> {}, updated |-> 0, beside |-> {}]
AtRest == [at |-> 0, full |-> FALSE, next |-> [s \in Stores |-> Never]]

NotAsked == [conv |-> NoConv, beside |-> {}]
Active(i) == term[i].status = "active"

HistoryInit ==
  /\ stamp = [t \in Transcripts |-> IF t \in Old THEN 1 ELSE 0]
  /\ unparsed = {} /\ store = [s \in Stores |-> "here"] /\ running = {} /\ listed = {}
  /\ term = [i \in Terms |-> NoTerm]
  /\ index = [s \in Stores |-> Never] /\ ilock = "free"
  /\ refresh = [p \in Refreshers |-> AtRest]
  /\ asked = NotAsked /\ happened = 1 /\ outside = 0 /\ away = {} /\ stolen = FALSE
-----------------------------------------------------------------------------
(* The flat list (recordsOf): one row per conversation, the newer of its   *)
(* files; and whether the store it is in says that a process runs it.      *)
Listed(c) == {t \in Transcripts : ConvOf[t] = c /\ index[StoreOf[t]].entries[t] # 0}

RowFile(c) ==
  CHOOSE t \in Listed(c) : \A u \in Listed(c) :
    index[StoreOf[u]].entries[u] <= index[StoreOf[t]].entries[t]

MarkedLive(c) == c \in index[StoreOf[RowFile(c)]].live

(* The terminals are folded into the row in the order of their names       *)
(* (mergeWithSessions and its `claim`): an active one always takes it, a   *)
(* finished one only from an older finished one.                           *)
Takes(row, i) ==
  row.named = 0 \/ Active(i) \/ (~row.live /\ term[i].updated > row.updated)

Claim(row, i) ==
  [named |-> IF Takes(row, i) THEN i ELSE row.named,
   updated |-> IF Takes(row, i) THEN term[i].updated ELSE row.updated,
   live |-> row.live \/ Active(i)]

Merged(c) ==
  LET fold[i \in 0..MaxTerms] ==
        IF i = 0 THEN [named |-> 0, updated |-> 0, live |-> MarkedLive(c)]
        ELSE IF c \in term[i].learned THEN Claim(fold[i - 1], i) ELSE fold[i - 1]
  IN fold[MaxTerms]

(* Never a conversation Leg is running (resumeSpec).                       *)
CanContinue(c) == ~(Merged(c).named # 0 /\ Merged(c).live)
-----------------------------------------------------------------------------
(* A refresh reads the last index under the lock (refreshIndex; a full one *)
(* starts from none), replaces what it says of one store after another by  *)
(* what a scan finds, and writes the new index as a whole.                 *)
World == <<stamp, unparsed, store, running, listed, term, asked, happened, outside>>
Scanning(p) == refresh[p].at # 0

RefreshStarts(p, full) ==
  /\ ~Scanning(p) /\ ilock = "free" /\ ilock' = p
  /\ refresh' = [refresh EXCEPT ![p] =
                   [AtRest EXCEPT !.at = 1, !.full = full, !.next = IF full THEN @ ELSE index]]
  /\ UNCHANGED <<World, away, index, stolen>>

(* Every provider lists what its store holds and can be parsed (a file      *)
(* whose stamp is the one of the last index is not read again).  claude     *)
(* says which conversations a process that is alive runs; grok's list is    *)
(* believed as it stands, also for a process that died; codex says nothing. *)
Held(s) == [t \in Transcripts |-> IF StoreOf[t] = s /\ t \notin unparsed THEN stamp[t] ELSE 0]
Alive == running \cup {term[i].runs : i \in {j \in Terms : Active(j)}}

ClaudeScan(s) == [entries |-> Held(s), live |-> Alive]
CodexScan(s) == [entries |-> Held(s), live |-> {}]
GrokScan(s) == [entries |-> Held(s), live |-> Alive \cup listed]
Lists(s) ==
  CASE Kind[s] = "claude" -> ClaudeScan(s)
    [] Kind[s] = "grok" -> GrokScan(s)
    [] OTHER -> CodexScan(s)

\* (mutant) A store that throws is taken for an empty one.
ScannedAnew(s, prev) ==
  IF store[s] # "here" THEN Never ELSE Lists(s)

(* A store that throws keeps what was known; one that is gone drops out,   *)
(* and one whose directories cannot be read scans as an empty one.         *)
Scanned(s, prev) ==
  CASE store[s] \in {"gone", "unreadable"} -> Never
    [] store[s] = "broken" -> prev
    [] OTHER -> Lists(s)

In(s) == {t \in Transcripts : StoreOf[t] = s}

ScansStore(p) ==
  /\ Scanning(p) /\ refresh[p].at <= Len(StoreOrder)
  /\ LET s == StoreOrder[refresh[p].at]
     IN /\ refresh' = [refresh EXCEPT ![p].at = @ + 1,
                                      ![p].next[s] = Scanned(s, @)]
        /\ away' = IF refresh[p].full /\ store[s] = "broken" THEN away \cup In(s) ELSE away
  /\ UNCHANGED <<World, index, ilock, stolen>>

RefreshEnds(p) ==
  /\ refresh[p].at > Len(StoreOrder)
  /\ index' = refresh[p].next /\ ilock' = "free"
  /\ refresh' = [refresh EXCEPT ![p] = AtRest]
  /\ UNCHANGED <<World, away, stolen>>

(* Five seconds on, whoever waits for the lock takes it for a dead one's.  *)
LockIsStolen(p) ==
  /\ ilock = p /\ Scanning(p) /\ \E q \in Refreshers \ {p} : ~Scanning(q)
  /\ ilock' = "free" /\ stolen' = TRUE
  /\ UNCHANGED <<World, away, index, refresh>>

(* A refresher dies (the board's child is stopped after two minutes): its  *)
(* lock is stale after five seconds, and the last index stays.             *)
RefreshDies(p) ==
  /\ Scanning(p)
  /\ refresh' = [refresh EXCEPT ![p] = AtRest]
  /\ ilock' = IF ilock = p THEN "free" ELSE ilock
  /\ UNCHANGED <<World, away, index, stolen>>
-----------------------------------------------------------------------------
(* What goes on meanwhile.                                                 *)
Ticks == happened < MaxHappens /\ happened' = happened + 1
Happens == Ticks /\ UNCHANGED outside
HappensOutside == Ticks /\ outside < MaxOutside /\ outside' = outside + 1
Machine == <<index, ilock, refresh, stolen>>

(* An agent writes its transcript, or is caught in the middle of it.       *)
Writes(t, whole) ==
  /\ HappensOutside /\ store[StoreOf[t]] # "gone"
  /\ ConvOf[t] \in Alive
  /\ stamp' = [stamp EXCEPT ![t] = happened + 1]
  /\ unparsed' = IF whole THEN unparsed \ {t} ELSE unparsed \cup {t}
  /\ away' = IF whole THEN away ELSE away \cup {t}
  /\ UNCHANGED <<store, running, listed, term, asked, Machine>>

Removed(t) ==
  /\ HappensOutside /\ stamp[t] # 0 /\ stamp' = [stamp EXCEPT ![t] = 0] /\ away' = away \cup {t}
  /\ UNCHANGED <<unparsed, store, running, listed, term, asked, Machine>>

StoreTurns(s, how) ==
  /\ HappensOutside /\ store[s] # how /\ store' = [store EXCEPT ![s] = how]
  /\ away' = IF how \in {"gone", "unreadable"} THEN away \cup In(s) ELSE away
  /\ UNCHANGED <<stamp, unparsed, running, listed, term, asked, Machine>>

UserRuns(c) ==
  /\ HappensOutside /\ running' = IF c \in running THEN running \ {c} ELSE running \cup {c}
  /\ UNCHANGED <<stamp, unparsed, store, listed, term, asked, away, Machine>>

(* A terminal starts a conversation of its own; the agent's id for it is   *)
(* known to Leg only from the agent's first word, or at a hand-off never.  *)
Unused(c) == \A t \in Transcripts : ConvOf[t] = c => stamp[t] = 0 /\ index[StoreOf[t]].entries[t] = 0
NextTerm == CHOOSE i \in Terms : term[i].status = "none" /\ \A j \in 1..(i - 1) : term[j].status # "none"
HasRoom == \E i \in Terms : term[i].status = "none"

TermStarts(c) ==
  /\ Happens /\ HasRoom /\ Unused(c) /\ \A i \in Terms : term[i].runs # c
  /\ term' = [term EXCEPT ![NextTerm] = [NoTerm EXCEPT !.status = "active", !.runs = c,
                                                       !.updated = happened + 1]]
  /\ UNCHANGED <<stamp, unparsed, store, running, listed, asked, away, Machine>>

Learns(i) ==
  /\ Active(i) /\ term[i].runs \notin term[i].learned
  /\ term' = [term EXCEPT ![i].learned = @ \cup {term[i].runs}]
  /\ UNCHANGED <<stamp, unparsed, store, running, listed, asked, happened, outside, away, Machine>>

(* The next leg runs another conversation; the earlier one stays in        *)
(* agent_sessions.                                                         *)
HandsOff(i, c) ==
  /\ Happens /\ Active(i) /\ Unused(c) /\ \A j \in Terms : term[j].runs # c
  /\ term' = [term EXCEPT ![i].runs = c, ![i].updated = happened + 1]
  /\ UNCHANGED <<stamp, unparsed, store, running, listed, asked, away, Machine>>

(* An agent that dies leaves its conversation on its own list.             *)
TermEnds(i, dies) ==
  /\ Happens /\ Active(i)
  /\ term' = [term EXCEPT ![i].status = "ended", ![i].updated = happened + 1]
  /\ listed' = IF dies THEN listed \cup {term[i].runs} ELSE listed
  /\ UNCHANGED <<stamp, unparsed, store, running, asked, away, Machine>>

(* An ended terminal's record is still written (a landing, a rename).      *)
RecordTouched(i) ==
  /\ Happens /\ term[i].status = "ended" /\ term' = [term EXCEPT ![i].updated = happened + 1]
  /\ UNCHANGED <<stamp, unparsed, store, running, listed, asked, away, Machine>>

(* `leg history continue`: the verdict is read from the index and the      *)
(* terminals' records, the new terminal is recorded some time later.       *)
Beside(c) == {i \in Terms : Active(i) /\ term[i].runs = c}

Continues(c) ==
  /\ asked = NotAsked /\ HasRoom /\ Listed(c) # {} /\ CanContinue(c)
  /\ asked' = [conv |-> c, beside |-> {i \in Beside(c) : c \in term[i].learned}]
  /\ UNCHANGED <<stamp, unparsed, store, running, listed, term, happened, outside, away, Machine>>

(* The new terminal knows the conversation's id from the start.  Beside it *)
(* are the terminals that were known to run it when it was asked for.      *)
Attaches ==
  /\ asked # NotAsked /\ HasRoom /\ Happens
  /\ term' = [term EXCEPT ![NextTerm] =
                [status |-> "active", runs |-> asked.conv, learned |-> {asked.conv},
                 updated |-> happened + 1, beside |-> asked.beside]]
  /\ asked' = NotAsked
  /\ UNCHANGED <<stamp, unparsed, store, running, listed, away, Machine>>

HistoryNext ==
  \/ \E p \in Refreshers : \/ \E full \in BOOLEAN : RefreshStarts(p, full)
                            \/ ScansStore(p) \/ RefreshEnds(p) \/ LockIsStolen(p) \/ RefreshDies(p)
  \/ \E t \in Transcripts : Removed(t) \/ \E whole \in BOOLEAN : Writes(t, whole)
  \/ \E s \in Stores, how \in {"here", "broken", "unreadable", "gone"} : StoreTurns(s, how)
  \/ \E c \in Convs : UserRuns(c) \/ TermStarts(c) \/ Continues(c)
  \/ \E i \in Terms : Learns(i) \/ TermEnds(i, FALSE) \/ TermEnds(i, TRUE) \/ RecordTouched(i) \/ \E c \in Convs : HandsOff(i, c)
  \/ Attaches
-----------------------------------------------------------------------------
HistoryTypeOK ==
  /\ stamp \in [Transcripts -> 0..MaxHappens] /\ unparsed \subseteq Transcripts /\ ilock \in Refreshers \cup {"free"}
  /\ \A s \in Stores : index[s] \in [entries : [Transcripts -> 0..MaxHappens], live : SUBSET (Convs \cup {NoConv})]

(* A conversation is never continued beside a terminal that was known to   *)
(* run it when it was asked for, whatever finished terminals had it before *)
(* or after.  (Two that are asked for at once, and one whose id Leg has    *)
(* not learned, do run twice.)                                             *)
NeverBesideAKnownOne == \A i \in Terms : term[i].beside = {}

(* The row of a conversation names the terminal a reader must look at: one *)
(* that is active if there is one, and otherwise, unless the store says    *)
(* that somebody else runs it, the one that was touched last.              *)
RowNamesTheRightOne ==
  \A c \in Convs :
    LET known == {i \in Terms : c \in term[i].learned}
        active == {i \in known : Active(i)}
        named == Merged(c).named
    IN (Listed(c) # {} /\ known # {}) =>
         IF active # {} THEN named \in active
         ELSE MarkedLive(c) \/ \A i \in known : term[i].updated <= term[named].updated

(* As long as no refresh outlived its lock, the index never goes back: an  *)
(* entry is replaced by a newer reading of the same file or dropped because *)
(* the file, or its store, was missing or could not be read, and a store   *)
(* whose scan throws keeps what was known unless a full refresh was asked. *)
IndexMovesForward ==
  ~stolen => \A t \in Transcripts :
    LET was == index[StoreOf[t]].entries[t]
        is == index'[StoreOf[t]].entries[t]
    IN is >= was \/ t \in away
=============================================================================
