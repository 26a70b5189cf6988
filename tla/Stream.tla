------------------------------- MODULE Stream -------------------------------
(***************************************************************************)
(* What a page of the board knows (server.mjs createSse and the routes     *)
(* that answer with a view; board.js connectSse, fetchCards).  The server  *)
(* sends the whole view of the terminals when a page connects, and again   *)
(* when a watcher of the files or a health tick finds that a fingerprint   *)
(* of them moved; cards travel one at a time.  Other processes write these *)
(* files at any moment, a page also asks for the view and the cards by     *)
(* itself, and its connection drops and comes back.                        *)
(*                                                                         *)
(* The server is one thread: a view is built and sent, and the fingerprint *)
(* taken after it, with no other handler in between; the others' writes    *)
(* fall between the two.  A fingerprint is the number of writes so far.    *)
(***************************************************************************)
EXTENDS Naturals, Sequences, FiniteSets

CONSTANTS
  Terminals, Cards,
  Settings,      \* what may happen, a set of records: how often others write (changes), the page's
                 \* connection breaks (drops), the page asks for the view itself (asks); whether the
                 \* sessions tree cannot be watched (deaf), another page is open (others), the viewer
                 \* is a guest, who has no part in the cards (guest); how the cards are (card)
  MaxWire        \* messages on their way to the page

ASSUME StreamBounds ==
  /\ MaxWire \in Nat \ {0}
  /\ \A s \in Settings : {s.changes, s.drops, s.asks} \subseteq Nat /\ {s.deaf, s.others, s.guest} \subseteq BOOLEAN

VARIABLES
  status,        \* session.json of each terminal: "live", "over" or "gone"
  dead,          \* the live ones whose runner has died
  stamp,         \* how many writes the sessions tree has seen
  card,          \* card.json: "running", "waiting" or "gone"
  pref,          \* the version of the preferences
  changes,       \* how much others may still write

  deaf,          \* the watch on the sessions tree could not be set
  others, guest, \* another page is open; the viewer of this one is a guest
  ghosts,        \* broken connections the server has not noticed
  watch,         \* watchers and health tick are on
  timer, force,  \* a push is due; whatever the fingerprint says
  pend,          \* the cards a watcher named
  fp,            \* lastFingerprint
  noted,         \* waitingCards
  cached,        \* cardsWaitingCache: {} or {the cards that were waiting}
  job,           \* between a view and what is recorded of it: "none", "push", "hello"

  conn,          \* the page's connection: "down", "asked", "open"
  wire,          \* what is on its way
  viewGet,       \* GET /api/sessions: asked, answered, and whether a push is newer
  cardsGet,      \* GET /api/cards, and whether its answer still counts
  asks, drops,
  view,          \* what the page has
  cardRow,

  late,          \* (history) a terminal moved behind the fingerprint of the last view sent
  missed,        \* (history) cards that moved between a hello and its watch, and not since
  unnoted,       \* (history) cards the views sent and waitingCards may disagree about
  overtaken      \* (history) the page took an answer older than a push

files == <<status, dead, stamp, card, pref, changes>>
hints == <<timer, force, pend>>
server == <<deaf, others, guest, ghosts, watch, hints, fp, noted, cached, job>>
gets == <<viewGet, cardsGet, asks>>
data == <<view, cardRow>>
history == <<late, missed, unnoted, overtaken>>
streamVars == <<files, server, conn, wire, gets, drops, data, history>>

Waiting == {c \in Cards : card[c] = "waiting"}
View == [status : [Terminals -> {"live", "over", "gone"}], waiting : SUBSET Cards, pref : Nat]
NoView == [status |-> [t \in Terminals |-> "gone"], waiting |-> {}, pref |-> 0]
NoCards == [is |-> "unasked", counts |-> FALSE, card |-> [c \in Cards |-> "gone"]]
NoAnswer == [is |-> "none", old |-> FALSE, view |-> NoView]
Message ==
  [kind : {"hello"}, view : View, card : [Cards -> {"running", "waiting", "gone"}]]
  \cup [kind : {"sessions"}, view : View]
  \cup [kind : {"card"}, id : Cards, now : {"running", "waiting", "gone"}]

StreamTypeOK ==
  /\ status \in [Terminals -> {"live", "over", "gone"}]
  /\ dead \subseteq {t \in Terminals : status[t] = "live"}
  /\ stamp \in Nat /\ fp \in Nat /\ fp <= stamp
  /\ card \in [Cards -> {"running", "waiting", "gone"}]
  /\ pend \subseteq Cards /\ noted \subseteq Cards /\ unnoted \subseteq Cards
  /\ watch \in BOOLEAN /\ (timer \/ pend # {} => watch)
  /\ job \in {"none", "push", "hello"}
  /\ conn \in {"down", "asked", "open"}
  /\ wire \in Seq(Message) /\ Len(wire) <= MaxWire /\ (conn # "open" => wire = <<>>)
  /\ view \in View

-----------------------------------------------------------------------------
(* The files, and who writes them.                                         *)

\* After a view was read and before the fingerprint is taken that is to stand for it.
Unwatched == job = "push" \/ (job = "hello" /\ ~watch)

\* A write is a watcher's event, if one listens.
Touched ==
  /\ stamp' = stamp + 1
  /\ timer' = (timer \/ (watch /\ ~deaf))
  /\ late' = (late \/ Unwatched)

Spend == changes > 0 /\ changes' = changes - 1

\* A runner ends its terminal, or dies without a word.
RunnerWrites(t) ==
  /\ status[t] = "live" /\ t \notin dead /\ Spend
  /\ status' = [status EXCEPT ![t] = "over"] /\ Touched
  /\ UNCHANGED <<dead, card, pref>>
RunnerDies(t) ==
  /\ status[t] = "live" /\ t \notin dead /\ Spend
  /\ dead' = dead \cup {t}
  /\ UNCHANGED <<status, stamp, card, pref, timer, late>>

\* Another process, or another page, removes one that is over.
OtherRemoves(t) ==
  /\ status[t] = "over" /\ Spend
  /\ status' = [status EXCEPT ![t] = "gone"] /\ Touched
  /\ UNCHANGED <<dead, card, pref>>

\* A driver or a human moves a card.
CardMoves(c) ==
  /\ card[c] # "gone" /\ Spend
  /\ \E to \in {"running", "waiting", "gone"} \ {card[c]} : card' = [card EXCEPT ![c] = to]
  /\ pend' = IF watch THEN pend \cup {c} ELSE pend
  /\ IF job = "hello" /\ ~watch
     THEN missed' = missed \cup {c} /\ unnoted' = unnoted \cup {c}
     ELSE UNCHANGED <<missed, unnoted>>
  /\ UNCHANGED <<status, dead, stamp, pref, timer, late>>

Others ==
  /\ \/ (\E t \in Terminals : RunnerWrites(t) \/ RunnerDies(t) \/ OtherRemoves(t)) /\ UNCHANGED <<pend, missed, unnoted>>
     \/ \E c \in Cards : CardMoves(c)
  /\ UNCHANGED <<deaf, others, guest, ghosts, watch, force, fp, noted, cached, job>>
  /\ UNCHANGED <<conn, wire, gets, drops, data, overtaken>>

-----------------------------------------------------------------------------
(* The server.                                                             *)

\* reapLost, which every view begins with.
Reaped == [t \in Terminals |-> IF t \in dead THEN "over" ELSE status[t]]
Reap ==
  /\ status' = Reaped /\ dead' = {} /\ stamp' = stamp + Cardinality(dead)

\* cardsWaiting: what was read last, for five seconds, or read anew.
cardsWaiting == {Waiting} \cup cached
Seen(w) == [status |-> Reaped, waiting |-> IF guest THEN {} ELSE w, pref |-> pref]
SeenCards == [c \in Cards |-> IF guest THEN "gone" ELSE card[c]]
Sent(m) == IF conn = "open" THEN Append(wire, m) ELSE wire
Room == Len(wire) < MaxWire

\* That w was told as the waiting cards: to the history, the cards a watcher named and nobody has
\* looked at, and after a time without a watcher those that w or waitingCards is wrong about, may be
\* told otherwise than waitingCards has them.
Tell(w) ==
  /\ cached' = {w}
  /\ unnoted' = unnoted \cup pend \cup
       IF ~watch THEN {c \in Cards : ({c} \cap w # {c} \cap Waiting) \/ ({c} \cap noted # {c} \cap Waiting)} ELSE {}

\* An answer to a GET that was given before is older than this view.
Older == [viewGet EXCEPT !.old = (viewGet.is = "told")]

\* Builds the view and sends it.
Broadcast ==
  /\ Room /\ Reap
  /\ \E w \in cardsWaiting : Tell(w) /\ wire' = Sent([kind |-> "sessions", view |-> Seen(w)])
  /\ viewGet' = Older

\* pushIfChanged, at the end of the debounce.
PushIfChanged ==
  /\ timer /\ job = "none"
  /\ force' = FALSE
  /\ IF fp = stamp /\ ~force
     THEN timer' = FALSE /\ UNCHANGED <<status, dead, stamp, wire, cached, viewGet, fp, job, late, unnoted>>
     ELSE /\ Broadcast
          /\ timer' = (dead # {} /\ ~deaf)
          /\ fp' = stamp /\ job' = "push" /\ late' = FALSE
  /\ UNCHANGED <<card, pref, changes, deaf, others, guest, ghosts, watch, pend, noted>>
  /\ UNCHANGED <<conn, cardsGet, asks, drops, data, missed, overtaken>>

\* (mutant) The tick only says that the server lives, and marks who died.
HealthTick_Beats ==
  /\ watch /\ job = "none" /\ dead # {}
  /\ Reap /\ timer' = (timer \/ ~deaf)
  /\ UNCHANGED <<wire, cached, viewGet, fp, job, late, unnoted>>
  /\ UNCHANGED <<card, pref, changes, deaf, others, guest, ghosts, watch, force, pend, noted>>
  /\ UNCHANGED <<conn, cardsGet, asks, drops, data, missed, overtaken>>

\* The health tick: marks who died, and pushes when anything moved.
HealthTick ==
  /\ watch /\ job = "none" /\ (fp # stamp \/ dead # {})
  /\ Broadcast
  /\ timer' = (timer \/ (dead # {} /\ ~deaf))
  /\ fp' = stamp' /\ job' = "push" /\ late' = FALSE
  /\ UNCHANGED <<card, pref, changes, deaf, others, guest, ghosts, watch, force, pend, noted>>
  /\ UNCHANGED <<conn, cardsGet, asks, drops, data, missed, overtaken>>

\* pushSessions records what it sent, by the files as they are now.
PushRecorded ==
  /\ job = "push" /\ job' = "none" /\ fp' = stamp
  /\ UNCHANGED <<files, deaf, others, guest, ghosts, watch, hints, noted, cached>>
  /\ UNCHANGED <<conn, wire, gets, drops, data, history>>

\* noteWaiting and refreshCard, for one card a watcher named.
RefreshCard(c) ==
  /\ c \in pend /\ job = "none" /\ Room
  /\ pend' = pend \ {c} /\ missed' = missed \ {c}
  /\ wire' = IF guest THEN wire ELSE Sent([kind |-> "card", id |-> c, now |-> card[c]])
  /\ IF (c \in Waiting) = (c \in noted)
     THEN UNCHANGED <<noted, cached, force, timer, unnoted>>
     ELSE /\ noted' = IF c \in Waiting THEN noted \cup {c} ELSE noted \ {c}
          /\ cached' = {} /\ force' = TRUE /\ timer' = TRUE
          /\ unnoted' = unnoted \ {c}
  /\ UNCHANGED <<files, deaf, others, guest, ghosts, watch, fp, job>>
  /\ UNCHANGED <<conn, gets, drops, data, late, overtaken>>

\* GET /api/events: everything there is, then the client joins and the watch begins, if it has to.
Hello ==
  /\ conn = "asked" /\ job = "none" /\ conn' = "open"
  /\ Reap
  /\ \E w \in cardsWaiting :
       /\ Tell(w)
       /\ wire' = <<[kind |-> "hello", view |-> Seen(w), card |-> SeenCards]>>
  /\ viewGet' = Older
  /\ timer' = (timer \/ (watch /\ ~deaf /\ dead # {}))
  /\ job' = "hello" /\ late' = FALSE /\ missed' = {}
  /\ UNCHANGED <<card, pref, changes, deaf, others, guest, ghosts, watch, force, pend, fp, noted>>
  /\ UNCHANGED <<cardsGet, asks, drops, data, overtaken>>
Joined ==
  /\ job = "hello" /\ job' = "none" /\ watch' = TRUE
  /\ fp' = IF watch THEN fp ELSE stamp
  /\ UNCHANGED <<files, deaf, others, guest, ghosts, hints, noted, cached>>
  /\ UNCHANGED <<conn, wire, gets, drops, data, history>>

\* The server hears of a broken connection; without a client it stops watching.
GhostLeaves ==
  /\ ghosts > 0 /\ job = "none" /\ ghosts' = ghosts - 1
  /\ IF others \/ conn = "open" \/ ghosts > 1
     THEN UNCHANGED <<watch, timer, pend>>
     ELSE watch' = FALSE /\ timer' = FALSE /\ pend' = {}
  /\ UNCHANGED <<files, deaf, others, guest, force, fp, noted, cached, job>>
  /\ UNCHANGED <<conn, wire, gets, drops, data, history>>

\* The answers to GET /api/sessions and GET /api/cards.
ViewAnswered ==
  /\ viewGet.is = "asked" /\ job = "none"
  /\ Reap /\ \E w \in cardsWaiting : Tell(w) /\ viewGet' = [is |-> "told", old |-> FALSE, view |-> Seen(w)]
  /\ timer' = (timer \/ (watch /\ ~deaf /\ dead # {}))
  /\ UNCHANGED <<card, pref, changes, deaf, others, guest, ghosts, watch, force, pend, fp, noted, job>>
  /\ UNCHANGED <<conn, wire, cardsGet, asks, drops, data, late, missed, overtaken>>
CardsAnswered ==
  /\ cardsGet.is = "asked" /\ job = "none"
  /\ cardsGet' = [cardsGet EXCEPT !.is = "told", !.card = card]
  /\ UNCHANGED <<files, server, conn, wire, viewGet, asks, drops, data, history>>

Server ==
  \/ PushIfChanged \/ HealthTick \/ PushRecorded
  \/ Hello \/ Joined \/ GhostLeaves \/ ViewAnswered \/ CardsAnswered
  \/ \E c \in Cards : RefreshCard(c)

-----------------------------------------------------------------------------
(* The page's side of the wire.                                            *)

\* connectSse, at the start and after a break.
Connect ==
  /\ conn = "down" /\ conn' = "asked"
  /\ UNCHANGED <<files, server, wire, gets, drops, data, history>>
\* The connection opens: a page that is not a guest's asks for the cards as well.
Opened ==
  /\ conn = "open" /\ ~guest /\ cardsGet.is = "unasked"
  /\ cardsGet' = [cardsGet EXCEPT !.is = "asked", !.counts = TRUE]
  /\ UNCHANGED <<files, server, conn, wire, viewGet, asks, drops, data, history>>
Breaks ==
  /\ conn # "down" /\ drops > 0 /\ drops' = drops - 1
  /\ conn' = "down" /\ wire' = <<>>
  /\ ghosts' = IF conn = "open" THEN ghosts + 1 ELSE ghosts
  /\ cardsGet' = NoCards
  /\ UNCHANGED <<files, deaf, others, guest, watch, hints, fp, noted, cached, job>>
  /\ UNCHANGED <<viewGet, asks, data, history>>

\* boardRevision: what came meanwhile is newer than the answer under way.
Revised == cardsGet' = [cardsGet EXCEPT !.counts = FALSE]

\* hello, sessions, card and removed.  The terminals' part is for the page to draw.
Delivered(m) ==
  /\ view' = IF m.kind = "card" THEN view ELSE m.view
  /\ cardRow' = CASE m.kind = "hello" -> m.card
                  [] m.kind = "card" -> [cardRow EXCEPT ![m.id] = m.now]
                  [] OTHER -> cardRow
  /\ IF m.kind = "sessions" THEN UNCHANGED cardsGet ELSE Revised
  /\ overtaken' = (overtaken /\ m.kind = "card")
Deliver ==
  /\ wire # <<>> /\ wire' = Tail(wire)
  /\ Delivered(Head(wire))
  /\ UNCHANGED <<files, server, conn, viewGet, asks, drops, late, missed, unnoted>>

\* (mutant) The answer is taken whatever came meanwhile.
CardsTaken_Always ==
  /\ cardsGet.is = "told"
  /\ cardRow' = cardsGet.card
  /\ cardsGet' = [NoCards EXCEPT !.is = "done"]
  /\ UNCHANGED <<files, server, conn, wire, viewGet, asks, drops, view, history>>

\* fetchCards: an answer that something overtook is dropped.
CardsTaken ==
  /\ cardsGet.is = "told"
  /\ cardRow' = IF cardsGet.counts THEN cardsGet.card ELSE cardRow
  /\ cardsGet' = [NoCards EXCEPT !.is = "done"]
  /\ UNCHANGED <<files, server, conn, wire, viewGet, asks, drops, view, history>>

\* sessions.js refresh(): the answer is drawn when it comes, however old it is by then.
AskView ==
  /\ viewGet.is = "none" /\ asks > 0 /\ asks' = asks - 1
  /\ viewGet' = [viewGet EXCEPT !.is = "asked"]
  /\ UNCHANGED <<files, server, conn, wire, cardsGet, drops, data, history>>
ViewTaken ==
  /\ viewGet.is = "told" /\ viewGet' = NoAnswer
  /\ view' = viewGet.view /\ overtaken' = viewGet.old
  /\ UNCHANGED <<files, server, conn, wire, cardsGet, asks, drops, cardRow, late, missed, unnoted>>

-----------------------------------------------------------------------------
StreamInit(s) ==
  /\ status = [t \in Terminals |-> "live"] /\ dead = {} /\ stamp = 0
  /\ card = [c \in Cards |-> s.card] /\ pref = 0
  /\ changes = s.changes /\ asks = s.asks /\ drops = s.drops
  /\ deaf = s.deaf /\ others = s.others /\ guest = s.guest /\ ghosts = 0
  /\ watch = others /\ timer = FALSE /\ force = FALSE /\ pend = {}
  /\ fp = 0 /\ cached = {} /\ job = "none"
  /\ noted = {} /\ unnoted = IF others THEN Waiting ELSE {}
  /\ conn = "down" /\ wire = <<>>
  /\ viewGet = NoAnswer /\ cardsGet = NoCards
  /\ view = NoView /\ cardRow = [c \in Cards |-> "gone"]
  /\ late = FALSE /\ missed = {} /\ overtaken = FALSE

=============================================================================
