-------------------------------- MODULE Page --------------------------------
(***************************************************************************)
(* The terminals' page (board/sessions.js) on the stream of Stream.tla.    *)
(* Every view that arrives is drawn over what the reader is doing: a       *)
(* question under a row (Land, End, Remove), an expanded terminal whose    *)
(* details are fetched again and again, a draft of the ladder.  The rows   *)
(* stand still while a question waits.  Answers to the page's own requests *)
(* come at any time, also when the reader has moved on.                    *)
(*                                                                         *)
(* What the reader does in one behaviour is one of: nothing but watch,     *)
(* ask (questions and expansions), read (details and diffs), edit.         *)
(***************************************************************************)
EXTENDS Stream

CONSTANT Ladders   \* the ladders a draft may hold; 0 is the one on disk at first

ASSUME LaddersAssumption == Ladders \subseteq Nat /\ 0 \in Ladders
ASSUME ActsAssumption == \A s \in Settings : s.acts \in Nat

VARIABLES
  reader, acts,   \* what the reader does, and how often
  question,       \* pendingConfirm: <<>> or <<terminal, verb>>
  drawn,          \* the rows on the page: what they say, and the question among them
  finishedOpen,   \* the list of finished terminals is unfolded
  prepares,       \* land/prepare on its way: "none" or a terminal
  action,         \* a confirmed action on its way: <<>> or <<terminal, verb>>
  drawer,         \* the expanded terminal, or "none"
  detail, detailGets,   \* whose detail it shows, whose are on their way
  diff, diffGet,        \* whose diff of a path is kept, whose is on its way
  strayed,              \* (history) a diff came when its terminal was not the expanded one
  draft, dirty, saving, \* defaultEditor
  saveGet               \* a save on its way: sent, whose form it was, saved

asking == <<question, drawn, finishedOpen, prepares, action>>
reading == <<detail, detailGets, diff, diffGet, strayed>>
editing == <<draft, dirty, saving, saveGet>>
pageVars == <<reader, acts, asking, drawer, reading, editing>>
vars == <<streamVars, pageVars>>

NoSave == [is |-> "none", ladder |-> 0, own |-> TRUE]

-----------------------------------------------------------------------------
(* Drawing.                                                                *)

\* The terminals that have a row: the live ones, the expanded one, the finished if unfolded.
Rows(v, open, expanded) ==
  {t \in Terminals : v.status[t] = "live" \/ (v.status[t] = "over" /\ (open \/ expanded = t))}

\* renderSessions: every row anew, the question under the row of its terminal if that has one.
Drawn(v, asked, open, expanded) ==
  [status |-> v.status, rows |-> Rows(v, open, expanded),
   asks |-> IF asked # <<>> /\ asked[1] \in Rows(v, open, expanded) THEN asked ELSE <<>>]
RenderSessions(v) == drawn' = Drawn(v, question', finishedOpen', drawer')

\* (mutant) The rows are drawn whatever is being asked.
HoldsStill_Never(closes) == FALSE
\* The rows stand still while a question waits; closing the expansion draws them all the same.
HoldsStill(closes) == question # <<>> /\ ~closes

\* (mutant) A view that arrives replaces the draft.
Fresh_Always == TRUE
Fresh == ~dirty /\ ~saving

\* render(v)
Render(v) ==
  LET closes == drawer # "none" /\ v.status[drawer] = "gone"
  IN /\ drawer' = IF closes THEN "none" ELSE drawer
     /\ UNCHANGED <<reader, acts, question, finishedOpen, prepares, action, reading, dirty, saving, saveGet>>
     /\ IF HoldsStill(closes) THEN UNCHANGED drawn ELSE RenderSessions(v)
     /\ draft' = IF Fresh THEN v.pref ELSE draft

Arrives ==
  \/ /\ Deliver
     /\ IF Head(wire).kind = "card" THEN UNCHANGED pageVars ELSE Render(view')
  \/ ViewTaken /\ Render(view')

-----------------------------------------------------------------------------
(* Questions.                                                              *)

Act(kind) == reader = kind /\ acts > 0 /\ acts' = acts - 1 /\ UNCHANGED reader
Refresh == IF viewGet.is = "none" THEN viewGet' = [viewGet EXCEPT !.is = "asked"] ELSE UNCHANGED viewGet
StreamStands == UNCHANGED streamVars
ExceptView == UNCHANGED <<files, server, conn, wire, cardsGet, asks, drops, data, history>>

\* End or Remove is pressed on a row.
Ask(t) ==
  /\ t \in drawn.rows /\ Act("asks")
  /\ question' = <<t, IF drawn.status[t] = "live" THEN "end" ELSE "remove">>
  /\ UNCHANGED <<finishedOpen, prepares, action, drawer>>
  /\ RenderSessions(view) /\ StreamStands /\ UNCHANGED <<reading, editing>>

\* Land: its question is asked when the preparation comes back, minutes later.
Prepare(t) ==
  /\ t \in drawn.rows /\ prepares = "none" /\ Act("asks")
  /\ prepares' = t
  /\ StreamStands /\ UNCHANGED <<question, drawn, finishedOpen, action, drawer, reading, editing>>
Prepared ==
  /\ prepares # "none" /\ prepares' = "none"
  /\ question' = <<prepares, "land">>
  /\ UNCHANGED <<reader, acts, finishedOpen, action, drawer>>
  /\ RenderSessions(view) /\ StreamStands /\ UNCHANGED <<reading, editing>>
NotPrepared ==
  /\ prepares # "none" /\ prepares' = "none" /\ Refresh /\ ExceptView
  /\ UNCHANGED <<reader, acts, question, drawn, finishedOpen, action, drawer, reading, editing>>

\* The reader answers the question she sees; Escape takes back one she may not see.
Yes ==
  /\ drawn.asks # <<>> /\ question # <<>> /\ action = <<>>
  /\ action' = drawn.asks /\ question' = <<>>
  /\ UNCHANGED <<reader, acts, drawn, finishedOpen, prepares, drawer, reading, editing>> /\ StreamStands
No ==
  /\ drawn.asks # <<>> /\ question # <<>>
  /\ question' = <<>>
  /\ UNCHANGED <<reader, acts, finishedOpen, prepares, action, drawer>>
  /\ RenderSessions(view) /\ StreamStands /\ UNCHANGED <<reading, editing>>
Escape ==
  /\ question # <<>> /\ Act("asks")
  /\ question' = <<>>
  /\ UNCHANGED <<finishedOpen, prepares, action, drawer>>
  /\ RenderSessions(view) /\ StreamStands /\ UNCHANGED <<reading, editing>>

\* act(): the route refuses a terminal that has moved on, and the rows are drawn with its words;
\* else the page asks for the view.  A removal is told to every page at once.
Refused ==
  /\ action # <<>> /\ action' = <<>>
  /\ action[2] = "land" \/ status[action[1]] # (IF action[2] = "end" THEN "live" ELSE "over")
  /\ UNCHANGED <<reader, acts, question, finishedOpen, prepares, drawer>>
  /\ RenderSessions(view) /\ StreamStands /\ UNCHANGED <<reading, editing>>
Done ==
  /\ action # <<>> /\ action' = <<>> /\ action[2] # "remove"
  /\ action[2] = "end" => status[action[1]] = "live"
  /\ Refresh /\ ExceptView
  /\ UNCHANGED <<reader, acts, question, drawn, finishedOpen, prepares, drawer, reading, editing>>
Removed ==
  /\ action # <<>> /\ action' = <<>> /\ action[2] = "remove"
  /\ job = "none" /\ Room
  /\ status[action[1]] = "over"
  /\ status' = [Reaped EXCEPT ![action[1]] = "gone"]
  /\ dead' = {} /\ stamp' = stamp + 1 + Cardinality(dead)
  /\ \E w \in cardsWaiting :
       Tell(w) /\ wire' = Sent([kind |-> "sessions", view |-> [Seen(w) EXCEPT !.status = status']])
  /\ timer' = (timer \/ (watch /\ ~deaf))
  /\ viewGet' = IF viewGet.is = "none" THEN [viewGet EXCEPT !.is = "asked"] ELSE Older
  /\ UNCHANGED <<card, pref, changes, deaf, others, guest, ghosts, watch, force, pend, fp, noted, job>>
  /\ UNCHANGED <<conn, cardsGet, asks, drops, data, late, missed, overtaken>>
  /\ UNCHANGED <<reader, acts, question, drawn, finishedOpen, prepares, drawer, reading, editing>>

ToggleFinished ==
  /\ Act("asks") /\ finishedOpen' = ~finishedOpen
  /\ UNCHANGED <<question, prepares, action, drawer>>
  /\ RenderSessions(view) /\ StreamStands /\ UNCHANGED <<reading, editing>>

Questions ==
  \/ \E t \in Terminals : Ask(t) \/ Prepare(t)
  \/ Prepared \/ NotPrepared \/ Yes \/ No \/ Escape \/ Refused \/ Done \/ Removed \/ ToggleFinished

-----------------------------------------------------------------------------
(* The expanded terminal.                                                  *)

\* openSessionDrawer and closeSessionDrawer
Open(t) ==
  /\ t \in drawn.rows /\ (Act("asks") \/ Act("reads"))
  /\ drawer' = t /\ detail' = "none" /\ diff' = "none" /\ strayed' = FALSE
  /\ detailGets' = IF reader = "reads" THEN detailGets \cup {t} ELSE detailGets
  /\ UNCHANGED <<question, finishedOpen, prepares, action, diffGet>>
  /\ RenderSessions(view) /\ StreamStands /\ UNCHANGED editing
Close ==
  /\ drawer # "none" /\ (Act("asks") \/ Act("reads"))
  /\ drawer' = "none"
  /\ UNCHANGED <<question, finishedOpen, prepares, action>>
  /\ RenderSessions(view) /\ StreamStands /\ UNCHANGED <<reading, editing>>

\* Every three seconds.
Poll ==
  /\ reader = "reads" /\ drawer \in Terminals \ detailGets
  /\ detailGets' = detailGets \cup {drawer}
  /\ StreamStands /\ UNCHANGED <<reader, acts, asking, drawer, detail, diff, diffGet, strayed, editing>>

\* (mutant) What comes is shown, whosever it is.
Answers_Any(t) == detail' = t
\* loadDrawer: the answer counts if its terminal is still the expanded one.
Answers(t) == detail' = IF drawer = t THEN t ELSE detail
DetailCame(t) ==
  /\ t \in detailGets /\ detailGets' = detailGets \ {t}
  /\ Answers(t)
  /\ StreamStands /\ UNCHANGED <<reader, acts, asking, drawer, diff, diffGet, strayed, editing>>

\* showDiff: asked for the expanded terminal, kept under the path for whatever is expanded then.
Expand ==
  /\ reader = "reads" /\ detail # "none" /\ drawer # "none" /\ diff = "none" /\ diffGet = "none"
  /\ diffGet' = drawer
  /\ StreamStands /\ UNCHANGED <<reader, acts, asking, drawer, detail, detailGets, diff, strayed, editing>>
DiffCame ==
  /\ diffGet # "none" /\ diffGet' = "none" /\ diff' = diffGet
  /\ strayed' = (drawer # diffGet)
  /\ StreamStands /\ UNCHANGED <<reader, acts, asking, drawer, detail, detailGets, editing>>

Expansion ==
  \/ \E t \in Terminals : Open(t) \/ DetailCame(t)
  \/ Close \/ Poll \/ Expand \/ DiffCame

-----------------------------------------------------------------------------
(* The draft of the ladder.                                                *)

Touch ==
  /\ Act("edits") /\ \E d \in Ladders \ {draft} : draft' = d
  /\ dirty' = TRUE
  /\ StreamStands /\ UNCHANGED <<asking, drawer, reading, saving, saveGet>>

\* saveDefaultOrder; or the ladder of a terminal that cannot take one is saved as the default.
Save ==
  /\ Act("edits") /\ dirty /\ ~saving /\ saveGet = NoSave
  /\ saving' = TRUE /\ saveGet' = [is |-> "sent", ladder |-> draft, own |-> TRUE]
  /\ StreamStands /\ UNCHANGED <<asking, drawer, reading, draft, dirty>>
SaveElsewhere ==
  /\ Act("edits") /\ saveGet = NoSave
  /\ \E d \in Ladders : saveGet' = [is |-> "sent", ladder |-> d, own |-> FALSE]
  /\ StreamStands /\ UNCHANGED <<asking, drawer, reading, draft, dirty, saving>>

\* PATCH /api/settings: written, and told to every page.
Saved ==
  /\ saveGet.is = "sent" /\ job = "none" /\ Room
  /\ pref' = saveGet.ladder /\ saveGet' = [saveGet EXCEPT !.is = "saved"]
  /\ \E w \in cardsWaiting :
       Tell(w) /\ wire' = Sent([kind |-> "sessions", view |-> [Seen(w) EXCEPT !.pref = saveGet.ladder]])
  /\ Reap /\ timer' = (timer \/ (watch /\ ~deaf /\ dead # {}))
  /\ viewGet' = Older
  /\ UNCHANGED <<card, changes, deaf, others, guest, ghosts, watch, force, pend, fp, noted, job>>
  /\ UNCHANGED <<conn, cardsGet, asks, drops, data, late, missed, overtaken>>
  /\ UNCHANGED <<reader, acts, asking, drawer, reading, draft, dirty, saving>>

\* The answer is the draft now, whatever was typed meanwhile.
SaveCame ==
  /\ saveGet.is = "saved" /\ saveGet' = NoSave
  /\ draft' = saveGet.ladder /\ dirty' = FALSE
  /\ saving' = (saving /\ ~saveGet.own)
  /\ view' = [view EXCEPT !.pref = saveGet.ladder]
  /\ UNCHANGED <<files, server, conn, wire, gets, drops, cardRow, history>>
  /\ UNCHANGED <<reader, acts, asking, drawer, reading>>
SaveFailed ==
  /\ saveGet.is = "sent" /\ saveGet' = NoSave
  /\ saving' = (saving /\ ~saveGet.own)
  /\ StreamStands /\ UNCHANGED <<reader, acts, asking, drawer, reading, draft, dirty>>

Draft == Touch \/ Save \/ SaveElsewhere \/ Saved \/ SaveCame \/ SaveFailed

-----------------------------------------------------------------------------
Background ==
  \/ Others \/ Server
  \/ Connect \/ Opened \/ Breaks \/ CardsTaken \/ AskView

Init ==
  \E s \in Settings :
    /\ StreamInit(s)
    /\ reader = s.reader /\ acts = s.acts
    /\ question = <<>> /\ prepares = "none" /\ action = <<>> /\ finishedOpen = FALSE
    /\ drawn = Drawn(NoView, <<>>, FALSE, "none")
    /\ drawer = "none" /\ detail = "none" /\ detailGets = {}
    /\ diff = "none" /\ diffGet = "none" /\ strayed = FALSE
    /\ draft = 0 /\ dirty = FALSE /\ saving = FALSE /\ saveGet = NoSave

Next ==
  \/ Background /\ UNCHANGED pageVars
  \/ Arrives \/ Questions \/ Expansion \/ Draft

Spec == Init /\ [][Next]_vars

\* The server and the network go on, and the reader answers the question she sees.
FairSpec ==
  /\ Spec
  /\ WF_vars(PushIfChanged /\ UNCHANGED pageVars) /\ WF_vars(HealthTick /\ UNCHANGED pageVars)
  /\ WF_vars(PushRecorded /\ UNCHANGED pageVars) /\ WF_vars(Hello /\ UNCHANGED pageVars)
  /\ WF_vars(Joined /\ UNCHANGED pageVars) /\ WF_vars(GhostLeaves /\ UNCHANGED pageVars)
  /\ WF_vars(ViewAnswered /\ UNCHANGED pageVars) /\ WF_vars(CardsAnswered /\ UNCHANGED pageVars)
  /\ \A c \in Cards : WF_vars(RefreshCard(c) /\ UNCHANGED pageVars)
  /\ WF_vars(Connect /\ UNCHANGED pageVars) /\ WF_vars(Opened /\ UNCHANGED pageVars)
  /\ WF_vars(CardsTaken /\ UNCHANGED pageVars) /\ WF_vars(Arrives)
  /\ WF_vars(Yes \/ No) /\ WF_vars(Refused \/ Done \/ Removed)

-----------------------------------------------------------------------------
PageTypeOK ==
  /\ StreamTypeOK
  /\ question \in {<<>>} \cup (Terminals \X {"end", "remove", "land"})
  /\ drawn.asks \in {<<>>} \cup (Terminals \X {"end", "remove", "land"})
  /\ drawer \in Terminals \cup {"none"} /\ detail \in Terminals \cup {"none"}
  /\ draft \in Ladders

\* The page of a board that is left alone comes to show what there is (server.mjs 858-864,
\* 1010-1021): each card, each terminal and, but for a question that waits where nobody sees it,
\* each row.  The exceptions are the ways in which the code forgets: what moved between a view and
\* the fingerprint recorded for it, or between a first hello and its watch; a waiting card that
\* waitingCards was wrong about; an answer to refresh() that a push has overtaken.
Unseen == question # <<>> /\ drawn.asks # question
CardsCurrent == guest \/ \A c \in Cards \ missed : cardRow[c] = card[c]
TerminalsCurrent ==
  \/ late \/ overtaken
  \/ view.status = status /\ \A c \in Cards \ unnoted : guest \/ (c \in view.waiting) = (c \in Waiting)
RowsCurrent == drawn.status = view.status \/ Unseen
PageCatchesUp == <>[](CardsCurrent /\ TerminalsCurrent /\ RowsCurrent)

\* "The rows hold still until the question is answered" (sessions.js:3016): neither the question nor
\* the rows around it change under the reader, except when an answer to something she did earlier
\* arrives - a preparation, a refused action - or the expanded terminal is gone.
QuestionStands ==
  [][question # <<>> /\ <<question, drawn>>' # <<question, drawn>>
       => \/ acts' # acts \/ Yes \/ No
          \/ prepares' # prepares \/ action' # action
          \/ drawer' # drawer]_vars

\* What the expansion shows is the expanded terminal's (sessions.js:2104), but for a diff that was
\* on its way when the reader went to another terminal: it is kept under the same path.
DrawerIsOwn ==
  drawer # "none" => detail \in {"none", drawer} /\ (diff \in {"none", drawer} \/ strayed)

\* A draft changes by the reader's hand or by the answer to a save, never by a view that arrives.
DraftKept == [][dirty /\ draft' # draft => acts' # acts \/ SaveCame]_vars

\* What the reader is at, a question or an editor, is hers.
ReaderIsLeft == QuestionStands /\ DraftKept

=============================================================================
