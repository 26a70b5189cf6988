---------------------------- MODULE HistoryCell ----------------------------
(***************************************************************************)
(* The board's list of conversations (board/history.js) and the listing    *)
(* that answers it (history/index.mjs, listHistory): a page at a time,     *)
(* newest first, filtered by the server.  The next page is asked for with  *)
(* the id of the last row shown.  Meanwhile conversations go on, which     *)
(* moves them to the top, new ones arrive, old ones are removed, requests  *)
(* fail and answers come in any order.                                     *)
(***************************************************************************)
EXTENDS Subsequences

CONSTANTS
  CellConvs,     \* conversations
  Matching,      \* those the one filter lets through
  PageSize,
  MaxAsks,       \* requests of one behaviour, of which
  MaxWire,       \* are under way at once
  MaxMoves,      \* changes of the list
  MaxLoadFaults  \* requests that fail

NoOne == "none"

HistoryCellAssumption ==
  /\ IsFiniteSet(CellConvs) /\ Matching \subseteq CellConvs /\ NoOne \notin CellConvs /\ PageSize \in Nat \ {0}
  /\ MaxAsks \in Nat /\ MaxWire \in Nat /\ MaxMoves \in Nat /\ MaxLoadFaults \in Nat

VARIABLES
  all,      \* the conversations the server lists, newest first
  cell,     \* `state` of the page's script
  loadSeq,
  loads,    \* requests for a page, those answered with their answer
  reads,    \* requests for one conversation, in the order they were made
  reader,   \* what the reader does in this behaviour: "pages" or "opens"
  moves, faults

cellvars == <<all, cell, loadSeq, loads, reads, reader, moves, faults>>

HistoryCellInit ==
  /\ all = SetToSeq(CellConvs)
  /\ cell = [open |-> FALSE, loaded |-> FALSE, loading |-> FALSE, error |-> FALSE,
             filter |-> FALSE, typed |-> FALSE, records |-> <<>>, total |-> 0,
             moved |-> FALSE, failed |-> FALSE,
             detailId |-> NoOne, detail |-> NoOne, detailError |-> FALSE]
  /\ loadSeq = 0 /\ loads = {} /\ reads = <<>>
  /\ reader \in {"pages", "opens"} /\ moves = 0 /\ faults = 0
-----------------------------------------------------------------------------
(* The listing: what passes the filter, and of that, the page after the    *)
(* cursor; a cursor that is not in the list any more is no cursor.         *)
Passing(filter) == Kept(all, {i \in DOMAIN all : filter => all[i] \in Matching})

After(rows, before) ==
  IF before \in ToSet(rows)
  THEN SubSeq(rows, 1 + (CHOOSE k \in 1..Len(rows) : rows[k] = before), Len(rows))
  ELSE rows

Listing(filter, before) ==
  LET rest == After(Passing(filter), before)
  IN [rows |-> SubSeq(rest, 1, IF Len(rest) < PageSize THEN Len(rest) ELSE PageSize),
      total |-> Len(Passing(filter))]
-----------------------------------------------------------------------------
(* A load: the request carries the filter of the moment and, for a further *)
(* page, the last row shown; the page believes only the last one it made.  *)
Query(more, filter) ==
  [seq |-> loadSeq + 1, more |-> more, filter |-> filter,
   before |-> IF more /\ cell.records # <<>> THEN Last(cell.records) ELSE NoOne,
   got |-> "nothing", page |-> [rows |-> <<>>, total |-> 0], stale |-> FALSE]

Loads(more, changed) ==
  /\ loadSeq < MaxAsks /\ Cardinality(loads) < MaxWire /\ loadSeq' = loadSeq + 1
  /\ loads' = loads \cup {Query(more, changed.filter)}
  /\ cell' = [changed EXCEPT !.loading = TRUE, !.error = FALSE]
  /\ UNCHANGED <<all, reads, reader, moves, faults>>

(* As the page opens, and every minute while the list is shut.             *)
LoadsShut == ~cell.open /\ Loads(FALSE, cell)

Toggles ==
  /\ cell.loaded /\ cell' = [cell EXCEPT !.open = ~@]
  /\ UNCHANGED <<all, loadSeq, loads, reads, reader, moves, faults>>

(* The select and the checkbox load at once; the search box changes the    *)
(* filter at once and loads when nothing was typed for a moment.           *)
Selects ==
  /\ cell.open /\ reader = "pages"
  /\ Loads(FALSE, [cell EXCEPT !.filter = ~@])

Types ==
  /\ cell.open /\ reader = "pages"
  /\ cell' = [cell EXCEPT !.filter = ~@, !.typed = TRUE]
  /\ UNCHANGED <<all, loadSeq, loads, reads, reader, moves, faults>>

TypingEnds == cell.typed /\ Loads(FALSE, [cell EXCEPT !.typed = FALSE])

(* The button is there while fewer rows are shown than match.              *)
OffersMore == cell.open /\ Len(cell.records) < cell.total

PressesMore == OffersMore /\ reader = "pages" /\ ~cell.loading /\ Loads(TRUE, cell)

(* The server answers from the list of the moment, or the request fails.   *)
Answers(q) ==
  /\ q.got = "nothing"
  /\ \/ loads' = (loads \ {q}) \cup {[q EXCEPT !.got = "page", !.page = Listing(q.filter, q.before)]}
        /\ UNCHANGED faults
     \/ faults < MaxLoadFaults /\ faults' = faults + 1
        /\ loads' = (loads \ {q}) \cup {[q EXCEPT !.got = "error"]}
  /\ UNCHANGED <<all, cell, loadSeq, reads, reader, moves>>

\* (mutant) Whatever answer comes is shown.
AnyAnswer(q) == TRUE

Newest(q) == q.seq = loadSeq

Added(rows) == Kept(rows, {i \in DOMAIN rows : rows[i] \notin ToSet(cell.records)})

TakesAnswer(q) ==
  /\ q.got # "nothing" /\ loads' = loads \ {q}
  /\ cell' = IF ~Newest(q) THEN cell
             ELSE IF q.got = "error"
             THEN [cell EXCEPT !.loading = FALSE, !.error = TRUE, !.failed = TRUE]
             ELSE [cell EXCEPT !.loading = FALSE, !.loaded = TRUE, !.total = q.page.total,
                    !.records = IF q.more THEN @ \o Added(q.page.rows) ELSE q.page.rows,
                    !.moved = q.stale \/ (q.more /\ @), !.failed = q.more /\ @]
  /\ UNCHANGED <<all, loadSeq, reads, reader, moves, faults>>
-----------------------------------------------------------------------------
(* One conversation, opened under its row; its button closes it.           *)
OpensDetail(c) ==
  /\ cell.open /\ reader = "opens" /\ c \in ToSet(cell.records) /\ c # cell.detailId
  /\ Len(reads) < MaxAsks /\ reads' = Append(reads, [conv |-> c, got |-> "nothing"])
  /\ cell' = [cell EXCEPT !.detailId = c, !.detail = NoOne, !.detailError = FALSE]
  /\ UNCHANGED <<all, loadSeq, loads, reader, moves, faults>>

ClosesDetail ==
  /\ cell.open /\ cell.detailId \in ToSet(cell.records)
  /\ cell' = [cell EXCEPT !.detailId = NoOne, !.detail = NoOne]
  /\ UNCHANGED <<all, loadSeq, loads, reads, reader, moves, faults>>

TakesDetail(k) ==
  /\ reads[k].got = "nothing"
  /\ \/ /\ reads' = [reads EXCEPT ![k].got = "it"]
        /\ cell' = IF cell.detailId = reads[k].conv
                   THEN [cell EXCEPT !.detail = reads[k].conv] ELSE cell
        /\ UNCHANGED faults
     \/ /\ faults < MaxLoadFaults /\ faults' = faults + 1
        /\ reads' = [reads EXCEPT ![k].got = "error"]
        /\ cell' = IF cell.detailId = reads[k].conv
                   THEN [cell EXCEPT !.detailError = TRUE] ELSE cell
  /\ UNCHANGED <<all, loadSeq, loads, reader, moves>>
-----------------------------------------------------------------------------
(* Meanwhile: a conversation goes on, or arrives, or is removed.           *)
Moves(list) ==
  /\ moves < MaxMoves /\ moves' = moves + 1 /\ all' = list
  /\ cell' = [cell EXCEPT !.moved = TRUE]
  /\ loads' = {[q EXCEPT !.stale = (q.got = "page") \/ @] : q \in loads}
  /\ UNCHANGED <<loadSeq, reads, reader, faults>>

Without(c) == Kept(all, {i \in DOMAIN all : all[i] # c})
GoesOn(c) == Moves(<<c>> \o Without(c))
IsRemoved(c) == c \in ToSet(all) /\ Moves(Without(c))

HistoryCellNext ==
  \/ LoadsShut \/ Toggles \/ Selects \/ Types \/ TypingEnds \/ PressesMore \/ ClosesDetail
  \/ \E q \in loads : Answers(q) \/ TakesAnswer(q)
  \/ \E k \in DOMAIN reads : TakesDetail(k)
  \/ \E c \in CellConvs : OpensDetail(c) \/ GoesOn(c) \/ IsRemoved(c)
-----------------------------------------------------------------------------
HistoryCellTypeOK ==
  /\ ToSet(all) \subseteq CellConvs /\ ToSet(cell.records) \subseteq CellConvs
  /\ loadSeq \in 0..MaxAsks /\ cell.total \in Nat

Waited == {q \in loads : Newest(q)}
Quiet == Waited = {} /\ ~cell.typed

(* No conversation is shown twice, however the list moved between pages.   *)
NoRowTwice == Len(cell.records) = Cardinality(ToSet(cell.records))

(* Once the last load was answered the page does not say it still reads,   *)
(* so that the next page can be asked for, whatever older ones still come. *)
NeverStuck == cell.loading <=> Waited # {}

(* With no load waited for and none failed since the filter changed, every *)
(* row passes the filter that the page shows, also when it was typed while *)
(* a further page of the old one was under way.                            *)
RowsPass == (Quiet /\ ~cell.failed /\ cell.filter) => ToSet(cell.records) \subseteq Matching

(* And if the list did not move since its first page was answered, what is *)
(* shown is the beginning of the list without a gap, and as long as the    *)
(* count beside it says there is more, the button really adds a row.       *)
ShowsTheBeginning ==
  (Quiet /\ cell.loaded /\ ~cell.failed /\ ~cell.moved) =>
    /\ cell.total = Len(Passing(cell.filter))
    /\ IsPrefix(cell.records, Passing(cell.filter))
    /\ Len(cell.records) < cell.total =>
         Added(Listing(cell.filter, IF cell.records = <<>> THEN NoOne ELSE Last(cell.records)).rows) # <<>>

(* An opened conversation is never shown with another one's messages.      *)
DetailIsOwn == cell.detail # NoOne => cell.detail = cell.detailId

CellHolds == NoRowTwice /\ NeverStuck /\ RowsPass /\ ShowsTheBeginning /\ DetailIsOwn
=============================================================================
