-------------------------------- MODULE Taps --------------------------------
(***************************************************************************)
(* How a terminal hears what its agent says (taps/codex.mjs, taps/agy.mjs, *)
(* taps/grok.mjs and the poll of attach.mjs).  An agent appends lines to a *)
(* file, in pieces; the terminal's poll reads what was added since its last*)
(* read and acts on the lines that are complete.  codex writes one file a  *)
(* thread and the terminal finds it by its folder and its date; agy and    *)
(* grok write one log a terminal, over all its legs.  Two terminals share  *)
(* a checkout and a login.                                                 *)
(***************************************************************************)
EXTENDS Naturals, FiniteSets, Sequences, SequencesExt

CONSTANTS Tapped,      \* the terminals
          Threads,     \* the files codex may write
          TapSlack,    \* how much older than the leg a thread, or a prompt, may be
          MaxLines,    \* bound: lines and prompts of all agents
          MaxTapClock, \* bound: ticks of the clock
          MaxLegs,     \* bound: legs of all terminals
          MaxTapFaults \* bound: failed polls and replaced files

TapsAssumption ==
  TapSlack \in Nat /\ Threads \cap Tapped = {} /\ {"none", "no thread"} \cap (Threads \cup Tapped) = {}

VARIABLES
  tapClock,
  leg,       \* per terminal: its agent, which leg it is, when it began, what it writes
  file,      \* per file: when it was begun, when last written, its pieces
  tail,      \* per terminal: the file its poll reads, how far, and the piece of a line it holds
  prompted,  \* the prompts agy and grok note, of all terminals of the folder
  turns,     \* per terminal: the turns on its record, and at the start of its leg
  got,       \* (history) per terminal: the lines its poll acted on in this leg
  due,       \* (history) per terminal: the lines added to the file it reads since it reads it
  said,      \* how many lines and prompts there were
  faults, blind  \* (history) failures so far, and per terminal why lines may be missing

tapsVars == <<tapClock, leg, file, tail, prompted, turns, got, due, said, faults, blind>>

Log(t) == t     \* a terminal's log goes by the terminal's name
Files == Threads \cup Tapped
NoTail == [of |-> "none", from |-> 0, off |-> 0, rest |-> <<>>, found |-> FALSE]
NoLeg == [agent |-> "none", n |-> 0, began |-> 0, into |-> "none"]
Written == {f \in Files : file[f].born > 0}

-----------------------------------------------------------------------------
(* createTail                                                              *)

\* (mutant) A tail starts at the beginning of a log that is there already.
From_Start(f) == 0
\* A log, or a thread that is taken up again, is read from its end.
From(f) == Len(file[f].body)

\* The lines of a text: pieces up to one that ends a line.  What is no whole line does not parse.
Cuts(text) == {0} \cup {i \in 1..Len(text) : text[i].half = 2}
Whole(text) == {i \in 2..Len(text) : text[i].half = 2 /\ i - 1 \notin Cuts(text)
                                     /\ text[i - 1].line = text[i].line /\ (i = 2 \/ i - 2 \in Cuts(text))}
Lines(text) == [k \in 1..Cardinality(Whole(text)) |->
                 text[CHOOSE i \in Whole(text) : Cardinality({j \in Whole(text) : j <= i}) = k]]
LastCut(text) == CHOOSE i \in Cuts(text) : \A j \in Cuts(text) : j <= i

\* (mutant) The piece of a line a read ends with is not kept for the next one.
Text_NoRest(d, size) == SubSeq(file[d.of].body, d.off + 1, size)
Text(d, size) == d.rest \o SubSeq(file[d.of].body, d.off + 1, size)

\* A file shorter than what was read was replaced: it is read from its start.
Rewound(d) == IF Len(file[d.of].body) < d.off THEN [d EXCEPT !.from = 0, !.off = 0, !.rest = <<>>] ELSE d
Read(d) ==
  LET at == Rewound(d)
      size == Len(file[d.of].body)
      text == Text(at, size)
  IN IF size <= at.off THEN [lines |-> <<>>, next |-> at]
     ELSE [lines |-> Lines(text), next |-> [at EXCEPT !.off = size, !.rest = SubSeq(text, LastCut(text) + 1, Len(text))]]

-----------------------------------------------------------------------------
(* The legs of a terminal.                                                 *)

Legs == Cardinality({p \in Tapped \X (1..MaxLegs) : p[2] <= leg[p[1]].n})
\* codex may continue the thread on the record; any other codex leg looks for its file.
Starts(t, agent, continues) ==
  /\ leg[t].into = "none" /\ Legs < MaxLegs
  /\ leg' = [leg EXCEPT ![t] = [agent |-> agent, n |-> @.n + 1, began |-> tapClock, into |-> IF agent = "codex" THEN "no thread" ELSE Log(t)]]
  /\ IF agent = "codex"
     THEN IF continues
          THEN /\ tail[t].of \in Threads
               /\ tail' = [tail EXCEPT ![t] = [NoTail EXCEPT !.of = tail[t].of, !.from = From(tail[t].of), !.off = From(tail[t].of)]]
          ELSE tail' = [tail EXCEPT ![t] = NoTail]
     ELSE ~continues /\ tail' = [tail EXCEPT ![t] = [NoTail EXCEPT !.of = Log(t), !.from = From(Log(t)), !.off = From(Log(t))]]
  /\ turns' = [turns EXCEPT ![t].start = turns[t].count]
  /\ UNCHANGED <<tapClock, file, prompted, got, due, said, faults, blind>>

Exits(t) ==
  /\ leg[t].into # "none" /\ leg' = [leg EXCEPT ![t].into = "none"]
  /\ got' = [got EXCEPT ![t] = <<>>] /\ due' = [due EXCEPT ![t] = <<>>] /\ blind' = [blind EXCEPT ![t] = {}]
  /\ UNCHANGED <<tapClock, file, tail, prompted, turns, said, faults>>

-----------------------------------------------------------------------------
(* The agents.                                                             *)

\* A thread is begun when its first prompt is sent, or the last one is taken up again.
Opens(t, f) ==
  /\ leg[t].agent = "codex" /\ leg[t].into \notin {"none", f}
  /\ IF file[f].born = 0 THEN file' = [file EXCEPT ![f].born = tapClock, ![f].mtime = tapClock, ![f].users = {t}]
     ELSE leg[t].into = "no thread" /\ f = tail[t].of /\ ~tail[t].found /\ file' = [file EXCEPT ![f].users = @ \cup {t}]
  /\ leg' = [leg EXCEPT ![t].into = f]
  /\ UNCHANGED <<tapClock, tail, prompted, turns, got, due, said, faults, blind>>

Open(f) == IF file[f].body = <<>> THEN FALSE ELSE Last(file[f].body).half = 1
\* The line begun last begins a line for who reads from there.
Clean(from, body) == Len(body) - 1 = from \/ (Len(body) - 1 > from /\ body[Len(body) - 1].half = 2)
\* One piece of a line reaches the file.
Adds(t) ==
  LET f == leg[t].into
      ends == Open(f) /\ Last(file[f].body).by = t /\ Last(file[f].body).leg = leg[t].n
      piece == IF ends THEN [Last(file[f].body) EXCEPT !.half = 2]
               ELSE [line |-> said + 1, by |-> t, leg |-> leg[t].n, half |-> 1]
  IN /\ f \in Files
     /\ IF ends THEN UNCHANGED said ELSE said < MaxLines /\ said' = said + 1
     /\ file' = [file EXCEPT ![f].body = Append(@, piece), ![f].mtime = tapClock, ![f].born = IF @ = 0 THEN tapClock ELSE @]
     /\ due' = [r \in Tapped |-> IF tail[r].of = f /\ leg[r].into # "none" /\ ends /\ Clean(tail[r].from, file[f].body) THEN Append(due[r], piece) ELSE due[r]]
  /\ UNCHANGED <<tapClock, leg, tail, prompted, turns, got, faults, blind>>

Prompts(t) ==
  /\ leg[t].agent \in {"agy", "grok"} /\ leg[t].into # "none" /\ said < MaxLines /\ said' = said + 1
  /\ prompted' = prompted \cup {[line |-> said + 1, agent |-> leg[t].agent, by |-> t, leg |-> leg[t].n, at |-> tapClock]}
  /\ UNCHANGED <<tapClock, leg, file, tail, turns, got, due, faults, blind>>

\* A file is cut or replaced; what no poll had read of it is gone.
Replaced(f) ==
  /\ file[f].body # <<>> /\ faults < MaxTapFaults /\ faults' = faults + 1
  /\ file' = [file EXCEPT ![f].body = <<>>]
  /\ blind' = [t \in Tapped |-> IF tail[t].of = f THEN blind[t] \cup {"replaced"} ELSE blind[t]]
  /\ UNCHANGED <<tapClock, leg, tail, prompted, turns, got, due, said>>

-----------------------------------------------------------------------------
(* The poll.                                                               *)

\* findRollout: the one last written, of those of this folder begun since the leg, give or take.
Found(t) ==
  LET since == {f \in Threads \cap Written : file[f].born + TapSlack >= leg[t].began /\ file[f].body # <<>>}
  IN {f \in since : \A g \in since : file[g].mtime <= file[f].mtime}
Tails(t) ==
  IF leg[t].agent = "codex" /\ tail[t].of = "none" /\ Found(t) # {}
  THEN {[NoTail EXCEPT !.of = f, !.found = TRUE] : f \in Found(t)} ELSE {tail[t]}

\* A poll acts on the lines it read (a wall, the turns, the files); a write that fails ends it, and what it had read is gone.
Poll(t, d, fails) ==
  LET fresh == d # tail[t]
      r == IF d.of = "none" THEN [lines |-> <<>>, next |-> d] ELSE Read(d)
  IN /\ leg[t].into # "none" /\ d \in Tails(t)
     /\ tail' = [tail EXCEPT ![t] = r.next]
     /\ due' = [due EXCEPT ![t] = IF fresh THEN Lines(file[d.of].body) ELSE @]
     /\ IF fails
        THEN /\ r.lines # <<>> /\ faults < MaxTapFaults /\ faults' = faults + 1
             /\ blind' = [blind EXCEPT ![t] = @ \cup {"failed"}] /\ UNCHANGED got
        ELSE /\ got' = [got EXCEPT ![t] = @ \o r.lines] /\ UNCHANGED <<faults, blind>>
     /\ UNCHANGED <<tapClock, leg, file, prompted, turns, said>>

\* (mutant) Every prompt of the folder counts, whenever it was sent.
Since_Ever(t) == {p \in prompted : p.agent = leg[t].agent}
\* promptsSince
Since(t) == {p \in prompted : p.agent = leg[t].agent /\ p.at + TapSlack >= leg[t].began}
CountsTurns(t) ==
  /\ leg[t].agent \in {"agy", "grok"} /\ leg[t].into # "none" /\ Since(t) # {}
  /\ turns' = [turns EXCEPT ![t].count = turns[t].start + Cardinality(Since(t))]
  /\ UNCHANGED <<tapClock, leg, file, tail, prompted, got, due, said, faults, blind>>

TapTick ==
  /\ tapClock < MaxTapClock /\ tapClock' = tapClock + 1
  /\ UNCHANGED <<leg, file, tail, prompted, turns, got, due, said, faults, blind>>

TapsInit ==
  /\ tapClock = 1 /\ leg = [t \in Tapped |-> NoLeg]
  /\ file = [f \in Files |-> [born |-> 0, mtime |-> 0, users |-> {}, body |-> <<>>]]
  /\ tail = [t \in Tapped |-> NoTail] /\ prompted = {} /\ turns = [t \in Tapped |-> [count |-> 0, start |-> 0]]
  /\ got = [t \in Tapped |-> <<>>] /\ due = [t \in Tapped |-> <<>>]
  /\ said = 0 /\ faults = 0 /\ blind = [t \in Tapped |-> {}]

TapsNext ==
  \/ \E t \in Tapped : \/ \E agent \in {"codex", "agy"}, continues \in BOOLEAN : Starts(t, agent, continues)
                       \/ Exits(t)
                       \/ \E f \in Threads : Opens(t, f)
                       \/ Adds(t) \/ Prompts(t) \/ CountsTurns(t)
                       \/ \E d \in Tails(t), fails \in BOOLEAN : Poll(t, d, fails)
  \/ \E f \in Files : Replaced(f)
  \/ TapTick

TapsSpec == TapsInit /\ [][TapsNext]_tapsVars

-----------------------------------------------------------------------------
(* A terminal that has read its file to the end has acted on every line     *)
(* that was added since it began to read it, once and in order; but where a *)
(* poll failed after it read, or the file was replaced.                     *)
Hears ==
  \A t \in Tapped :
    LET d == tail[t]
    IN leg[t].into # "none" /\ d.of # "none" /\ d.off = Len(file[d.of].body) /\ blind[t] = {} => got[t] = due[t]

(* A terminal acts on lines (a wall among them) its own agent wrote in this *)
(* leg, but for a codex thread found by its folder and its date, or one two *)
(* terminals took up.  The turns of a leg are its prompts, but for those of *)
(* another terminal and those just before the leg.                          *)
LinesAreOwn ==
  \A t \in Tapped : \A p \in ToSet(got[t]) :
    (p.by = t /\ p.leg = leg[t].n) \/ tail[t].found \/ file[tail[t].of].users \ {t} # {}
Own(t) == {p \in prompted : p.by = t /\ p.leg = leg[t].n}
Near(t) == {p \in prompted \ Own(t) : p.agent = leg[t].agent /\ p.at + TapSlack >= leg[t].began}
TurnsAreOwn == \A t \in Tapped : leg[t].into # "none" => turns[t].count - turns[t].start \in 0..Cardinality(Own(t) \cup Near(t))
TapsAreOwn == LinesAreOwn /\ TurnsAreOwn

\* What a tap hears is all that was said to it, and nothing that was not.
TapsHear == Hears /\ TapsAreOwn
=============================================================================
