----------------------------- MODULE UsageRecord -----------------------------
(***************************************************************************)
(* What Leg knows of a login's limits (usage.mjs): one record per login,   *)
(* written by pollers (with or without an explicit word on whether the     *)
(* login is available), by the taps that see an agent stop at a wall, and  *)
(* read by every hand-off.  Each writer notes when it saw what it writes,  *)
(* and writes later, under the record's lock: the writes come in any order.*)
(*                                                                         *)
(* Times are clock ticks.  A reset is an absolute time, 0 stands for none. *)
(***************************************************************************)
EXTENDS Naturals, FiniteSets, Sequences, SequencesExt

CONSTANTS
  Logins,
  Models,        \* the models a wall or a bucket can name
  Readings,      \* what a usage endpoint may answer
  WallEnds,      \* when a wall message may say it ends; 0 is nothing
  DefaultLimit,  \* DEFAULT_LIMIT_S
  HistoryMax, FlatGap, MinGap,  \* the bounds of a ring of samples
  WindowLength,                 \* how long the window of a kind of bucket runs
  MaxClock, MaxSeen                            \* how far the clock goes, and the sightings

UsageAssumption == WallEnds \subseteq Nat

VARIABLES
  clock,
  rec,       \* the record of each login
  pending,   \* what was seen and is not written yet
  sightings, \* how much was seen
  given      \* every word on a login that was taken

vars == <<clock, rec, pending, sightings, given>>

NoWall == [until |-> 0, at |-> 0]
NoWindow == [pct |-> 0, resets |-> 0]
NoReading == [five |-> NoWindow, seven |-> NoWindow, buckets |-> {}, avail |-> "unknown"]
EmptyUsage ==
  [five |-> NoWindow, seven |-> NoWindow, buckets |-> {}, history |-> {},
   observed |-> 0, available |-> 0, updated |-> 0, wall |-> NoWall, walls |-> [m \in Models |-> NoWall]]

UsageInit ==
  /\ clock = 1 /\ rec = [l \in Logins |-> EmptyUsage]
  /\ pending = {} /\ sightings = 0 /\ given = {}

-----------------------------------------------------------------------------
(* Walls, windows and the bucket that binds.                               *)

wallActive(w) == w.until > clock
isAvailable(u) == ~wallActive(u.wall)

Expire(w) == IF wallActive(w) THEN w ELSE NoWall
Open(windows) == SelectSeq(windows, LAMBDA w : w.resets > clock)
\* The hottest window that still runs says when the wall ends, else five hours.
WindowEnds(u) ==
  LET open == Open(<<u.five, u.seven>>)
  IN IF open = <<>> THEN clock + DefaultLimit
     ELSE IF Len(open) = 2 /\ open[2].pct > open[1].pct THEN open[2].resets ELSE open[1].resets

Hottest(S) == CHOOSE b \in S : \A c \in S : c.pct <= b.pct
FirstOf(sets) ==
  IF \E i \in DOMAIN sets : sets[i] # {}
  THEN sets[CHOOSE i \in DOMAIN sets : sets[i] # {} /\ \A j \in 1..(i - 1) : sets[j] = {}]
  ELSE {}

\* The bucket that stops a terminal on this model: the active one, its own, the weekly,
\* the session's, else the hotter window of an older record.
Binding(u, model) ==
  LET row(w) == [kind |-> "window", model |-> "none", active |-> FALSE, pct |-> w.pct, resets |-> w.resets]
      found == FirstOf(<<{b \in u.buckets : b.active /\ (model = "none" \/ b.model \in {"none", model})},
                       {b \in u.buckets : model # "none" /\ b.model = model},
                       {b \in u.buckets : b.kind = "weekly_all"},
                       {b \in u.buckets : b.kind = "session"},
                       {row(w) : w \in {u.five, u.seven} \ {NoWindow}}>>)
  IN IF found = {} THEN {} ELSE {Hottest(found)}

-----------------------------------------------------------------------------
(* The ring of samples behind a forecast.                                  *)

Key(b) == <<b.kind, b.model>>
Ring(u, k) == IF \E h \in u.history : h.key = k THEN (CHOOSE h \in u.history : h.key = k).ring ELSE <<>>

\* recordHistory for one bucket: a window that moved empties its ring, a sample is
\* taken only after a gap (a longer one if the figure holds), and old ones fall out.
Sampled(u, b, at) ==
  LET ring == Ring(u, Key(b))
      prev == {c \in u.buckets : Key(c) = Key(b)}
      moved == IF ring # <<>> THEN Last(ring).resets # b.resets
               ELSE \E c \in prev : c.resets # b.resets
      kept == IF moved THEN <<>> ELSE ring
      gap == IF kept # <<>> /\ Last(kept).pct = b.pct THEN FlatGap ELSE MinGap
      grown == SelectSeq(Append(kept, [pct |-> b.pct, at |-> at, resets |-> b.resets]),
                         LAMBDA e : at <= e.at + WindowLength[b.kind])
  IN IF kept # <<>> /\ at < Last(kept).at + gap THEN kept
     ELSE SubSeq(grown, IF Len(grown) > HistoryMax THEN Len(grown) - HistoryMax + 1 ELSE 1, Len(grown))

recordHistory(u, buckets, at) ==
  {h \in u.history : \A b \in buckets : Key(b) # h.key}
    \cup {[key |-> Key(b), ring |-> Sampled(u, b, at)] : b \in buckets}

-----------------------------------------------------------------------------
(* The writers, each under the lock of the record.                         *)

\* An empty list keeps the buckets, but for those whose window ran out.
Buckets(u, o) ==
  LET new == o.reading.buckets
      kept == {b \in u.buckets : ~(b.resets # 0 /\ b.resets <= o.seen)}
  IN IF new # {} THEN [u EXCEPT !.buckets = new, !.history = recordHistory(u, new, o.seen)]
     ELSE [u EXCEPT !.buckets = kept, !.history = {h \in @ : \A b \in u.buckets \ kept : Key(b) # h.key}]

\* (mutant) Percentages below 100 take the wall away.
Answered_Percent(u, o) ==
  IF o.reading.avail = "no" THEN [until |-> WindowEnds(u), at |-> o.seen]
  ELSE IF u.five.pct < 100 /\ u.seven.pct < 100 THEN NoWall ELSE u.wall

\* Only an explicit answer that is not older than a wall takes it away.
Answered(u, o) ==
  CASE o.reading.avail = "yes" /\ o.seen >= u.wall.at -> NoWall
    [] o.reading.avail = "no" -> [until |-> WindowEnds(u), at |-> o.seen]
    [] OTHER -> u.wall

\* A reading must not be older than the last; a record nobody has read yet goes by its last write.
StaleReading(u, o) == o.seen < (IF u.observed # 0 THEN u.observed ELSE u.updated)
recordUsage(u, o) ==
  LET read == [Buckets(u, o) EXCEPT !.five = o.reading.five,
                                    !.seven = o.reading.seven,
                                    !.observed = o.seen,
                                    !.available = IF o.reading.avail = "yes" THEN o.seen ELSE @,
                                    !.wall = Expire(@),
                                    !.walls = [m \in Models |-> Expire(@[m])]]
  IN [read EXCEPT !.wall = Answered(read, o)]

\* The end the message names, if it lies ahead.
Ends(o, else) == IF o.ends > clock THEN o.ends ELSE else

\* (mutant) Only an earlier wall makes a wall stale.
StaleWall_ByWall(u, o) == o.seen < u.wall.at

StaleWall(u, o) == o.seen < u.wall.at \/ o.seen < u.available
markLimited(u, o) ==
  [u EXCEPT !.wall = [until |-> Ends(o, WindowEnds(u)), at |-> o.seen], !.observed = o.seen]

\* A model's own bucket, the week, the weekly bucket, the five hours, in this order.
ModelEnds(u, m) ==
  LET ends(S) == {b.resets : b \in {c \in S : c.resets > clock}}
      found == FirstOf(<<ends({b \in u.buckets : b.model = m}), ends({u.seven}),
                         ends({b \in u.buckets : b.kind \in {"weekly_all", "weekly_scoped"}}), ends({u.five})>>)
  IN IF found = {} THEN clock + DefaultLimit ELSE CHOOSE r \in found : TRUE

StaleModelWall(u, o) == o.seen < u.walls[o.model].at
markModelLimited(u, o) ==
  [u EXCEPT !.walls[o.model] = [until |-> Ends(o, ModelEnds(u, o.model)), at |-> o.seen]]

-----------------------------------------------------------------------------
(* What is seen, and when it is written.                                   *)

Sighting(l) ==
  [kind : {"reading"}, login : {l}, seen : {clock}, model : {"none"}, ends : {0},
   reading : {r \in Readings : \A w \in r.buckets \cup {r.five, r.seven} : w.resets > clock \/ w.resets = 0}]
    \cup [kind : {"wall"}, login : {l}, seen : {clock}, reading : {NoReading},
          model : Models \cup {"none"}, ends : WallEnds]

See(l) ==
  /\ sightings < MaxSeen /\ sightings' = sightings + 1
  /\ \E o \in Sighting(l) : pending' = pending \cup {o}
  /\ UNCHANGED <<clock, rec, given>>

\* The word of an observation on whether the login, or a model of it, is open.
Word(o) ==
  [login |-> o.login, model |-> o.model, at |-> o.seen, until |-> o.ends,
   says |-> IF o.kind = "wall" THEN "no" ELSE o.reading.avail]

\* mutate: an observation that is too old leaves the file alone.
Save(o, new) ==
  /\ pending' = pending \ {o}
  /\ rec' = [rec EXCEPT ![o.login] = [new EXCEPT !.updated = clock]]
  /\ given' = given \cup {Word(o)}
  /\ UNCHANGED <<clock, sightings>>
Drop(o) == pending' = pending \ {o} /\ UNCHANGED <<clock, rec, sightings, given>>

WriteReading(o) ==
  /\ o.kind = "reading"
  /\ IF StaleReading(rec[o.login], o) THEN Drop(o) ELSE Save(o, recordUsage(rec[o.login], o))
WriteWall(o) ==
  /\ o.kind = "wall" /\ o.model = "none"
  /\ IF StaleWall(rec[o.login], o) THEN Drop(o) ELSE Save(o, markLimited(rec[o.login], o))
WriteModelWall(o) ==
  /\ o.kind = "wall" /\ o.model # "none"
  /\ IF StaleModelWall(rec[o.login], o) THEN Drop(o) ELSE Save(o, markModelLimited(rec[o.login], o))

\* notePoll and noteUsageError: the record is written, what it says of the login is not.
NotePoll(l) ==
  /\ rec' = [rec EXCEPT ![l].updated = clock]
  /\ UNCHANGED <<clock, pending, sightings, given>>

Tick == clock < MaxClock /\ clock' = clock + 1 /\ UNCHANGED <<rec, pending, sightings, given>>

UsageNext ==
  \/ Tick
  \/ \E l \in Logins : See(l) \/ NotePoll(l)
  \/ \E o \in pending : WriteReading(o) \/ WriteWall(o) \/ WriteModelWall(o)
UsageSpec == UsageInit /\ [][UsageNext]_vars

-----------------------------------------------------------------------------
(* Properties.                                                             *)

TypeOK ==
  /\ clock \in 1..MaxClock /\ sightings \in 0..MaxSeen
  /\ \A o \in pending \cup given : o.login \in Logins
  /\ \A l \in Logins : LET u == rec[l] IN
       /\ {u.observed, u.available, u.updated} \subseteq 0..clock
       /\ \A w \in {u.wall} \cup {u.walls[m] : m \in Models} : w.at <= clock /\ (w.until = 0 <=> w.at = 0)

\* A wall that was recorded, the login's or one model's, stands until the time it named, unless a
\* word on the same that is not older was recorded as well: no reading, whatever its percentages,
\* and no older answer that arrives late takes it down (usage.mjs:140-142, :184-199), and an open
\* login is not an open model (usage.mjs:340-342).
WallOf(u, m) == IF m = "none" THEN u.wall ELSE u.walls[m]
WallStands ==
  \A w \in given :
    w.says = "no" /\ w.until > clock =>
      \/ wallActive(WallOf(rec[w.login], w.model))
      \/ \E v \in given \ {w} :
           v.login = w.login /\ v.model = w.model /\ v.says # "unknown" /\ v.at >= w.at

\* A wall an agent hit before its login answered that it is open does not come back when the
\* message about it is written late (usage.mjs:348-349).
OpenStands ==
  \A v \in given :
    v.says = "yes" /\ wallActive(rec[v.login].wall) =>
      rec[v.login].wall.at >= v.at

\* Neither a wall nor an opening falls to an older word.
WordStands == WallStands /\ OpenStands
=============================================================================
