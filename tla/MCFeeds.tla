---------------------------------- MODULE MCFeeds ----------------------------------
(***************************************************************************)
(* What feeds the records and hand-offs of terminals: the taps on agents,  *)
(* the reading of usage and its record, the bundles and their pointer.     *)
(* They share no variable, so one run explores each by itself: `feed` says *)
(* which, and the variables of the others rest.                            *)
(***************************************************************************)
EXTENDS Naturals, FiniteSets, TLC

CONSTANTS
  Sharers, MaxWork, MaxHandOffs, MaxBoards,
  Tapped, Threads, TapSlack, MaxLines, MaxTapClock, MaxLegs, MaxTapFaults,
  Tools, Subs, MaxEvents, MaxDeaths,
  PollLogins, PollTerms, Interval, MaxDelay, StaleAge, Grace, Errors, MaxPollClock, MaxTurns,
  Logins, Models, Readings, WallEnds, DefaultLimit, HistoryMax, FlatGap, MinGap, WindowLength, MaxClock, MaxSeen

VARIABLES
  feed,
  work, record, place, hand, ckpt, pointer, starter, bounds, moved,
  tapClock, leg, file, tail, prompted, turns, got, due, said, faults, blind,
  rt, unsaid, lines, torn, cursor, signals, advised, deaths, orphans, started,
  now, endpoint, accounts, boardUp, slot, usage, cardOf, own, turnsTaken, told,
  clock, rec, pending, sightings, given

R == INSTANCE Resume
T == INSTANCE Taps
RT == INSTANCE RuntimeTap
U == INSTANCE UsagePoll WITH card <- cardOf, changes <- turnsTaken
UR == INSTANCE UsageRecord

Rvars == <<work, record, place, hand, ckpt, pointer, starter, bounds, moved>>
Tvars == <<tapClock, leg, file, tail, prompted, turns, got, due, said, faults, blind>>
RTvars == <<rt, unsaid, lines, torn, cursor, signals, advised, deaths, orphans, started>>
Uvars == <<now, endpoint, accounts, boardUp, slot, usage, cardOf, own, turnsTaken, told>>
URvars == <<clock, rec, pending, sightings, given>>

RRests == work = "rests" /\ record = "rests" /\ place = "rests" /\ hand = "rests" /\
    ckpt = "rests" /\ pointer = "rests" /\ starter = "rests" /\ bounds = "rests" /\ moved = "rests"
TRests == tapClock = "rests" /\ leg = "rests" /\ file = "rests" /\ tail = "rests" /\
    prompted = "rests" /\ turns = "rests" /\ got = "rests" /\ due = "rests" /\ said = "rests" /\
    faults = "rests" /\ blind = "rests"
RTRests == rt = "rests" /\ unsaid = "rests" /\ lines = "rests" /\ torn = "rests" /\
    cursor = "rests" /\ signals = "rests" /\ advised = "rests" /\ deaths = "rests" /\
    orphans = "rests" /\ started = "rests"
URests == now = "rests" /\ endpoint = "rests" /\ accounts = "rests" /\ boardUp = "rests" /\
    slot = "rests" /\ usage = "rests" /\ cardOf = "rests" /\ own = "rests" /\ turnsTaken = "rests" /\
    told = "rests"
URRests == clock = "rests" /\ rec = "rests" /\ pending = "rests" /\ sightings = "rests" /\
    given = "rests"

FeedsInit ==
  \/ feed = "resume" /\ R!ResumeInit /\ TRests /\ RTRests /\ URests /\ URRests
  \/ feed = "taps" /\ T!TapsInit /\ RRests /\ RTRests /\ URests /\ URRests
  \/ feed = "runtime" /\ RT!RuntimeInit /\ RRests /\ TRests /\ URests /\ URRests
  \/ feed = "poll" /\ U!PollInit /\ RRests /\ TRests /\ RTRests /\ URRests
  \/ feed = "usage" /\ UR!UsageInit /\ RRests /\ TRests /\ RTRests /\ URests

FeedsNext ==
  /\ UNCHANGED feed
  /\ \/ feed = "resume" /\ R!ResumeNext /\ UNCHANGED <<Tvars, RTvars, Uvars, URvars>>
     \/ feed = "taps" /\ T!TapsNext /\ UNCHANGED <<Rvars, RTvars, Uvars, URvars>>
     \/ feed = "runtime" /\ RT!RuntimeNext /\ UNCHANGED <<Rvars, Tvars, Uvars, URvars>>
     \/ feed = "poll" /\ U!PollNext /\ UNCHANGED <<Rvars, Tvars, RTvars, URvars>>
     \/ feed = "usage" /\ UR!UsageNext /\ UNCHANGED <<Rvars, Tvars, RTvars, Uvars>>

feedsVars == <<feed, Rvars, Tvars, RTvars, Uvars, URvars>>
FeedsSpec == FeedsInit /\ [][FeedsNext]_feedsVars
\* Sharers, Tapped, PollTerms and Subs are the same model values: no part has two of them.
FeedsSym == Permutations(Sharers) \cup Permutations(PollLogins)

Bucket(kind, model, pct, resets) ==
  [kind |-> kind, model |-> model, pct |-> pct, resets |-> resets, active |-> FALSE]
Window(pct, resets) == [pct |-> pct, resets |-> resets]
Avails == {"yes", "no", "unknown"}
\* Two windows of the five hours follow each other; the week is out or is not.
AllReadings ==
  [five : {Window(10, 3)}, seven : {Window(90, 5)}, buckets : {{}}, avail : Avails]
    \cup [five : {Window(40, 5)}, seven : {Window(30, 5)}, avail : {"unknown"},
          buckets : {{}, {Bucket("weekly_scoped", "fable", 50, 3)}, {Bucket("weekly_scoped", "fable", 60, 5)},
                     {Bucket("session", "none", 60, 5)}}]
Kinds == [weekly_all |-> 4, weekly_scoped |-> 4, session |-> 2]

-----------------------------------------------------------------------------

ASSUME FeedsAssumption == T!TapsAssumption /\ U!PollAssumption /\ UR!UsageAssumption

(* Each property is the component's own; its module says what it means.    *)
\* What the next leg is handed: the turns the taps heard, the bundle the pointer names.
CarriedIsTrue ==
  /\ [](feed = "taps" => T!TapsHear)
  /\ [](feed = "resume" => R!PointerIsTrue) /\ [][feed = "resume" => R!HandOffKept]_feedsVars
TapIsTrue == feed = "runtime" => RT!TapIsTrue
\* What is known of a login's usage: the word of its record, the cards that show it, who asks.
UsageTells ==
  /\ [](feed = "usage" => UR!WordStands)
  /\ [](feed = "poll" => U!CardsTell) /\ [][feed = "poll" => U!AsksWhileNoneDoes]_feedsVars
=============================================================================
