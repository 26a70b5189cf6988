--------------------------------- MODULE MCRecords ---------------------------------
(***************************************************************************)
(* What Leg keeps outside its cards: the files it puts in a repository for *)
(* the next agent, the index of conversations and the page that reads it,  *)
(* the checkouts of terminals and cards and the list of them.              *)
(* They share no variable, so one run explores each by itself: `part` says *)
(* which, and the variables of the others rest.                            *)
(***************************************************************************)
EXTENDS Naturals, FiniteSets, TLC

CONSTANTS
  Legs, Policies, MaxSource, Itemless, Wider, MaxEdits,
  StoreOrder, Kind, Transcripts, Old, Convs, StoreOf, ConvOf, Refreshers, MaxTerms, MaxHappens, MaxOutside,
  CellConvs, Matching, PageSize, MaxAsks, MaxWire, MaxMoves, MaxLoadFaults,
  Sessions, Jobs, MaxOdd,
  Queries, Repos, Paths, Records, Concurrency, MaxNews, MaxFanOuts

VARIABLES
  part,
  cfg, source, bundle, capture, disk, linked, record, backups, hlock, leg, edits,
  stamp, unparsed, store, running, listed, term, index, ilock, refresh, asked, happened, outside, away, stolen,
  all, cell, loadSeq, loads, reads, reader, moves, faults,
  tree, seat, job, agent, timer, op, byHand, letGo, odd,
  lives, news, cache, inflight, waits, shown, fanOuts

H == INSTANCE Harness
Hi == INSTANCE History
Ce == INSTANCE HistoryCell
W == INSTANCE Worktrees
C == INSTANCE Checkouts

Hvars == <<cfg, source, bundle, capture, disk, linked, record, backups, hlock, leg, edits>>
Hivars == <<stamp, unparsed, store, running, listed, term, index, ilock, refresh, asked, happened, outside,
    away, stolen>>
Cevars == <<all, cell, loadSeq, loads, reads, reader, moves, faults>>
Wvars == <<tree, seat, job, agent, timer, op, byHand, letGo, odd>>
Cvars == <<lives, news, cache, inflight, waits, shown, fanOuts>>

HRests == cfg = "rests" /\ source = "rests" /\ bundle = "rests" /\ capture = "rests" /\
    disk = "rests" /\ linked = "rests" /\ record = "rests" /\ backups = "rests" /\ hlock = "rests" /\ leg = "rests" /\
    edits = "rests"
HiRests == stamp = "rests" /\ unparsed = "rests" /\ store = "rests" /\ running = "rests" /\ listed = "rests" /\
    term = "rests" /\ index = "rests" /\ ilock = "rests" /\ refresh = "rests" /\ asked = "rests" /\
    happened = "rests" /\ outside = "rests" /\ away = "rests" /\ stolen = "rests"
CeRests == all = "rests" /\ cell = "rests" /\ loadSeq = "rests" /\ loads = "rests" /\
    reads = "rests" /\ reader = "rests" /\ moves = "rests" /\ faults = "rests"
WRests == tree = "rests" /\ seat = "rests" /\ job = "rests" /\ agent = "rests" /\
    timer = "rests" /\ op = "rests" /\ byHand = "rests" /\ letGo = "rests" /\ odd = "rests"
CRests == lives = "rests" /\ news = "rests" /\ cache = "rests" /\ inflight = "rests" /\
    waits = "rests" /\ shown = "rests" /\ fanOuts = "rests"

RecordsInit ==
  \/ part = "harness" /\ H!HarnessInit /\ HiRests /\ CeRests /\ WRests /\ CRests
  \/ part = "history" /\ Hi!HistoryInit /\ HRests /\ CeRests /\ WRests /\ CRests
  \/ part = "cell" /\ Ce!HistoryCellInit /\ HRests /\ HiRests /\ WRests /\ CRests
  \/ part = "worktrees" /\ W!WorktreesInit /\ HRests /\ HiRests /\ CeRests /\ CRests
  \/ part = "checkouts" /\ C!CheckoutsInit /\ HRests /\ HiRests /\ CeRests /\ WRests

RecordsNext ==
  /\ UNCHANGED part
  /\ \/ part = "harness" /\ H!HarnessNext /\ UNCHANGED <<Hivars, Cevars, Wvars, Cvars>>
     \/ part = "history" /\ Hi!HistoryNext /\ UNCHANGED <<Hvars, Cevars, Wvars, Cvars>>
     \/ part = "cell" /\ Ce!HistoryCellNext /\ UNCHANGED <<Hvars, Hivars, Wvars, Cvars>>
     \/ part = "worktrees" /\ W!WorktreesNext /\ UNCHANGED <<Hvars, Hivars, Cevars, Cvars>>
     \/ part = "checkouts" /\ C!CheckoutsNext /\ UNCHANGED <<Hvars, Hivars, Cevars, Wvars>>

recordsVars == <<part, Hvars, Hivars, Cevars, Wvars, Cvars>>
RecordsSpec == RecordsInit /\ [][RecordsNext]_recordsVars
\* Legs, Refreshers and Sessions are the same model values: no part has two of them.
Sym == Permutations(Legs)

TheOrder == <<"cl", "gr">>
TheKind == [cl |-> "claude", gr |-> "grok"]
TheStoreOf == [t1 |-> "cl", t2 |-> "cl", t3 |-> "gr"]
TheConvOf == [t1 |-> "c1", t2 |-> "c1", t3 |-> "c2"]
TheRepos == <<"p1", "p2">>
ThePaths == <<"w1", "w2", "w3">>

-----------------------------------------------------------------------------

ASSUME TransferAssumption == H!HarnessAssumption
ASSUME IndexAssumption == Hi!HistoryAssumption
ASSUME CellAssumption == Ce!HistoryCellAssumption
ASSUME TreesAssumption == W!WorktreesAssumption /\ C!CheckoutsAssumption

(* Each property is the component's own; its module says what it means.    *)
HarnessHolds ==
  /\ [](part = "harness" => H!NothingIsLost /\ H!CurrentIsCurrent /\ H!AttentionIsHers)
  /\ [][part = "harness" => H!HandEditStands]_recordsVars
HistoryHolds ==
  /\ [](part = "history" => Hi!NeverBesideAKnownOne /\ Hi!RowNamesTheRightOne)
  /\ [][part = "history" => Hi!IndexMovesForward]_recordsVars
CellHolds == part = "cell" => Ce!CellHolds
\* The checkouts themselves, and the list of them the board shows.
TreesHold ==
  /\ [](part = "worktrees" => W!OneWriter /\ W!WorkIsNamed)
  /\ [][part = "worktrees" => W!WorkIsKept]_recordsVars
  /\ [](part = "checkouts" => C!FewProcesses)
  /\ [][part = "checkouts" => C!NeverOlder /\ C!AllWereAsked /\ C!LiveOneOwns]_recordsVars
=============================================================================
