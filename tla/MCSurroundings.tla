------------------------------ MODULE MCSurroundings ------------------------------
(***************************************************************************)
(* What stands around the board: its start and stop, the files agents ask  *)
(* their trust questions in, the links it is shared by, the licence.       *)
(* They share no variable, so one run explores each by itself: `part` says *)
(* which, and the variables of the others rest.                            *)
(***************************************************************************)
EXTENDS Naturals, FiniteSets, TLC

CONSTANTS
  Cmds, MaxMishaps,
  Launches, Dirs, RootOf, ImportsOut, MaxAnswers,
  Names, Me, Shells, Pages, Local, MaxStreams,
  TrialDays, Keys, Forged, MaxDay, MaxDecisions

VARIABLES
  part,
  pidfile, cmd, board, share, token, mishaps, missing,
  agent, there, says, fileLock, launch, answered, noes, outrun, recorded,
  roster, seen, shell, stream, issued, opened, pushed, revoked, overlap,
  today, release, trialFile, licence, renewal, decided, raced, decisions, tried

ASSUME LauncherAssumption == Cmds \subseteq Nat \ {0}

ASSUME LicenceAssumption ==
  /\ TrialDays \in Nat
  /\ Keys \cup Forged \subseteq [plan : {"personal", "team"}, until : Nat]

ASSUME ShareAssumption == "none" \notin Names /\ Me \in Names

ASSUME TrustAssumption ==
  /\ {"free", "dead"} \cap Launches = {} /\ "none" \notin Dirs
  /\ RootOf \in [Dirs -> Dirs]

L == INSTANCE Launcher
Tr == INSTANCE Trust
Sh == INSTANCE Sharing
Li == INSTANCE Licence

Lvars == <<pidfile, cmd, board, share, token, mishaps, missing>>
Trvars == <<agent, there, says, fileLock, launch, answered, noes, outrun, recorded>>
Shvars == <<roster, seen, shell, stream, issued, opened, pushed, revoked, overlap>>
Livars == <<today, release, trialFile, licence, renewal, decided, raced, decisions, tried>>

LRests == pidfile = "rests" /\ cmd = "rests" /\ board = "rests" /\ share = "rests" /\
    token = "rests" /\ mishaps = "rests" /\ missing = "rests"
TrRests == agent = "rests" /\ there = "rests" /\ says = "rests" /\ fileLock = "rests" /\
    launch = "rests" /\ answered = "rests" /\ noes = "rests" /\ outrun = "rests" /\
    recorded = "rests"
ShRests == roster = "rests" /\ seen = "rests" /\ shell = "rests" /\ stream = "rests" /\
    issued = "rests" /\ opened = "rests" /\ pushed = "rests" /\ revoked = "rests" /\
    overlap = "rests"
LiRests == today = "rests" /\ release = "rests" /\ trialFile = "rests" /\ licence = "rests" /\
    renewal = "rests" /\ decided = "rests" /\ raced = "rests" /\ decisions = "rests" /\
    tried = "rests"

SurroundingsInit ==
  \/ part = "launcher" /\ L!LauncherInit /\ TrRests /\ ShRests /\ LiRests
  \/ part = "trust" /\ Tr!TrustInit /\ LRests /\ ShRests /\ LiRests
  \/ part = "sharing" /\ Sh!ShareInit /\ LRests /\ TrRests /\ LiRests
  \/ part = "licence" /\ Li!LicenceInit /\ LRests /\ TrRests /\ ShRests

SurroundingsNext ==
  /\ UNCHANGED part
  /\ \/ part = "launcher" /\ L!LauncherNext /\ UNCHANGED <<Trvars, Shvars, Livars>>
     \/ part = "trust" /\ Tr!TrustNext /\ UNCHANGED <<Lvars, Shvars, Livars>>
     \/ part = "sharing" /\ Sh!ShareNext /\ UNCHANGED <<Lvars, Trvars, Livars>>
     \/ part = "licence" /\ Li!LicenceNext /\ UNCHANGED <<Lvars, Trvars, Shvars>>

surroundingsVars == <<part, Lvars, Trvars, Shvars, Livars>>
SurroundingsSpec == SurroundingsInit /\ [][SurroundingsNext]_surroundingsVars
Sym == Permutations(Launches) \cup Permutations(Shells)

Sub == "repo" :> "repo" @@ "sub" :> "repo"
AllKeys == {[plan |-> "personal", until |-> 1], [plan |-> "team", until |-> 2], [plan |-> "team", until |-> 4]}
ForgedKeys == {[plan |-> "team", until |-> 5]}

-----------------------------------------------------------------------------

(* Each property is the component's own; its module says what it means.    *)
BoardIsKept == part = "launcher" => L!BoardIsKept
AnswersStand == part = "trust" => Tr!AnswersStand
LinksHold == part = "sharing" => Sh!LinksHold
LicenceIsFair == part = "licence" => Li!LicenceIsFair
=============================================================================
