------------------------------ MODULE Launcher ------------------------------
(***************************************************************************)
(* The board as a process (launcher.mjs, ensureBoard of attach.mjs, start  *)
(* and stop of server.mjs).  Commands start it, look for it and stop it,   *)
(* each a process of its own: `leg up`, a terminal that starts, `leg down`,*)
(* `leg status`, `leg share on|off`.  All they share is the pidfile, what  *)
(* listens on the address, and share.json.                                 *)
(***************************************************************************)
EXTENDS Naturals, FiniteSets

CONSTANTS Cmds,           \* the commands of one behaviour, numbered from 1 as they begin; each may start one board
          MaxMishaps      \* bound: deaths, reboots and boards too slow for the wait

VARIABLES
  pidfile,   \* leg.pid: NoFile, or whose pid it holds, which board is its child, where it listens
  cmd,       \* per command: kind, where it stands, the pidfile it read, the host it asks
  board,     \* per board: its process, the address it bound first, all it listens on, TLS
  share,     \* share.json: on, a certificate is configured
  token,     \* LEG_TOKEN is set
  mishaps,
  missing    \* (history) <<board, why>>: why no pidfile names the board

launcherVars == <<pidfile, cmd, board, share, token, mishaps, missing>>

None == "none"
NoOne == 0
NoFile == [who |-> "none"]
PidRecord(who, c, addr) == [who |-> who, of |-> c, addr |-> addr, stranger |-> FALSE]
NoBoard == [is |-> "none", main |-> None, at |-> {}, tls |-> FALSE]
Kinds == {"up", "attach", "down", "status", "share on", "share off"}

Mishap == mishaps < MaxMishaps /\ mishaps' = mishaps + 1
NoMishap == UNCHANGED mishaps
Place(p, at) == [p EXCEPT !.at = at, !.saw = IF at = "done" THEN NoFile ELSE @]
At(c, at) == cmd' = [cmd EXCEPT ![c] = Place(@, at)]

-----------------------------------------------------------------------------
(* What a probe finds.                                                     *)

Listens(addr) == {b \in Cmds : board[b].is \in {"up", "stopping"} /\ addr \in board[b].at}
Owner(addr) == IF Listens(addr) = {} THEN NoOne ELSE CHOOSE b \in Listens(addr) : TRUE

\* What GET /api/health, plain http and without a token, brings back.
Health(addr) ==
  IF Owner(addr) = NoOne THEN "none"
  ELSE IF board[Owner(addr)].tls /\ board[Owner(addr)].main = addr THEN "lost"
  ELSE IF addr = "shared" \/ (token /\ ~share.on) THEN "401" ELSE "pid"

PidAlive(pf) ==
  \/ pf.stranger
  \/ pf.who = "up" /\ cmd[pf.of].at \notin {"new", "done"}
  \/ pf.who = "board" /\ board[pf.of].is \in {"starting", "up", "stopping"}

\* boardAlive: the pid lives and something listens where the file says.
BoardAlive(pf) == pf # NoFile /\ PidAlive(pf) /\ Owner(pf.addr) # NoOne

-----------------------------------------------------------------------------
(* Starting and stopping.                                                  *)

\* The board whose record goes though it was not the one judged, or not listening when it was.
Lost(judged) ==
  IF pidfile = NoFile THEN {}
  ELSE IF pidfile # judged THEN {<<pidfile.of, "its record was another's victim">>}
  ELSE IF board[judged.of].is = "starting" THEN {<<judged.of, "it was judged before it listened">>} ELSE {}
RemovePidfile(judged) == pidfile' = NoFile /\ missing' = missing \cup Lost(judged)

Spawned(c) == [board EXCEPT ![c] = [NoBoard EXCEPT !.is = "starting"]]
\* killTree: SIGTERM; the board closes its connections and then exits.
Killed(bs, b) == IF bs[b].is \in {"starting", "up"} THEN [bs EXCEPT ![b].is = "stopping"] ELSE bs

\* createBoardServer and listen: share.json is read by the board itself, when it gets there.
Binds(b) ==
  LET main == IF share.on THEN "shared" ELSE cmd[b].host
      refused == Owner(main) # NoOne \/ (main = "shared" /\ ~share.on /\ ~token)
      too == IF main = "shared" /\ Owner("loop") = NoOne THEN {"loop"} ELSE {}
  IN /\ board[b].is = "starting"
     /\ board' = IF refused THEN [board EXCEPT ![b].is = "dead"]
                 ELSE [board EXCEPT ![b] = [is |-> "up", main |-> main, at |-> {main} \cup too, tls |-> share.tls]]
     /\ NoMishap /\ UNCHANGED <<pidfile, cmd, share, token, missing>>

Exits(b) ==
  /\ board[b].is = "stopping"
  /\ board' = [board EXCEPT ![b] = [NoBoard EXCEPT !.is = "dead"]]
  /\ NoMishap /\ UNCHANGED <<pidfile, cmd, share, token, missing>>

-----------------------------------------------------------------------------
(* up                                                                      *)

Begin(c, kind) ==
  /\ cmd[c].at = "new" /\ \A d \in Cmds : d < c => cmd[d].at # "new"
  /\ share' \in (IF kind = "share on" THEN {[on |-> TRUE, tls |-> t] : t \in {share.tls, TRUE}} ELSE {share})
  /\ cmd' = [cmd EXCEPT ![c] =
       [kind |-> kind, at |-> IF kind = "attach" THEN "looks" ELSE IF kind = "up" /\ pidfile = NoFile THEN "waits" ELSE "probes",
        saw |-> pidfile, host |-> "loop"]]
  /\ board' = IF kind = "up" /\ pidfile = NoFile THEN Spawned(c) ELSE board
  /\ NoMishap /\ UNCHANGED <<pidfile, token, missing>>

\* up found a pidfile: refused, or it is stale and goes.
UpProbed(c) ==
  /\ cmd[c].kind = "up" /\ cmd[c].at = "probes"
  /\ IF BoardAlive(cmd[c].saw)
     THEN At(c, "done") /\ UNCHANGED <<pidfile, board, missing>>
     ELSE At(c, "waits") /\ RemovePidfile(cmd[c].saw) /\ board' = Spawned(c)
  /\ NoMishap /\ UNCHANGED <<share, token>>

UpAsks(c) ==
  /\ cmd[c].kind = "up" /\ cmd[c].at = "waits" /\ board[c].is # "dead"
  /\ At(c, "asked") /\ NoMishap /\ UNCHANGED <<pidfile, board, share, token, missing>>

\* Whoever answers is taken for the child; a child that died meanwhile is not noticed any more.
UpHears(c) ==
  /\ cmd[c].kind = "up" /\ cmd[c].at = "asked"
  /\ IF Health("loop") # "pid" THEN At(c, "waits") /\ UNCHANGED <<pidfile, missing>>
     ELSE /\ At(c, IF board[c].is = "dead" THEN "deaf" ELSE "ready")
          /\ pidfile' = PidRecord("up", c, "loop")
          /\ missing' = missing \cup Lost(NoFile) \cup
               (IF Owner("loop") = c THEN {} ELSE {Owner("loop"), c} \X {"up took one for the other"})
  /\ NoMishap /\ UNCHANGED <<board, share, token>>

UpFails(c) ==
  /\ cmd[c].kind = "up" /\ cmd[c].at = "waits"
  /\ Health("loop") # "pid" \/ board[c].is = "dead"
  /\ IF board[c].is = "starting" THEN Mishap ELSE NoMishap
  /\ At(c, "done") /\ board' = Killed(board, c)
  /\ UNCHANGED <<pidfile, share, token, missing>>

\* The child's exit ends up; Ctrl-C, or a SIGTERM of another command, ends both.
UpEnds(c) ==
  /\ cmd[c].at = "ready" /\ board[c].is = "dead"
  /\ At(c, "done") /\ RemovePidfile(PidRecord("up", c, "loop"))
  /\ NoMishap /\ UNCHANGED <<board, share, token>>
UpStops(c) ==
  /\ cmd[c].at \in {"ready", "deaf", "signalled"}
  /\ At(c, "done") /\ board' = Killed(board, c) /\ RemovePidfile(PidRecord("up", c, "loop"))
  /\ NoMishap /\ UNCHANGED <<share, token>>

-----------------------------------------------------------------------------
(* down, status, and the first half of share                               *)

\* stopBoard: whoever the pidfile names, if a board seems to live there; the file goes in any case.
StopBoard(c) ==
  /\ cmd[c].at = "probes"
  /\ \/ cmd[c].kind = "down" /\ share' = share
     \/ cmd[c].kind = "share on" /\ share' = share
     \/ cmd[c].kind = "share off" /\ share' = [share EXCEPT !.on = FALSE]
  /\ LET pf == cmd[c].saw
         kills == BoardAlive(pf) /\ ~pf.stranger
         next == [cmd EXCEPT ![c] = Place(@, IF cmd[c].kind = "down" THEN "done" ELSE "looks")]
     IN /\ board' = IF kills THEN Killed(board, pf.of) ELSE board
        /\ cmd' = IF kills /\ pf.who = "up" /\ cmd[pf.of].at \in {"ready", "deaf"}
                  THEN [next EXCEPT ![pf.of].at = "signalled"] ELSE next
        /\ missing' = missing \cup Lost(pf) \cup
             (IF BoardAlive(pf) /\ pf.stranger THEN {<<pf.of, "a stranger was killed">>} ELSE {})
  /\ pidfile' = NoFile
  /\ NoMishap /\ UNCHANGED token

Status(c) ==
  /\ cmd[c].kind = "status" /\ cmd[c].at = "probes"
  /\ At(c, "done")
  /\ IF cmd[c].saw = NoFile \/ BoardAlive(cmd[c].saw) THEN UNCHANGED <<pidfile, missing>>
     ELSE RemovePidfile(cmd[c].saw)
  /\ NoMishap /\ UNCHANGED <<board, share, token>>

-----------------------------------------------------------------------------
(* ensureBoard: a terminal that starts, the second half of share           *)

\* Somebody listens: a board, busy or not.  None: a board is spawned, detached.
Looks(c) ==
  LET host == IF share.on THEN "shared" ELSE "loop"
  IN /\ cmd[c].at = "looks"
     /\ IF Owner(host) # NoOne
        THEN /\ At(c, "done") /\ UNCHANGED board
             /\ missing' = missing \cup
                  (IF board[Owner(host)].is = "stopping" THEN {<<c, "it met a board that was stopping">>} ELSE {})
        ELSE /\ cmd' = [cmd EXCEPT ![c].at = "waits", ![c].host = host]
             /\ board' = Spawned(c) /\ UNCHANGED missing
     /\ NoMishap /\ UNCHANGED <<pidfile, share, token>>

\* (mutant) Any board that answers is recorded as the one started.
Ours_Any(c) == TRUE
\* A board that says its pid is compared; one that says 401 is ours if our child still runs.
Ours(c) == IF Health(cmd[c].host) = "pid" THEN Owner(cmd[c].host) = c ELSE board[c].is # "dead"

AwaitBoard(c) ==
  /\ cmd[c].kind \notin {"up"} /\ cmd[c].at = "waits" /\ Health(cmd[c].host) \in {"pid", "401"}
  /\ At(c, "done")
  /\ IF Ours(c)
     THEN /\ pidfile' = PidRecord("board", c, cmd[c].host)
          /\ missing' = missing \cup
               (IF Owner(cmd[c].host) = c THEN Lost(NoFile)
                ELSE IF Health(cmd[c].host) = "401" THEN Lost(NoFile) \cup
                  {Owner(cmd[c].host), c} \X {"behind a token one was taken for the other"} ELSE {})
     ELSE /\ missing' = missing \cup (IF board[c].is = "dead" THEN {} ELSE {<<c, "another answered before it">>})
          /\ UNCHANGED pidfile
  /\ NoMishap /\ UNCHANGED <<board, share, token>>

\* Fifteen seconds are over, or the terminal ended and the two seconds it leaves are.
GivesUp(c) ==
  /\ cmd[c].kind # "up" /\ cmd[c].at = "waits"
  /\ \/ /\ Health(cmd[c].host) \in {"none", "lost"}
        /\ IF board[c].is = "starting" THEN Mishap ELSE NoMishap
     \/ cmd[c].kind = "attach" /\ board[c].is = "starting" /\ NoMishap
  /\ At(c, "done")
  /\ missing' = IF board[c].is = "dead" THEN missing ELSE missing \cup {<<c, "its starter did not wait">>}
  /\ UNCHANGED <<pidfile, board, share, token>>

-----------------------------------------------------------------------------
(* Mishaps.                                                                *)

BoardDies(b) ==
  /\ board[b].is = "up" /\ Mishap
  /\ board' = [board EXCEPT ![b] = [NoBoard EXCEPT !.is = "dead"]]
  /\ UNCHANGED <<pidfile, cmd, share, token, missing>>

\* up is killed and its child is not.
UpDies(c) ==
  /\ cmd[c].at \in {"ready", "deaf"} /\ Mishap
  /\ At(c, "done") /\ missing' = missing \cup {<<c, "up died and left it">>}
  /\ UNCHANGED <<pidfile, board, share, token>>

\* The machine restarts; the recorded pid may be anybody's now.
Reboot ==
  /\ Mishap
  /\ \E reused \in BOOLEAN : pidfile' = IF pidfile = NoFile THEN NoFile ELSE [pidfile EXCEPT !.stranger = reused]
  /\ cmd' = [c \in Cmds |-> IF cmd[c].at = "new" THEN cmd[c] ELSE Place(cmd[c], "done")]
  /\ board' = [b \in Cmds |-> IF board[b].is = "none" THEN NoBoard ELSE [NoBoard EXCEPT !.is = "dead"]]
  /\ UNCHANGED <<share, token, missing>>

LauncherInit ==
  /\ pidfile = NoFile
  /\ cmd = [c \in Cmds |-> [kind |-> None, at |-> "new", saw |-> NoFile, host |-> "loop"]]
  /\ board = [b \in Cmds |-> NoBoard]
  /\ share = [on |-> FALSE, tls |-> FALSE] /\ token \in BOOLEAN
  /\ mishaps = 0 /\ missing = {}

LauncherNext ==
  \/ \E c \in Cmds, kind \in Kinds : Begin(c, kind)
  \/ \E c \in Cmds : UpProbed(c) \/ UpAsks(c) \/ UpHears(c) \/ UpFails(c) \/ UpEnds(c) \/ UpStops(c)
  \/ \E c \in Cmds : StopBoard(c) \/ Status(c) \/ Looks(c) \/ AwaitBoard(c) \/ GivesUp(c)
  \/ \E b \in Cmds : Binds(b) \/ Exits(b) \/ BoardDies(b) \/ UpDies(b)
  \/ Reboot

LauncherSpec == LauncherInit /\ [][LauncherNext]_launcherVars

-----------------------------------------------------------------------------
Quiet == \A c \in Cmds : cmd[c].at \in {"new", "done", "ready", "deaf"} /\ board[c].is \notin {"starting", "stopping"}
Why(b) == {m[2] : m \in {x \in missing : x[1] = b}}

(* The invariant behind it: a board is recorded, or its starter still waits for it, or it is noted why  *)
(* not; and after `leg share on|off` one listens, or will, or a command is yet to look.                 *)
PidRecords == [who : {"up", "board"}, of : Cmds, addr : {"loop", "shared"}, stranger : BOOLEAN]
Commands ==
  [kind : Kinds \cup {None}, saw : PidRecords \cup {NoFile}, host : {"loop", "shared"},
   at : {"new", "probes", "looks", "waits", "asked", "ready", "deaf", "signalled", "done"}]
Boards ==
  [is : {"none", "starting", "up", "stopping", "dead"}, main : {None, "loop", "shared"},
   at : SUBSET {"loop", "shared"}, tls : BOOLEAN]
LauncherTypeOK ==
  /\ pidfile \in PidRecords \cup {NoFile} /\ cmd \in [Cmds -> Commands] /\ board \in [Cmds -> Boards]
  /\ share \in [on : BOOLEAN, tls : BOOLEAN] /\ token \in BOOLEAN /\ mishaps \in Nat
Noted(b) == \E m \in missing : m[1] = b
Recorded(b) ==
  /\ pidfile # NoFile /\ ~pidfile.stranger /\ pidfile.of = b /\ pidfile.addr \in board[b].at
  /\ pidfile.who = "up" => cmd[b].at \in {"ready", "deaf", "signalled"}
Accounted(b) ==
  /\ board[b].is = "starting" => Noted(b) \/ cmd[b].at \in {"waits", "asked"}
  /\ board[b].is = "up" => Noted(b) \/ cmd[b].at \in {"waits", "asked"} \/ Recorded(b)
  /\ cmd[b].at \in {"new", "probes", "looks"} => board[b].is = "none"
  /\ cmd[b].at = "new" => cmd[b].kind = None
  /\ cmd[b].at \in {"asked", "ready", "deaf", "signalled"} => cmd[b].kind = "up"
Sharing == {"share on", "share off"}
Met(b) == <<b, "it met a board that was stopping">> \in missing
\* The board will bind: nobody is where it goes.
WillListen(b) ==
  /\ board[b].is = "starting" /\ (share.on \/ cmd[b].host = "loop")
  /\ Listens(IF share.on THEN "shared" ELSE "loop") = {}
SharedStands ==
  /\ mishaps = 0
  /\ \A c \in Cmds : cmd[c].kind \in {None, "attach", "status", "share on", "share off"}
  /\ \E c \in Cmds : cmd[c].kind \in Sharing
  => \E b \in Cmds : \/ cmd[b].kind \in Sharing /\ cmd[b].at \in {"probes", "looks"}
                     \/ board[b].is = "up" \/ Met(b) \/ WillListen(b)
LauncherInv == LauncherTypeOK /\ (\A b \in Cmds : Accounted(b)) /\ SharedStands

(* When nothing is under way, a board that listens is the one the pidfile   *)
(* names, so that `leg down` stops it; but for the boards whose record was  *)
(* lost in one of the named ways.                                           *)
BoardIsRecorded ==
  Quiet => \A b \in Cmds : board[b].is = "up" =>
    (BoardAlive(pidfile) /\ ~pidfile.stranger /\ pidfile.of = b) \/ Why(b) # {}

(* While nobody stops it and nothing fails, there is a board when `leg share on|off` is done, but  *)
(* for the command that met the board it had just told to stop.             *)
ShareLeavesABoard ==
  /\ Quiet /\ mishaps = 0
  /\ \A c \in Cmds : cmd[c].kind \in {None, "attach", "status", "share on", "share off"}
  /\ \E c \in Cmds : cmd[c].kind \in {"share on", "share off"}
  => \E b \in Cmds : board[b].is = "up" \/ "it met a board that was stopping" \in Why(b)

BoardIsKept == BoardIsRecorded /\ ShareLeavesABoard
=============================================================================
