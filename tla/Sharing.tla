------------------------------- MODULE Sharing -------------------------------
(***************************************************************************)
(* Who may see the board (share.mjs, auth.mjs, the gate and the event      *)
(* streams of server.mjs).  `leg share` commands read share.json and write *)
(* it back, each a process; a running board looks at the file's time and   *)
(* reads it again when that changed; a page's stream is asked who it is    *)
(* with every push.  Tokens are numbers, 0 is none.                        *)
(***************************************************************************)
EXTENDS Naturals, FiniteSets

CONSTANTS Names, Me,      \* people, and who `share on` makes the owner where there is none
          Shells,         \* commands, each once
          Pages,          \* browser tabs
          Local,          \* those on this machine, under a loopback address
          MaxStreams      \* bound: streams opened

VARIABLES
  roster,   \* share.json: on, its people, whose board it is; and when it was written
  seen,     \* what the board read of it, and the time the file had
  shell,    \* per command: what it does, to whom, what it read
  stream,   \* per page: open, the token it opened with, as whom it is shown the board
  issued,   \* tokens so far
  opened,
  pushed,   \* (history) the last step was a push
  revoked,  \* (history) tokens a finished command took back
  overlap   \* (history) a command wrote over what another had written since it read

shareVars == <<roster, seen, shell, stream, issued, opened, pushed, revoked, overlap>>

Roles == {"owner", "operator", "guest"}
Nobody == [name |-> "none", role |-> "none", token |-> 0]
Off == [on |-> FALSE, people |-> {}, owner |-> "none"]
NoStream == [is |-> "closed", token |-> 0, shows |-> Nobody]
Local1 == [name |-> "local", role |-> "owner", token |-> 0]
Owners(r) == {p \in r.people : p.role = "owner"}
Named(r, n) == {p \in r.people : p.name = n}

isOn(r) == r.on /\ r.people # {}

-----------------------------------------------------------------------------
(* The commands.                                                           *)

\* readShare, at the head of the command.
Reads(s, kind, n, role) ==
  /\ shell[s].at = "new"
  /\ shell' = [shell EXCEPT ![s] = [at |-> "read", kind |-> kind, who |-> n, role |-> role, copy |-> roster]]
  /\ pushed' = FALSE /\ UNCHANGED <<roster, seen, stream, issued, opened, revoked, overlap>>

New(n, role) == [name |-> n, role |-> role, token |-> issued + 1]

\* addPerson refuses a name that is on the board.
addPerson(r, n, role) == [r EXCEPT !.people = @ \cup {New(n, role)}]

\* (mutant) Anyone may be removed.
RemoveRefused_Never(r, n) == Named(r, n) = {}
\* removePerson: not the only owner of a board that is shared.
RemoveRefused(r, n) == Named(r, n) = {} \/ (isOn(r) /\ Named(r, n) = Owners(r))
removePerson(r, n) ==
  LET left == [r EXCEPT !.people = @ \ Named(r, n)]
  IN [left EXCEPT !.owner = IF @ # n THEN @ ELSE IF Owners(left) = {} THEN "none" ELSE (CHOOSE p \in Owners(left) : TRUE).name]

rotate(r, n) ==
  LET p == CHOOSE q \in r.people : q.name = n
  IN [r EXCEPT !.people = (@ \ {p}) \cup {[p EXCEPT !.token = issued + 1]}]

\* turnOn: the owner on record if he is one, else any, else a new one.
turnOn(r) ==
  LET heirs == IF Named(r, r.owner) \cap Owners(r) # {} THEN Named(r, r.owner) ELSE Owners(r)
  IN IF heirs # {} THEN [r EXCEPT !.on = TRUE, !.owner = (CHOOSE p \in heirs : TRUE).name]
     ELSE [addPerson(r, Me, "owner") EXCEPT !.on = TRUE, !.owner = Me]

\* Times are coarse: what is written at once may have the time of what was there.
Stored(new) == \E tick \in {0, 1} : roster' = [r |-> new, time |-> roster.time + tick]
\* restartBoard: a new process, which reads the file; the streams of the old one end.
Restarted == /\ seen' = roster' /\ stream' = [p \in Pages |-> NoStream]

CommandWrites(s) ==
  LET c == shell[s]
      old == c.copy.r
      new == CASE c.kind = "add" -> addPerson(old, c.who, c.role)
               [] c.kind = "rm" -> removePerson(old, c.who)
               [] c.kind = "rotate" -> rotate(old, c.who)
               [] c.kind = "on" -> turnOn(old)
               [] OTHER -> [old EXCEPT !.on = FALSE]
      refused == CASE c.kind = "add" -> Named(old, c.who) # {}
                   [] c.kind = "rm" -> RemoveRefused(old, c.who)
                   [] c.kind = "rotate" -> Named(old, c.who) = {}
                   [] c.kind = "on" -> Owners(old) = {} /\ Named(old, Me) # {}
                   [] OTHER -> FALSE
      gone == {p.token : p \in old.people} \ {p.token : p \in new.people}
  IN /\ c.at = "read" /\ shell' = [shell EXCEPT ![s] = [@ EXCEPT !.at = "done", !.copy = roster]] /\ pushed' = FALSE
     /\ IF refused THEN UNCHANGED <<roster, seen, stream, issued, revoked, overlap>>
        ELSE /\ Stored(new)
             /\ issued' = IF \E p \in new.people : p.token > issued THEN issued + 1 ELSE issued
             /\ revoked' = revoked \cup gone
             /\ overlap' = (overlap \/ c.copy # roster)
             /\ IF c.kind \in {"on", "off"} THEN Restarted \/ UNCHANGED <<seen, stream>> ELSE UNCHANGED <<seen, stream>>
     /\ UNCHANGED opened

-----------------------------------------------------------------------------
(* The board.                                                              *)

\* (mutant) The file is read once.
currentShare_Once == seen
\* currentShare: read again when the file's time is another.
currentShare == IF roster.time # seen.time THEN roster ELSE seen

\* identify: whose token it is.
identify(r, token) == {p \in r.people : p.token = token /\ token # 0}
LocalOwner(r) ==
  LET named == Named(r, r.owner)
  IN IF named # {} THEN named ELSE Owners(r)

\* authorize and reauthClient agree, but for who may open a page on a board that is not shared.
\* (mutant) A board that is no longer shared knows no tokens, so every page here is its owner's.
Viewer_Promotes(r, page, token) ==
  IF ~isOn(r) THEN IF page \in Local THEN {Local1} ELSE {}
  ELSE IF identify(r, token) # {} THEN identify(r, token)
  ELSE IF token = 0 /\ page \in Local THEN LocalOwner(r) ELSE {}
Viewer(r, page, token) ==
  IF ~isOn(r) THEN IF token = 0 /\ page \in Local THEN {Local1} ELSE {}
  ELSE IF identify(r, token) # {} THEN identify(r, token)
  ELSE IF token = 0 /\ page \in Local THEN LocalOwner(r) ELSE {}

\* GET /api/events: authorized, said hello to, added.  Without LEG_TOKEN a page of this machine is
\* the owner's whatever token it still presents, until it is asked again.
Opens(p, token) ==
  LET sh == currentShare.r
      who == IF ~isOn(sh) /\ p \in Local THEN {Local1} ELSE Viewer(sh, p, token)
  IN /\ stream[p].is = "closed" /\ opened < MaxStreams /\ token <= issued /\ who # {}
     /\ stream' = [stream EXCEPT ![p] = [is |-> "open", token |-> token, shows |-> CHOOSE v \in who : TRUE]]
     /\ opened' = opened + 1 /\ seen' = currentShare /\ pushed' = FALSE
     /\ UNCHANGED <<roster, shell, issued, revoked, overlap>>

\* broadcast: each stream is asked again, and ended if it is nobody's.
Pushes ==
  LET sh == currentShare.r
      who(p) == Viewer(sh, p, stream[p].token)
  IN /\ \E p \in Pages : stream[p].is = "open"
     /\ stream' = [p \in Pages |-> IF stream[p].is = "closed" \/ who(p) = {} THEN NoStream
                                    ELSE [stream[p] EXCEPT !.shows = CHOOSE v \in who(p) : TRUE]]
     /\ seen' = currentShare /\ pushed' = TRUE
     /\ UNCHANGED <<roster, shell, issued, opened, revoked, overlap>>

ShareInit ==
  /\ roster = [r |-> Off, time |-> 0] /\ seen = roster
  /\ shell = [s \in Shells |-> [at |-> "new", kind |-> "none", who |-> "none", role |-> "none", copy |-> roster]]
  /\ stream = [p \in Pages |-> NoStream]
  /\ issued = 0 /\ opened = 0 /\ pushed = FALSE /\ revoked = {} /\ overlap = FALSE

ShareNext ==
  \/ \E s \in Shells : \/ \E n \in Names : Reads(s, "rm", n, "none") \/ Reads(s, "rotate", n, "none")
                       \/ \E n \in Names, role \in Roles : Reads(s, "add", n, role)
                       \/ Reads(s, "on", "none", "none") \/ Reads(s, "off", "none", "none")
                       \/ CommandWrites(s)
  \/ \E p \in Pages, token \in 0..issued : Opens(p, token)
  \/ Pushes

ShareSpec == ShareInit /\ [][ShareNext]_shareVars

-----------------------------------------------------------------------------
(* With a push, whoever is still shown the board holds a link that is good, *)
(* as the person it is for, or sits at this machine without one: a link     *)
(* taken back, and a board no longer shared, end streams and promote none.  *)
(* But where the file was written twice within its time's grain.            *)
Shown(s, r) ==
  \/ s.token # 0 /\ isOn(r) /\ s.shows \in r.people /\ s.shows.token = s.token
  \/ s.token = 0 /\ (IF isOn(r) THEN s.shows \in Owners(r) ELSE s.shows = Local1)
StreamsAreDue ==
  pushed /\ seen = roster => \A p \in Pages : stream[p].is = "open" => Shown(stream[p], roster.r)

(* The board notices what commands write.                                   *)
Noticed == pushed => seen = roster \/ seen.time = roster.time

(* One command at a time, no link taken back is good again, and a shared    *)
(* board has an owner.                                                      *)
RosterHolds ==
  overlap \/ /\ isOn(roster.r) => Owners(roster.r) # {}
             /\ \A p \in roster.r.people : p.token \notin revoked

(* The invariant behind it: every roster that was ever written has each name once and, while the   *)
(* board is shared, an owner; the owner on record is one of them.                                  *)
People == [name : Names, role : Roles, token : Nat \ {0}]
Rosters == [on : BOOLEAN, people : SUBSET People, owner : Names \cup {"none"}]
RosterOK(r, last) ==
  /\ r \in Rosters /\ \A p \in r.people : p.token <= last
  /\ \A p, q \in r.people : p.name = q.name => p = q
  /\ r.owner = "none" \/ \E p \in Owners(r) : p.name = r.owner
  /\ r.on => Owners(r) # {}
ShareTypeOK ==
  /\ issued \in Nat /\ pushed \in BOOLEAN /\ overlap \in BOOLEAN /\ revoked \subseteq 1..issued
  /\ roster \in [r : Rosters, time : Nat] /\ seen \in [r : Rosters, time : Nat]
  /\ shell \in [Shells -> [at : {"new", "read", "done"}, kind : {"none", "add", "rm", "rotate", "on", "off"},
                           who : Names \cup {"none"}, role : Roles \cup {"none"}, copy : [r : Rosters, time : Nat]]]
  /\ \A s \in Shells : /\ shell[s].kind \in {"add", "rm", "rotate"} => shell[s].who \in Names
                       /\ shell[s].kind = "add" => shell[s].role \in Roles
  /\ stream \in [Pages -> [is : {"open", "closed"}, token : Nat, shows : People \cup {Local1, Nobody}]]
ShareInv ==
  /\ ShareTypeOK
  /\ RosterOK(roster.r, issued) /\ RosterOK(seen.r, issued)
  /\ \A s \in Shells : RosterOK(shell[s].copy.r, issued)
  /\ overlap \/ \A p \in roster.r.people : p.token \notin revoked
  /\ StreamsAreDue /\ Noticed

LinksHold == StreamsAreDue /\ Noticed /\ RosterHolds
=============================================================================
