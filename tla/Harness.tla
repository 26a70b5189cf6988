------------------------------- MODULE Harness -------------------------------
(***************************************************************************)
(* The portable harness (src/harness): before a leg starts, Leg reads the  *)
(* source client's working environment into one bundle and writes what     *)
(* the destination client can hold.  Every Leg process does this by        *)
(* itself, so the bundle, the ownership record and the destination's files *)
(* are shared: one lock is held for each section, and between two          *)
(* sections of one process another process, or the user, moves.            *)
(*                                                                         *)
(* Three files stand for every managed one: the rules file, which carries  *)
(* the ownership mark; an item (a subagent or a command), which carries    *)
(* none; and a shared file, of which Leg writes a region and the user owns *)
(* the rest.  A text is the version Leg wrote, the user's own edit it      *)
(* holds (0: none), whether the mark is in it, and whether it is JSON that *)
(* does not parse.  Leg reads a file, decides, copies it aside and writes  *)
(* it without a lock the user's editor would know of.                      *)
(***************************************************************************)
EXTENDS Naturals, FiniteSets

CONSTANTS
  Legs,        \* processes that prepare a hand-off or run `leg harness`
  Policies,    \* of preferences.harness: "warn", "sync" and "strict"
  MaxSource,   \* versions of the source client's environment
  Itemless,    \* the versions in which the source no longer has the item
  Wider,       \* those with a deny or an ask the destination cannot express
  MaxEdits     \* what the user and misfortune do: edits, changes of the source, deaths

HarnessAssumption ==
  /\ Policies \subseteq {"warn", "sync", "strict"}
  /\ MaxSource \in Nat \ {0} /\ MaxEdits \in Nat
  /\ Itemless \cup Wider \subseteq 1..MaxSource /\ {"free", "dead"} \cap Legs = {}

VARIABLES
  cfg,      \* preferences.harness: [on, policy]
  source,   \* the version of the source client's surfaces
  bundle,   \* $LEG_HOME/harness/bundle: [ver, fp], fp as its manifest says
  capture,  \* capture.json: [hash, fp] of the last capture
  disk,     \* the destination client's files
  linked,   \* whether its skills directory is a link to another one
  record,   \* harness-state.json: [files, drift, owned]
  backups,  \* the user's edits that have a copy under backups/
  hlock,    \* who holds .lock
  leg,      \* what each process is doing, with what it has read
  edits     \* what happened from outside: [made, died, kept (the user's edits she counts on),
            \* hers (the files she edited), raced (edits made in the instant before an overwrite)]

hvars == <<cfg, source, bundle, capture, disk, linked, record, backups, hlock, leg, edits>>

Files == {"rules", "item", "shared"}
Texts == [ver : 0..MaxSource, own : 0..MaxEdits + 1, mark : BOOLEAN, bad : BOOLEAN]
Absent == [ver |-> 0, own |-> 0, mark |-> FALSE, bad |-> FALSE]
Unrecorded == [Absent EXCEPT !.mark = TRUE]
Settled == {"synced", "partial"}

Idle == [pc |-> "idle", verb |-> "none", policy |-> "off", hash |-> 0, ver |-> 0,
         mem |-> [files |-> [f \in Files |-> Unrecorded],
                  drift |-> [f \in Files |-> Unrecorded], owned |-> FALSE],
         at |-> "none", held |-> Absent, seen |-> [f \in Files |-> "unseen"], state |-> "none", proceed |-> TRUE]

(* A machine Leg never wrote to, one where the user has files of her own   *)
(* in the destination, and perhaps a link for its skills directory, and    *)
(* one an earlier apply left current.                                      *)
HarnessInit ==
  /\ cfg \in [on : {TRUE}, policy : Policies]
  /\ source = 1
  /\ \E was \in {"untouched", "hers", "current"} :
       /\ disk = [f \in Files |->
                   IF was = "current" THEN [Absent EXCEPT !.ver = 1, !.mark = f = "rules"]
                   ELSE IF was = "hers" /\ f # "item" THEN [Absent EXCEPT !.own = MaxEdits + 1]
                   ELSE Absent]
       /\ linked \in {FALSE, was = "hers"}
       /\ record = IF was = "current" THEN [Idle.mem EXCEPT !.files = disk, !.owned = TRUE]
                                      ELSE Idle.mem
       /\ bundle = [ver |-> IF was = "current" THEN 1 ELSE 0, fp |-> IF was = "current" THEN 1 ELSE 0]
       /\ capture = [hash |-> bundle.ver, fp |-> bundle.fp]
  /\ backups = {} /\ hlock = "free" /\ leg = [p \in Legs |-> Idle]
  /\ edits = [made |-> 0, died |-> FALSE, kept |-> {disk[f].own : f \in Files} \ {0},
              hers |-> {}, raced |-> {}]
-----------------------------------------------------------------------------
(* What the engine makes of one file (makeWriter, renderMarkdownDir,       *)
(* pruneFiles and readUserJson) from the text it reads, given the version  *)
(* `v` it renders and what the ownership record says.                      *)

Rendered(f, v, text) ==
  IF f = "shared" THEN [text EXCEPT !.ver = v] ELSE [Absent EXCEPT !.ver = v, !.mark = f = "rules"]

Wanted(f, v) == f # "item" \/ v \notin Itemless

Drifted(f, mem, text) ==
  /\ text # Absent /\ mem.files[f] \notin {Unrecorded, text}
  /\ ~text.mark /\ f # "shared"

(* The verdict on one file before anything is written.                     *)
Verdict(f, v, mem, text) ==
  IF ~Wanted(f, v)
  THEN IF mem.owned /\ text # Absent THEN "prune" ELSE "unchanged"
  ELSE IF f = "shared" /\ text.bad THEN "error"
  ELSE IF f = "item" /\ text # Absent /\ mem.files[f] = Unrecorded /\ ~mem.owned THEN "dropped"
  ELSE IF text = Rendered(f, v, text) THEN "unchanged"
  ELSE IF Drifted(f, mem, text) THEN "drifted" ELSE "write"

(* The state a report is normalised to (rollUp, normalizeRow), from the    *)
(* verdicts: a deny or an ask that cannot be carried calls for attention   *)
(* however current the files are; a linked skills directory does, when     *)
(* nothing is stale.                                                       *)
RowState(seen, ver, applied) ==
  IF \E f \in Files : seen[f] = "error" THEN "error"
  ELSE IF ver \in Wider \/ \E f \in Files : seen[f] = "drifted" THEN "attention"
  ELSE IF ~applied /\ \E f \in Files : seen[f] \in {"write", "prune"} THEN "stale"
  ELSE IF linked THEN "attention"
  ELSE IF \E f \in Files : seen[f] = "dropped" THEN "partial" ELSE "synced"

Took(p) == hlock = "free" /\ hlock' = p
Free == hlock' = "free"
-----------------------------------------------------------------------------
(* A hand-off asks for the destination's harness (prepareHarnessForHandoff)*)
(* with the configuration it reads now; `to` is the client the next leg    *)
(* runs under.  Only a client Leg can carry to goes further ("same-client" *)
(* stands for the source client too), and the source's surfaces are        *)
(* fingerprinted before any lock is taken.                                 *)
Ends(p, state, proceed) ==
  leg' = [leg EXCEPT ![p].pc = "done", ![p].verb = "prepare", ![p].state = state,
                     ![p].policy = cfg.policy, ![p].proceed = proceed]

Prepares(p, to) ==
  /\ leg[p].pc = "idle"
  /\ \/ ~cfg.on /\ Ends(p, "off", TRUE)
     \/ cfg.on /\ to = "same-client" /\ Ends(p, to, TRUE)
     \/ cfg.on /\ to = "no-client" /\ Ends(p, "unsupported", TRUE)
     \/ cfg.on /\ to = "no-adapter" /\ Ends(p, "unsupported", cfg.policy # "strict")
     \/ /\ cfg.on /\ to = "client"
        /\ leg' = [leg EXCEPT ![p].pc = "fingerprinted", ![p].verb = "prepare",
                              ![p].policy = cfg.policy, ![p].hash = source]
  /\ UNCHANGED <<cfg, source, bundle, capture, disk, linked, record, backups, hlock, edits>>

(* `leg harness sync [--force]` needs the one consent; `leg harness enable` *)
(* captures again whatever the cache says and turns the harness on last.   *)
Commands(p, verb) ==
  /\ leg[p].pc = "idle"
  /\ verb \in {"sync", "force"} => cfg.on
  /\ leg' = [leg EXCEPT ![p].pc = "fingerprinted", ![p].verb = verb, ![p].hash = source]
  /\ UNCHANGED <<cfg, source, bundle, capture, disk, linked, record, backups, hlock, edits>>

(* The bundle on disk serves when capture.json names the same surfaces and *)
(* the bundle is the one it was recorded with (captureHarness).            *)
Cached(p) ==
  /\ leg[p].verb # "enable" /\ capture.hash = leg[p].hash
  /\ bundle.fp = capture.fp

ReusesBundle(p) ==
  /\ leg[p].pc = "fingerprinted" /\ hlock = "free" /\ Cached(p)
  /\ leg' = [leg EXCEPT ![p].pc = "captured", ![p].ver = bundle.ver]
  /\ UNCHANGED <<cfg, source, bundle, capture, disk, linked, record, backups, hlock, edits>>

(* The capture reads the source as it is under the lock, writes the        *)
(* manifest first and the rest of the bundle after it, then capture.json   *)
(* with the hash taken before the lock.                                    *)
WritesManifest(p) ==
  /\ leg[p].pc = "fingerprinted" /\ ~Cached(p) /\ Took(p)
  /\ leg' = [leg EXCEPT ![p].pc = "capturing", ![p].ver = source]
  /\ bundle' = [bundle EXCEPT !.fp = source]
  /\ UNCHANGED <<cfg, source, capture, disk, linked, record, backups, edits>>

RecordsCapture(p) ==
  /\ leg[p].pc = "capturing" /\ Free
  /\ bundle' = [bundle EXCEPT !.ver = leg[p].ver]
  /\ capture' = [hash |-> leg[p].hash, fp |-> leg[p].ver]
  /\ leg' = [leg EXCEPT ![p].pc = "captured"]
  /\ UNCHANGED <<cfg, source, disk, linked, record, backups, edits>>

(* A hand-off compares first; under `warn`, and when nothing is out of     *)
(* date, the answer is what the comparison found.  A command only reports. *)
Judged(p, state) ==
  [leg EXCEPT ![p].pc = "done", ![p].state = state, ![p].mem = Idle.mem, ![p].seen = Idle.seen,
              ![p].policy = "off", ![p].verb = "none",
              ![p].proceed = leg[p].policy = "strict" => state \in Settled]

Compares(p) ==
  /\ leg[p].pc = "captured" /\ leg[p].verb = "prepare" /\ hlock = "free"
  /\ LET seen == [f \in Files |-> Verdict(f, leg[p].ver, record, disk[f])]
         state == RowState(seen, leg[p].ver, FALSE)
     IN leg' = IF leg[p].policy # "warn" /\ state \in {"stale", "attention"}
               THEN [leg EXCEPT ![p].pc = "behind"] ELSE Judged(p, state)
  /\ UNCHANGED <<cfg, source, bundle, capture, disk, linked, record, backups, hlock, edits>>

(* An apply reads the ownership record under the lock, then writes file by *)
(* file; a command applies without comparing first.                        *)
Applies(p) ==
  /\ \/ leg[p].pc = "behind"
     \/ leg[p].pc = "captured" /\ leg[p].verb # "prepare"
  /\ Took(p)
  /\ leg' = [leg EXCEPT ![p].pc = "applying", ![p].mem = record]
  /\ UNCHANGED <<cfg, source, bundle, capture, disk, linked, record, backups, edits>>

Order == [rules |-> {}, item |-> {"rules"}, shared |-> {"rules", "item"}]

(* An overwrite and a prune leave a copy under backups/, and so does the   *)
(* first sight of a hand edit: a second look at the same edit does not.    *)
\* (mutant) One copy per file, not per edit.
FirstSightOfFile(f, mem, text) == mem.drift[f] = Unrecorded

FirstSight(f, mem, text) == mem.drift[f] # text

Due(p) == Verdict(leg[p].at, leg[p].ver, leg[p].mem, leg[p].held)
Forced(p, verdict) == verdict = "drifted" /\ leg[p].verb = "force"

(* What the process remembers of file `f`, of which it read `text`, once   *)
(* it is through with it.                                                  *)
Kept(p, f, text, verdict) ==
  LET mem == leg[p].mem
      v == leg[p].ver
      over == verdict = "write" \/ Forced(p, verdict)
      same == verdict = "unchanged" /\ Wanted(f, v)
  IN [mem EXCEPT
        !.files[f] = IF over \/ same THEN Rendered(f, v, text)
                     ELSE IF verdict = "prune" THEN Unrecorded ELSE @,
        !.drift[f] = IF over THEN Unrecorded
                     ELSE IF verdict = "drifted" /\ FirstSight(f, mem, text) THEN text ELSE @,
        !.owned = IF f = "item" THEN Wanted(f, v) /\ verdict # "dropped" ELSE @]

Through(p, f, mem, outcome) ==
  leg' = [leg EXCEPT ![p].pc = "applying", ![p].at = "none", ![p].held = Absent,
                     ![p].mem = mem, ![p].seen[f] = outcome]

(* One file: it is read and judged; copied aside, when it is there and its *)
(* text has no copy yet; and written or removed from what was read.  The   *)
(* user may change it before the copy and after it.                        *)
Looks(p, f) ==
  /\ leg[p].pc = "applying" /\ leg[p].seen[f] = "unseen"
  /\ \A g \in Order[f] : leg[p].seen[g] # "unseen"
  /\ LET text == disk[f]
         mem == leg[p].mem
         verdict == Verdict(f, leg[p].ver, mem, text)
         copied == /\ text # Absent
                   /\ \/ verdict \in {"write", "prune"}
                      \/ verdict = "drifted" /\ FirstSight(f, mem, text)
     IN IF copied \/ verdict = "write" \/ Forced(p, verdict)
        THEN leg' = [leg EXCEPT ![p].at = f, ![p].held = text,
                                ![p].pc = IF copied THEN "copying" ELSE "writing"]
        ELSE Through(p, f, Kept(p, f, text, verdict), verdict)
  /\ UNCHANGED <<cfg, source, bundle, capture, disk, linked, record, backups, hlock, edits>>

(* The copy is of the file as it is now; one that is gone by now fails its *)
(* component, unless it was to be removed anyway.                          *)
Copies(p) ==
  /\ leg[p].pc = "copying"
  /\ LET f == leg[p].at
         there == disk[f] # Absent
     IN /\ backups' = backups \cup ({disk[f].own} \ {0})
        /\ \/ ~there /\ Due(p) # "prune" /\ Through(p, f, leg[p].mem, "error")
           \/ /\ there /\ Due(p) = "drifted" /\ ~Forced(p, Due(p))
              /\ Through(p, f, Kept(p, f, leg[p].held, Due(p)), Due(p))
           \/ /\ IF there THEN Due(p) # "drifted" \/ Forced(p, Due(p)) ELSE Due(p) = "prune"
              /\ leg' = [leg EXCEPT ![p].pc = "writing"]
  /\ UNCHANGED <<cfg, source, bundle, capture, disk, linked, record, hlock, edits>>

Puts(p) ==
  /\ leg[p].pc = "writing"
  /\ LET f == leg[p].at IN
     /\ disk' = [disk EXCEPT ![f] = IF Due(p) = "prune" THEN Absent
                                    ELSE Rendered(f, leg[p].ver, leg[p].held)]
     /\ Through(p, f, Kept(p, f, leg[p].held, Due(p)),
                IF Due(p) = "prune" THEN "prune" ELSE "written")
  /\ UNCHANGED <<cfg, source, bundle, capture, linked, record, backups, hlock, edits>>

(* Only the end of an apply saves the ownership record.                    *)
SavesRecord(p) ==
  /\ leg[p].pc = "applying" /\ \A f \in Files : leg[p].seen[f] # "unseen"
  /\ Free /\ record' = leg[p].mem
  /\ leg' = Judged(p, RowState(leg[p].seen, leg[p].ver, TRUE))
  /\ cfg' = IF leg[p].verb = "enable" THEN [cfg EXCEPT !.on = TRUE] ELSE cfg
  /\ UNCHANGED <<source, bundle, capture, disk, linked, backups, edits>>
-----------------------------------------------------------------------------
Outside == edits.made < MaxEdits
Happened == [edits EXCEPT !.made = @ + 1]

(* Whoever cannot have the lock within its thirty seconds fails its own    *)
(* step; a lock whose holder died is taken away after a minute.            *)
GivesUp(p) ==
  /\ leg[p].pc \in {"fingerprinted", "captured", "behind"} /\ hlock # "free"
  /\ leg' = Judged(p, "error")
  /\ UNCHANGED <<cfg, source, bundle, capture, disk, linked, record, backups, hlock, edits>>

LockGoesStale ==
  /\ hlock = "dead" /\ hlock' = "free"
  /\ UNCHANGED <<cfg, source, bundle, capture, disk, linked, record, backups, leg, edits>>

ProcessDies(p) ==
  /\ Outside /\ leg[p].pc \notin {"idle", "done", "dead"}
  /\ edits' = [Happened EXCEPT !.died = TRUE]
  /\ hlock' = IF hlock = p THEN "dead" ELSE hlock
  /\ leg' = [leg EXCEPT ![p] = [Idle EXCEPT !.pc = "dead"]]
  /\ UNCHANGED <<cfg, source, bundle, capture, disk, linked, record, backups>>

(* The user changes the source, edits a managed file (her own text beside  *)
(* Leg's, with the mark or without it; the shared file may stop parsing),  *)
(* removes one, or turns the harness off (from the board, or with `leg     *)
(* harness disable`).                                                      *)
SourceChanges ==
  /\ Outside /\ source < MaxSource /\ source' = source + 1 /\ edits' = Happened
  /\ UNCHANGED <<cfg, bundle, capture, disk, linked, record, backups, hlock, leg>>

UserEdits(f) ==
  /\ Outside
  /\ LET e == edits.made + 1 IN
     /\ \E mark \in {disk[f].mark, FALSE}, bad \in {FALSE, f = "shared"} :
          disk' = [disk EXCEPT ![f] = [@ EXCEPT !.own = e, !.mark = mark, !.bad = bad]]
     /\ edits' = [Happened EXCEPT
                    !.kept = (@ \ {disk[f].own}) \cup {e}, !.hers = @ \cup {f},
                    !.raced = IF \E p \in Legs : leg[p].pc = "writing" /\ leg[p].at = f
                              THEN @ \cup {e} ELSE @]
  /\ UNCHANGED <<cfg, source, bundle, capture, linked, record, backups, hlock, leg>>

UserRemoves(f) ==
  /\ Outside /\ disk[f] # Absent
  /\ disk' = [disk EXCEPT ![f] = Absent]
  /\ edits' = [Happened EXCEPT !.kept = @ \ {disk[f].own}]
  /\ UNCHANGED <<cfg, source, bundle, capture, linked, record, backups, hlock, leg>>

TurnsOff ==
  /\ Outside /\ cfg.on /\ cfg' = [cfg EXCEPT !.on = FALSE] /\ edits' = Happened
  /\ UNCHANGED <<source, bundle, capture, disk, linked, record, backups, hlock, leg>>

HarnessNext ==
  \/ \E p \in Legs, to \in {"client", "same-client", "no-client", "no-adapter"} :
       Prepares(p, to)
  \/ \E p \in Legs, verb \in {"sync", "force", "enable"} : Commands(p, verb)
  \/ \E p \in Legs : \/ ReusesBundle(p) \/ WritesManifest(p) \/ RecordsCapture(p) \/ Compares(p)
                     \/ Applies(p) \/ Copies(p) \/ Puts(p) \/ SavesRecord(p) \/ GivesUp(p) \/ ProcessDies(p)
  \/ \E p \in Legs, f \in Files : Looks(p, f)
  \/ \E f \in Files : UserEdits(f) \/ UserRemoves(f)
  \/ LockGoesStale \/ SourceChanges \/ TurnsOff
-----------------------------------------------------------------------------
HarnessTypeOK ==
  /\ cfg \in [on : BOOLEAN, policy : Policies] /\ source \in 1..MaxSource
  /\ disk \in [Files -> Texts] /\ hlock \in Legs \cup {"free", "dead"}
  /\ backups \subseteq 1..MaxEdits + 1

(* Whatever the order of two processes, the user and a death, a text of    *)
(* hers is in its file or under backups/: the one-backup-per-edit rule     *)
(* (state.drift) never leaves an overwritten edit without its copy.  The   *)
(* exception is an edit saved between Leg's last look at the file and its  *)
(* overwrite of it, which the code has no way to see.                      *)
NothingIsLost ==
  \A e \in edits.kept \ edits.raced : e \in backups \/ \E f \in Files : disk[f].own = e

(* A file the user took over (its mark gone, known to the ownership        *)
(* record) is replaced only by a forced sync, or removed because the       *)
(* source no longer has the item; or its text is not the one that was      *)
(* read, and then it has its copy or is such an edit.                      *)
HandEditStands ==
  \A f \in {"rules", "item"} :
    (disk[f].own # 0 /\ ~disk[f].mark /\ disk'[f].own # disk[f].own /\ edits' = edits)
      => \/ \E p \in Legs : /\ hlock = p
                            /\ \/ leg[p].verb = "force"
                               \/ leg[p].at = f /\ leg[p].held # disk[f]
         \/ f = "item" /\ disk'[f] = Absent
         \/ record.files[f] = Unrecorded

(* A hand-off that is told its destination is current carries at least     *)
(* the environment the source had when it asked, although another process  *)
(* may have captured or applied in between: the surfaces are hashed before *)
(* the lock and recorded with what was read under it.                      *)
CurrentIsCurrent ==
  \A p \in Legs : leg[p].pc = "done" /\ leg[p].state \in Settled => leg[p].ver >= leg[p].hash

(* "Needs attention" means that the user changed a file Leg had written,   *)
(* or has a link where Leg would put skills, or that what was carried is   *)
(* less restricted than the source: never that Leg took its own text for   *)
(* hers, except after a process that died between a file and the record.   *)
AttentionIsHers ==
  \A p \in Legs : leg[p].pc = "done" /\ leg[p].state = "attention" /\ ~edits.died
                    => edits.hers # {} \/ leg[p].ver \in Wider \/ linked
=============================================================================
