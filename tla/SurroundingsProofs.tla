--------------------------- MODULE SurroundingsProofs ---------------------------
(***************************************************************************)
(* What is proved of what stands around the cards.  Of the parts of        *)
(* MCSurroundings: that the licence is fair, that the links a board is     *)
(* shared by hold, that the answers to the agents' trust questions stand,  *)
(* and that the pidfile names the board that listens.  Of MCFeeds: that    *)
(* the tap on a runtime tells the truth, that what a leg is handed is true *)
(* (what the taps heard, what RESUME.md says), and that the record of a    *)
(* login, its poller and the cards agree on its usage.  A part's invariant *)
(* is its own (LicenceInv, ShareInv, TrustInv, LauncherInv, RuntimeInv,    *)
(* TapsInv, ResumeInv, PollInv, UsageInv); the other parts' variables rest.*)
(* Of Page: that the expanded terminal and the question on the page are    *)
(* the reader's own.                                                       *)
(***************************************************************************)
EXTENDS MCSurroundings, MCFeeds, Page, FiniteSetTheorems, SequenceTheorems, WellFoundedInduction, TLAPS

-----------------------------------------------------------------------------
(* The licence (Licence.tla).                                              *)

\* Counting is the same in a component.
LEMMA Counts ==
  ASSUME NEW S
  PROVE  Li!Cardinality(S) = Cardinality(S)
BY DEF Li!Cardinality, Cardinality

\* Every key, the absent one among them, has a plan and an expiry.
LEMMA KeyIs ==
  ASSUME NEW k \in Keys \cup Forged \cup {Li!NoKey}
  PROVE  k.until \in Nat /\ k.plan \in {"none", "personal", "team"}
BY LicenceAssumption DEF Li!NoKey

\* Every step of the licence keeps its invariant.
LEMMA LicenceStep ==
  ASSUME Li!LicenceInv, Li!LicenceNext
  PROVE  Li!LicenceInv'
<1> USE DEF Li!LicenceInv, Li!LicenceTypeOK
<1>1. ASSUME NEW gate \in {"run", "share"}, Li!Asks(gate) PROVE Li!LicenceInv'
  <2> DEFINE starts == IF Li!verifyLicense(licence) THEN trialFile ELSE Li!Started
  <2>1. trialFile' = starts /\ UNCHANGED <<today, release, licence, renewal, decided, raced>>
    BY <1>1 DEF Li!Asks
  <2>2. starts \in Nat /\ (trialFile # 0 => starts = trialFile)
    BY DEF Li!Started
  <2>3. tried' = tried \/ (tried' = tried \cup {today} /\ Li!TrialRuns(starts) /\ starts # 0)
    BY <1>1 DEF Li!Asks, Li!Allowed, Li!Started
  <2> HIDE DEF starts
  <2>4. starts = 0 => tried' = {}
    BY <2>2, <2>3
  <2>5. tried' \subseteq starts .. starts + TrialDays - 1
    <3>1. tried \subseteq starts .. starts + TrialDays - 1
      BY <2>2
    <3>2. Li!TrialRuns(starts) => today \in starts .. starts + TrialDays - 1
      BY <2>2, LicenceAssumption DEF Li!TrialRuns
    <3>3. QED
      BY <2>3, <3>1, <3>2
  <2>6. QED
    BY <2>1, <2>2, <2>4, <2>5
<1>2. ASSUME NEW k \in Keys \cup Forged, Li!activate(k) PROVE Li!LicenceInv'
  BY <1>2 DEF Li!activate, Li!Decides
<1>3. CASE Li!deactivate
  BY <1>3 DEF Li!deactivate, Li!Decides
<1>4. CASE Li!RefreshAsks
  BY <1>4 DEF Li!RefreshAsks, Li!Renews
<1>5. CASE Li!RefreshHears
  BY <1>5, KeyIs DEF Li!RefreshHears
<1>6. CASE Li!Passes \/ Li!ClockIsSetBack \/ Li!Updates
  <2>1. today' \in Nat \ {0} /\ release' \in Nat
    BY <1>6 DEF Li!Passes, Li!ClockIsSetBack, Li!Updates
  <2>2. UNCHANGED <<trialFile, licence, renewal, decided, raced, tried>>
    BY <1>6 DEF Li!Passes, Li!ClockIsSetBack, Li!Updates
  <2>3. QED
    BY <2>1, <2>2
<1>7. QED
  BY <1>1, <1>2, <1>3, <1>4, <1>5, <1>6 DEF Li!LicenceNext

\* The licence starts in it.
LEMMA LicenceStarts == Li!LicenceInit => Li!LicenceInv
<1> SUFFICES ASSUME Li!LicenceInit PROVE Li!LicenceInv
  OBVIOUS
<1>1. Li!LicenceTypeOK
  <2>1. today \in Nat \ {0} /\ release \in Nat /\ trialFile \in Nat
    BY DEF Li!LicenceInit
  <2>2. raced \in BOOLEAN /\ \A k \in {licence, renewal, decided} : k = Li!NoKey
    BY DEF Li!LicenceInit
  <2>3. QED
    BY <2>1, <2>2 DEF Li!LicenceTypeOK
<1>2. QED
  BY <1>1 DEF Li!LicenceInit, Li!LicenceInv

(* Whatever is done with the clock, the keys and the renewals of a licence *)
(* (licence.mjs), the trial opens the gates on at most TrialDays days, and *)
(* the key that is stored is the one the human chose or a renewal of it,   *)
(* but where the choice raced a renewal.  For every set of keys and        *)
(* every length of the trial.                                              *)
THEOREM LicenceIsFairThm == SurroundingsSpec => []LicenceIsFair
<1> DEFINE Inv == part = "licence" => Li!LicenceInv
<1>1. SurroundingsInit => Inv
  BY LicenceStarts DEF SurroundingsInit
<1>2. Inv /\ [SurroundingsNext]_surroundingsVars => Inv'
  <2> SUFFICES ASSUME Inv, [SurroundingsNext]_surroundingsVars, part' = "licence" PROVE Li!LicenceInv'
    OBVIOUS
  <2>1. CASE SurroundingsNext
    BY <2>1, LicenceStep DEF SurroundingsNext
  <2>2. CASE UNCHANGED surroundingsVars
    BY <2>2 DEF surroundingsVars, Livars, Li!LicenceInv, Li!LicenceTypeOK
  <2>3. QED
    BY <2>1, <2>2
<1>3. Inv => LicenceIsFair
  <2> SUFFICES ASSUME Li!LicenceInv PROVE Li!LicenceIsFair
    BY DEF LicenceIsFair
  <2>1. Cardinality(tried) <= TrialDays
    <3>1. trialFile \in Nat /\ tried \subseteq trialFile .. trialFile + TrialDays - 1
      BY DEF Li!LicenceInv, Li!LicenceTypeOK
    <3>2. /\ IsFiniteSet(trialFile .. trialFile + TrialDays - 1)
          /\ Cardinality(trialFile .. trialFile + TrialDays - 1) = TrialDays
      BY <3>1, FS_Interval, LicenceAssumption
    <3>3. QED
      BY <3>1, <3>2, FS_Subset, FS_CardinalityType, LicenceAssumption
  <2>2. QED
    BY <2>1, Counts DEF Li!LicenceInv, Li!LicenceIsFair
<1>4. QED
  BY <1>1, <1>2, <1>3, PTL DEF SurroundingsSpec

-----------------------------------------------------------------------------
(* The links (Sharing.tla).                                                *)

\* A roster with later links is in order too.
LEMMA RosterLater ==
  ASSUME NEW r, NEW n \in Nat, NEW m \in Nat, n <= m, Sh!RosterOK(r, n)
  PROVE  Sh!RosterOK(r, m)
BY DEF Sh!RosterOK, Sh!Rosters, Sh!People

\* `leg share add` leaves a roster in order.
LEMMA AddKeeps ==
  ASSUME NEW r, issued \in Nat, Sh!RosterOK(r, issued), NEW n \in Names, NEW role \in Sh!Roles,
         Sh!Named(r, n) = {}
  PROVE  Sh!RosterOK(Sh!addPerson(r, n, role), issued + 1)
<1> DEFINE p == Sh!New(n, role)
           new == Sh!addPerson(r, n, role)
<1>1. p \in Sh!People /\ p.name = n /\ p.role = role /\ p.token = issued + 1
  BY DEF Sh!New, Sh!People
<1>2. r \in Sh!Rosters /\ r.people \subseteq Sh!People
  BY DEF Sh!RosterOK, Sh!Rosters
<1>3. new \in Sh!Rosters /\ new.people = r.people \cup {p} /\ new.owner = r.owner /\ new.on = r.on
  BY <1>1, <1>2 DEF Sh!addPerson, Sh!Rosters
<1> HIDE DEF new, p
<1>4. \A q \in r.people : q.name # n
  BY DEF Sh!Named
<1>5. \A q \in r.people : q.token <= issued + 1
  <2>1. \A q \in r.people : q.token \in Nat /\ q.token <= issued
    BY <1>2 DEF Sh!RosterOK, Sh!People
  <2>2. QED
    BY <2>1
<1>6. Sh!Owners(r) \subseteq Sh!Owners(new)
  BY <1>3 DEF Sh!Owners
<1>7. \A q \in new.people : q.token <= issued + 1
  BY <1>1, <1>3, <1>5
<1>8. \A q, u \in new.people : q.name = u.name => q = u
  BY <1>1, <1>3, <1>4 DEF Sh!RosterOK
<1>9. (new.owner = "none" \/ \E q \in Sh!Owners(new) : q.name = new.owner)
      /\ (new.on => Sh!Owners(new) # {})
  BY <1>3, <1>6 DEF Sh!RosterOK
<1>10. QED
  BY <1>3, <1>7, <1>8, <1>9 DEF Sh!RosterOK, new

\* `leg share rm` leaves a roster in order, and an owner on one that is shared.
LEMMA RemoveKeeps ==
  ASSUME NEW r, issued \in Nat, Sh!RosterOK(r, issued), NEW n \in Names, ~Sh!RemoveRefused(r, n)
  PROVE  Sh!RosterOK(Sh!removePerson(r, n), issued)
<1> DEFINE left == [r EXCEPT !.people = r.people \ Sh!Named(r, n)]
           new == Sh!removePerson(r, n)
<1>1. r \in Sh!Rosters
  BY DEF Sh!RosterOK
<1>2. /\ left \in Sh!Rosters /\ left.people = r.people \ Sh!Named(r, n)
      /\ left.owner = r.owner /\ left.on = r.on
  BY <1>1 DEF Sh!Rosters
<1>3. new = [left EXCEPT !.owner = IF r.owner # n THEN r.owner ELSE IF Sh!Owners(left) = {} THEN "none"
                                   ELSE (CHOOSE p \in Sh!Owners(left) : TRUE).name]
  BY <1>1 DEF Sh!removePerson, Sh!Rosters
<1> HIDE DEF left, new
<1>4. \A p \in Sh!Owners(left) : p \in left.people /\ p.role = "owner" /\ p.name \in Names
  BY <1>2 DEF Sh!Owners, Sh!Rosters, Sh!People
<1>5. /\ new \in Sh!Rosters /\ new.people = left.people /\ new.on = r.on
      /\ \/ r.owner # n /\ new.owner = r.owner
         \/ new.owner = "none"
         \/ \E p \in Sh!Owners(left) : new.owner = p.name
  BY <1>2, <1>3, <1>4 DEF Sh!Rosters
<1>6. Sh!Owners(new) = Sh!Owners(left)
  BY <1>5 DEF Sh!Owners
<1>7. new.owner = "none" \/ \E p \in Sh!Owners(new) : p.name = new.owner
  <2>1. ASSUME r.owner # n, NEW p \in Sh!Owners(r), p.name = r.owner PROVE p \in Sh!Owners(left)
    BY <1>2, <2>1 DEF Sh!Owners, Sh!Named
  <2>2. QED
    BY <1>5, <1>6, <2>1 DEF Sh!RosterOK
<1>8. ASSUME r.on PROVE Sh!Owners(left) # {}
  <2>1. PICK p \in Sh!Owners(r) : TRUE
    BY <1>8 DEF Sh!RosterOK
  <2>2. Sh!isOn(r)
    BY <1>8, <2>1 DEF Sh!isOn, Sh!Owners
  <2>3. PICK q \in Sh!Owners(r) : q \notin Sh!Named(r, n)
    <3>1. Sh!Named(r, n) # {} /\ Sh!Named(r, n) # Sh!Owners(r)
      BY <2>2 DEF Sh!RemoveRefused
    <3>2. PICK m \in Sh!Named(r, n) : TRUE
      BY <3>1
    <3>3. Sh!Named(r, n) = {m}
      BY <3>2 DEF Sh!Named, Sh!RosterOK
    <3>4. QED
      BY <2>1, <3>1, <3>3
  <2>4. q \in Sh!Owners(left)
    BY <1>2, <2>3 DEF Sh!Owners
  <2>5. QED
    BY <2>4
<1>9. /\ \A p \in new.people : p.token <= issued
      /\ \A p, q \in new.people : p.name = q.name => p = q
  BY <1>2, <1>5 DEF Sh!RosterOK
<1>10. new.on => Sh!Owners(new) # {}
  BY <1>5, <1>6, <1>8
<1>11. QED
  BY <1>5, <1>7, <1>9, <1>10 DEF Sh!RosterOK, new

\* `leg share rotate` leaves a roster in order.
LEMMA RotateKeeps ==
  ASSUME NEW r, issued \in Nat, Sh!RosterOK(r, issued), NEW n \in Names, Sh!Named(r, n) # {}
  PROVE  Sh!RosterOK(Sh!rotate(r, n), issued + 1)
<1> DEFINE p == CHOOSE q \in r.people : q.name = n
           o == [p EXCEPT !.token = issued + 1]
           new == Sh!rotate(r, n)
<1>1. r \in Sh!Rosters /\ r.people \subseteq Sh!People
  BY DEF Sh!RosterOK, Sh!Rosters
<1>2. p \in r.people /\ p.name = n /\ p \in Sh!People
  BY <1>1 DEF Sh!Named
<1>3. o \in Sh!People /\ o.name = n /\ o.role = p.role /\ o.token = issued + 1
  BY <1>2 DEF Sh!People
<1>4. new = [r EXCEPT !.people = (r.people \ {p}) \cup {o}]
  BY <1>1 DEF Sh!rotate, Sh!Rosters
<1> HIDE DEF p, o, new
<1>5. /\ new \in Sh!Rosters /\ new.people = (r.people \ {p}) \cup {o}
      /\ new.owner = r.owner /\ new.on = r.on
  BY <1>1, <1>3, <1>4 DEF Sh!Rosters
<1>6. \A q \in r.people : q.token <= issued + 1
  <2>1. \A q \in r.people : q.token \in Nat /\ q.token <= issued
    BY <1>1 DEF Sh!RosterOK, Sh!People
  <2>2. QED
    BY <2>1
<1>7. \A q \in r.people \ {p} : q.name # n
  BY <1>2 DEF Sh!RosterOK
<1>8. ASSUME NEW q \in Sh!Owners(r) PROVE \E u \in Sh!Owners(new) : u.name = q.name
  <2>1. CASE q = p
    BY <1>2, <1>3, <1>5, <2>1 DEF Sh!Owners
  <2>2. CASE q # p
    BY <1>5, <2>2 DEF Sh!Owners
  <2>3. QED
    BY <2>1, <2>2
<1>9. \A q \in new.people : q.token <= issued + 1
  BY <1>3, <1>5, <1>6
<1>10. \A q, u \in new.people : q.name = u.name => q = u
  BY <1>3, <1>5, <1>7 DEF Sh!RosterOK
<1>11. (new.owner = "none" \/ \E q \in Sh!Owners(new) : q.name = new.owner)
       /\ (new.on => Sh!Owners(new) # {})
  BY <1>5, <1>8 DEF Sh!RosterOK
<1>12. QED
  BY <1>5, <1>9, <1>10, <1>11 DEF Sh!RosterOK, new

\* `leg share on` leaves a roster in order, with an owner.
LEMMA OnKeeps ==
  ASSUME NEW r, issued \in Nat, Sh!RosterOK(r, issued),
         ~(Sh!Owners(r) = {} /\ Sh!Named(r, Me) # {})
  PROVE  Sh!RosterOK(Sh!turnOn(r), issued + 1)
<1> DEFINE heirs == IF Sh!Named(r, r.owner) \cap Sh!Owners(r) # {}
                    THEN Sh!Named(r, r.owner) ELSE Sh!Owners(r)
           new == Sh!turnOn(r)
<1>1. r \in Sh!Rosters /\ r.people \subseteq Sh!People
  BY DEF Sh!RosterOK, Sh!Rosters
<1>2. heirs \subseteq Sh!Owners(r)
  BY DEF Sh!RosterOK, Sh!Named, Sh!Owners
<1>3. ASSUME heirs # {} PROVE Sh!RosterOK(new, issued + 1)
  <2> DEFINE h == CHOOSE p \in heirs : TRUE
  <2>1. h \in Sh!Owners(r) /\ h \in r.people /\ h.name \in Names
    BY <1>1, <1>2, <1>3 DEF Sh!Owners, Sh!People
  <2>2. new = [r EXCEPT !.on = TRUE, !.owner = h.name]
    BY <1>3 DEF Sh!turnOn
  <2> HIDE DEF h, new
  <2>3. new \in Sh!Rosters /\ new.people = r.people /\ new.owner = h.name
    BY <1>1, <2>1, <2>2 DEF Sh!Rosters
  <2>4. Sh!Owners(new) = Sh!Owners(r)
    BY <2>3 DEF Sh!Owners
  <2>5. Sh!RosterOK(r, issued + 1)
    BY RosterLater
  <2>6. QED
    BY <2>1, <2>3, <2>4, <2>5 DEF Sh!RosterOK
<1>4. ASSUME heirs = {} PROVE Sh!RosterOK(new, issued + 1)
  <2> DEFINE a == Sh!addPerson(r, Me, "owner")
  <2>1. Sh!Owners(r) = {} /\ Sh!Named(r, Me) = {}
    BY <1>4
  <2>2. Sh!RosterOK(a, issued + 1)
    BY <2>1, ShareAssumption, AddKeeps DEF Sh!Roles
  <2>3. new = [a EXCEPT !.on = TRUE, !.owner = Me]
    BY <1>4 DEF Sh!turnOn
  <2>4. Sh!New(Me, "owner") \in a.people /\ Sh!New(Me, "owner").name = Me
        /\ Sh!New(Me, "owner").role = "owner"
    BY <1>1 DEF Sh!addPerson, Sh!Rosters, Sh!New
  <2> HIDE DEF a, new
  <2>5. a \in Sh!Rosters
    BY <2>2 DEF Sh!RosterOK
  <2>6. new \in Sh!Rosters /\ new.people = a.people /\ new.owner = Me
    BY <2>3, <2>5, ShareAssumption DEF Sh!Rosters
  <2>7. \E p \in Sh!Owners(new) : p.name = new.owner
    BY <2>4, <2>6 DEF Sh!Owners
  <2>8. QED
    BY <2>2, <2>6, <2>7 DEF Sh!RosterOK
<1>5. QED
  BY <1>3, <1>4

\* `leg share off` leaves a roster in order.
LEMMA OffKeeps ==
  ASSUME NEW r, NEW n \in Nat, Sh!RosterOK(r, n)
  PROVE  Sh!RosterOK([r EXCEPT !.on = FALSE], n)
<1> DEFINE new == [r EXCEPT !.on = FALSE]
<1>1. /\ new \in Sh!Rosters /\ new.people = r.people /\ new.owner = r.owner /\ new.on = FALSE
  BY DEF Sh!RosterOK, Sh!Rosters
<1> HIDE DEF new
<1>2. Sh!Owners(new) = Sh!Owners(r)
  BY <1>1 DEF Sh!Owners
<1>3. QED
  BY <1>1, <1>2 DEF Sh!RosterOK, new

\* What a command writes, from what it read.
LEMMA CommandNew ==
  ASSUME Sh!ShareInv, NEW s \in Shells, Sh!CommandWrites(s)
  PROVE  \/ UNCHANGED <<roster, seen, stream, issued, revoked, overlap>>
         \/ \E new : /\ Sh!RosterOK(new, issued + 1)
                     /\ \A p \in new.people : p \in shell[s].copy.r.people \/ p.token = issued + 1
                     /\ Sh!Stored(new)
                     /\ issued' = IF \E p \in new.people : p.token > issued THEN issued + 1 ELSE issued
                     /\ revoked' = revoked \cup ({p.token : p \in shell[s].copy.r.people}
                                                   \ {p.token : p \in new.people})
                     /\ overlap' = (overlap \/ shell[s].copy # roster)
                     /\ Sh!Restarted \/ UNCHANGED <<seen, stream>>
<1> DEFINE c == shell[s]
           old == c.copy.r
           new == CASE c.kind = "add" -> Sh!addPerson(old, c.who, c.role)
                    [] c.kind = "rm" -> Sh!removePerson(old, c.who)
                    [] c.kind = "rotate" -> Sh!rotate(old, c.who)
                    [] c.kind = "on" -> Sh!turnOn(old)
                    [] OTHER -> [old EXCEPT !.on = FALSE]
           refused == CASE c.kind = "add" -> Sh!Named(old, c.who) # {}
                        [] c.kind = "rm" -> Sh!RemoveRefused(old, c.who)
                        [] c.kind = "rotate" -> Sh!Named(old, c.who) = {}
                        [] c.kind = "on" -> Sh!Owners(old) = {} /\ Sh!Named(old, Me) # {}
                        [] OTHER -> FALSE
<1>1. /\ issued \in Nat /\ Sh!RosterOK(old, issued) /\ old \in Sh!Rosters
      /\ c.kind \in {"none", "add", "rm", "rotate", "on", "off"}
      /\ c.kind \in {"add", "rm", "rotate"} => c.who \in Names
      /\ c.kind = "add" => c.role \in Sh!Roles
  BY DEF Sh!ShareInv, Sh!ShareTypeOK, Sh!RosterOK
<1>2. \/ UNCHANGED <<roster, seen, stream, issued, revoked, overlap>>
      \/ /\ ~refused /\ Sh!Stored(new)
         /\ issued' = IF \E p \in new.people : p.token > issued THEN issued + 1 ELSE issued
         /\ revoked' = revoked \cup ({p.token : p \in old.people} \ {p.token : p \in new.people})
         /\ overlap' = (overlap \/ c.copy # roster)
         /\ Sh!Restarted \/ UNCHANGED <<seen, stream>>
  BY DEF Sh!CommandWrites
<1> SUFFICES ASSUME ~refused
             PROVE  /\ Sh!RosterOK(new, issued + 1)
                    /\ \A p \in new.people : p \in old.people \/ p.token = issued + 1
  BY <1>2
<1> HIDE DEF new, refused
<1>3. CASE c.kind = "add"
  <2>1. new = Sh!addPerson(old, c.who, c.role) /\ Sh!Named(old, c.who) = {}
    BY <1>3 DEF new, refused
  <2>2. Sh!addPerson(old, c.who, c.role).people = old.people \cup {Sh!New(c.who, c.role)}
    BY <1>1 DEF Sh!addPerson, Sh!Rosters
  <2>3. QED
    BY <1>1, <1>3, <2>1, <2>2, AddKeeps DEF Sh!New
<1>4. CASE c.kind = "rm"
  <2>1. new = Sh!removePerson(old, c.who) /\ ~Sh!RemoveRefused(old, c.who)
    BY <1>4 DEF new, refused
  <2>2. Sh!removePerson(old, c.who).people \subseteq old.people
    BY <1>1 DEF Sh!removePerson, Sh!Rosters
  <2>3. Sh!RosterOK(new, issued)
    BY <1>1, <1>4, <2>1, RemoveKeeps
  <2>4. QED
    BY <1>1, <2>1, <2>2, <2>3, RosterLater
<1>5. CASE c.kind = "rotate"
  <2>1. new = Sh!rotate(old, c.who) /\ Sh!Named(old, c.who) # {}
    BY <1>5 DEF new, refused
  <2>2. \A p \in Sh!rotate(old, c.who).people : p \in old.people \/ p.token = issued + 1
    <3> DEFINE p == CHOOSE q \in old.people : q.name = c.who
    <3>1. Sh!rotate(old, c.who).people = (old.people \ {p}) \cup {[p EXCEPT !.token = issued + 1]}
      BY <1>1 DEF Sh!rotate, Sh!Rosters
    <3>2. p \in Sh!People
      BY <1>1, <2>1 DEF Sh!Named, Sh!Rosters
    <3>3. [p EXCEPT !.token = issued + 1].token = issued + 1
      BY <3>2 DEF Sh!People
    <3>4. QED
      BY <3>1, <3>3
  <2>3. QED
    BY <1>1, <1>5, <2>1, <2>2, RotateKeeps
<1>6. CASE c.kind = "on"
  <2>1. new = Sh!turnOn(old) /\ ~(Sh!Owners(old) = {} /\ Sh!Named(old, Me) # {})
    BY <1>6 DEF new, refused
  <2>2. Sh!turnOn(old).people \in {old.people, old.people \cup {Sh!New(Me, "owner")}}
    BY <1>1 DEF Sh!turnOn, Sh!addPerson, Sh!Rosters
  <2>3. Sh!New(Me, "owner").token = issued + 1
    BY DEF Sh!New
  <2>4. QED
    BY <1>1, <2>1, <2>2, <2>3, OnKeeps
<1>7. CASE c.kind \in {"none", "off"}
  <2>1. new = [old EXCEPT !.on = FALSE]
    BY <1>7 DEF new, refused
  <2>2. [old EXCEPT !.on = FALSE].people = old.people
    BY <1>1 DEF Sh!Rosters
  <2>3. Sh!RosterOK(new, issued)
    BY <1>1, <2>1, OffKeeps
  <2>4. QED
    BY <1>1, <2>1, <2>2, <2>3, RosterLater
<1>8. QED
  BY <1>1, <1>3, <1>4, <1>5, <1>6, <1>7

\* A command that writes what it made of its copy.
LEMMA CommandShare ==
  ASSUME Sh!ShareInv, NEW s \in Shells, Sh!CommandWrites(s)
  PROVE  Sh!ShareInv'
<1>1. /\ shell' = [shell EXCEPT ![s] = [shell[s] EXCEPT !.at = "done", !.copy = roster]]
      /\ pushed' = FALSE /\ UNCHANGED opened
  BY DEF Sh!CommandWrites
<1>2. /\ issued \in Nat /\ roster \in [r : Sh!Rosters, time : Nat]
      /\ Sh!RosterOK(roster.r, issued) /\ Sh!RosterOK(seen.r, issued)
      /\ \A k \in Shells : Sh!RosterOK(shell[k].copy.r, issued)
  BY DEF Sh!ShareInv, Sh!ShareTypeOK
<1>3. /\ shell' \in [Shells -> [at : {"new", "read", "done"},
                               kind : {"none", "add", "rm", "rotate", "on", "off"},
                               who : Names \cup {"none"}, role : Sh!Roles \cup {"none"},
                               copy : [r : Sh!Rosters, time : Nat]]]
      /\ \A k \in Shells : /\ shell'[k].kind = shell[k].kind /\ shell'[k].who = shell[k].who
                           /\ shell'[k].role = shell[k].role
                           /\ shell'[k].copy \in {shell[k].copy, roster}
  <2> DEFINE c == [shell[s] EXCEPT !.at = "done", !.copy = roster]
  <2>1. /\ shell[s] \in [at : {"new", "read", "done"},
                        kind : {"none", "add", "rm", "rotate", "on", "off"},
                        who : Names \cup {"none"}, role : Sh!Roles \cup {"none"},
                        copy : [r : Sh!Rosters, time : Nat]]
    BY DEF Sh!ShareInv, Sh!ShareTypeOK
  <2>2. /\ c \in [at : {"new", "read", "done"},
                 kind : {"none", "add", "rm", "rotate", "on", "off"},
                 who : Names \cup {"none"}, role : Sh!Roles \cup {"none"},
                 copy : [r : Sh!Rosters, time : Nat]]
        /\ c.kind = shell[s].kind /\ c.who = shell[s].who /\ c.role = shell[s].role /\ c.copy = roster
    BY <1>2, <2>1
  <2> HIDE DEF c
  <2>3. shell' = [shell EXCEPT ![s] = c]
    BY <1>1 DEF c
  <2>4. QED
    BY <2>2, <2>3 DEF Sh!ShareInv, Sh!ShareTypeOK
<1>4. ASSUME NEW n \in Nat, issued <= n
      PROVE  /\ Sh!RosterOK(roster.r, n) /\ Sh!RosterOK(seen.r, n)
             /\ \A k \in Shells : Sh!RosterOK(shell'[k].copy.r, n)
  BY <1>2, <1>3, <1>4, RosterLater
<1>5. CASE UNCHANGED <<roster, seen, stream, issued, revoked, overlap>>
  <2>1. \A k \in Shells : Sh!RosterOK(shell'[k].copy.r, issued)
    BY <1>2, <1>4
  <2>2. Sh!ShareTypeOK'
    BY <1>1, <1>3, <1>5 DEF Sh!ShareInv, Sh!ShareTypeOK
  <2>3. QED
    BY <1>1, <1>2, <1>5, <2>1, <2>2 DEF Sh!ShareInv, Sh!StreamsAreDue, Sh!Noticed
<1>6. ASSUME NEW new,
             Sh!RosterOK(new, issued + 1),
             \A p \in new.people : p \in shell[s].copy.r.people \/ p.token = issued + 1,
             Sh!Stored(new),
             issued' = IF \E p \in new.people : p.token > issued THEN issued + 1 ELSE issued,
             revoked' = revoked \cup ({p.token : p \in shell[s].copy.r.people}
                                        \ {p.token : p \in new.people}),
             overlap' = (overlap \/ shell[s].copy # roster),
             Sh!Restarted \/ UNCHANGED <<seen, stream>>
      PROVE  Sh!ShareInv'
  <2>1. issued' \in Nat /\ issued <= issued'
    BY <1>2, <1>6
  <2>2. Sh!RosterOK(new, issued')
    <3>1. CASE \E p \in new.people : p.token > issued
      BY <1>6, <3>1
    <3>2. CASE ~ \E p \in new.people : p.token > issued
      <4>1. \A p \in new.people : p.token \in Nat
        BY <1>6 DEF Sh!RosterOK, Sh!Rosters, Sh!People
      <4>2. \A p \in new.people : p.token <= issued
        BY <1>2, <3>2, <4>1
      <4>3. QED
        BY <1>6, <3>2, <4>2 DEF Sh!RosterOK
    <3>3. QED
      BY <3>1, <3>2
  <2>3. roster' \in [r : Sh!Rosters, time : Nat] /\ roster'.r = new
    BY <1>2, <1>6 DEF Sh!Stored, Sh!RosterOK
  <2>4. seen' \in [r : Sh!Rosters, time : Nat] /\ Sh!RosterOK(seen'.r, issued')
    BY <1>4, <1>6, <2>1, <2>2, <2>3 DEF Sh!Restarted, Sh!ShareInv, Sh!ShareTypeOK
  <2>5. stream' \in [Pages -> [is : {"open", "closed"}, token : Nat,
                               shows : Sh!People \cup {Sh!Local1, Sh!Nobody}]]
    BY <1>6 DEF Sh!Restarted, Sh!NoStream, Sh!ShareInv, Sh!ShareTypeOK
  <2>6. revoked' \subseteq 1..issued'
    <3>1. \A p \in shell[s].copy.r.people : p.token \in 1..issued
      BY <1>2 DEF Sh!RosterOK, Sh!Rosters, Sh!People
    <3>2. revoked \subseteq 1..issued
      BY DEF Sh!ShareInv, Sh!ShareTypeOK
    <3>3. revoked' \subseteq 1..issued
      BY <1>6, <3>1, <3>2
    <3>4. QED
      BY <1>2, <2>1, <3>3
  <2>7. overlap' \in BOOLEAN
    BY <1>6 DEF Sh!ShareInv, Sh!ShareTypeOK
  <2>8. Sh!ShareTypeOK'
    BY <1>1, <1>3, <2>1, <2>3, <2>4, <2>5, <2>6, <2>7 DEF Sh!ShareInv, Sh!ShareTypeOK
  <2>9. ASSUME ~overlap', NEW p \in new.people PROVE p.token \notin revoked'
    <3>1. ~overlap /\ shell[s].copy = roster
      BY <1>6, <2>9 DEF Sh!ShareInv, Sh!ShareTypeOK
    <3>2. p.token \notin revoked
      <4>1. CASE p \in roster.r.people
        BY <3>1, <4>1 DEF Sh!ShareInv
      <4>2. CASE p.token = issued + 1
        <5>1. \A t \in revoked : t \in Nat /\ t <= issued
          BY DEF Sh!ShareInv, Sh!ShareTypeOK
        <5>2. QED
          BY <1>2, <4>2, <5>1
      <4>3. QED
        BY <1>6, <3>1, <4>1, <4>2
    <3>3. QED
      BY <1>6, <3>2
  <2>10. \A k \in Shells : Sh!RosterOK(shell'[k].copy.r, issued')
    BY <1>4, <2>1
  <2>11. QED
    BY <1>1, <2>2, <2>3, <2>4, <2>8, <2>9, <2>10 DEF Sh!ShareInv, Sh!StreamsAreDue, Sh!Noticed
<1>7. QED
  BY <1>5, <1>6, CommandNew

\* A command that reads the roster.
LEMMA ReadShare ==
  ASSUME Sh!ShareInv, NEW s \in Shells, NEW kind \in {"add", "rm", "rotate", "on", "off"},
         NEW n \in Names \cup {"none"}, NEW role \in Sh!Roles \cup {"none"},
         kind \in {"add", "rm", "rotate"} => n \in Names, kind = "add" => role \in Sh!Roles,
         Sh!Reads(s, kind, n, role)
  PROVE  Sh!ShareInv'
<1> DEFINE c == [at |-> "read", kind |-> kind, who |-> n, role |-> role, copy |-> roster]
<1>1. /\ shell' = [shell EXCEPT ![s] = c] /\ pushed' = FALSE
      /\ UNCHANGED <<roster, seen, stream, issued, opened, revoked, overlap>>
  BY DEF Sh!Reads
<1>2. /\ c \in [at : {"new", "read", "done"}, kind : {"none", "add", "rm", "rotate", "on", "off"},
                who : Names \cup {"none"}, role : Sh!Roles \cup {"none"},
                copy : [r : Sh!Rosters, time : Nat]]
      /\ c.copy = roster /\ c.kind = kind /\ c.who = n /\ c.role = role
  BY DEF Sh!ShareInv, Sh!ShareTypeOK
<1> HIDE DEF c
<1>3. Sh!ShareTypeOK'
  BY <1>1, <1>2 DEF Sh!ShareInv, Sh!ShareTypeOK
<1>4. \A k \in Shells : Sh!RosterOK(shell'[k].copy.r, issued)
  BY <1>1, <1>2 DEF Sh!ShareInv, Sh!ShareTypeOK
<1>5. QED
  BY <1>1, <1>3, <1>4 DEF Sh!ShareInv, Sh!StreamsAreDue, Sh!Noticed

\* Whom a page is shown the board as, and that it is due.
LEMMA ViewerIs ==
  ASSUME NEW r, NEW n, Sh!RosterOK(r, n), NEW page, NEW t \in Nat, NEW v \in Sh!Viewer(r, page, t)
  PROVE  /\ v \in Sh!People \cup {Sh!Local1}
         /\ \/ t # 0 /\ Sh!isOn(r) /\ v \in r.people /\ v.token = t
            \/ t = 0 /\ (IF Sh!isOn(r) THEN v \in Sh!Owners(r) ELSE v = Sh!Local1)
<1>1. r.people \subseteq Sh!People /\ Sh!Named(r, r.owner) \subseteq Sh!Owners(r)
  <2>1. r.people \subseteq Sh!People /\ \A p \in r.people : p.name \in Names
    BY DEF Sh!RosterOK, Sh!Rosters, Sh!People
  <2>2. QED
    BY <2>1, ShareAssumption DEF Sh!RosterOK, Sh!Named, Sh!Owners
<1>2. Sh!LocalOwner(r) \subseteq Sh!Owners(r)
  BY <1>1 DEF Sh!LocalOwner
<1>3. Sh!Owners(r) \subseteq r.people
  BY DEF Sh!Owners
<1>4. QED
  BY <1>1, <1>2, <1>3 DEF Sh!Viewer, Sh!identify

\* A page opens its stream.
LEMMA OpenShare ==
  ASSUME Sh!ShareInv, NEW p \in Pages, NEW t \in 0 .. issued, Sh!Opens(p, t)
  PROVE  Sh!ShareInv'
<1> DEFINE sh == Sh!currentShare.r
           who == IF ~Sh!isOn(sh) /\ p \in Local THEN {Sh!Local1} ELSE Sh!Viewer(sh, p, t)
           v == CHOOSE u \in who : TRUE
<1>1. /\ who # {} /\ pushed' = FALSE /\ seen' = Sh!currentShare
      /\ stream' = [stream EXCEPT ![p] = [is |-> "open", token |-> t, shows |-> v]]
      /\ UNCHANGED <<roster, shell, issued, revoked, overlap>>
  BY DEF Sh!Opens
<1>2. Sh!currentShare \in {roster, seen}
  BY DEF Sh!currentShare
<1>3. /\ Sh!RosterOK(sh, issued) /\ seen' \in [r : Sh!Rosters, time : Nat] /\ Sh!RosterOK(seen'.r, issued)
      /\ t \in Nat
  BY <1>1, <1>2 DEF Sh!ShareInv, Sh!ShareTypeOK
<1>4. v \in who
  BY <1>1
<1> HIDE DEF v
<1>5. v \in Sh!People \cup {Sh!Local1}
  BY <1>3, <1>4, ViewerIs
<1> HIDE DEF who, sh
<1>6. Sh!ShareTypeOK'
  BY <1>1, <1>3, <1>5 DEF Sh!ShareInv, Sh!ShareTypeOK
<1>7. QED
  BY <1>1, <1>3, <1>6 DEF Sh!ShareInv, Sh!StreamsAreDue, Sh!Noticed

\* The board pushes, and closes the streams that are due no more.
LEMMA PushShare ==
  ASSUME Sh!ShareInv, Sh!Pushes
  PROVE  Sh!ShareInv'
<1> DEFINE sh == Sh!currentShare.r
           who(p) == Sh!Viewer(sh, p, stream[p].token)
           v(p) == CHOOSE u \in who(p) : TRUE
<1>1. /\ pushed' = TRUE /\ seen' = Sh!currentShare
      /\ stream' = [p \in Pages |-> IF stream[p].is = "closed" \/ who(p) = {} THEN Sh!NoStream
                                     ELSE [stream[p] EXCEPT !.shows = v(p)]]
      /\ UNCHANGED <<roster, shell, issued, revoked, overlap>>
  BY DEF Sh!Pushes
<1>2. Sh!currentShare \in {roster, seen} /\ (seen' = roster \/ seen'.time = roster.time)
  BY <1>1 DEF Sh!currentShare
<1>3. Sh!RosterOK(sh, issued) /\ seen' \in [r : Sh!Rosters, time : Nat] /\ Sh!RosterOK(seen'.r, issued)
  BY <1>1, <1>2 DEF Sh!ShareInv, Sh!ShareTypeOK
<1>4. ASSUME NEW p \in Pages
      PROVE  \/ stream'[p] = Sh!NoStream
             \/ /\ stream'[p] \in [is : {"open", "closed"}, token : Nat, shows : Sh!People \cup {Sh!Local1}]
                /\ Sh!Shown(stream'[p], sh)
  <2>1. stream[p] \in [is : {"open", "closed"}, token : Nat, shows : Sh!People \cup {Sh!Local1, Sh!Nobody}]
    BY DEF Sh!ShareInv, Sh!ShareTypeOK
  <2>2. CASE stream[p].is = "closed" \/ who(p) = {}
    BY <1>1, <2>2
  <2>3. CASE ~(stream[p].is = "closed" \/ who(p) = {})
    <3>1. v(p) \in who(p)
      BY <2>3
    <3>2. /\ v(p) \in Sh!People \cup {Sh!Local1}
          /\ \/ stream[p].token # 0 /\ Sh!isOn(sh) /\ v(p) \in sh.people /\ v(p).token = stream[p].token
             \/ stream[p].token = 0 /\ (IF Sh!isOn(sh) THEN v(p) \in Sh!Owners(sh) ELSE v(p) = Sh!Local1)
      BY <1>3, <2>1, <3>1, ViewerIs
    <3>3. stream'[p] = [stream[p] EXCEPT !.shows = v(p)]
      BY <1>1, <2>3
    <3> HIDE DEF v, who
    <3>4. stream'[p].token = stream[p].token /\ stream'[p].shows = v(p)
      BY <2>1, <3>3
    <3>5. stream'[p] \in [is : {"open", "closed"}, token : Nat, shows : Sh!People \cup {Sh!Local1}]
      BY <2>1, <3>2, <3>3
    <3> DEFINE q == stream'[p]
    <3>6. q.token = stream[p].token /\ q.shows = v(p)
      BY <3>4
    <3> HIDE DEF q
    <3>7. Sh!Shown(q, sh)
      BY <3>2, <3>6 DEF Sh!Shown
    <3>8. QED
      BY <3>5, <3>7 DEF q
  <2>4. QED
    BY <2>2, <2>3
<1>5. stream' = [p \in Pages |-> stream'[p]]
  BY <1>1
<1>6. Sh!ShareTypeOK'
  <2>1. \A p \in Pages :
          stream'[p] \in [is : {"open", "closed"}, token : Nat, shows : Sh!People \cup {Sh!Local1, Sh!Nobody}]
    BY <1>4 DEF Sh!NoStream
  <2> HIDE DEF who, v, sh
  <2>2. stream' \in [Pages -> [is : {"open", "closed"}, token : Nat,
                               shows : Sh!People \cup {Sh!Local1, Sh!Nobody}]]
    BY <1>5, <2>1
  <2>3. pushed' \in BOOLEAN
    BY <1>1
  <2>4. QED
    BY <1>1, <1>3, <2>2, <2>3 DEF Sh!ShareInv, Sh!ShareTypeOK
<1>7. Sh!StreamsAreDue'
  <2> SUFFICES ASSUME seen' = roster', NEW p \in Pages, stream'[p].is = "open"
               PROVE  Sh!Shown(stream'[p], roster'.r)
    BY DEF Sh!StreamsAreDue, Sh!Shown, Sh!isOn, Sh!Owners
  <2>1. stream'[p] # Sh!NoStream
    BY DEF Sh!NoStream
  <2>2. sh = roster'.r
    BY <1>1
  <2>3. QED
    BY <1>4, <2>1, <2>2
<1>8. QED
  BY <1>1, <1>2, <1>3, <1>6, <1>7 DEF Sh!ShareInv, Sh!Noticed

\* Every step of the links keeps their invariant.
LEMMA ShareStep ==
  ASSUME Sh!ShareInv, Sh!ShareNext
  PROVE  Sh!ShareInv'
<1>1. ASSUME NEW s \in Shells, NEW n \in Names, Sh!Reads(s, "rm", n, "none") \/ Sh!Reads(s, "rotate", n, "none")
      PROVE  Sh!ShareInv'
  BY <1>1, ReadShare
<1>2. ASSUME NEW s \in Shells, NEW n \in Names, NEW role \in Sh!Roles, Sh!Reads(s, "add", n, role)
      PROVE  Sh!ShareInv'
  BY <1>2, ReadShare
<1>3. ASSUME NEW s \in Shells, Sh!Reads(s, "on", "none", "none") \/ Sh!Reads(s, "off", "none", "none")
      PROVE  Sh!ShareInv'
  BY <1>3, ReadShare
<1>4. QED
  BY <1>1, <1>2, <1>3, CommandShare, OpenShare, PushShare DEF Sh!ShareNext

\* The links start in it.
LEMMA ShareStarts == Sh!ShareInit => Sh!ShareInv
<1> SUFFICES ASSUME Sh!ShareInit PROVE Sh!ShareInv
  OBVIOUS
<1>1. /\ roster = [r |-> Sh!Off, time |-> 0] /\ seen = roster
      /\ Sh!Off \in Sh!Rosters /\ Sh!RosterOK(Sh!Off, 0)
  BY DEF Sh!ShareInit, Sh!Off, Sh!RosterOK, Sh!Rosters, Sh!Owners
<1>2. Sh!Off.people = {}
  BY DEF Sh!Off
<1>3. issued = 0 /\ revoked = {}
  BY DEF Sh!ShareInit
<1>4. pushed = FALSE /\ overlap = FALSE
  BY DEF Sh!ShareInit
<1>5. shell = [s \in Shells |-> [at |-> "new", kind |-> "none", who |-> "none", role |-> "none", copy |-> roster]]
  BY DEF Sh!ShareInit
<1>6. /\ shell \in [Shells -> [at : {"new", "read", "done"}, kind : {"none", "add", "rm", "rotate", "on", "off"},
                              who : Names \cup {"none"}, role : Sh!Roles \cup {"none"},
                              copy : [r : Sh!Rosters, time : Nat]]]
      /\ \A s \in Shells : shell[s].kind = "none" /\ shell[s].copy.r = Sh!Off
  BY <1>1, <1>5
<1>7. stream \in [Pages -> [is : {"open", "closed"}, token : Nat, shows : Sh!People \cup {Sh!Local1, Sh!Nobody}]]
  BY DEF Sh!ShareInit, Sh!NoStream
<1>8. Sh!ShareTypeOK
  BY <1>1, <1>3, <1>4, <1>6, <1>7 DEF Sh!ShareTypeOK
<1>9. Sh!StreamsAreDue /\ Sh!Noticed
  BY <1>4 DEF Sh!StreamsAreDue, Sh!Noticed
<1>10. QED
  BY <1>1, <1>2, <1>3, <1>6, <1>8, <1>9 DEF Sh!ShareInv

(* However many commands and pages there are (sharing.mjs, server.mjs):    *)
(* after a push whoever is still shown the board holds a good link, as the *)
(* person it is for, or sits at this machine; the board has noticed what   *)
(* commands wrote, within the grain of the file's time; no link taken back *)
(* is good again but where two commands overlapped; a shared board has an  *)
(* owner.                                                                  *)
THEOREM LinksHoldThm == SurroundingsSpec => []LinksHold
<1> DEFINE Inv == part = "sharing" => Sh!ShareInv
<1>1. SurroundingsInit => Inv
  BY ShareStarts DEF SurroundingsInit
<1>2. Inv /\ [SurroundingsNext]_surroundingsVars => Inv'
  <2> SUFFICES ASSUME Inv, [SurroundingsNext]_surroundingsVars, part' = "sharing" PROVE Sh!ShareInv'
    OBVIOUS
  <2>1. CASE SurroundingsNext
    BY <2>1, ShareStep DEF SurroundingsNext
  <2>2. CASE UNCHANGED surroundingsVars
    BY <2>2 DEF surroundingsVars, Shvars, Sh!ShareInv, Sh!ShareTypeOK, Sh!StreamsAreDue, Sh!Noticed
  <2>3. QED
    BY <2>1, <2>2
<1>3. Inv => LinksHold
  <2> SUFFICES ASSUME Sh!ShareInv PROVE Sh!LinksHold
    BY DEF LinksHold
  <2>1. Sh!isOn(roster.r) => Sh!Owners(roster.r) # {}
    BY DEF Sh!ShareInv, Sh!RosterOK, Sh!isOn
  <2>2. QED
    BY <2>1 DEF Sh!ShareInv, Sh!LinksHold, Sh!RosterHolds
<1>4. QED
  BY <1>1, <1>2, <1>3, PTL DEF SurroundingsSpec

-----------------------------------------------------------------------------
(* The trust questions (Trust.tla).                                        *)

\* What a launch is after a step: only where it is.
LEMMA MoveAt ==
  ASSUME NEW p \in Tr!AllLaunches, NEW a \in {"new", "locks", "reads", "writes", "done"}
  PROVE  LET q == [p EXCEPT !.at = a]
         IN  /\ q \in Tr!AllLaunches /\ q.at = a /\ q.dir = p.dir /\ q.todo = p.todo
             /\ q.saw = p.saw /\ q.held = p.held
BY DEF Tr!AllLaunches

\* It takes its lock.
LEMMA MoveHeld ==
  ASSUME NEW p \in Tr!AllLaunches
  PROVE  LET q == [p EXCEPT !.at = "reads", !.held = TRUE]
         IN  /\ q \in Tr!AllLaunches /\ q.at = "reads" /\ q.dir = p.dir /\ q.todo = p.todo
             /\ q.saw = p.saw /\ q.held = TRUE
BY DEF Tr!AllLaunches

\* It has read its copy.
LEMMA MoveSaw ==
  ASSUME NEW p \in Tr!AllLaunches, NEW s \in Tr!AllCopies
  PROVE  LET q == [p EXCEPT !.at = "writes", !.saw = s]
            IN  /\ q \in Tr!AllLaunches /\ q.at = "writes" /\ q.dir = p.dir /\ q.todo = p.todo
                /\ q.saw = s /\ q.held = p.held
BY DEF Tr!AllLaunches

\* It goes on to the next file.
LEMMA MoveOn ==
  ASSUME NEW p \in Tr!AllLaunches, NEW t \in Tr!Todos
  PROVE  LET q == [p EXCEPT !.at = "locks", !.todo = t, !.saw = <<>>, !.held = FALSE]
            IN  /\ q \in Tr!AllLaunches /\ q.at = "locks" /\ q.dir = p.dir /\ q.todo = t /\ q.held = FALSE
BY DEF Tr!AllLaunches

\* A launch that has not begun holds nothing.
LEMMA IdleIs ==
  /\ Tr!Idle \in Tr!AllLaunches /\ Tr!Idle.held = FALSE
BY DEF Tr!Idle, Tr!AllLaunches

\* One that is over holds nothing.
LEMMA DoneIs ==
  /\ Tr!Done \in Tr!AllLaunches /\ Tr!Done.held = FALSE /\ Tr!Done.at = "done"
BY IdleIs, MoveAt DEF Tr!Done

\* A copy of one file is among those of all.
LEMMA CopyIs ==
  ASSUME NEW f \in Tr!Files, NEW c \in Tr!Copies(f)
  PROVE  c \in Tr!AllCopies
BY DEF Tr!AllCopies

\* Only agy has a trustedFolders.json.
LEMMA FilesAre ==
  ASSUME agent \in Tr!Agents
  PROVE  /\ Tr!Files = IF agent = "agy" THEN {"settings", "project", "folders"} ELSE {agent}
         /\ "folders" \in Tr!Files <=> agent = "agy"
BY DEF Tr!Agents, Tr!Files, Tr!FilesOf, Tr!Range

\* A launch has files to come, and goes through them in order.
LEMMA TodosAre ==
  ASSUME agent \in Tr!Agents, NEW t \in Tr!Todos
  PROVE  /\ Head(t) \in Tr!Files /\ t # <<>>
         /\ Len(t) <= 1 \/ Tail(t) \in Tr!Todos
<1>1. Tail(<<"settings", "project", "folders">>) = <<"project", "folders">>
  OBVIOUS
<1>2. Tail(<<"project", "folders">>) = <<"folders">> /\ Len(<<"folders">>) = 1 /\ Len(<<agent>>) = 1
  OBVIOUS
<1>3. CASE agent = "agy"
  <2>1. t \in {<<"settings", "project", "folders">>, <<"project", "folders">>, <<"folders">>}
    BY <1>3 DEF Tr!Todos
  <2>2. Head(t) \in {"settings", "project", "folders"} /\ t # <<>>
    BY <2>1
  <2>3. Len(t) <= 1 \/ Tail(t) \in {<<"project", "folders">>, <<"folders">>}
    <3>1. t = <<"settings", "project", "folders">> => Tail(t) = <<"project", "folders">>
      BY <1>1
    <3>2. t = <<"project", "folders">> => Tail(t) = <<"folders">>
      BY <1>2
    <3>3. t = <<"folders">> => Len(t) = 1
      BY <1>2
    <3>4. QED
      BY <2>1, <3>1, <3>2, <3>3
  <2>4. QED
    BY <1>3, <2>2, <2>3, FilesAre DEF Tr!Todos
<1>4. CASE agent # "agy"
  <2>1. t = <<agent>>
    BY <1>4 DEF Tr!Todos
  <2>2. QED
    BY <1>2, <1>4, <2>1, FilesAre
<1>5. QED
  BY <1>3, <1>4

\* It begins with all the files of its agent.
LEMMA FirstTodo ==
  ASSUME agent \in Tr!Agents
  PROVE  Tr!FilesOf(agent) \in Tr!Todos
BY DEF Tr!FilesOf, Tr!Todos

\* A copy that is written back has more answers, all of them yes, and every refusal it had, but in
\* trustedFolders.json.
LEMMA WritesKeep ==
  ASSUME NEW f, NEW old \in Tr!Copies(f), NEW d
  PROVE  /\ Tr!Writes(f, old, d) \in Tr!Copies(f)
         /\ \A x \in Tr!Questions(f) :
              /\ Tr!Writes(f, old, d)[x] \in {old[x], "yes"}
              /\ \/ old[x] # "no" \/ Tr!Writes(f, old, d)[x] = "no"
                 \/ f = "folders" /\ x[2] \in Tr!Targets(d)
<1>1. DOMAIN old = Tr!Questions(f) /\ \A x \in Tr!Questions(f) : old[x] \in Tr!Words
  BY DEF Tr!Copies
<1>2. "yes" \in Tr!Words /\ "no" # "yes" /\ "no" # "unasked"
  BY DEF Tr!Words
<1>3. CASE f = "claude"
  <2>1. Tr!Writes(f, old, d) = Tr!ClaudeWrites(old, d)
    BY <1>3 DEF Tr!Writes
  <2>2. /\ Tr!ClaudeWrites(old, d) \in Tr!Copies(f)
        /\ \A x \in Tr!Questions(f) :
             \/ Tr!ClaudeWrites(old, d)[x] = old[x]
             \/ Tr!ClaudeWrites(old, d)[x] = "yes" /\ old[x] = "unasked"
    BY <1>1, <1>2 DEF Tr!ClaudeWrites, Tr!Unasked, Tr!Copies
  <2>3. QED
    BY <1>2, <2>1, <2>2
<1>4. CASE f = "codex"
  <2>1. Tr!Writes(f, old, d) = Tr!CodexWrites(old, d)
    BY <1>4 DEF Tr!Writes
  <2>2. /\ Tr!CodexWrites(old, d) \in Tr!Copies(f)
        /\ \A x \in Tr!Questions(f) :
             \/ Tr!CodexWrites(old, d)[x] = old[x]
             \/ Tr!CodexWrites(old, d)[x] = "yes" /\ old[x] = "unasked"
    BY <1>1, <1>2 DEF Tr!CodexWrites, Tr!Unasked, Tr!Copies
  <2>3. QED
    BY <1>2, <2>1, <2>2
<1>5. CASE f \notin {"claude", "codex"}
  <2>1. Tr!Writes(f, old, d) = Tr!AgyWrites(f, old, d)
    BY <1>5 DEF Tr!Writes
  <2>2. /\ Tr!AgyWrites(f, old, d) \in Tr!Copies(f)
        /\ \A x \in Tr!Questions(f) :
             \/ Tr!AgyWrites(f, old, d)[x] = old[x]
             \/ /\ Tr!AgyWrites(f, old, d)[x] = "yes"
                /\ x[2] \in Tr!Targets(d) /\ (f = "folders" \/ old[x] = "unasked")
    BY <1>1, <1>2 DEF Tr!AgyWrites, Tr!Copies
  <2>3. QED
    BY <1>2, <2>1, <2>2
<1>6. QED
  BY <1>3, <1>4, <1>5

\* A launch that goes on without writing.
LEMMA LaunchGoesOn ==
  ASSUME Tr!TrustInv, NEW l \in Launches, NEW p \in Tr!AllLaunches,
         launch' = [launch EXCEPT ![l] = p],
         UNCHANGED <<agent, there, says, answered, noes, outrun, recorded>>,
         fileLock' \in [Tr!Files -> Launches \cup {"free", "dead"}],
         \A k \in Launches \ {l} : launch[k].at \in {"reads", "writes"} =>
            fileLock'[Tr!File(k)] = fileLock[Tr!File(k)],
         Tr!LaunchInv(l)'
  PROVE  Tr!TrustInv'
<1>1. Tr!TrustTypeOK'
  <2>1. Tr!AllLaunches' = Tr!AllLaunches /\ Tr!Files' = Tr!Files
    BY DEF Tr!AllLaunches, Tr!AllCopies, Tr!Files, Tr!Todos
  <2>2. launch' \in [Launches -> Tr!AllLaunches']
    BY <2>1 DEF Tr!TrustInv, Tr!TrustTypeOK
  <2>3. QED
    BY <2>1, <2>2 DEF Tr!TrustInv, Tr!TrustTypeOK
<1>2. ASSUME NEW k \in Launches, k # l PROVE Tr!LaunchInv(k)'
  <2>1. launch'[k] = launch[k] /\ Tr!LaunchInv(k)
    BY <1>2 DEF Tr!TrustInv, Tr!TrustTypeOK
  <2>2. QED
    BY <1>2, <2>1 DEF Tr!LaunchInv, Tr!Runs, Tr!File, Tr!Todos
<1>3. QED
  BY <1>1, <1>2 DEF Tr!TrustInv, Tr!Files, Tr!Stands

\* Where it goes after a file.
LEMMA AfterIs ==
  ASSUME Tr!TrustInv, NEW l \in Launches, Tr!Runs(l)
  PROVE  LET p == Tr!After(launch[l])
         IN  /\ p \in Tr!AllLaunches /\ ~p.held
             /\ \/ p.at = "done"
                \/ p.at = "locks" /\ p.todo \in Tr!Todos /\ p.dir = launch[l].dir
<1>1. agent \in Tr!Agents /\ launch[l] \in Tr!AllLaunches /\ launch[l].todo \in Tr!Todos
  BY DEF Tr!TrustInv, Tr!TrustTypeOK, Tr!LaunchInv
<1>2. CASE Len(launch[l].todo) <= 1
  BY <1>2, DoneIs DEF Tr!After
<1>3. CASE ~(Len(launch[l].todo) <= 1)
  <2> DEFINE r == launch[l]
             t == Tail(r.todo)
             q == Tr!After(r)
  <2>1. t \in Tr!Todos
    BY <1>1, <1>3, TodosAre
  <2>2. q = [r EXCEPT !.at = "locks", !.todo = t, !.saw = <<>>, !.held = FALSE]
    BY <1>3 DEF Tr!After
  <2>3. r \in Tr!AllLaunches
    BY <1>1
  <2> HIDE DEF r, t, q
  <2>4. q \in Tr!AllLaunches /\ q.at = "locks" /\ q.todo \in Tr!Todos /\ q.dir = r.dir /\ ~q.held
    BY <2>1, <2>2, <2>3, MoveOn
  <2>5. QED
    BY <2>4 DEF q, r
<1>4. QED
  BY <1>2, <1>3

\* A launch that leaves a file frees its lock only if it holds it, and keeps nobody else's.
LEMMA FreedIs ==
  ASSUME Tr!TrustInv, NEW l \in Launches, launch[l].at \in {"reads", "writes"}
  PROVE  /\ Tr!Freed(l) \in [Tr!Files -> Launches \cup {"free", "dead"}]
         /\ \A k \in Launches \ {l} : launch[k].at \in {"reads", "writes"} =>
              Tr!Freed(l)[Tr!File(k)] = fileLock[Tr!File(k)]
<1>1. fileLock \in [Tr!Files -> Launches \cup {"free", "dead"}] /\ launch[l].held \in BOOLEAN
  BY DEF Tr!TrustInv, Tr!TrustTypeOK, Tr!AllLaunches
<1>2. ASSUME NEW k \in Launches \ {l}, launch[k].at \in {"reads", "writes"}, launch[l].held
      PROVE  fileLock[Tr!File(k)] # l
  <2>1. fileLock[Tr!File(k)] \in {k, "dead"}
    BY <1>2 DEF Tr!TrustInv, Tr!LaunchInv
  <2>2. QED
    BY <1>2, <2>1, TrustAssumption
<1>3. launch[l].held => fileLock[Tr!File(l)] = l
  BY DEF Tr!TrustInv, Tr!LaunchInv
<1>4. CASE launch[l].held
  <2>1. Tr!Freed(l) = [fileLock EXCEPT ![Tr!File(l)] = "free"]
    BY <1>4 DEF Tr!Freed
  <2>2. ASSUME NEW k \in Launches \ {l}, launch[k].at \in {"reads", "writes"}
        PROVE  Tr!Freed(l)[Tr!File(k)] = fileLock[Tr!File(k)]
    <3>1. Tr!File(k) # Tr!File(l)
      BY <1>2, <1>3, <1>4, <2>2
    <3>2. QED
      BY <1>1, <2>1, <3>1
  <2>3. Tr!Freed(l) \in [Tr!Files -> Launches \cup {"free", "dead"}]
    BY <1>1, <2>1
  <2>4. QED
    BY <2>2, <2>3
<1>5. CASE ~launch[l].held
  <2>1. Tr!Freed(l) = fileLock
    BY <1>5 DEF Tr!Freed
  <2>2. QED
    BY <1>1, <2>1
<1>6. QED
  BY <1>4, <1>5

\* A launch begins: for agy, it looks for refusals before it takes a lock.
LEMMA TrustBegins ==
  ASSUME Tr!TrustInv, NEW l \in Launches, NEW d \in Dirs, Tr!ensureTrust(l, d)
  PROVE  Tr!TrustInv'
<1> DEFINE stays == IF agent = "agy" THEN Tr!Declined(d) ELSE there[agent] = "missing"
           p == [Tr!Idle EXCEPT !.at = IF stays THEN "done" ELSE "locks", !.dir = d, !.todo = Tr!FilesOf(agent)]
<1>1. /\ launch' = [launch EXCEPT ![l] = p] /\ launch[l].at = "new"
      /\ UNCHANGED <<agent, there, says, fileLock, answered, noes, outrun, recorded>>
  BY DEF Tr!ensureTrust
<1>2. agent \in Tr!Agents /\ Tr!FilesOf(agent) \in Tr!Todos
  BY FirstTodo DEF Tr!TrustInv, Tr!TrustTypeOK
<1>3. p.at = IF stays THEN "done" ELSE "locks"
  BY DEF Tr!Idle
<1>4. p \in Tr!AllLaunches /\ ~p.held /\ p.at \in {"done", "locks"} /\ p.dir = d /\ p.todo \in Tr!Todos
  <2> DEFINE a == IF stays THEN "done" ELSE "locks"
             t == Tr!FilesOf(agent)
             i == Tr!Idle
  <2>1. a \in {"done", "locks"} /\ t \in Tr!Todos
    BY <1>2
  <2>2. p = [i EXCEPT !.at = a, !.dir = d, !.todo = t]
    OBVIOUS
  <2>3. i \in Tr!AllLaunches /\ i.held = FALSE
    BY IdleIs
  <2> HIDE DEF p, a, t, i
  <2>4. p \in Tr!AllLaunches /\ p.at = a /\ p.dir = d /\ p.todo = t /\ p.held = i.held
    <3>3. p \in Tr!AllLaunches /\ p.at = a /\ p.dir = d /\ p.todo = t
      BY <2>1, <2>2, <2>3 DEF Tr!AllLaunches
    <3>4. p.held = i.held
      BY <2>2, <2>3 DEF Tr!AllLaunches
    <3>5. QED
      BY <3>3, <3>4
  <2>5. QED
    BY <2>1, <2>3, <2>4
<1>5. ASSUME p.at = "locks", NEW x \in Tr!Questions("folders"), <<"folders", x>> \in noes, x[2] \in Tr!Targets(d)
      PROVE  <<"folders", x>> \in outrun \/ there["folders"] = "unreadable"
  <2>1. "folders" \in Tr!Files /\ agent = "agy"
    BY <1>2, <1>5, FilesAre DEF Tr!TrustInv, Tr!TrustTypeOK
  <2>2. ~Tr!Declined(d)
    BY <1>3, <1>5, <2>1
  <2>3. x = <<"trust", x[2], "now">>
    BY <1>5 DEF Tr!Questions
  <2>4. ~(there["folders"] = "ok" /\ says["folders"][x] = "no")
    BY <1>5, <2>2, <2>3 DEF Tr!Declined
  <2>5. there["folders"] \in {"missing", "unreadable", "ok"}
    BY <2>1 DEF Tr!TrustInv, Tr!TrustTypeOK
  <2>6. there["folders"] = "missing" => says["folders"][x] = "unasked"
    BY <1>5, <2>1 DEF Tr!TrustInv
  <2>7. <<"folders", x>> \in outrun \/ says["folders"][x] = "no"
    BY <1>5, <2>1 DEF Tr!TrustInv, Tr!Stands
  <2>8. QED
    BY <2>4, <2>5, <2>6, <2>7
<1> HIDE DEF p, stays
<1>6. launch'[l] = p
  BY <1>1 DEF Tr!TrustInv, Tr!TrustTypeOK
<1>7. Tr!LaunchInv(l)'
  BY <1>1, <1>4, <1>5, <1>6 DEF Tr!LaunchInv, Tr!Runs, Tr!Todos, Tr!Targets
<1>8. fileLock' \in [Tr!Files -> Launches \cup {"free", "dead"}]
  BY <1>1 DEF Tr!TrustInv, Tr!TrustTypeOK
<1>9. QED
  BY <1>1, <1>4, <1>7, <1>8, LaunchGoesOn

\* It takes the lock of its file, or runs past a dead one.
LEMMA TrustLocks ==
  ASSUME Tr!TrustInv, NEW l \in Launches, Tr!Locks(l)
  PROVE  Tr!TrustInv'
<1> DEFINE f == Tr!File(l)
           p == [launch[l] EXCEPT !.at = "reads"]
           q == [launch[l] EXCEPT !.at = "reads", !.held = TRUE]
<1>1. launch[l].at = "locks" /\ UNCHANGED <<agent, there, says, answered, noes, outrun, recorded>>
  BY DEF Tr!Locks
<1>2. \/ fileLock[f] = "dead" /\ fileLock' = fileLock /\ launch' = [launch EXCEPT ![l] = p]
      \/ /\ fileLock[f] = "free" /\ fileLock' = [fileLock EXCEPT ![f] = l]
         /\ launch' = [launch EXCEPT ![l] = q]
  BY DEF Tr!Locks, Tr!TakesLock, Tr!TrustInv, Tr!TrustTypeOK, Tr!AllLaunches
<1>3. /\ launch[l] \in Tr!AllLaunches /\ ~launch[l].held /\ launch[l].dir \in Dirs /\ launch[l].todo \in Tr!Todos
      /\ f \in Tr!Files /\ fileLock \in [Tr!Files -> Launches \cup {"free", "dead"}]
  BY <1>1, TodosAre DEF Tr!TrustInv, Tr!TrustTypeOK, Tr!LaunchInv, Tr!Runs, Tr!File
<1>4. /\ p \in Tr!AllLaunches /\ p.at = "reads" /\ ~p.held /\ p.dir = launch[l].dir /\ p.todo = launch[l].todo
      /\ q \in Tr!AllLaunches /\ q.at = "reads" /\ q.held /\ q.dir = launch[l].dir /\ q.todo = launch[l].todo
  BY <1>3 DEF Tr!AllLaunches
<1> HIDE DEF p, q
<1>5. /\ fileLock' \in [Tr!Files -> Launches \cup {"free", "dead"}]
      /\ \A k \in Launches \ {l} : launch[k].at \in {"reads", "writes"} =>
           fileLock'[Tr!File(k)] = fileLock[Tr!File(k)]
  <2>1. ASSUME NEW k \in Launches \ {l}, launch[k].at \in {"reads", "writes"}
        PROVE  fileLock[Tr!File(k)] \in {k, "dead"}
    BY <2>1 DEF Tr!TrustInv, Tr!LaunchInv
  <2>2. l # "dead" /\ l # "free"
    BY TrustAssumption
  <2>3. CASE fileLock' = fileLock
    BY <1>3, <2>3
  <2>4. CASE fileLock[f] = "free" /\ fileLock' = [fileLock EXCEPT ![f] = l]
    <3>1. fileLock' \in [Tr!Files -> Launches \cup {"free", "dead"}]
      BY <1>3, <2>4
    <3>2. ASSUME NEW k \in Launches \ {l}, launch[k].at \in {"reads", "writes"}
          PROVE  fileLock'[Tr!File(k)] = fileLock[Tr!File(k)]
      <4>1. fileLock[Tr!File(k)] # "free"
        BY <2>1, <3>2, TrustAssumption
      <4>2. Tr!File(k) # f
        BY <2>4, <4>1
      <4>3. QED
        BY <1>3, <2>4, <4>2
    <3>3. QED
      BY <3>1, <3>2
  <2>5. QED
    BY <1>2, <2>3, <2>4
<1>6. launch'[l] \in {p, q} /\ launch'[l].todo = launch[l].todo /\ launch'[l].dir = launch[l].dir
      /\ launch'[l].at = "reads" /\ fileLock'[f] = IF launch'[l].held THEN l ELSE "dead"
  BY <1>2, <1>3, <1>4 DEF Tr!TrustInv, Tr!TrustTypeOK
<1>7. Tr!LaunchInv(l)'
  BY <1>1, <1>3, <1>6 DEF Tr!TrustInv, Tr!LaunchInv, Tr!Runs, Tr!Todos, Tr!Targets, Tr!File
<1>8. QED
  BY <1>1, <1>2, <1>4, <1>5, <1>7, LaunchGoesOn

\* It passes by a legacy file that is not there.
LEMMA TrustNoFolders ==
  ASSUME Tr!TrustInv, NEW l \in Launches, Tr!NoFolders(l)
  PROVE  Tr!TrustInv'
<1> DEFINE p == Tr!After(launch[l])
<1>1. /\ launch[l].at = "locks" /\ launch' = [launch EXCEPT ![l] = p]
      /\ UNCHANGED <<agent, there, says, fileLock, answered, noes, outrun, recorded>>
  BY DEF Tr!NoFolders
<1>2. /\ p \in Tr!AllLaunches /\ ~p.held
      /\ p.at = "done" \/ (p.at = "locks" /\ p.todo \in Tr!Todos /\ p.dir = launch[l].dir)
  BY <1>1, AfterIs DEF Tr!Runs
<1> HIDE DEF p
<1>3. launch'[l] = p /\ fileLock' \in [Tr!Files -> Launches \cup {"free", "dead"}]
  BY <1>1 DEF Tr!TrustInv, Tr!TrustTypeOK
<1>4. Tr!LaunchInv(l)'
  BY <1>1, <1>2, <1>3 DEF Tr!TrustInv, Tr!LaunchInv, Tr!Runs, Tr!Todos, Tr!Targets, Tr!File
<1>5. QED
  BY <1>1, <1>2, <1>3, <1>4, LaunchGoesOn

\* It reads its file.
LEMMA TrustReads ==
  ASSUME Tr!TrustInv, NEW l \in Launches, Tr!Reads(l)
  PROVE  Tr!TrustInv'
<1> DEFINE f == Tr!File(l)
           c == IF there[f] = "ok" THEN says[f] ELSE Tr!Nothing(f)
           p == [launch[l] EXCEPT !.at = "writes", !.saw = c]
           gone == IF f = "settings" THEN Tr!Done ELSE Tr!After(launch[l])
<1>1. launch[l].at = "reads" /\ UNCHANGED <<agent, there, says, answered, noes, outrun, recorded>>
  BY DEF Tr!Reads
<1>2. \/ /\ there[f] = "unreadable" /\ f # "folders"
         /\ fileLock' = Tr!Freed(l) /\ launch' = [launch EXCEPT ![l] = gone]
      \/ ~(there[f] = "unreadable" /\ f # "folders") /\ UNCHANGED fileLock /\ launch' = [launch EXCEPT ![l] = p]
  BY DEF Tr!Reads
<1>3. /\ launch[l] \in Tr!AllLaunches /\ launch[l].dir \in Dirs /\ launch[l].todo \in Tr!Todos
      /\ f \in Tr!Files /\ fileLock \in [Tr!Files -> Launches \cup {"free", "dead"}]
      /\ says[f] \in Tr!Copies(f) /\ there[f] \in {"missing", "unreadable", "ok"}
      /\ launch \in [Launches -> Tr!AllLaunches]
  BY <1>1, TodosAre DEF Tr!TrustInv, Tr!TrustTypeOK, Tr!LaunchInv, Tr!Runs, Tr!File
<1>4. CASE fileLock' = Tr!Freed(l) /\ launch' = [launch EXCEPT ![l] = gone]
  <2>1. /\ gone \in Tr!AllLaunches /\ ~gone.held
        /\ gone.at = "done" \/ (gone.at = "locks" /\ gone.todo \in Tr!Todos /\ gone.dir = launch[l].dir)
    BY <1>1, AfterIs, DoneIs DEF Tr!Runs
  <2> HIDE DEF gone
  <2>2. launch'[l] = gone
    BY <1>3, <1>4
  <2>3. Tr!LaunchInv(l)'
    BY <1>1, <2>1, <2>2 DEF Tr!TrustInv, Tr!LaunchInv, Tr!Runs, Tr!Todos, Tr!Targets, Tr!File
  <2>4. QED
    BY <1>1, <1>4, <2>1, <2>3, FreedIs, LaunchGoesOn
<1>5. CASE ~(there[f] = "unreadable" /\ f # "folders") /\ UNCHANGED fileLock /\ launch' = [launch EXCEPT ![l] = p]
  <2>1. c \in Tr!Copies(f)
    BY <1>3 DEF Tr!Nothing, Tr!Copies, Tr!Words
  <2>2. \A x \in Tr!Questions(f) : c[x] = says[f][x] \/ there[f] = "unreadable"
    BY <1>3 DEF Tr!Nothing, Tr!TrustInv
  <2> HIDE DEF c
  <2>3. /\ p \in Tr!AllLaunches /\ p.at = "writes" /\ p.held = launch[l].held /\ p.dir = launch[l].dir
        /\ p.todo = launch[l].todo /\ p.saw = c
    <3> DEFINE r == launch[l]
    <3>1. r \in Tr!AllLaunches /\ c \in Tr!AllCopies
      BY <1>3, <2>1, CopyIs
    <3>2. p = [r EXCEPT !.at = "writes", !.saw = c]
      OBVIOUS
    <3> HIDE DEF p, r
    <3>3. p \in Tr!AllLaunches /\ p.at = "writes" /\ p.held = r.held /\ p.dir = r.dir /\ p.todo = r.todo /\ p.saw = c
      BY <3>1, <3>2, MoveSaw
    <3>4. QED
      BY <3>3 DEF r
  <2> HIDE DEF p
  <2>4. launch'[l] = p
    BY <1>3, <1>5
  <2>5. Tr!LaunchInv(l)'
    BY <1>1, <1>3, <1>5, <2>1, <2>2, <2>3, <2>4
       DEF Tr!TrustInv, Tr!LaunchInv, Tr!Runs, Tr!Todos, Tr!Targets, Tr!File, Tr!Copies, Tr!Questions
  <2>6. QED
    BY <1>1, <1>3, <1>5, <2>3, <2>5, LaunchGoesOn
<1>6. QED
  BY <1>2, <1>4, <1>5

\* An answer: a launch that holds an older copy of the file, or looked for refusals before, is outrun.
LEMMA TrustAnswers ==
  ASSUME Tr!TrustInv, NEW f \in DOMAIN says, NEW x \in Tr!Questions(f), NEW how \in Tr!Refusals \cup {"yes"},
         Tr!Answer(f, x, how)
  PROVE  Tr!TrustInv'
<1>1. /\ there[f] # "unreadable" /\ UNCHANGED <<agent, fileLock, launch>>
      /\ says' = [says EXCEPT ![f][x] = how] /\ there' = [there EXCEPT ![f] = "ok"]
      /\ noes' = IF how = "no" THEN noes \cup {<<f, x>>} ELSE noes \ {<<f, x>>}
      /\ outrun' = IF Tr!Behind(f) THEN outrun \cup {<<f, x>>} ELSE outrun \ {<<f, x>>}
      /\ recorded' = recorded \ {<<f, x>>}
  BY DEF Tr!Answer
<1>2. /\ f \in Tr!Files /\ DOMAIN says = Tr!Files /\ \A g \in Tr!Files : says[g] \in Tr!Copies(g)
      /\ there \in [Tr!Files -> {"missing", "unreadable", "ok"}]
      /\ Tr!Files' = Tr!Files /\ Tr!AllLaunches' = Tr!AllLaunches
  BY <1>1 DEF Tr!TrustInv, Tr!TrustTypeOK, Tr!Files, Tr!AllLaunches, Tr!AllCopies, Tr!Todos
<1>3. /\ DOMAIN says' = Tr!Files
      /\ \A g \in Tr!Files : \A y \in Tr!Questions(g) :
           says'[g][y] = IF g = f /\ y = x THEN how ELSE says[g][y]
      /\ \A g \in Tr!Files : says'[g] \in Tr!Copies(g)
  <2>1. how \in Tr!Words
    BY DEF Tr!Words
  <2>2. DOMAIN says' = Tr!Files /\ says'[f] = [says[f] EXCEPT ![x] = how]
    BY <1>1, <1>2
  <2>3. \A g \in Tr!Files : g # f => says'[g] = says[g]
    BY <1>1, <1>2
  <2>4. says'[f] \in Tr!Copies(f) /\ \A y \in Tr!Questions(f) : says'[f][y] = IF y = x THEN how ELSE says[f][y]
    BY <1>2, <2>1, <2>2 DEF Tr!Copies
  <2>5. QED
    BY <1>2, <2>2, <2>3, <2>4
<1>4. /\ there' \in [Tr!Files -> {"missing", "unreadable", "ok"}] /\ there'[f] = "ok"
      /\ \A g \in Tr!Files : g # f => there'[g] = there[g]
  BY <1>1, <1>2
<1>5. ASSUME NEW g \in Tr!Files, NEW y \in Tr!Questions(g), <<g, y>> # <<f, x>>
      PROVE  /\ says'[g][y] = says[g][y] /\ (<<g, y>> \in noes' <=> <<g, y>> \in noes)
             /\ (<<g, y>> \in recorded' <=> <<g, y>> \in recorded)
             /\ (<<g, y>> \in outrun' <=> <<g, y>> \in outrun)
  BY <1>1, <1>3, <1>5
<1>6. Tr!TrustTypeOK'
  <2>1. \A n \in noes' \cup recorded' : \E g \in Tr!Files : \E y \in Tr!Questions(g) : n = <<g, y>>
    BY <1>1, <1>2 DEF Tr!TrustInv, Tr!TrustTypeOK
  <2>2. agent' \in Tr!Agents /\ fileLock' \in [Tr!Files -> Launches \cup {"free", "dead"}]
        /\ launch' \in [Launches -> Tr!AllLaunches]
    BY <1>1 DEF Tr!TrustInv, Tr!TrustTypeOK
  <2>3. QED
    BY <1>2, <1>3, <1>4, <2>1, <2>2 DEF Tr!TrustTypeOK, Tr!Copies, Tr!Questions
<1>7. ASSUME NEW g \in Tr!Files, NEW y \in Tr!Questions(g)
      PROVE  <<g, y>> \in outrun' \/ Tr!Stands(g, y)'
  <2>1. CASE <<g, y>> = <<f, x>>
    <3>1. says'[f][x] = how /\ <<f, x>> \notin recorded' /\ (<<f, x>> \in noes' => how = "no")
      BY <1>1, <1>2, <1>3
    <3>2. QED
      BY <2>1, <3>1 DEF Tr!Stands
  <2>2. CASE <<g, y>> # <<f, x>>
    BY <1>5, <1>7, <2>2 DEF Tr!TrustInv, Tr!Stands
  <2>3. QED
    BY <2>1, <2>2
<1>8. ASSUME NEW l \in Launches PROVE Tr!LaunchInv(l)'
  <2> DEFINE h == Tr!File(l)
  <2>1. Tr!LaunchInv(l) /\ launch' = launch
    BY <1>1 DEF Tr!TrustInv
  <2>2. ASSUME launch[l].at = "writes", NEW y \in Tr!Questions(h)
        PROVE  launch[l].saw[y] = says'[h][y] \/ <<h, y>> \in outrun' \/ there'[h] = "unreadable"
    <3>1. h \in Tr!Files
      BY <2>1, <2>2, TodosAre DEF Tr!TrustInv, Tr!TrustTypeOK, Tr!LaunchInv, Tr!Runs, Tr!File
    <3>2. launch[l].saw[y] = says[h][y] \/ <<h, y>> \in outrun \/ there[h] = "unreadable"
      BY <2>1, <2>2 DEF Tr!LaunchInv
    <3>3. there[h] = "unreadable" => there'[h] = "unreadable"
      BY <1>1, <1>4, <3>1
    <3>4. CASE <<h, y>> = <<f, x>>
      <4>1. Tr!Behind(f)
        BY <2>2, <3>4 DEF Tr!Behind
      <4>2. QED
        BY <1>1, <3>4, <4>1
    <3>5. CASE <<h, y>> # <<f, x>>
      <4>1. says'[h][y] = says[h][y] /\ (<<h, y>> \in outrun' <=> <<h, y>> \in outrun)
        BY <1>5, <3>1, <3>5
      <4>2. QED
        BY <3>2, <3>3, <4>1
    <3>6. QED
      BY <3>4, <3>5
  <2>3. ASSUME Tr!Runs(l), NEW y \in Tr!Questions("folders"), <<"folders", y>> \in noes',
               y[2] \in Tr!Targets(launch[l].dir)
        PROVE  <<"folders", y>> \in outrun' \/ there'["folders"] = "unreadable"
    <3>1. CASE <<"folders", y>> = <<f, x>>
      <4>1. Tr!Behind(f)
        BY <2>3, <3>1 DEF Tr!Behind, Tr!Runs
      <4>2. QED
        BY <1>1, <3>1, <4>1
    <3>2. CASE <<"folders", y>> # <<f, x>>
      <4>1. <<"folders", y>> \in noes
        BY <1>1, <2>3, <3>2
      <4>2. "folders" \in Tr!Files
        BY <4>1 DEF Tr!TrustInv, Tr!TrustTypeOK
      <4>3. <<"folders", y>> \in outrun \/ there["folders"] = "unreadable"
        BY <2>1, <2>3, <4>1 DEF Tr!LaunchInv
      <4>4. <<"folders", y>> \in outrun' <=> <<"folders", y>> \in outrun
        BY <1>5, <3>2, <4>2
      <4>5. there["folders"] = "unreadable" => there'["folders"] = "unreadable"
        BY <1>1, <1>4, <4>2
      <4>6. QED
        BY <4>3, <4>4, <4>5
    <3>3. QED
      BY <3>1, <3>2
  <2>4. QED
    BY <1>1, <2>1, <2>2, <2>3 DEF Tr!LaunchInv, Tr!Runs, Tr!Todos, Tr!Targets, Tr!File, Tr!Copies, Tr!Questions
<1>9. ASSUME NEW g \in Tr!Files, there'[g] = "missing", NEW y \in Tr!Questions(g)
      PROVE  says'[g][y] = "unasked"
  <2>1. g # f /\ there[g] = "missing"
    BY <1>4, <1>9
  <2>2. QED
    BY <1>3, <2>1 DEF Tr!TrustInv
<1>10. QED
  BY <1>2, <1>6, <1>7, <1>8, <1>9 DEF Tr!TrustInv, Tr!Questions

\* Two launches write one file only past a lock whose holder died.
LEMMA WritersApart ==
  ASSUME Tr!TrustInv, NEW l \in Launches, NEW k \in Launches \ {l},
         launch[l].at = "writes", launch[k].at = "writes", Tr!File(k) = Tr!File(l)
  PROVE  Tr!LockedOut(Tr!File(l), l)
<1>1. fileLock[Tr!File(l)] \in {l, "dead"} /\ fileLock[Tr!File(k)] \in {k, "dead"}
  BY DEF Tr!TrustInv, Tr!LaunchInv
<1>2. fileLock[Tr!File(l)] = "dead"
  BY <1>1, TrustAssumption
<1>3. QED
  BY <1>2 DEF Tr!LockedOut

\* It writes: what it did not see was outrun, or it would have had to share a lock.
LEMMA TrustWrites ==
  ASSUME Tr!TrustInv, NEW l \in Launches, Tr!WritesFile(l)
  PROVE  Tr!TrustInv'
<1> DEFINE f == Tr!File(l)
           saw == launch[l].saw
           dir == launch[l].dir
           new == Tr!Writes(f, saw, dir)
           q == Tr!After(launch[l])
           changed == {<<f, x>> : x \in {y \in Tr!Questions(f) : saw[y] # new[y]}}
<1>1. /\ launch[l].at = "writes" /\ UNCHANGED <<agent, answered, noes>>
      /\ IF new = saw THEN UNCHANGED <<there, says, recorded>>
         ELSE /\ says' = [says EXCEPT ![f] = new] /\ there' = [there EXCEPT ![f] = "ok"]
              /\ recorded' = recorded \cup changed
      /\ outrun' = IF there[f] = "unreadable" THEN outrun \cup ({f} \X Tr!Questions(f))
                      ELSE IF Tr!LockedOut(f, l) THEN outrun \cup changed ELSE outrun
      /\ fileLock' = Tr!Freed(l) /\ launch' = [launch EXCEPT ![l] = q]
  BY DEF Tr!WritesFile
<1>2. /\ DOMAIN says = Tr!Files /\ \A g \in Tr!Files : says[g] \in Tr!Copies(g)
      /\ there \in [Tr!Files -> {"missing", "unreadable", "ok"}]
      /\ launch \in [Launches -> Tr!AllLaunches]
      /\ Tr!Files' = Tr!Files /\ Tr!AllLaunches' = Tr!AllLaunches
  BY <1>1 DEF Tr!TrustInv, Tr!TrustTypeOK, Tr!Files, Tr!AllLaunches, Tr!AllCopies, Tr!Todos
<1>3. /\ f \in Tr!Files /\ saw \in Tr!Copies(f) /\ dir \in Dirs /\ Tr!Runs(l) /\ Tr!LaunchInv(l)
      /\ launch[l] \in Tr!AllLaunches
  BY <1>1, TodosAre DEF Tr!TrustInv, Tr!TrustTypeOK, Tr!LaunchInv, Tr!Runs, Tr!File
<1>4. /\ new \in Tr!Copies(f)
      /\ \A x \in Tr!Questions(f) :
           /\ new[x] \in {saw[x], "yes"}
           /\ saw[x] # "no" \/ new[x] = "no" \/ (f = "folders" /\ x[2] \in Tr!Targets(dir))
  BY <1>3, WritesKeep
<1>5. /\ q \in Tr!AllLaunches /\ ~q.held
      /\ q.at = "done" \/ (q.at = "locks" /\ q.todo \in Tr!Todos /\ q.dir = dir)
  BY <1>3, AfterIs
<1>6. /\ fileLock' \in [Tr!Files -> Launches \cup {"free", "dead"}]
      /\ \A k \in Launches \ {l} : launch[k].at \in {"reads", "writes"} =>
           fileLock'[Tr!File(k)] = fileLock[Tr!File(k)]
  BY <1>1, FreedIs
<1> HIDE DEF f, saw, dir, new, q, changed
<1>7. /\ DOMAIN says' = Tr!Files /\ \A g \in Tr!Files : says'[g] \in Tr!Copies(g)
      /\ \A g \in Tr!Files : g # f => says'[g] = says[g] /\ there'[g] = there[g]
      /\ there' \in [Tr!Files -> {"missing", "unreadable", "ok"}]
      /\ says'[f] = IF new = saw THEN says[f] ELSE new
      /\ there'[f] = IF new = saw THEN there[f] ELSE "ok"
  <2>1. CASE new = saw
    BY <1>1, <1>2, <1>3, <2>1
  <2>2. CASE new # saw
    BY <1>1, <1>2, <1>3, <1>4, <2>2
  <2>3. QED
    BY <2>1, <2>2
<1>8. \A n \in outrun : n \in outrun'
  BY <1>1
<1>9. there[f] = "unreadable" => \A x \in Tr!Questions(f) : <<f, x>> \in outrun'
  BY <1>1
<1>10. ASSUME NEW x \in Tr!Questions(f), <<f, x>> \notin outrun'
       PROVE  /\ there[f] # "unreadable" /\ saw[x] = says[f][x] /\ says'[f][x] = new[x]
              /\ Tr!LockedOut(f, l) => says'[f][x] = says[f][x]
  <2>1. there[f] # "unreadable" /\ <<f, x>> \notin outrun
    BY <1>8, <1>9, <1>10
  <2>2. saw[x] = says[f][x]
    BY <1>1, <1>3, <2>1 DEF Tr!LaunchInv, f, saw
  <2>3. says'[f][x] = new[x]
    BY <1>7, <2>2
  <2>4. Tr!LockedOut(f, l) => new[x] = saw[x]
    BY <1>1, <1>10, <2>1 DEF changed
  <2>5. QED
    BY <2>1, <2>2, <2>3, <2>4
<1>11. ASSUME NEW g \in Tr!Files, NEW x \in Tr!Questions(g)
       PROVE  <<g, x>> \in outrun' \/ Tr!Stands(g, x)'
  <2>1. SUFFICES ASSUME <<g, x>> \notin outrun' PROVE Tr!Stands(g, x)'
    OBVIOUS
  <2>2. Tr!Stands(g, x)
    BY <1>8, <2>1 DEF Tr!TrustInv
  <2>3. CASE g # f
    <3>1. <<g, x>> \in recorded' => <<g, x>> \in recorded
      BY <1>1, <2>3 DEF changed
    <3>2. says'[g] = says[g] /\ noes' = noes
      BY <1>1, <1>7, <2>3
    <3>3. QED
      BY <2>2, <3>1, <3>2 DEF Tr!Stands
  <2>4. CASE g = f
    <3>1. there[f] # "unreadable" /\ saw[x] = says[f][x] /\ says'[f][x] = new[x]
      BY <1>10, <2>1, <2>4
    <3>2. new[x] \in {saw[x], "yes"}
      BY <1>4, <2>4
    <3>3. ASSUME <<f, x>> \in noes PROVE says'[f][x] = "no"
      <4>1. saw[x] = "no"
        BY <2>2, <2>4, <3>1, <3>3 DEF Tr!Stands
      <4>2. ~(f = "folders" /\ x[2] \in Tr!Targets(dir))
        BY <1>3, <1>8, <2>1, <2>4, <3>1, <3>3 DEF Tr!LaunchInv, dir
      <4>3. QED
        BY <1>4, <2>4, <3>1, <4>1, <4>2
    <3>4. ASSUME <<f, x>> \in recorded' PROVE says'[f][x] = "yes"
      <4>1. <<f, x>> \in recorded \/ saw[x] # new[x]
        BY <1>1, <3>4 DEF changed
      <4>2. <<f, x>> \in recorded => saw[x] = "yes"
        BY <2>2, <2>4, <3>1 DEF Tr!Stands
      <4>3. QED
        BY <3>1, <3>2, <4>1, <4>2
    <3>5. QED
      BY <1>1, <2>4, <3>3, <3>4 DEF Tr!Stands
  <2>5. QED
    BY <2>3, <2>4
<1>12. ASSUME NEW k \in Launches, k # l, Tr!LaunchInv(k) PROVE Tr!LaunchInv(k)'
  <2> DEFINE h == Tr!File(k)
  <2>1. launch'[k] = launch[k]
    BY <1>1, <1>2, <1>12
  <2>2. ASSUME launch[k].at = "writes", NEW y \in Tr!Questions(h)
        PROVE  launch[k].saw[y] = says'[h][y] \/ <<h, y>> \in outrun' \/ there'[h] = "unreadable"
    <3>1. h \in Tr!Files
      BY <1>12, <2>2, TodosAre DEF Tr!TrustInv, Tr!TrustTypeOK, Tr!LaunchInv, Tr!Runs, Tr!File
    <3>2. launch[k].saw[y] = says[h][y] \/ <<h, y>> \in outrun \/ there[h] = "unreadable"
      BY <1>12, <2>2 DEF Tr!LaunchInv
    <3>3. CASE h # f
      BY <1>7, <1>8, <3>1, <3>2, <3>3
    <3>4. CASE h = f
      <4>1. Tr!LockedOut(f, l)
        BY <1>1, <1>12, <2>2, <3>4, WritersApart DEF f
      <4>2. CASE <<f, y>> \in outrun'
        BY <3>4, <4>2
      <4>3. CASE <<f, y>> \notin outrun'
        BY <1>8, <1>10, <2>2, <3>2, <3>4, <4>1, <4>3
      <4>4. QED
        BY <4>2, <4>3
    <3>5. QED
      BY <3>3, <3>4
  <2>3. ASSUME Tr!Runs(k), NEW y \in Tr!Questions("folders"), <<"folders", y>> \in noes,
               y[2] \in Tr!Targets(launch[k].dir)
        PROVE  <<"folders", y>> \in outrun' \/ there'["folders"] = "unreadable"
    <3>1. <<"folders", y>> \in outrun \/ there["folders"] = "unreadable"
      BY <1>12, <2>3 DEF Tr!LaunchInv
    <3>2. "folders" \in Tr!Files
      BY <2>3 DEF Tr!TrustInv, Tr!TrustTypeOK
    <3>3. QED
      BY <1>7, <1>8, <1>9, <3>1, <3>2
  <2>4. launch[k].at \in {"reads", "writes"} => fileLock'[h] = fileLock[h]
    BY <1>6, <1>12
  <2>5. QED
    BY <1>1, <1>12, <2>1, <2>2, <2>3, <2>4
       DEF Tr!LaunchInv, Tr!Runs, Tr!Todos, Tr!Targets, Tr!File, Tr!Copies, Tr!Questions
<1>13. Tr!LaunchInv(l)'
  <2>1. launch'[l] = q
    BY <1>1, <1>2
  <2>2. ASSUME NEW y \in Tr!Questions("folders"), <<"folders", y>> \in noes, y[2] \in Tr!Targets(dir)
        PROVE  <<"folders", y>> \in outrun' \/ there'["folders"] = "unreadable"
    <3>1. <<"folders", y>> \in outrun \/ there["folders"] = "unreadable"
      BY <1>3, <2>2 DEF Tr!LaunchInv, dir
    <3>2. "folders" \in Tr!Files
      BY <2>2 DEF Tr!TrustInv, Tr!TrustTypeOK
    <3>3. QED
      BY <1>7, <1>8, <1>9, <3>1, <3>2
  <2>3. QED
    BY <1>1, <1>3, <1>5, <2>1, <2>2 DEF Tr!LaunchInv, Tr!Runs, Tr!Todos, Tr!Targets
<1>14. Tr!TrustTypeOK'
  <2>1. \A n \in noes' \cup recorded' : \E g \in Tr!Files : \E y \in Tr!Questions(g) : n = <<g, y>>
    <3>1. \A n \in changed : \E y \in Tr!Questions(f) : n = <<f, y>>
      BY DEF changed
    <3>2. \A n \in noes' \cup recorded' : n \in noes \cup recorded \/ n \in changed
      BY <1>1
    <3>3. QED
      BY <1>3, <3>1, <3>2 DEF Tr!TrustInv, Tr!TrustTypeOK
  <2>2. agent' \in Tr!Agents /\ launch' \in [Launches -> Tr!AllLaunches]
    BY <1>1, <1>2, <1>5 DEF Tr!TrustInv, Tr!TrustTypeOK
  <2>3. QED
    BY <1>2, <1>6, <1>7, <2>1, <2>2 DEF Tr!TrustTypeOK, Tr!Copies, Tr!Questions
<1>15. ASSUME NEW g \in Tr!Files, there'[g] = "missing", NEW y \in Tr!Questions(g)
       PROVE  says'[g][y] = "unasked"
  BY <1>7, <1>15 DEF Tr!TrustInv
<1>16. \A k \in Launches : Tr!LaunchInv(k)
  BY DEF Tr!TrustInv
<1>17. QED
  BY <1>2, <1>11, <1>12, <1>13, <1>14, <1>15, <1>16 DEF Tr!TrustInv, Tr!Questions

\* The trust questions start in their invariant.
LEMMA TrustStarts ==
  Tr!TrustInit => Tr!TrustInv
<1> SUFFICES ASSUME Tr!TrustInit PROVE Tr!TrustInv
  OBVIOUS
<1>1. PICK f \in Tr!Files :
        /\ \E h \in {"missing", "unreadable", "ok"} :
             there = [g \in Tr!Files |-> IF g = f THEN h ELSE IF g = "folders" THEN "missing" ELSE "ok"]
        /\ \/ says = [g \in Tr!Files |-> Tr!Nothing(g)]
           \/ /\ there[f] # "missing"
              /\ \E x \in Tr!Questions(f) :
                   says = [g \in Tr!Files |-> IF g = f THEN [Tr!Nothing(f) EXCEPT ![x] = "no"] ELSE Tr!Nothing(g)]
        /\ \E left \in {"free", "dead"} : fileLock = [g \in Tr!Files |-> IF g = f THEN left ELSE "free"]
        /\ noes = {n \in {f} \X Tr!Questions(f) : says[f][n[2]] = "no"}
  BY DEF Tr!TrustInit, Tr!Files
<1>2. /\ agent \in Tr!Agents /\ launch = [l \in Launches |-> Tr!Idle] /\ outrun = {} /\ recorded = {}
  BY DEF Tr!TrustInit
<1>3. \A g \in Tr!Files : Tr!Nothing(g) \in Tr!Copies(g) /\ \A x \in Tr!Questions(g) : Tr!Nothing(g)[x] = "unasked"
  BY DEF Tr!Nothing, Tr!Copies, Tr!Words
<1>4. /\ DOMAIN says = Tr!Files /\ \A g \in Tr!Files : says[g] \in Tr!Copies(g)
      /\ \A g \in Tr!Files : there[g] = "missing" => \A x \in Tr!Questions(g) : says[g][x] = "unasked"
  <2>1. CASE says = [g \in Tr!Files |-> Tr!Nothing(g)]
    BY <1>3, <2>1
  <2>2. CASE /\ there[f] # "missing"
             /\ \E x \in Tr!Questions(f) :
                  says = [g \in Tr!Files |-> IF g = f THEN [Tr!Nothing(f) EXCEPT ![x] = "no"] ELSE Tr!Nothing(g)]
    <3> PICK x \in Tr!Questions(f) :
          says = [g \in Tr!Files |-> IF g = f THEN [Tr!Nothing(f) EXCEPT ![x] = "no"] ELSE Tr!Nothing(g)]
      BY <2>2
    <3>1. [Tr!Nothing(f) EXCEPT ![x] = "no"] \in Tr!Copies(f)
      BY <1>3 DEF Tr!Copies, Tr!Words, Tr!Refusals
    <3>2. QED
      BY <1>3, <2>2, <3>1
  <2>3. QED
    BY <1>1, <2>1, <2>2
<1>5. launch \in [Launches -> Tr!AllLaunches] /\ \A l \in Launches : launch[l] = Tr!Idle
  BY <1>2, IdleIs
<1>6. \A l \in Launches : Tr!LaunchInv(l)
  <2>1. Tr!Idle.at = "new" /\ Tr!Idle.held = FALSE
    BY DEF Tr!Idle
  <2>2. QED
    BY <1>5, <2>1 DEF Tr!LaunchInv, Tr!Runs
<1>7. there \in [Tr!Files -> {"missing", "unreadable", "ok"}]
      /\ fileLock \in [Tr!Files -> Launches \cup {"free", "dead"}]
  BY <1>1
<1>8. \A n \in noes : \E x \in Tr!Questions(f) : n = <<f, x>> /\ says[f][x] = "no"
  BY <1>1
<1>9. \A g \in Tr!Files : \A x \in Tr!Questions(g) : Tr!Stands(g, x)
  BY <1>2, <1>8 DEF Tr!Stands
<1>10. Tr!TrustTypeOK
  BY <1>2, <1>4, <1>5, <1>7, <1>8 DEF Tr!TrustTypeOK
<1>11. QED
  BY <1>4, <1>6, <1>9, <1>10 DEF Tr!TrustInv

\* Every step of launches and users keeps it.
LEMMA TrustStep ==
  Tr!TrustInv /\ [Tr!TrustNext]_Trvars => Tr!TrustInv'
<1> SUFFICES ASSUME Tr!TrustInv, [Tr!TrustNext]_Trvars PROVE Tr!TrustInv'
  OBVIOUS
<1>1. CASE UNCHANGED Trvars
  BY <1>1 DEF Trvars, Tr!TrustInv, Tr!TrustTypeOK, Tr!LaunchInv, Tr!Runs, Tr!Stands, Tr!File, Tr!Files, Tr!Todos,
              Tr!AllLaunches, Tr!AllCopies
<1>2. CASE Tr!TrustNext
  BY <1>2, TrustBegins, TrustLocks, TrustNoFolders, TrustReads, TrustWrites, TrustAnswers DEF Tr!TrustNext
<1>3. QED
  BY <1>1, <1>2

(* However many terminals start agents, in whatever folders, a no the user *)
(* gave stays a no and what a launch recorded stays on file (trust.mjs),   *)
(* with the exceptions AnswersStand names.                                 *)
THEOREM AnswersStandThm == SurroundingsSpec => []AnswersStand
<1> DEFINE I == part = "trust" => Tr!TrustInv
<1>1. SurroundingsInit => I
  BY TrustStarts DEF SurroundingsInit
<1>2. I /\ [SurroundingsNext]_surroundingsVars => I'
  <2> SUFFICES ASSUME I, [SurroundingsNext]_surroundingsVars, part' = "trust" PROVE Tr!TrustInv'
    OBVIOUS
  <2>1. part = "trust" /\ [Tr!TrustNext]_Trvars
    BY DEF SurroundingsNext, surroundingsVars, Trvars
  <2>2. QED
    BY <2>1, TrustStep
<1>3. I => AnswersStand
  BY DEF AnswersStand, Tr!AnswersStand, Tr!TrustInv, Tr!TrustTypeOK, Tr!Stands
<1>4. QED
  BY <1>1, <1>2, <1>3, PTL DEF SurroundingsSpec

-----------------------------------------------------------------------------
(* The board as a process (Launcher.tla).                                  *)

\* A command that goes on keeps its kind and where it asks.
LEMMA Placed ==
  ASSUME NEW p \in L!Commands,
         NEW at \in {"new", "probes", "looks", "waits", "asked", "ready", "deaf", "signalled", "done"}
  PROVE  LET q == L!Place(p, at)
         IN  q \in L!Commands /\ q.at = at /\ q.kind = p.kind /\ q.host = p.host
<1>1. L!NoFile \in L!PidRecords \cup {L!NoFile}
  OBVIOUS
<1> DEFINE s == IF at = "done" THEN L!NoFile ELSE p.saw
<1>2. s \in L!PidRecords \cup {L!NoFile}
  BY <1>1 DEF L!Commands
<1>3. L!Place(p, at) = [p EXCEPT !.at = at, !.saw = s]
  BY DEF L!Place
<1> HIDE DEF s
<1>4. QED
  BY <1>2, <1>3 DEF L!Commands

\* Why a board is not recorded is not forgotten.
LEMMA NotedStays ==
  ASSUME NEW b, missing \subseteq missing', L!Noted(b)
  PROVE  L!Noted(b)'
BY DEF L!Noted

\* A board that is recorded and up is alive for whoever judges the record.
LEMMA RecordedLives ==
  ASSUME L!LauncherTypeOK, NEW b \in Cmds, board[b].is = "up", L!Recorded(b)
  PROVE  L!BoardAlive(pidfile)
<1>1. pidfile \in L!PidRecords /\ pidfile.of = b /\ pidfile.addr \in board[b].at
  BY DEF L!Recorded, L!LauncherTypeOK
<1>2. b \in L!Listens(pidfile.addr)
  BY <1>1 DEF L!Listens
<1>3. L!Owner(pidfile.addr) \in Cmds
  BY <1>2 DEF L!Owner, L!Listens
<1>4. L!Owner(pidfile.addr) # L!NoOne
  BY <1>3, LauncherAssumption DEF L!NoOne
<1>5. L!PidAlive(pidfile)
  <2>1. pidfile.who = "up" \/ pidfile.who = "board"
    BY <1>1 DEF L!PidRecords
  <2>2. QED
    BY <1>1, <2>1 DEF L!PidAlive, L!Recorded
<1>6. QED
  BY <1>1, <1>4, <1>5 DEF L!BoardAlive, L!Recorded

\* A record that goes is the one that was judged, or it is noted whose it was.
LEMMA LostIsNoted ==
  ASSUME NEW judged, NEW b \in Cmds, L!Recorded(b), missing \cup L!Lost(judged) \subseteq missing',
         pidfile # judged
  PROVE  L!Noted(b)'
<1>1. <<b, "its record was another's victim">> \in missing'
  BY DEF L!Lost, L!Recorded
<1>2. QED
  BY <1>1 DEF L!Noted

\* `leg share` is not asked about while there is a terminal's board, or when something failed.
LEMMA NotShared ==
  ASSUME mishaps' # 0 \/ \E c \in Cmds : cmd'[c].kind \in {"up", "down"}
  PROVE  L!SharedStands'
BY DEF L!SharedStands, L!None

\* A command goes on, and no board changes: every board but its own is accounted for as before.
LEMMA OthersAccounted ==
  ASSUME L!LauncherInv, NEW c \in Cmds, NEW b \in Cmds \ {c},
         cmd'[b] = cmd[b], board'[b] = board[b], missing \subseteq missing',
         board[b].is = "up" => L!Noted(b)' \/ ~L!Recorded(b) \/ pidfile' = pidfile
  PROVE  L!Accounted(b)'
BY NotedStays DEF L!LauncherInv, L!Accounted, L!Recorded

\* What starts or stops of a board.
LEMMA BoardMoves ==
  ASSUME board \in [Cmds -> L!Boards], NEW b \in Cmds
  PROVE  /\ LET s == L!Spawned(b)
            IN  /\ s \in [Cmds -> L!Boards] /\ s[b].is = "starting"
                /\ \A d \in Cmds \ {b} : s[d] = board[d]
         /\ LET k == L!Killed(board, b)
            IN  /\ k \in [Cmds -> L!Boards]
                /\ k[b].is = IF board[b].is \in {"starting", "up"} THEN "stopping" ELSE board[b].is
                /\ \A d \in Cmds \ {b} : k[d] = board[d]
<1>1. [L!NoBoard EXCEPT !.is = "starting"] \in L!Boards
      /\ [L!NoBoard EXCEPT !.is = "starting"].is = "starting"
  BY DEF L!NoBoard, L!Boards, L!None
<1>2. [board[b] EXCEPT !.is = "stopping"] \in L!Boards /\ [board[b] EXCEPT !.is = "stopping"].is = "stopping"
  BY DEF L!Boards
<1>3. L!Spawned(b) = [board EXCEPT ![b] = [L!NoBoard EXCEPT !.is = "starting"]]
  BY DEF L!Spawned
<1>4. L!Killed(board, b) = IF board[b].is \in {"starting", "up"} THEN [board EXCEPT ![b].is = "stopping"] ELSE board
  BY DEF L!Killed
<1>5. L!Spawned(b) \in [Cmds -> L!Boards] /\ L!Spawned(b)[b].is = "starting"
      /\ \A d \in Cmds \ {b} : L!Spawned(b)[d] = board[d]
  BY <1>1, <1>3
<1>6. CASE board[b].is \in {"starting", "up"}
  <2>1. L!Killed(board, b) = [board EXCEPT ![b] = [board[b] EXCEPT !.is = "stopping"]]
    BY <1>4, <1>6
  <2>2. QED
    BY <1>2, <1>5, <1>6, <2>1
<1>7. CASE board[b].is \notin {"starting", "up"}
  BY <1>4, <1>5, <1>7
<1>8. QED
  BY <1>6, <1>7

\* An `up` that probed ends, or clears the stale record and spawns a board.
LEMMA UpProbedStep ==
  ASSUME L!LauncherInv, NEW c \in Cmds, L!UpProbed(c)
  PROVE  L!LauncherInv'
<1>1. /\ cmd[c].kind = "up" /\ cmd[c].at = "probes" /\ UNCHANGED <<share, token, mishaps>>
      /\ \/ /\ cmd' = [cmd EXCEPT ![c] = L!Place(cmd[c], "done")] /\ UNCHANGED <<pidfile, board, missing>>
         \/ /\ cmd' = [cmd EXCEPT ![c] = L!Place(cmd[c], "waits")] /\ board' = L!Spawned(c)
            /\ pidfile' = L!NoFile /\ missing' = missing \cup L!Lost(cmd[c].saw) /\ ~L!BoardAlive(cmd[c].saw)
  BY DEF L!UpProbed, L!At, L!RemovePidfile, L!NoMishap
<1>2. cmd \in [Cmds -> L!Commands] /\ board \in [Cmds -> L!Boards] /\ L!LauncherTypeOK
  BY DEF L!LauncherInv, L!LauncherTypeOK
<1>3. PICK at \in {"done", "waits"} : cmd' = [cmd EXCEPT ![c] = L!Place(cmd[c], at)] /\
           IF at = "done" THEN UNCHANGED <<pidfile, board, missing>>
           ELSE /\ board' = L!Spawned(c)
            /\ pidfile' = L!NoFile /\ missing' = missing \cup L!Lost(cmd[c].saw) /\ ~L!BoardAlive(cmd[c].saw)
  BY <1>1
<1>4. /\ cmd' \in [Cmds -> L!Commands] /\ cmd'[c].at = at /\ cmd'[c].kind = "up"
      /\ \A b \in Cmds \ {c} : cmd'[b] = cmd[b]
  BY <1>1, <1>2, <1>3, Placed
<1>5. /\ board' \in [Cmds -> L!Boards] /\ \A b \in Cmds \ {c} : board'[b] = board[b]
      /\ at = "done" => board'[c].is = "none"
  BY <1>1, <1>2, <1>3, BoardMoves DEF L!LauncherInv, L!Accounted
<1>6. L!LauncherTypeOK'
  BY <1>1, <1>2, <1>3, <1>4, <1>5 DEF L!LauncherTypeOK, L!Boards, L!Commands, L!PidRecords, L!NoFile, L!Kinds, L!None
<1>7. ASSUME NEW b \in Cmds PROVE L!Accounted(b)'
  <2>1. CASE b = c
    <3>1. CASE at = "done"
      BY <1>4, <1>5, <2>1, <3>1 DEF L!Accounted
    <3>2. CASE at = "waits"
      BY <1>4, <2>1, <3>2 DEF L!Accounted
    <3>3. QED
      BY <3>1, <3>2
  <2>2. CASE b # c
    <3>1. board[b].is = "up" => L!Noted(b)' \/ ~L!Recorded(b) \/ pidfile' = pidfile
      BY <1>2, <1>3, RecordedLives, LostIsNoted
    <3>2. QED
      BY <1>3, <1>4, <1>5, <2>2, <3>1, OthersAccounted
  <2>3. QED
    BY <2>1, <2>2
<1>8. QED
  BY <1>4, <1>6, <1>7, NotShared DEF L!LauncherInv

\* A step of an `up`: where it goes, what becomes of its board and of the record.
LEMMA UpGoesOn ==
  ASSUME L!LauncherInv, NEW c \in Cmds, cmd[c].kind = "up",
         NEW at \in {"waits", "asked", "ready", "deaf", "done"}, cmd' = [cmd EXCEPT ![c] = L!Place(cmd[c], at)],
         board' = board \/ board' = L!Killed(board, c),
         pidfile' \in L!PidRecords \cup {L!NoFile}, missing \subseteq missing', UNCHANGED <<share, token>>,
         mishaps' \in Nat,
         \A b \in Cmds \ {c} : board[b].is = "up" => L!Noted(b)' \/ ~L!Recorded(b) \/ pidfile' = pidfile,
         cmd[c].at \notin {"new", "probes", "looks"},
         \/ at \in {"waits", "asked"}
         \/ L!Noted(c)' \/ board'[c].is \notin {"starting", "up"}
         \/ at = "ready" /\ pidfile' = L!PidRecord("up", c, "loop") /\ board'[c].is = "up" /\ "loop" \in board'[c].at
  PROVE  L!LauncherInv'
<1>1. /\ cmd \in [Cmds -> L!Commands] /\ board \in [Cmds -> L!Boards]
      /\ share' \in [on : BOOLEAN, tls : BOOLEAN] /\ token' \in BOOLEAN
  BY DEF L!LauncherInv, L!LauncherTypeOK
<1>2. /\ cmd' \in [Cmds -> L!Commands] /\ cmd'[c].at = at /\ cmd'[c].kind = "up"
      /\ \A b \in Cmds \ {c} : cmd'[b] = cmd[b]
  BY <1>1, Placed
<1>3. board' \in [Cmds -> L!Boards] /\ \A b \in Cmds \ {c} : board'[b] = board[b]
  BY <1>1, BoardMoves
<1>4. L!LauncherTypeOK'
  BY <1>1, <1>2, <1>3 DEF L!LauncherTypeOK, L!Boards, L!Commands, L!PidRecords, L!NoFile, L!Kinds, L!None
<1>5. L!Accounted(c)'
  <2>1. at \notin {"new", "probes", "looks"}
    OBVIOUS
  <2>2. CASE at \in {"waits", "asked"}
    BY <1>2, <2>1, <2>2 DEF L!Accounted
  <2>3. CASE L!Noted(c)'
    BY <1>2, <2>1, <2>3 DEF L!Accounted
  <2>4. CASE board'[c].is \notin {"starting", "up"}
    BY <1>2, <2>1, <2>4 DEF L!Accounted
  <2>5. CASE at = "ready" /\ pidfile' = L!PidRecord("up", c, "loop") /\ board'[c].is = "up" /\ "loop" \in board'[c].at
    <3>1. L!Recorded(c)'
      BY <1>2, <2>5 DEF L!Recorded, L!PidRecord, L!NoFile
    <3>2. QED
      BY <1>2, <2>5, <3>1 DEF L!Accounted
  <2>6. QED
    BY <2>2, <2>3, <2>4, <2>5
<1>6. ASSUME NEW b \in Cmds \ {c} PROVE L!Accounted(b)'
  BY <1>2, <1>3, OthersAccounted
<1>7. QED
  BY <1>2, <1>4, <1>5, <1>6, NotShared DEF L!LauncherInv

\* An `up` asks whether its board answers.
LEMMA UpAsksStep ==
  ASSUME L!LauncherInv, NEW c \in Cmds, L!UpAsks(c)
  PROVE  L!LauncherInv'
<1>1. /\ cmd[c].kind = "up" /\ cmd[c].at = "waits" /\ cmd' = [cmd EXCEPT ![c] = L!Place(cmd[c], "asked")]
      /\ UNCHANGED <<pidfile, board, share, token, missing, mishaps>>
  BY DEF L!UpAsks, L!At, L!NoMishap
<1>2. pidfile' \in L!PidRecords \cup {L!NoFile} /\ mishaps' \in Nat
  BY <1>1 DEF L!LauncherInv, L!LauncherTypeOK
<1>3. QED
  BY <1>1, <1>2, UpGoesOn

\* An `up` gives up and stops its board.
LEMMA UpFailsStep ==
  ASSUME L!LauncherInv, NEW c \in Cmds, L!UpFails(c)
  PROVE  L!LauncherInv'
<1>1. /\ cmd[c].kind = "up" /\ cmd[c].at = "waits" /\ cmd' = [cmd EXCEPT ![c] = L!Place(cmd[c], "done")]
      /\ board' = L!Killed(board, c) /\ UNCHANGED <<pidfile, share, token, missing>>
      /\ mishaps' \in {mishaps, mishaps + 1}
  BY DEF L!UpFails, L!At, L!NoMishap, L!Mishap
<1>2. pidfile' \in L!PidRecords \cup {L!NoFile} /\ mishaps' \in Nat
  BY <1>1 DEF L!LauncherInv, L!LauncherTypeOK
<1>3. board'[c].is \notin {"starting", "up"}
  BY <1>1, BoardMoves DEF L!LauncherInv, L!LauncherTypeOK
<1>4. QED
  BY <1>1, <1>2, <1>3, UpGoesOn

\* Whoever answers is recorded for the child; the one it was taken for, and the child, are noted.
LEMMA UpHearsStep ==
  ASSUME L!LauncherInv, NEW c \in Cmds, L!UpHears(c)
  PROVE  L!LauncherInv'
<1> DEFINE at == IF L!Health("loop") # "pid" THEN "waits" ELSE IF board[c].is = "dead" THEN "deaf" ELSE "ready"
<1>1. /\ cmd[c].kind = "up" /\ cmd[c].at = "asked" /\ UNCHANGED <<board, share, token, mishaps>>
      /\ cmd' = [cmd EXCEPT ![c] = L!Place(cmd[c], at)] /\ at \in {"waits", "deaf", "ready"}
  BY DEF L!UpHears, L!At, L!NoMishap
<1>2. CASE L!Health("loop") # "pid"
  <2>1. UNCHANGED <<pidfile, missing>> /\ at = "waits"
    BY <1>2 DEF L!UpHears
  <2>2. pidfile' \in L!PidRecords \cup {L!NoFile} /\ mishaps' \in Nat
    BY <1>1, <2>1 DEF L!LauncherInv, L!LauncherTypeOK
  <2>3. QED
    BY <1>1, <2>1, <2>2, UpGoesOn
<1>3. CASE L!Health("loop") = "pid"
  <2>1. /\ pidfile' = L!PidRecord("up", c, "loop")
        /\ missing' = missing \cup L!Lost(L!NoFile) \cup
             (IF L!Owner("loop") = c THEN {} ELSE {L!Owner("loop"), c} \X {"up took one for the other"})
    BY <1>3 DEF L!UpHears
  <2>2. pidfile' \in L!PidRecords /\ mishaps' \in Nat
    BY <1>1, <2>1 DEF L!PidRecord, L!PidRecords, L!LauncherInv, L!LauncherTypeOK
  <2>3. ASSUME NEW b \in Cmds \ {c}, L!Recorded(b) PROVE L!Noted(b)'
    BY <2>1, <2>3, LostIsNoted DEF L!Recorded
  <2>4. CASE L!Owner("loop") = c
    <3>1. L!Listens("loop") # {}
      BY <1>3 DEF L!Health, L!Owner, L!NoOne
    <3>2. c \in L!Listens("loop")
      BY <2>4, <3>1 DEF L!Owner
    <3>3. board[c].is \in {"up", "stopping"} /\ "loop" \in board[c].at
      BY <3>2 DEF L!Listens
    <3>4. QED
      BY <1>1, <1>3, <2>1, <2>2, <2>3, <3>3, UpGoesOn
  <2>5. CASE L!Owner("loop") # c
    <3>1. <<c, "up took one for the other">> \in missing'
      BY <2>1, <2>5
    <3>2. L!Noted(c)'
      BY <3>1 DEF L!Noted
    <3>3. QED
      BY <1>1, <2>1, <2>2, <2>3, <3>2, UpGoesOn
  <2>6. QED
    BY <2>4, <2>5
<1>4. QED
  BY <1>2, <1>3

\* `up` ends: its record goes, if it is still there.
LEMMA UpGoes ==
  ASSUME L!LauncherInv, NEW c \in Cmds, cmd[c].at \in {"ready", "deaf", "signalled"},
         cmd' = [cmd EXCEPT ![c] = L!Place(cmd[c], "done")],
         board' = board \/ board' = L!Killed(board, c), board'[c].is \notin {"starting", "up"},
         L!RemovePidfile(L!PidRecord("up", c, "loop")), UNCHANGED <<share, token, mishaps>>
  PROVE  L!LauncherInv'
<1>1. pidfile' = L!NoFile /\ missing' = missing \cup L!Lost(L!PidRecord("up", c, "loop"))
  BY DEF L!RemovePidfile
<1>2. cmd[c].kind = "up"
  BY DEF L!LauncherInv, L!Accounted
<1>3. ASSUME NEW b \in Cmds \ {c}, L!Recorded(b) PROVE L!Noted(b)'
  <2>1. pidfile # L!PidRecord("up", c, "loop")
    BY <1>3 DEF L!Recorded, L!PidRecord
  <2>2. QED
    BY <1>1, <1>3, <2>1, LostIsNoted
<1>4. mishaps' \in Nat /\ pidfile' \in L!PidRecords \cup {L!NoFile}
  BY <1>1 DEF L!LauncherInv, L!LauncherTypeOK
<1>5. QED
  BY <1>1, <1>2, <1>3, <1>4, UpGoesOn

\* An `up` ends with its board, or ends it.
LEMMA UpEndsStep ==
  ASSUME L!LauncherInv, NEW c \in Cmds, L!UpEnds(c) \/ L!UpStops(c)
  PROVE  L!LauncherInv'
<1>1. CASE L!UpEnds(c)
  BY <1>1, UpGoes DEF L!UpEnds, L!At, L!NoMishap
<1>2. CASE L!UpStops(c)
  <2>1. board' = L!Killed(board, c)
    BY <1>2 DEF L!UpStops
  <2>2. board'[c].is \notin {"starting", "up"}
    BY <2>1, BoardMoves DEF L!LauncherInv, L!LauncherTypeOK
  <2>3. QED
    BY <1>2, <2>2, UpGoes DEF L!UpStops, L!At, L!NoMishap
<1>3. QED
  BY <1>1, <1>2

\* Mishaps are not taken back.
LEMMA NoFewer ==
  ASSUME NEW m \in Nat, NEW n \in {m, m + 1}, n = 0
  PROVE  m = 0
OBVIOUS

\* After `leg share`, whoever stood for a board stands for it still.
LEMMA ShareStands ==
  ASSUME L!LauncherInv, missing \subseteq missing', mishaps' \in {mishaps, mishaps + 1},
         \A b \in Cmds : cmd'[b].kind = cmd[b].kind \/ (cmd[b].kind = L!None /\ cmd'[b].kind \notin L!Sharing),
         mishaps = 0 => \A b \in Cmds :
           /\ cmd[b].kind \in L!Sharing /\ cmd[b].at \in {"probes", "looks"} =>
                \/ cmd'[b].kind \in L!Sharing /\ cmd'[b].at \in {"probes", "looks"}
                \/ \E d \in Cmds : board'[d].is = "up" \/ L!Met(d)' \/ L!WillListen(d)'
           /\ board[b].is = "up" \/ L!WillListen(b) =>
                \E d \in Cmds : \/ cmd'[d].kind \in L!Sharing /\ cmd'[d].at \in {"probes", "looks"}
                                \/ board'[d].is = "up" \/ L!WillListen(d)'
  PROVE  L!SharedStands'
<1> SUFFICES ASSUME mishaps' = 0,
                    \A c \in Cmds : cmd'[c].kind \in {L!None, "attach", "status", "share on", "share off"},
                    \E c \in Cmds : cmd'[c].kind \in L!Sharing
             PROVE  \E b \in Cmds : \/ cmd'[b].kind \in L!Sharing /\ cmd'[b].at \in {"probes", "looks"}
                                    \/ board'[b].is = "up" \/ L!Met(b)' \/ L!WillListen(b)'
  BY DEF L!SharedStands
<1>0. mishaps \in Nat
  BY DEF L!LauncherInv, L!LauncherTypeOK
<1>1. mishaps = 0
  BY <1>0, NoFewer
<1>5. /\ \A c \in Cmds : cmd[c].kind \in {L!None, "attach", "status", "share on", "share off"}
      /\ \E c \in Cmds : cmd[c].kind \in L!Sharing
  OBVIOUS
<1>2. PICK b \in Cmds : \/ cmd[b].kind \in L!Sharing /\ cmd[b].at \in {"probes", "looks"}
                        \/ board[b].is = "up" \/ L!Met(b) \/ L!WillListen(b)
  BY <1>1, <1>5 DEF L!LauncherInv, L!SharedStands
<1>3. L!Met(b) => L!Met(b)'
  BY DEF L!Met
<1>4. QED
  BY <1>1, <1>2, <1>3

\* A command that is over leaves the boards as they are.
LEMMA CommandEnds ==
  ASSUME L!LauncherInv, NEW c \in Cmds, cmd' = [cmd EXCEPT ![c] = L!Place(cmd[c], "done")],
         UNCHANGED <<board, share, token>>, mishaps' \in {mishaps, mishaps + 1},
         pidfile' \in L!PidRecords \cup {L!NoFile}, missing \subseteq missing',
         \A b \in Cmds \ {c} : board[b].is = "up" => L!Noted(b)' \/ ~L!Recorded(b) \/ pidfile' = pidfile,
         \/ L!Noted(c)' \/ board[c].is \notin {"starting", "up"}
         \/ /\ pidfile' = L!PidRecord("board", c, cmd[c].host) /\ board[c].is # "starting"
            /\ cmd[c].host \in board[c].at,
         cmd[c].kind \notin L!Sharing \/ cmd[c].at \notin {"probes", "looks"}
         \/ (L!Owner(IF share.on THEN "shared" ELSE "loop") # L!NoOne /\
             (board[L!Owner(IF share.on THEN "shared" ELSE "loop")].is = "stopping" => L!Met(c)'))
  PROVE  L!LauncherInv'
<1>1. /\ cmd \in [Cmds -> L!Commands] /\ board \in [Cmds -> L!Boards] /\ mishaps' \in Nat
      /\ share' \in [on : BOOLEAN, tls : BOOLEAN] /\ token' \in BOOLEAN
  BY DEF L!LauncherInv, L!LauncherTypeOK
<1>2. /\ cmd' \in [Cmds -> L!Commands] /\ cmd'[c].at = "done"
      /\ \A b \in Cmds \ {c} : cmd'[b] = cmd[b]
      /\ \A b \in Cmds : cmd'[b].kind = cmd[b].kind /\ cmd'[b].host = cmd[b].host
  BY <1>1, Placed
<1>3. L!LauncherTypeOK'
  BY <1>1, <1>2 DEF L!LauncherTypeOK, L!Boards, L!Commands, L!PidRecords, L!NoFile, L!Kinds, L!None
<1>4. L!Accounted(c)'
  <2>1. CASE L!Noted(c)' \/ board[c].is \notin {"starting", "up"}
    BY <1>2, <2>1 DEF L!Accounted
  <2>2. CASE /\ pidfile' = L!PidRecord("board", c, cmd[c].host) /\ board[c].is # "starting"
             /\ cmd[c].host \in board[c].at
    <3>1. L!Recorded(c)'
      BY <2>2 DEF L!Recorded, L!PidRecord, L!NoFile
    <3>2. QED
      BY <1>2, <2>2, <3>1 DEF L!Accounted
  <2>3. QED
    BY <2>1, <2>2
<1>5. ASSUME NEW b \in Cmds \ {c} PROVE L!Accounted(b)'
  BY <1>2, OthersAccounted
<1>6. L!SharedStands'
  <2>1. ASSUME NEW b \in Cmds, L!WillListen(b) PROVE L!WillListen(b)'
    BY <1>2, <2>1 DEF L!WillListen, L!Listens
  <2>2. ASSUME NEW b \in Cmds, cmd[b].kind \in L!Sharing, cmd[b].at \in {"probes", "looks"}
        PROVE  cmd'[b].at \in {"probes", "looks"} \/ \E d \in Cmds : board'[d].is = "up" \/ L!Met(d)'
    <3>1. CASE b # c
      BY <1>2, <2>2, <3>1
    <3>2. CASE b = c
      <4> DEFINE o == L!Owner(IF share.on THEN "shared" ELSE "loop")
      <4>1. o # L!NoOne /\ (board[o].is = "stopping" => L!Met(c)')
        BY <2>2, <3>2
      <4>2. o \in Cmds /\ board[o].is \in {"up", "stopping"}
        BY <4>1 DEF L!Owner, L!Listens
      <4>3. QED
        BY <4>1, <4>2
    <3>3. QED
      BY <3>1, <3>2
  <2>3. QED
    BY <1>2, <2>1, <2>2, ShareStands
<1>7. QED
  BY <1>3, <1>4, <1>5, <1>6 DEF L!LauncherInv

\* `leg status` removes no record of a board that is up.
LEMMA StatusStep ==
  ASSUME L!LauncherInv, NEW c \in Cmds, L!Status(c)
  PROVE  L!LauncherInv'
<1>1. /\ cmd[c].kind = "status" /\ cmd[c].at = "probes" /\ cmd' = [cmd EXCEPT ![c] = L!Place(cmd[c], "done")]
      /\ UNCHANGED <<board, share, token, mishaps>>
      /\ \/ UNCHANGED <<pidfile, missing>>
         \/ ~L!BoardAlive(cmd[c].saw) /\ pidfile' = L!NoFile /\ missing' = missing \cup L!Lost(cmd[c].saw)
  BY DEF L!Status, L!At, L!RemovePidfile, L!NoMishap
<1>2. ASSUME NEW b \in Cmds, board[b].is = "up", L!Recorded(b) PROVE L!Noted(b)' \/ pidfile' = pidfile
  BY <1>1, <1>2, RecordedLives, LostIsNoted DEF L!LauncherInv
<1>3. pidfile' \in L!PidRecords \cup {L!NoFile}
  BY <1>1 DEF L!LauncherInv, L!LauncherTypeOK
<1>4. board[c].is = "none"
  BY <1>1 DEF L!LauncherInv, L!Accounted
<1>5. QED
  BY <1>1, <1>2, <1>3, <1>4, CommandEnds DEF L!Sharing

\* Who waited for its board records it, or notes why not.
LEMMA AwaitStep ==
  ASSUME L!LauncherInv, NEW c \in Cmds, L!AwaitBoard(c)
  PROVE  L!LauncherInv'
<1> DEFINE host == cmd[c].host
<1>1. /\ cmd[c].at = "waits" /\ cmd' = [cmd EXCEPT ![c] = L!Place(cmd[c], "done")]
      /\ UNCHANGED <<board, share, token, mishaps>> /\ L!Health(host) \in {"pid", "401"}
  BY DEF L!AwaitBoard, L!At, L!NoMishap
<1>2. host \in {"loop", "shared"} /\ pidfile \in L!PidRecords \cup {L!NoFile}
  BY DEF L!LauncherInv, L!LauncherTypeOK, L!Commands
<1>3. L!Owner(host) # L!NoOne
  BY <1>1 DEF L!Health
<1>4. CASE ~L!Ours(c)
  <2>1. /\ pidfile' = pidfile
        /\ missing' = missing \cup (IF board[c].is = "dead" THEN {} ELSE {<<c, "another answered before it">>})
    BY <1>4 DEF L!AwaitBoard
  <2>2. L!Noted(c)' \/ board[c].is = "dead"
    <3>1. board[c].is = "dead" \/ <<c, "another answered before it">> \in missing'
      BY <2>1
    <3>2. QED
      BY <3>1 DEF L!Noted
  <2>3. QED
    BY <1>1, <1>2, <2>1, <2>2, CommandEnds
<1>5. CASE L!Ours(c)
  <2>1. /\ pidfile' = L!PidRecord("board", c, host)
        /\ missing' = missing \cup
             (IF L!Owner(host) = c THEN L!Lost(L!NoFile)
              ELSE IF L!Health(host) = "401" THEN L!Lost(L!NoFile) \cup
                {L!Owner(host), c} \X {"behind a token one was taken for the other"} ELSE {})
    BY <1>5 DEF L!AwaitBoard
  <2>2. L!Owner(host) = c \/ L!Health(host) = "401"
    BY <1>1, <1>5 DEF L!Ours
  <2>3. missing \cup L!Lost(L!NoFile) \subseteq missing'
    BY <2>1, <2>2
  <2>4. ASSUME NEW b \in Cmds, L!Recorded(b) PROVE L!Noted(b)'
    BY <2>3, <2>4, LostIsNoted DEF L!Recorded
  <2>5. pidfile' \in L!PidRecords
    BY <1>2, <2>1 DEF L!PidRecord, L!PidRecords
  <2>6. CASE L!Owner(host) = c
    <3>1. c \in L!Listens(host)
      BY <1>3, <2>6 DEF L!Owner
    <3>2. board[c].is # "starting" /\ host \in board[c].at
      BY <3>1 DEF L!Listens
    <3>3. QED
      BY <1>1, <2>1, <2>3, <2>4, <2>5, <3>2, CommandEnds
  <2>7. CASE L!Owner(host) # c
    <3>1. <<c, "behind a token one was taken for the other">> \in missing'
      BY <2>1, <2>2, <2>7
    <3>2. L!Noted(c)'
      BY <3>1 DEF L!Noted
    <3>3. QED
      BY <1>1, <2>3, <2>4, <2>5, <3>2, CommandEnds
  <2>8. QED
    BY <2>6, <2>7
<1>6. QED
  BY <1>4, <1>5

\* Who gives up waiting notes the board it leaves.
LEMMA GivesUpStep ==
  ASSUME L!LauncherInv, NEW c \in Cmds, L!GivesUp(c)
  PROVE  L!LauncherInv'
<1>1. /\ cmd[c].at = "waits" /\ cmd' = [cmd EXCEPT ![c] = L!Place(cmd[c], "done")]
      /\ UNCHANGED <<pidfile, board, share, token>> /\ mishaps' \in {mishaps, mishaps + 1}
      /\ missing' = IF board[c].is = "dead" THEN missing ELSE missing \cup {<<c, "its starter did not wait">>}
  BY DEF L!GivesUp, L!At, L!NoMishap, L!Mishap
<1>2. board[c].is = "dead" \/ <<c, "its starter did not wait">> \in missing'
  BY <1>1
<1>3. board[c].is = "dead" \/ L!Noted(c)'
  BY <1>2 DEF L!Noted
<1>4. pidfile' \in L!PidRecords \cup {L!NoFile} /\ missing \subseteq missing'
  BY <1>1 DEF L!LauncherInv, L!LauncherTypeOK
<1>5. QED
  BY <1>1, <1>3, <1>4, CommandEnds

\* Somebody is found where somebody listens.
LEMMA OwnerIs ==
  ASSUME NEW addr
  PROVE  /\ L!Owner(addr) = L!NoOne => L!Listens(addr) = {}
         /\ L!Owner(addr) # L!NoOne => L!Owner(addr) \in L!Listens(addr)
<1>1. ASSUME L!Listens(addr) # {} PROVE L!Owner(addr) \in L!Listens(addr) /\ L!Owner(addr) # L!NoOne
  <2>1. L!Owner(addr) \in L!Listens(addr)
    BY <1>1 DEF L!Owner
  <2>2. QED
    BY <2>1, LauncherAssumption DEF L!Listens, L!NoOne
<1>2. L!Listens(addr) = {} => L!Owner(addr) = L!NoOne
  BY DEF L!Owner
<1>3. QED
  BY <1>1, <1>2

\* A command begins.
LEMMA BeginStep ==
  ASSUME L!LauncherInv, NEW c \in Cmds, NEW kind \in L!Kinds, L!Begin(c, kind)
  PROVE  L!LauncherInv'
<1> DEFINE at == IF kind = "attach" THEN "looks" ELSE IF kind = "up" /\ pidfile = L!NoFile THEN "waits" ELSE "probes"
           q == [kind |-> kind, at |-> at, saw |-> pidfile, host |-> "loop"]
<1>1. /\ cmd[c].at = "new" /\ cmd' = [cmd EXCEPT ![c] = q] /\ UNCHANGED <<pidfile, token, missing, mishaps>>
      /\ board' = IF kind = "up" /\ pidfile = L!NoFile THEN L!Spawned(c) ELSE board
      /\ share' \in (IF kind = "share on" THEN {[on |-> TRUE, tls |-> t] : t \in {share.tls, TRUE}} ELSE {share})
  BY DEF L!Begin, L!NoMishap
<1>2. /\ cmd \in [Cmds -> L!Commands] /\ board \in [Cmds -> L!Boards]
      /\ pidfile \in L!PidRecords \cup {L!NoFile} /\ share \in [on : BOOLEAN, tls : BOOLEAN]
      /\ token \in BOOLEAN /\ mishaps \in Nat
  BY DEF L!LauncherInv, L!LauncherTypeOK
<1>3. at \in {"looks", "waits", "probes"}
  OBVIOUS
<1>4. q \in L!Commands /\ q.kind = kind /\ q.at = at
  <2> HIDE DEF at
  <2>1. QED
    BY <1>2, <1>3 DEF L!Commands
<1>5. share' \in [on : BOOLEAN, tls : BOOLEAN]
  <2>1. CASE kind # "share on"
    BY <1>1, <1>2, <2>1
  <2>2. CASE kind = "share on"
    <3>1. PICK t \in {share.tls, TRUE} : share' = [on |-> TRUE, tls |-> t]
      BY <1>1, <2>2
    <3>2. share.tls \in BOOLEAN
      BY <1>2
    <3>3. t \in BOOLEAN
      BY <3>2
    <3>4. QED
      BY <3>1, <3>3
  <2>3. QED
    BY <2>1, <2>2
<1>6. board' \in [Cmds -> L!Boards] /\ \A b \in Cmds \ {c} : board'[b] = board[b]
  BY <1>1, <1>2, BoardMoves
<1>7. /\ cmd' \in [Cmds -> L!Commands] /\ cmd'[c].at = at /\ cmd'[c].kind = kind
      /\ \A b \in Cmds \ {c} : cmd'[b] = cmd[b]
  BY <1>1, <1>2, <1>4
<1>8. at # "waits" => board'[c].is = "none"
  BY <1>1 DEF L!LauncherInv, L!Accounted
<1>9. L!Accounted(c)'
  <2> HIDE DEF at
  <2>1. QED
    BY <1>3, <1>7, <1>8 DEF L!Accounted
<1>10. ASSUME NEW b \in Cmds \ {c} PROVE L!Accounted(b)'
  BY <1>1, <1>6, <1>7, OthersAccounted
<1>11. L!SharedStands'
  <2>1. CASE kind \in {"up", "down"}
    BY <1>7, <2>1, NotShared
  <2>2. CASE kind \in L!Sharing
    <3>1. at = "probes"
      BY <2>2 DEF L!Sharing
    <3>2. QED
      BY <1>7, <2>2, <3>1 DEF L!SharedStands
  <2>3. CASE kind \in {"attach", "status"}
    <3>1. share' = share /\ board' = board /\ kind \notin L!Sharing
      BY <1>1, <2>3 DEF L!Sharing
    <3>2. cmd[c].kind = L!None
      BY <1>1 DEF L!LauncherInv, L!Accounted
    <3>3. ASSUME NEW b \in Cmds, L!WillListen(b) PROVE L!WillListen(b)'
      <4>1. b # c
        BY <1>1, <3>3 DEF L!WillListen, L!LauncherInv, L!Accounted
      <4>2. QED
        BY <1>7, <3>1, <3>3, <4>1 DEF L!WillListen, L!Listens
    <3>4. ASSUME NEW b \in Cmds, cmd[b].kind \in L!Sharing PROVE cmd'[b] = cmd[b]
      BY <1>7, <3>2, <3>4 DEF L!Sharing, L!None
    <3>5. QED
      BY <1>1, <1>2, <1>7, <3>1, <3>2, <3>3, <3>4, ShareStands
  <2>4. QED
    BY <2>1, <2>2, <2>3 DEF L!Kinds, L!Sharing
<1>12. L!LauncherTypeOK'
  BY <1>1, <1>2, <1>5, <1>6, <1>7
     DEF L!LauncherTypeOK, L!Boards, L!Commands, L!PidRecords, L!NoFile, L!Kinds, L!None
<1>13. QED
  BY <1>9, <1>10, <1>11, <1>12 DEF L!LauncherInv

\* A terminal, or the second half of `leg share`, finds a board or starts one.
LEMMA LooksStep ==
  ASSUME L!LauncherInv, NEW c \in Cmds, L!Looks(c)
  PROVE  L!LauncherInv'
<1> DEFINE host == IF share.on THEN "shared" ELSE "loop"
           o == L!Owner(host)
<1>1. cmd[c].at = "looks" /\ UNCHANGED <<pidfile, share, token, mishaps>>
  BY DEF L!Looks, L!NoMishap
<1>2. /\ cmd \in [Cmds -> L!Commands] /\ board \in [Cmds -> L!Boards]
      /\ pidfile \in L!PidRecords \cup {L!NoFile} /\ share \in [on : BOOLEAN, tls : BOOLEAN]
      /\ token \in BOOLEAN /\ mishaps \in Nat
  BY DEF L!LauncherInv, L!LauncherTypeOK
<1>3. board[c].is = "none"
  BY <1>1 DEF L!LauncherInv, L!Accounted
<1>4. CASE o # L!NoOne
  <2>1. /\ cmd' = [cmd EXCEPT ![c] = L!Place(cmd[c], "done")] /\ board' = board
        /\ missing' = missing \cup
             (IF board[o].is = "stopping" THEN {<<c, "it met a board that was stopping">>} ELSE {})
    BY <1>4 DEF L!Looks, L!At
  <2>2. board[o].is = "stopping" => L!Met(c)'
    BY <2>1 DEF L!Met
  <2>3. missing \subseteq missing'
    BY <2>1
  <2>4. QED
    BY <1>1, <1>2, <1>3, <1>4, <2>1, <2>2, <2>3, CommandEnds
<1>5. CASE o = L!NoOne
  <2>1. /\ cmd' = [cmd EXCEPT ![c].at = "waits", ![c].host = host] /\ board' = L!Spawned(c) /\ missing' = missing
    BY <1>5 DEF L!Looks
  <2>2. host \in {"loop", "shared"} /\ (share.on \/ host = "loop")
    OBVIOUS
  <2> HIDE DEF host
  <2>3. cmd' = [cmd EXCEPT ![c] = [cmd[c] EXCEPT !.at = "waits", !.host = host]]
    BY <1>2, <2>1
  <2>4. /\ cmd' \in [Cmds -> L!Commands] /\ cmd'[c].at = "waits" /\ cmd'[c].kind = cmd[c].kind
        /\ cmd'[c].host = host /\ \A b \in Cmds \ {c} : cmd'[b] = cmd[b]
    <3> DEFINE p == cmd[c]
               q == [p EXCEPT !.at = "waits", !.host = host]
    <3>1. p \in L!Commands
      BY <1>2
    <3> HIDE DEF p
    <3>2. q \in L!Commands /\ q.at = "waits" /\ q.kind = p.kind /\ q.host = host
      BY <2>2, <3>1 DEF L!Commands
    <3>3. cmd' = [cmd EXCEPT ![c] = q]
      BY <2>3 DEF p
    <3> HIDE DEF q
    <3>4. QED
      BY <1>2, <3>2, <3>3 DEF p
  <2>5. /\ board' \in [Cmds -> L!Boards] /\ board'[c].is = "starting"
        /\ \A b \in Cmds \ {c} : board'[b] = board[b]
    BY <1>2, <2>1, BoardMoves
  <2>6. L!Accounted(c)'
    BY <2>4, <2>5 DEF L!Accounted
  <2>7. ASSUME NEW b \in Cmds \ {c} PROVE L!Accounted(b)'
    BY <1>1, <2>1, <2>4, <2>5, OthersAccounted
  <2>8. L!WillListen(c)'
    <3>1. L!Listens(host) = {}
      BY <1>5, OwnerIs
    <3>2. \A b \in Cmds : ~(board'[b].is \in {"up", "stopping"} /\ host \in board'[b].at)
      BY <2>5, <3>1 DEF L!Listens
    <3>3. QED
      BY <1>1, <2>2, <2>4, <2>5, <3>2 DEF L!WillListen, L!Listens, host
  <2>9. L!LauncherTypeOK'
    BY <1>1, <1>2, <2>4, <2>5
       DEF L!LauncherTypeOK, L!Boards, L!Commands, L!PidRecords, L!NoFile, L!Kinds, L!None
  <2>10. QED
    BY <2>6, <2>7, <2>8, <2>9 DEF L!LauncherInv, L!SharedStands
<1>6. QED
  BY <1>4, <1>5

\* Whoever the record names is stopped, and the record goes; if it was another's, that is noted.
LEMMA StopStep ==
  ASSUME L!LauncherInv, NEW c \in Cmds, L!StopBoard(c)
  PROVE  L!LauncherInv'
<1> DEFINE pf == cmd[c].saw
           kills == L!BoardAlive(pf) /\ ~pf.stranger
           at == IF cmd[c].kind = "down" THEN "done" ELSE "looks"
           next == [cmd EXCEPT ![c] = L!Place(cmd[c], at)]
<1>1. /\ cmd[c].at = "probes" /\ cmd[c].kind \in {"down", "share on", "share off"}
      /\ share' = share \/ (cmd[c].kind = "share off" /\ share' = [share EXCEPT !.on = FALSE])
      /\ board' = IF kills THEN L!Killed(board, pf.of) ELSE board
      /\ cmd' = IF kills /\ pf.who = "up" /\ cmd[pf.of].at \in {"ready", "deaf"}
                THEN [next EXCEPT ![pf.of].at = "signalled"] ELSE next
      /\ missing \cup L!Lost(pf) \subseteq missing'
      /\ pidfile' = L!NoFile /\ UNCHANGED <<token, mishaps>>
  BY DEF L!StopBoard, L!NoMishap
<1>2. /\ cmd \in [Cmds -> L!Commands] /\ board \in [Cmds -> L!Boards] /\ L!LauncherTypeOK
      /\ pidfile \in L!PidRecords \cup {L!NoFile} /\ share \in [on : BOOLEAN, tls : BOOLEAN]
      /\ token \in BOOLEAN /\ mishaps \in Nat
  BY DEF L!LauncherInv, L!LauncherTypeOK
<1>3. at \in {"done", "looks"} /\ (cmd[c].kind \in L!Sharing => at = "looks")
  BY DEF L!Sharing
<1>4. kills => pf \in L!PidRecords /\ pf.of \in Cmds
  BY <1>2 DEF L!BoardAlive, L!Commands, L!PidRecords
<1>5. next \in [Cmds -> L!Commands] /\ next[c].at = at /\ next[c].kind = cmd[c].kind
  BY <1>2, <1>3, Placed
<1>6. \A b \in Cmds \ {c} : next[b] = cmd[b]
  BY <1>2
<1> HIDE DEF at, next, kills, pf
<1>7. /\ cmd' \in [Cmds -> L!Commands] /\ cmd'[c].at = at
      /\ \A b \in Cmds : /\ cmd'[b].kind = cmd[b].kind /\ (b # c => cmd'[b].host = cmd[b].host)
                         /\ b # c => \/ cmd'[b] = cmd[b]
                                     \/ /\ cmd[b].at \in {"ready", "deaf"} /\ cmd'[b].at = "signalled"
                                        /\ kills /\ pf.of = b
  <2>1. CASE cmd' = next
    BY <1>5, <1>6, <2>1
  <2>2. CASE /\ kills /\ pf.who = "up" /\ cmd[pf.of].at \in {"ready", "deaf"}
             /\ cmd' = [next EXCEPT ![pf.of].at = "signalled"]
    <3> DEFINE d == pf.of
               p == next[d]
               q == [p EXCEPT !.at = "signalled"]
    <3>1. d \in Cmds /\ d # c
      BY <1>1, <1>4, <2>2
    <3>2. p \in L!Commands /\ p = cmd[d] /\ cmd' = [next EXCEPT ![d] = q]
      BY <1>5, <1>6, <2>2, <3>1
    <3>3. cmd[d].at \in {"ready", "deaf"} /\ kills /\ pf.of = d
      BY <2>2
    <3> HIDE DEF d, p
    <3>4. q \in L!Commands /\ q.at = "signalled" /\ q.kind = p.kind /\ q.host = p.host
      BY <3>2 DEF L!Commands
    <3> HIDE DEF q
    <3>5. cmd' \in [Cmds -> L!Commands] /\ cmd'[d] = q /\ \A b \in Cmds \ {d} : cmd'[b] = next[b]
      BY <1>5, <3>1, <3>2, <3>4
    <3>6. QED
      BY <1>5, <1>6, <3>1, <3>2, <3>3, <3>4, <3>5
  <2>3. QED
    BY <1>1, <2>1, <2>2
<1>8. /\ board' \in [Cmds -> L!Boards]
      /\ \A b \in Cmds : \/ board'[b] = board[b] /\ ~(kills /\ pf.of = b /\ board[b].is \in {"starting", "up"})
                         \/ board'[b].is = "stopping" /\ board[b].is \in {"starting", "up"}
  <2>1. CASE ~kills
    BY <1>1, <1>2, <2>1
  <2>2. CASE kills
    <3> DEFINE d == pf.of
    <3>1. d \in Cmds /\ board' = L!Killed(board, d)
      BY <1>1, <1>4, <2>2
    <3> HIDE DEF d
    <3>2. /\ board' \in [Cmds -> L!Boards] /\ \A b \in Cmds \ {d} : board'[b] = board[b]
          /\ board'[d].is = IF board[d].is \in {"starting", "up"} THEN "stopping" ELSE board[d].is
      BY <1>2, <3>1, BoardMoves
    <3>3. board[d].is \notin {"starting", "up"} => board' = board
      BY <3>1 DEF L!Killed
    <3>4. QED
      BY <3>1, <3>2, <3>3 DEF d
  <2>3. QED
    BY <2>1, <2>2
<1>9. ASSUME NEW b \in Cmds, board[b].is = "up", L!Recorded(b), ~L!Noted(b)' PROVE kills /\ pf.of = b
  <2>1. pidfile = pf
    BY <1>1, <1>9, LostIsNoted
  <2>2. L!BoardAlive(pidfile)
    BY <1>2, <1>9, RecordedLives
  <2>3. QED
    BY <1>9, <2>1, <2>2 DEF L!Recorded, kills
<1>10. ASSUME NEW b \in Cmds PROVE L!Accounted(b)'
  <2>1. L!Accounted(b) /\ (L!Noted(b) => L!Noted(b)')
    BY <1>1, NotedStays DEF L!LauncherInv
  <2>2. CASE b = c
    <3>1. board[b].is = "none" /\ board'[b].is = "none"
      BY <1>1, <1>8, <2>1, <2>2 DEF L!Accounted
    <3>2. QED
      BY <1>3, <1>7, <2>2, <3>1 DEF L!Accounted
  <2>3. CASE b # c /\ board'[b].is = "stopping" /\ board[b].is \in {"starting", "up"}
    <3>1. cmd[b].at \notin {"new", "probes", "looks"}
      BY <2>1, <2>3 DEF L!Accounted
    <3>2. /\ cmd'[b].at \notin {"new", "probes", "looks"}
          /\ cmd'[b].at \in {"asked", "ready", "deaf", "signalled"} => cmd'[b].kind = "up"
      BY <1>7, <2>1, <2>3, <3>1 DEF L!Accounted
    <3>3. QED
      BY <2>3, <3>2 DEF L!Accounted
  <2>4. CASE b # c /\ board'[b] = board[b] /\ ~(kills /\ pf.of = b /\ board[b].is \in {"starting", "up"})
    <3>1. CASE cmd'[b] = cmd[b]
      BY <1>9, <2>1, <2>4, <3>1 DEF L!Accounted
    <3>2. CASE cmd[b].at \in {"ready", "deaf"} /\ cmd'[b].at = "signalled" /\ kills /\ pf.of = b
      <4>1. cmd'[b].kind = "up" /\ board'[b].is \notin {"starting", "up"}
        BY <1>7, <2>1, <2>4, <3>2 DEF L!Accounted
      <4>2. QED
        BY <3>2, <4>1 DEF L!Accounted
    <3>3. QED
      BY <1>7, <2>4, <3>1, <3>2
  <2>5. QED
    BY <1>8, <2>2, <2>3, <2>4
<1>11. L!SharedStands'
  <2>1. CASE cmd[c].kind = "down"
    BY <1>7, <2>1, NotShared
  <2>2. CASE cmd[c].kind \in L!Sharing
    BY <1>3, <1>7, <2>2 DEF L!SharedStands
  <2>3. QED
    BY <1>1, <2>1, <2>2 DEF L!Sharing
<1>12. share' \in [on : BOOLEAN, tls : BOOLEAN]
  BY <1>1, <1>2
<1>13. L!LauncherTypeOK'
  BY <1>1, <1>2, <1>7, <1>8, <1>12
     DEF L!LauncherTypeOK, L!Boards, L!Commands, L!PidRecords, L!NoFile, L!Kinds, L!None
<1>14. QED
  BY <1>10, <1>11, <1>13 DEF L!LauncherInv

\* A board binds, or is refused and dies.
LEMMA BindsStep ==
  ASSUME L!LauncherInv, NEW b \in Cmds, L!Binds(b)
  PROVE  L!LauncherInv'
<1> DEFINE main == IF share.on THEN "shared" ELSE cmd[b].host
           refused == L!Owner(main) # L!NoOne \/ (main = "shared" /\ ~share.on /\ ~token)
           too == IF main = "shared" /\ L!Owner("loop") = L!NoOne THEN {"loop"} ELSE {}
           new == [is |-> "up", main |-> main, at |-> {main} \cup too, tls |-> share.tls]
<1>1. /\ board[b].is = "starting" /\ UNCHANGED <<pidfile, cmd, share, token, missing, mishaps>>
      /\ board' = IF refused THEN [board EXCEPT ![b].is = "dead"] ELSE [board EXCEPT ![b] = new]
  BY DEF L!Binds, L!NoMishap
<1>2. /\ cmd \in [Cmds -> L!Commands] /\ board \in [Cmds -> L!Boards]
      /\ pidfile \in L!PidRecords \cup {L!NoFile} /\ share \in [on : BOOLEAN, tls : BOOLEAN]
      /\ token \in BOOLEAN /\ mishaps \in Nat
  BY DEF L!LauncherInv, L!LauncherTypeOK
<1>3. main \in {"loop", "shared"} /\ too \subseteq {"loop", "shared"} /\ share.tls \in BOOLEAN
  BY <1>2 DEF L!Commands
<1>4. new \in L!Boards /\ new.is = "up"
  <2> HIDE DEF main, too
  <2>1. QED
    BY <1>3 DEF L!Boards
<1>5. [board[b] EXCEPT !.is = "dead"] \in L!Boards /\ [board[b] EXCEPT !.is = "dead"].is = "dead"
  BY <1>2 DEF L!Boards
<1>6. /\ board' \in [Cmds -> L!Boards] /\ board'[b].is = IF refused THEN "dead" ELSE "up"
      /\ \A d \in Cmds \ {b} : board'[d] = board[d]
  <2> HIDE DEF new, refused
  <2>1. CASE refused
    <3>1. board' = [board EXCEPT ![b] = [board[b] EXCEPT !.is = "dead"]]
      BY <1>1, <2>1
    <3>2. QED
      BY <1>2, <1>5, <2>1, <3>1
  <2>2. CASE ~refused
    BY <1>1, <1>2, <1>4, <2>2
  <2>3. QED
    BY <2>1, <2>2
<1>7. L!Accounted(b)'
  <2>1. L!Noted(b) \/ cmd[b].at \in {"waits", "asked"}
    BY <1>1 DEF L!LauncherInv, L!Accounted
  <2>2. cmd[b].at \notin {"new", "probes", "looks"} /\ L!Accounted(b) /\ (L!Noted(b) => L!Noted(b)')
    BY <1>1, NotedStays DEF L!LauncherInv, L!Accounted
  <2> HIDE DEF refused
  <2>3. QED
    BY <1>1, <1>6, <2>1, <2>2 DEF L!Accounted
<1>8. ASSUME NEW d \in Cmds \ {b} PROVE L!Accounted(d)'
  BY <1>1, <1>6, <1>8, NotedStays DEF L!LauncherInv, L!Accounted, L!Recorded
<1>9. L!SharedStands'
  <2>1. ASSUME NEW d \in Cmds, L!WillListen(d)
        PROVE  \E e \in Cmds : board'[e].is = "up" \/ L!WillListen(e)'
    <3>1. CASE d = b
      <4>1. main = IF share.on THEN "shared" ELSE "loop"
        BY <2>1, <3>1 DEF L!WillListen
      <4>2. L!Listens(main) = {}
        BY <2>1, <4>1 DEF L!WillListen
      <4>3. L!Owner(main) = L!NoOne
        BY <4>2 DEF L!Owner
      <4>4. ~refused
        BY <4>1, <4>3
      <4>5. QED
        BY <1>6, <4>4
    <3>2. CASE d # b /\ board'[b].is = "dead"
      BY <1>1, <1>6, <2>1, <3>2 DEF L!WillListen, L!Listens
    <3>3. QED
      BY <1>6, <3>1, <3>2
  <2>2. ASSUME NEW d \in Cmds, board[d].is = "up" PROVE board'[d].is = "up"
    BY <1>1, <1>6, <2>2
  <2>3. mishaps' = mishaps /\ missing' = missing /\ cmd' = cmd
    BY <1>1
  <2>4. QED
    BY <2>1, <2>2, <2>3, ShareStands
<1>10. L!LauncherTypeOK'
  BY <1>1, <1>2, <1>6 DEF L!LauncherTypeOK, L!Boards, L!Commands, L!PidRecords, L!NoFile, L!Kinds, L!None
<1>11. QED
  BY <1>7, <1>8, <1>9, <1>10 DEF L!LauncherInv

\* A board that stops, or dies, is dead; nothing was to be recorded any more.
LEMMA BoardEnds ==
  ASSUME L!LauncherInv, NEW b \in Cmds, board[b].is \in {"up", "stopping"},
         board' = [board EXCEPT ![b] = [L!NoBoard EXCEPT !.is = "dead"]],
         UNCHANGED <<pidfile, cmd, share, token, missing>>, mishaps' \in Nat,
         mishaps' # 0 \/ (mishaps' = mishaps /\ board[b].is = "stopping")
  PROVE  L!LauncherInv'
<1> DEFINE gone == [L!NoBoard EXCEPT !.is = "dead"]
<1>1. /\ cmd \in [Cmds -> L!Commands] /\ board \in [Cmds -> L!Boards]
      /\ pidfile \in L!PidRecords \cup {L!NoFile} /\ share \in [on : BOOLEAN, tls : BOOLEAN] /\ token \in BOOLEAN
  BY DEF L!LauncherInv, L!LauncherTypeOK
<1>2. gone \in L!Boards /\ gone.is = "dead"
  BY DEF L!NoBoard, L!Boards, L!None
<1> HIDE DEF gone
<1>3. board' \in [Cmds -> L!Boards] /\ board'[b].is = "dead" /\ \A d \in Cmds \ {b} : board'[d] = board[d]
  BY <1>1, <1>2 DEF gone
<1>4. L!LauncherTypeOK'
  BY <1>1, <1>3 DEF L!LauncherTypeOK, L!Boards, L!Commands, L!PidRecords, L!NoFile, L!Kinds, L!None
<1>5. ASSUME NEW d \in Cmds PROVE L!Accounted(d)'
  <2>1. CASE d # b
    BY <1>3, <2>1, OthersAccounted
  <2>2. CASE d = b
    BY <1>3, <2>2 DEF L!LauncherInv, L!Accounted
  <2>3. QED
    BY <2>1, <2>2
<1>6. L!SharedStands'
  <2>1. CASE mishaps' # 0
    BY <2>1, NotShared
  <2>2. CASE mishaps' = mishaps /\ board[b].is = "stopping"
    <3>1. ASSUME NEW d \in Cmds, L!WillListen(d) PROVE L!WillListen(d)'
      <4>1. d # b
        BY <2>2, <3>1 DEF L!WillListen
      <4>2. QED
        BY <1>3, <3>1, <4>1 DEF L!WillListen, L!Listens
    <3>2. ASSUME NEW d \in Cmds, board[d].is = "up" PROVE board'[d].is = "up"
      BY <1>3, <2>2, <3>2
    <3>3. QED
      BY <2>2, <3>1, <3>2, ShareStands
  <2>3. QED
    BY <2>1, <2>2
<1>7. QED
  BY <1>4, <1>5, <1>6 DEF L!LauncherInv

\* A number above another is not zero.
LEMMA OneMore ==
  ASSUME NEW m \in Nat
  PROVE  m + 1 \in Nat /\ m + 1 # 0
OBVIOUS

\* A board that was told to stop exits.
LEMMA ExitsStep ==
  ASSUME L!LauncherInv, NEW b \in Cmds, L!Exits(b)
  PROVE  L!LauncherInv'
BY BoardEnds DEF L!Exits, L!NoMishap, L!LauncherInv, L!LauncherTypeOK

\* A board dies.
LEMMA BoardDiesStep ==
  ASSUME L!LauncherInv, NEW b \in Cmds, L!BoardDies(b)
  PROVE  L!LauncherInv'
<1>1. mishaps \in Nat
  BY DEF L!LauncherInv, L!LauncherTypeOK
<1>2. mishaps' = mishaps + 1
  BY DEF L!BoardDies, L!Mishap
<1>3. mishaps' \in Nat /\ mishaps' # 0
  BY <1>1, <1>2, OneMore
<1>4. QED
  BY <1>3, BoardEnds DEF L!BoardDies

\* The terminal of `leg up` dies, and what it left is noted.
LEMMA UpDiesStep ==
  ASSUME L!LauncherInv, NEW c \in Cmds, L!UpDies(c)
  PROVE  L!LauncherInv'
<1>1. /\ cmd[c].at \in {"ready", "deaf"} /\ cmd' = [cmd EXCEPT ![c] = L!Place(cmd[c], "done")]
      /\ UNCHANGED <<pidfile, board, share, token>> /\ mishaps' = mishaps + 1
      /\ missing' = missing \cup {<<c, "up died and left it">>}
  BY DEF L!UpDies, L!At, L!Mishap
<1>2. <<c, "up died and left it">> \in missing'
  BY <1>1
<1>3. L!Noted(c)'
  BY <1>2 DEF L!Noted
<1>4. pidfile' \in L!PidRecords \cup {L!NoFile} /\ missing \subseteq missing'
  BY <1>1 DEF L!LauncherInv, L!LauncherTypeOK
<1>5. QED
  BY <1>1, <1>3, <1>4, CommandEnds

\* The machine restarts: no board is left to be recorded.
LEMMA RebootStep ==
  ASSUME L!LauncherInv, L!Reboot
  PROVE  L!LauncherInv'
<1> DEFINE gone == [L!NoBoard EXCEPT !.is = "dead"]
<1>1. /\ cmd \in [Cmds -> L!Commands] /\ board \in [Cmds -> L!Boards] /\ mishaps \in Nat
      /\ pidfile \in L!PidRecords \cup {L!NoFile} /\ share \in [on : BOOLEAN, tls : BOOLEAN] /\ token \in BOOLEAN
  BY DEF L!LauncherInv, L!LauncherTypeOK
<1>2. /\ mishaps' = mishaps + 1 /\ UNCHANGED <<share, token, missing>>
      /\ cmd' = [c \in Cmds |-> IF cmd[c].at = "new" THEN cmd[c] ELSE L!Place(cmd[c], "done")]
      /\ board' = [b \in Cmds |-> IF board[b].is = "none" THEN L!NoBoard ELSE gone]
  BY DEF L!Reboot, L!Mishap
<1>3. L!NoBoard \in L!Boards /\ L!NoBoard.is = "none" /\ gone \in L!Boards /\ gone.is = "dead"
  BY DEF L!NoBoard, L!Boards, L!None
<1> HIDE DEF gone
<1>4. board' \in [Cmds -> L!Boards]
      /\ \A b \in Cmds : board'[b].is \in {"none", "dead"} /\ (board[b].is = "none" => board'[b].is = "none")
  BY <1>2, <1>3
<1>5. ASSUME NEW c \in Cmds
      PROVE  /\ cmd'[c] \in L!Commands /\ cmd'[c].kind = cmd[c].kind
             /\ cmd'[c].at = IF cmd[c].at = "new" THEN "new" ELSE "done"
  <2>1. cmd[c] \in L!Commands
    BY <1>1
  <2>2. /\ L!Place(cmd[c], "done") \in L!Commands /\ L!Place(cmd[c], "done").at = "done"
        /\ L!Place(cmd[c], "done").kind = cmd[c].kind
    BY <2>1, Placed
  <2>3. QED
    BY <1>2, <2>1, <2>2
<1>6. cmd' \in [Cmds -> L!Commands]
  BY <1>2, <1>5
<1>7. pidfile' \in L!PidRecords \cup {L!NoFile}
  <2>1. PICK reused \in BOOLEAN : pidfile' = IF pidfile = L!NoFile THEN L!NoFile ELSE [pidfile EXCEPT !.stranger = reused]
    BY DEF L!Reboot
  <2>2. CASE pidfile = L!NoFile
    BY <2>1, <2>2
  <2>3. CASE pidfile \in L!PidRecords /\ pidfile # L!NoFile
    BY <2>1, <2>3 DEF L!PidRecords
  <2>4. QED
    BY <1>1, <2>2, <2>3
<1>8. mishaps' \in Nat /\ mishaps' # 0
  BY <1>1, <1>2, OneMore
<1>9. L!LauncherTypeOK'
  BY <1>1, <1>2, <1>4, <1>6, <1>7, <1>8
     DEF L!LauncherTypeOK, L!Boards, L!Commands, L!PidRecords, L!NoFile, L!Kinds, L!None
<1>10. ASSUME NEW b \in Cmds PROVE L!Accounted(b)'
  <2>1. L!Accounted(b)
    BY DEF L!LauncherInv
  <2>2. cmd'[b].at = "new" => cmd'[b].kind = L!None /\ board'[b].is = "none"
    BY <1>4, <1>5, <2>1 DEF L!Accounted
  <2>3. QED
    BY <1>4, <1>5, <2>2 DEF L!Accounted
<1>11. QED
  BY <1>8, <1>9, <1>10, NotShared DEF L!LauncherInv

\* Before any command there is no board.
LEMMA LauncherStarts ==
  L!LauncherInit => L!LauncherInv
<1> SUFFICES ASSUME L!LauncherInit PROVE L!LauncherInv
  OBVIOUS
<1>1. /\ pidfile = L!NoFile /\ token \in BOOLEAN /\ mishaps = 0
      /\ cmd = [c \in Cmds |-> [kind |-> L!None, at |-> "new", saw |-> L!NoFile, host |-> "loop"]]
      /\ board = [b \in Cmds |-> L!NoBoard] /\ share = [on |-> FALSE, tls |-> FALSE]
  BY DEF L!LauncherInit
<1>2. L!NoBoard \in L!Boards /\ L!NoBoard.is = "none"
  BY DEF L!NoBoard, L!Boards, L!None
<1>3. /\ board \in [Cmds -> L!Boards] /\ \A b \in Cmds : board[b].is = "none"
      /\ share \in [on : BOOLEAN, tls : BOOLEAN]
  BY <1>1, <1>2
<1>4. [kind |-> L!None, at |-> "new", saw |-> L!NoFile, host |-> "loop"] \in L!Commands
  BY DEF L!Commands
<1>5. cmd \in [Cmds -> L!Commands] /\ \A c \in Cmds : cmd[c].kind = L!None /\ cmd[c].at = "new"
  BY <1>1, <1>4
<1>6. L!LauncherTypeOK
  BY <1>1, <1>3, <1>5 DEF L!LauncherTypeOK
<1>7. ASSUME NEW b \in Cmds PROVE L!Accounted(b)
  BY <1>3, <1>5 DEF L!Accounted
<1>8. L!SharedStands
  BY <1>5 DEF L!SharedStands, L!Sharing, L!None
<1>9. QED
  BY <1>6, <1>7, <1>8 DEF L!LauncherInv

\* Every step of the commands and the boards keeps it.
LEMMA LauncherStep ==
  L!LauncherInv /\ [L!LauncherNext]_Lvars => L!LauncherInv'
<1> SUFFICES ASSUME L!LauncherInv, [L!LauncherNext]_Lvars PROVE L!LauncherInv'
  OBVIOUS
<1>1. CASE UNCHANGED Lvars
  BY <1>1 DEF Lvars, L!LauncherInv, L!LauncherTypeOK, L!Accounted, L!Noted, L!Recorded, L!SharedStands, L!Met,
              L!WillListen, L!Listens, L!Boards, L!Commands, L!PidRecords
<1>2. ASSUME NEW c \in Cmds, L!UpProbed(c) \/ L!UpAsks(c) \/ L!UpHears(c) \/ L!UpFails(c) \/ L!UpEnds(c) \/ L!UpStops(c)
      PROVE  L!LauncherInv'
  BY <1>2, UpProbedStep, UpAsksStep, UpHearsStep, UpFailsStep, UpEndsStep
<1>3. ASSUME NEW c \in Cmds, L!StopBoard(c) \/ L!Status(c) \/ L!Looks(c) \/ L!AwaitBoard(c) \/ L!GivesUp(c)
      PROVE  L!LauncherInv'
  BY <1>3, StopStep, StatusStep, LooksStep, AwaitStep, GivesUpStep
<1>4. ASSUME NEW b \in Cmds, L!Binds(b) \/ L!Exits(b) \/ L!BoardDies(b) \/ L!UpDies(b)
      PROVE  L!LauncherInv'
  BY <1>4, BindsStep, ExitsStep, BoardDiesStep, UpDiesStep
<1>5. CASE L!LauncherNext
  BY <1>2, <1>3, <1>4, <1>5, BeginStep, RebootStep DEF L!LauncherNext
<1>6. QED
  BY <1>1, <1>5

\* When nothing is under way, what listens is recorded or noted, and `leg share` left a board.
LEMMA KeptWhenQuiet ==
  ASSUME L!LauncherInv
  PROVE  L!BoardIsKept
<1>1. L!BoardIsRecorded
  <2> SUFFICES ASSUME L!Quiet, NEW b \in Cmds, board[b].is = "up"
               PROVE  (L!BoardAlive(pidfile) /\ ~pidfile.stranger /\ pidfile.of = b) \/ L!Why(b) # {}
    BY DEF L!BoardIsRecorded
  <2>1. L!Noted(b) \/ L!Recorded(b)
    BY DEF L!LauncherInv, L!Accounted, L!Quiet
  <2>2. CASE L!Noted(b)
    BY <2>2 DEF L!Noted, L!Why
  <2>3. CASE L!Recorded(b)
    BY <2>3, RecordedLives DEF L!LauncherInv, L!Recorded
  <2>4. QED
    BY <2>1, <2>2, <2>3
<1>2. L!ShareLeavesABoard
  <2> SUFFICES ASSUME L!Quiet, mishaps = 0,
                      \A c \in Cmds : cmd[c].kind \in {L!None, "attach", "status", "share on", "share off"},
                      \E c \in Cmds : cmd[c].kind \in {"share on", "share off"}
               PROVE  \E b \in Cmds : board[b].is = "up" \/ "it met a board that was stopping" \in L!Why(b)
    BY DEF L!ShareLeavesABoard
  <2>1. PICK b \in Cmds : \/ cmd[b].kind \in L!Sharing /\ cmd[b].at \in {"probes", "looks"}
                          \/ board[b].is = "up" \/ L!Met(b) \/ L!WillListen(b)
    BY DEF L!LauncherInv, L!SharedStands, L!Sharing
  <2>2. board[b].is = "up" \/ L!Met(b)
    BY <2>1 DEF L!Quiet, L!WillListen
  <2>3. L!Met(b) => "it met a board that was stopping" \in L!Why(b)
    <3> SUFFICES ASSUME L!Met(b) PROVE \E m \in missing : m[1] = b /\ "it met a board that was stopping" = m[2]
      BY DEF L!Why
    <3> DEFINE m == <<b, "it met a board that was stopping">>
    <3>1. m[1] = b /\ m[2] = "it met a board that was stopping"
      OBVIOUS
    <3>2. m \in missing
      BY DEF L!Met
    <3> HIDE DEF m
    <3>3. QED
      BY <3>1, <3>2
  <2>4. QED
    BY <2>2, <2>3
<1>3. QED
  BY <1>1, <1>2 DEF L!BoardIsKept

(* However many commands start, look for, share and stop a board, when     *)
(* nothing is under way a board that listens is the one the pidfile names, *)
(* and `leg share` has left one (launcher.mjs, ensureBoard of attach.mjs), *)
(* with the exceptions BoardIsKept names.                                  *)
THEOREM BoardIsKeptThm == SurroundingsSpec => []BoardIsKept
<1> DEFINE I == part = "launcher" => L!LauncherInv
<1>1. SurroundingsInit => I
  BY LauncherStarts DEF SurroundingsInit
<1>2. I /\ [SurroundingsNext]_surroundingsVars => I'
  <2> SUFFICES ASSUME I, [SurroundingsNext]_surroundingsVars, part' = "launcher" PROVE L!LauncherInv'
    OBVIOUS
  <2>1. part = "launcher" /\ [L!LauncherNext]_Lvars
    BY DEF SurroundingsNext, surroundingsVars, Lvars
  <2>2. QED
    BY <2>1, LauncherStep
<1>3. I => BoardIsKept
  BY KeptWhenQuiet DEF BoardIsKept
<1>4. QED
  BY <1>1, <1>2, <1>3, PTL DEF SurroundingsSpec

-----------------------------------------------------------------------------
(* The tap on a runtime (RuntimeTap.tla): deriveSignals, a fold.           *)

\* f is the fold of the first m events of s onto p.
IsFold(f, s, p, m) == f = [n \in 0..m |-> IF n = 0 THEN p ELSE RT!Folded(f[n - 1], s[n])]

NatLess == {p \in Nat \X Nat : p[1] < p[2]}

LEMMA NatLessIsWellFounded == IsWellFoundedOn(NatLess, Nat)
BY NatLessThanWellFounded DEF OpToRel, NatLess

LEMMA LeastElement ==
  ASSUME NEW S, S \subseteq Nat, S # {}
  PROVE  \E x \in S : \A y \in S : x <= y
<1>1. PICK x \in S : \A y \in S : ~ (<<y, x>> \in NatLess)
  BY NatLessIsWellFounded, WFMin
<1>2. ASSUME NEW y \in S PROVE x <= y
  <2>1. x \in Nat /\ y \in Nat
    OBVIOUS
  <2>2. <<y, x>> \in NatLess <=> y < x
    BY <2>1 DEF NatLess
  <2> QED
    BY <1>1, <2>1, <2>2
<1> QED
  BY <1>2

LEMMA FoldExists ==
  ASSUME NEW s, NEW p, NEW m \in Nat
  PROVE  \E f : IsFold(f, s, p, m)
<1> DEFINE Bad == {k \in Nat : ~\E f : IsFold(f, s, p, k)}
<1>1. SUFFICES ASSUME Bad # {} PROVE FALSE
  OBVIOUS
<1>2. PICK b \in Bad : \A k \in Bad : b <= k
  <2>1. Bad \subseteq Nat
    OBVIOUS
  <2> HIDE DEF Bad
  <2> QED
    BY <1>1, <2>1, LeastElement
<1>3. CASE b = 0
  <2> DEFINE f == [n \in 0..0 |-> p]
  <2>1. IsFold(f, s, p, 0)
    <3>1. 0..0 = {0}
      OBVIOUS
    <3> QED
      BY <3>1 DEF IsFold
  <2> QED
    BY <1>3, <2>1
<1>4. CASE b # 0
  <2>1. b \in Nat /\ b - 1 \in Nat /\ ~(b <= b - 1)
    BY <1>4
  <2>2. PICK e : IsFold(e, s, p, b - 1)
    BY <1>2, <2>1
  <2> DEFINE f == [n \in 0..b |-> IF n < b THEN e[n] ELSE RT!Folded(e[b - 1], s[b])]
  <2>3. ASSUME NEW n \in 0..b PROVE f[n] = IF n = 0 THEN p ELSE RT!Folded(f[n - 1], s[n])
    <3>1. CASE n < b
      <4>1. n \in 0..(b - 1) /\ f[n] = e[n]
        BY <2>1, <3>1
      <4>2. e[n] = IF n = 0 THEN p ELSE RT!Folded(e[n - 1], s[n])
        BY <2>2, <4>1 DEF IsFold
      <4>3. n # 0 => n - 1 \in 0..b /\ n - 1 < b
        BY <2>1, <4>1
      <4>4. n # 0 => f[n - 1] = e[n - 1]
        BY <4>3
      <4> HIDE DEF f
      <4> QED
        BY <4>1, <4>2, <4>4
    <3>2. CASE ~(n < b)
      <4>1. n = b /\ n - 1 \in 0..b /\ n - 1 < b
        BY <2>1, <1>4, <3>2
      <4>2. b \in 0..b /\ ~(b < b)
        BY <2>1
      <4>3. f[b] = RT!Folded(e[b - 1], s[b])
        BY <4>2
      <4>4. f[b - 1] = e[b - 1]
        BY <4>1
      <4> HIDE DEF f
      <4> QED
        BY <1>4, <4>1, <4>3, <4>4
    <3> QED
      BY <3>1, <3>2
  <2>4. f = [n \in 0..b |-> f[n]]
    OBVIOUS
  <2> HIDE DEF f
  <2>5. IsFold(f, s, p, b)
    BY <2>3, <2>4 DEF IsFold
  <2> QED
    BY <2>5
<1> QED
  BY <1>3, <1>4

\* The fold of any sequence.
LEMMA SignalsFold ==
  ASSUME NEW s, Len(s) \in Nat, NEW p
  PROVE  \E f : IsFold(f, s, p, Len(s)) /\ RT!deriveSignals(s, p) = f[Len(s)]
<1> DEFINE g == CHOOSE f : IsFold(f, s, p, Len(s))
<1>1. RT!deriveSignals(s, p) = g[Len(s)]
  BY DEF RT!deriveSignals, IsFold
<1>2. \E f : IsFold(f, s, p, Len(s))
  BY FoldExists
<1>3. IsFold(g, s, p, Len(s))
  BY <1>2, Zenon
<1> QED
  BY <1>1, <1>3

\* The c events after the first d of s are the first c of t.
Meets(s, p, m, f, t, q, n, g, d, c) ==
  /\ m \in Nat /\ IsFold(f, s, p, m)
  /\ n \in Nat /\ IsFold(g, t, q, n)
  /\ d \in Nat /\ c \in 0..n /\ d + c <= m /\ f[d] = q
  /\ \A i \in 1..c : s[d + i] = t[i]

\* Where two sequences agree, so do their folds.
LEMMA FoldsMeet ==
  ASSUME NEW s, NEW p, NEW m, NEW f, NEW t, NEW q, NEW n, NEW g, NEW d, NEW c,
         Meets(s, p, m, f, t, q, n, g, d, c)
  PROVE  f[d + c] = g[c]
<1> USE DEF Meets
<1> DEFINE Bad == {k \in 0..c : f[d + k] # g[k]}
<1>1. SUFFICES ASSUME Bad # {} PROVE FALSE
  <2>1. c \in 0..c
    OBVIOUS
  <2> QED
    BY <2>1
<1>2. PICK b \in Bad : \A k \in Bad : b <= k
  <2>1. Bad \subseteq Nat
    OBVIOUS
  <2> HIDE DEF Bad
  <2> QED
    BY <1>1, <2>1, LeastElement
<1>3. b \in 0..n /\ b \in Nat /\ d + b \in 0..m
  OBVIOUS
<1>4. g[b] = IF b = 0 THEN q ELSE RT!Folded(g[b - 1], t[b])
  BY <1>3 DEF IsFold
<1>5. f[d + b] = IF d + b = 0 THEN p ELSE RT!Folded(f[d + b - 1], s[d + b])
  BY <1>3 DEF IsFold
<1>6. b # 0
  BY <1>2, <1>4
<1>7. b - 1 \in 0..c /\ ~(b <= b - 1) /\ d + (b - 1) = d + b - 1 /\ b \in 1..c /\ d + b # 0
  BY <1>3, <1>6
<1>8. f[d + b - 1] = g[b - 1]
  <2>1. b - 1 \notin Bad
    BY <1>2, <1>7
  <2> QED
    BY <1>7, <2>1
<1>9. f[d + b] = g[b]
  BY <1>4, <1>5, <1>6, <1>7, <1>8
<1> QED
  BY <1>2, <1>9

LEMMA SignalsOfNone ==
  ASSUME NEW p
  PROVE  RT!deriveSignals(<<>>, p) = p
<1>1. PICK f : IsFold(f, <<>>, p, 0) /\ RT!deriveSignals(<<>>, p) = f[0]
  BY SignalsFold
<1>2. 0 \in 0..0
  OBVIOUS
<1> QED
  BY <1>1, <1>2 DEF IsFold

LEMMA SignalsOfMore ==
  ASSUME NEW Whole, NEW s \in Seq(Whole), NEW e \in Whole, NEW p
  PROVE  RT!deriveSignals(Append(s, e), p) = RT!Folded(RT!deriveSignals(s, p), e)
<1> DEFINE u == Append(s, e)
<1>1. Len(s) \in Nat /\ Len(u) = Len(s) + 1 /\ u[Len(s) + 1] = e /\ \A i \in 1..Len(s) : u[i] = s[i]
  OBVIOUS
<1> HIDE DEF u
<1>2. PICK f : IsFold(f, u, p, Len(u)) /\ RT!deriveSignals(u, p) = f[Len(u)]
  BY <1>1, SignalsFold
<1>3. PICK g : IsFold(g, s, p, Len(s)) /\ RT!deriveSignals(s, p) = g[Len(s)]
  BY <1>1, SignalsFold
<1>4. f[0] = p
  BY <1>1, <1>2 DEF IsFold
<1>5. f[0 + Len(s)] = g[Len(s)]
  <2>1. Len(u) \in Nat /\ Len(s) \in 0..Len(s) /\ 0 + Len(s) <= Len(u) /\ \A i \in 1..Len(s) : u[0 + i] = s[i]
    BY <1>1
  <2>2. Meets(u, p, Len(u), f, s, p, Len(s), g, 0, Len(s))
    BY <1>1, <1>2, <1>3, <1>4, <2>1 DEF Meets
  <2> QED
    BY <2>2, FoldsMeet
<1>6. f[Len(u)] = RT!Folded(f[Len(u) - 1], u[Len(u)])
  BY <1>1, <1>2 DEF IsFold
<1>7. 0 + Len(s) = Len(s) /\ Len(u) - 1 = Len(s)
  BY <1>1
<1> QED
  BY <1>1, <1>2, <1>3, <1>5, <1>6, <1>7 DEF u

\* deriveSignals(all) equals deriveSignals(second, deriveSignals(first)).
LEMMA SignalsOfBoth ==
  ASSUME NEW Whole, NEW s \in Seq(Whole), NEW t \in Seq(Whole), NEW p
  PROVE  RT!deriveSignals(s \o t, p) = RT!deriveSignals(t, RT!deriveSignals(s, p))
<1> DEFINE u == s \o t
<1>1. /\ Len(s) \in Nat /\ Len(t) \in Nat /\ Len(u) = Len(s) + Len(t)
      /\ \A i \in 1..Len(s) : u[i] = s[i]
      /\ \A i \in 1..Len(t) : u[Len(s) + i] = t[i]
  OBVIOUS
<1> HIDE DEF u
<1> DEFINE q == RT!deriveSignals(s, p)
<1>2. PICK h : IsFold(h, u, p, Len(u)) /\ RT!deriveSignals(u, p) = h[Len(u)]
  BY <1>1, SignalsFold
<1>3. PICK f : IsFold(f, s, p, Len(s)) /\ q = f[Len(s)]
  BY <1>1, SignalsFold
<1>4. PICK g : IsFold(g, t, q, Len(t)) /\ RT!deriveSignals(t, q) = g[Len(t)]
  BY <1>1, SignalsFold
<1> HIDE DEF q
<1>5. h[0] = p
  BY <1>1, <1>2 DEF IsFold
<1>6. h[Len(s)] = q
  <2>1. Len(u) \in Nat /\ Len(s) \in 0..Len(s) /\ 0 + Len(s) <= Len(u) /\ \A i \in 1..Len(s) : u[0 + i] = s[i]
    BY <1>1
  <2>2. h[0 + Len(s)] = f[Len(s)]
    <3>1. Meets(u, p, Len(u), h, s, p, Len(s), f, 0, Len(s))
      BY <1>1, <1>2, <1>3, <1>5, <2>1 DEF Meets
    <3> QED
      BY <3>1, FoldsMeet
  <2> QED
    BY <1>1, <1>3, <2>2
<1>7. h[Len(s) + Len(t)] = g[Len(t)]
  <2>1. Len(u) \in Nat /\ Len(t) \in 0..Len(t) /\ Len(s) + Len(t) <= Len(u)
    BY <1>1
  <2>2. Meets(u, p, Len(u), h, t, q, Len(t), g, Len(s), Len(t))
    BY <1>1, <1>2, <1>4, <1>6, <2>1 DEF Meets
  <2> QED
    BY <2>2, FoldsMeet
<1> QED
  BY <1>1, <1>2, <1>4, <1>7 DEF u, q

-----------------------------------------------------------------------------
(* What is in flight.                                                      *)

EventsSeen ==
  [kind : {"garbage", "turnStarted", "turnCompleted", "contextChanged"}]
    \cup [kind : {"toolRequested", "toolCompleted"}, id : Tools, within : BOOLEAN]
    \cup [kind : {"subagentStarted"}, id : Subs, denied : BOOLEAN]
    \cup [kind : {"subagentCompleted"}, id : Subs \cup {"unnamed"}]
SignalsSeen == [turnOpen : BOOLEAN, pending : SUBSET Tools, live : SUBSET Subs, full : BOOLEAN]
Runtimes == [turn : BOOLEAN, tools : SUBSET Tools, subs : SUBSET Subs, full : BOOLEAN]

\* What each event makes of the signals.
LEMMA FoldedIs ==
  ASSUME NEW s \in SignalsSeen, NEW e
  PROVE  /\ e.kind = "garbage" => RT!Folded(s, e) = s
         /\ e.kind = "turnStarted" => RT!Folded(s, e) = [s EXCEPT !.turnOpen = TRUE]
         /\ e.kind = "turnCompleted" => RT!Folded(s, e) = [s EXCEPT !.turnOpen = FALSE, !.pending = {}]
         /\ e.kind = "contextChanged" => RT!Folded(s, e) = [s EXCEPT !.full = TRUE]
         /\ e.kind = "toolRequested" => RT!Folded(s, e) = IF e.within THEN s ELSE [s EXCEPT !.pending = @ \cup {e.id}]
         /\ e.kind = "toolCompleted" => RT!Folded(s, e) = IF e.within THEN s ELSE [s EXCEPT !.pending = @ \ {e.id}]
         /\ e.kind = "subagentStarted" => RT!Folded(s, e) = IF e.denied THEN s ELSE [s EXCEPT !.live = @ \cup {e.id}]
         /\ e.kind = "subagentCompleted" => RT!Folded(s, e) = RT!SubDone(s, e.id)
BY DEF RT!Folded, RT!TurnDone

\* A completion takes one subagent away, if there is one.
LEMMA SubDoneTakesOne ==
  ASSUME NEW s \in SignalsSeen, NEW i
  PROVE  \E x : /\ RT!SubDone(s, i) = [s EXCEPT !.live = @ \ {x}]
                /\ s.live # {} => x \in s.live
<1>1. CASE i \in s.live \/ s.live = {}
  BY <1>1 DEF RT!SubDone
<1>2. CASE ~(i \in s.live \/ s.live = {})
  <2>1. \E x \in s.live : RT!SubDone(s, i) = [s EXCEPT !.live = @ \ {x}]
    <3> DEFINE x == CHOOSE y \in s.live : TRUE
    <3>1. x \in s.live
      BY <1>2
    <3>2. RT!SubDone(s, i) = [s EXCEPT !.live = @ \ {x}]
      BY <1>2 DEF RT!SubDone
    <3> QED
      BY <3>1, <3>2
  <2> QED
    BY <2>1
<1> QED
  BY <1>1, <1>2

LEMMA FoldedIsSignals ==
  ASSUME NEW s \in SignalsSeen, NEW e \in EventsSeen
  PROVE  RT!Folded(s, e) \in SignalsSeen
<1>1. CASE e \in [kind : {"garbage", "turnStarted", "turnCompleted", "contextChanged"}]
  <2>1. e.kind \in {"garbage", "turnStarted", "turnCompleted", "contextChanged"}
    BY <1>1
  <2>2. /\ [s EXCEPT !.turnOpen = TRUE] \in SignalsSeen
        /\ [s EXCEPT !.turnOpen = FALSE, !.pending = {}] \in SignalsSeen
        /\ [s EXCEPT !.full = TRUE] \in SignalsSeen
    BY DEF SignalsSeen
  <2> QED
    BY <2>1, <2>2, FoldedIs
<1>2. CASE e \in [kind : {"toolRequested", "toolCompleted"}, id : Tools, within : BOOLEAN]
  <2>1. e.kind \in {"toolRequested", "toolCompleted"} /\ e.id \in Tools
    BY <1>2
  <2>2. [s EXCEPT !.pending = @ \cup {e.id}] \in SignalsSeen /\ [s EXCEPT !.pending = @ \ {e.id}] \in SignalsSeen
    BY <2>1 DEF SignalsSeen
  <2> QED
    BY <2>1, <2>2, FoldedIs
<1>3. CASE e \in [kind : {"subagentStarted"}, id : Subs, denied : BOOLEAN]
  <2>1. e.kind = "subagentStarted" /\ e.id \in Subs
    BY <1>3
  <2>2. [s EXCEPT !.live = @ \cup {e.id}] \in SignalsSeen
    BY <2>1 DEF SignalsSeen
  <2> QED
    BY <2>1, <2>2, FoldedIs
<1>4. CASE e \in [kind : {"subagentCompleted"}, id : Subs \cup {"unnamed"}]
  <2>1. e.kind = "subagentCompleted"
    BY <1>4
  <2>2. PICK x : RT!SubDone(s, e.id) = [s EXCEPT !.live = @ \ {x}]
    BY SubDoneTakesOne
  <2>3. [s EXCEPT !.live = @ \ {x}] \in SignalsSeen
    BY DEF SignalsSeen
  <2> QED
    BY <2>1, <2>2, <2>3, FoldedIs
<1> QED
  BY <1>1, <1>2, <1>3, <1>4 DEF EventsSeen

LEMMA HeardIsSignals ==
  ASSUME NEW s \in Seq(EventsSeen)
  PROVE  RT!deriveSignals(s, RT!NoSignals) \in SignalsSeen
<1>1. RT!NoSignals \in SignalsSeen
  BY DEF RT!NoSignals, SignalsSeen
<1>2. Len(s) \in Nat
  OBVIOUS
<1>3. PICK f : IsFold(f, s, RT!NoSignals, Len(s)) /\ RT!deriveSignals(s, RT!NoSignals) = f[Len(s)]
  BY <1>2, SignalsFold
<1> DEFINE Bad == {k \in 0..Len(s) : f[k] \notin SignalsSeen}
<1>4. CASE Bad # {}
  <2>1. PICK b \in Bad : \A k \in Bad : b <= k
    <3>1. Bad \subseteq Nat
      BY <1>2
    <3> HIDE DEF Bad
    <3> QED
      BY <1>4, <3>1, LeastElement
  <2>2. f[b] = IF b = 0 THEN RT!NoSignals ELSE RT!Folded(f[b - 1], s[b])
    BY <1>3 DEF IsFold
  <2>3. b # 0
    BY <1>1, <2>2
  <2>4. b - 1 \in 0..Len(s) /\ ~(b <= b - 1) /\ s[b] \in EventsSeen
    BY <1>2, <2>3
  <2>5. f[b - 1] \in SignalsSeen
    BY <2>1, <2>4
  <2> QED
    BY <2>2, <2>3, <2>4, <2>5, FoldedIsSignals
<1>5. CASE Bad = {}
  <2>1. Len(s) \in 0..Len(s)
    BY <1>2
  <2> QED
    BY <1>3, <1>5, <2>1
<1> QED
  BY <1>4, <1>5

\* What the runtime has said, to the file or not yet, and what there is to be heard of it.
Said == lines \o unsaid
Heard == RT!deriveSignals(Said, RT!NoSignals)

\* What is in flight is heard of: a tool by its name, the subagents by their number.
InFlight(r, h, ids, swallowed) ==
  /\ r.turn => h.turnOpen
  /\ r.tools \subseteq h.pending
  /\ r.subs \cup h.live \subseteq ids
  /\ Cardinality(r.subs) <= Cardinality(h.live)
  /\ "subagents" \notin swallowed => Cardinality(r.subs) = Cardinality(h.live)

RuntimeInv ==
  /\ rt \in Runtimes /\ lines \in Seq(EventsSeen) /\ unsaid \in Seq(EventsSeen)
  /\ cursor \in 0..Len(lines) /\ torn \in {"no", "live", "dead"} /\ IsFiniteSet(started)
  /\ advised = RT!handoffAdvice(signals)
  /\ RT!BatchesAgree
  /\ torn = "dead" => "events" \in orphans
  /\ "events" \notin orphans => InFlight(rt, Heard, started, orphans)

LEMMA SaidIsSeen ==
  ASSUME RuntimeInv
  PROVE  Said \in Seq(EventsSeen) /\ Heard \in SignalsSeen
<1>1. Said \in Seq(EventsSeen)
  BY DEF RuntimeInv, Said
<1> QED
  BY <1>1, HeardIsSignals DEF Heard

LEMMA RuntimeStart == RT!RuntimeInit => RuntimeInv
<1> SUFFICES ASSUME RT!RuntimeInit PROVE RuntimeInv
  OBVIOUS
<1> USE DEF RT!RuntimeInit
<1>1. rt \in Runtimes /\ lines \in Seq(EventsSeen) /\ unsaid \in Seq(EventsSeen)
  BY DEF RT!Quiescent, Runtimes
<1>2. Len(lines) = 0 /\ cursor \in 0..Len(lines)
  OBVIOUS
<1>3. IsFiniteSet(started) /\ Cardinality({}) = 0
  BY FS_EmptySet
<1>4. advised = RT!handoffAdvice(signals)
  BY DEF RT!handoffAdvice, RT!NoSignals
<1>5. RT!BatchesAgree
  <2>1. SubSeq(lines, 1, cursor) = <<>>
    OBVIOUS
  <2> QED
    BY <2>1, SignalsOfNone DEF RT!BatchesAgree
<1>6. Heard = RT!NoSignals
  <2>1. Said = <<>>
    BY DEF Said
  <2> QED
    BY <2>1, SignalsOfNone DEF Heard
<1>7. InFlight(rt, Heard, started, orphans)
  BY <1>3, <1>6 DEF InFlight, RT!Quiescent, RT!NoSignals
<1> QED
  BY <1>1, <1>2, <1>3, <1>4, <1>5, <1>7 DEF RuntimeInv

\* The runtime notes an event: it is heard of next.
LEMMA Noted ==
  ASSUME RuntimeInv, NEW e \in EventsSeen, unsaid' = Append(unsaid, e), lines' = lines
  PROVE  unsaid' \in Seq(EventsSeen) /\ Heard' = RT!Folded(Heard, e)
<1>1. lines \in Seq(EventsSeen) /\ unsaid \in Seq(EventsSeen)
  BY DEF RuntimeInv
<1>2. Append(unsaid, e) \in Seq(EventsSeen) /\ lines \o Append(unsaid, e) = Append(lines \o unsaid, e)
  BY <1>1
<1>3. Said' = Append(Said, e)
  BY <1>2 DEF Said
<1>4. RT!deriveSignals(Append(Said, e), RT!NoSignals) = RT!Folded(Heard, e)
  BY SaidIsSeen, SignalsOfMore DEF Heard
<1> QED
  BY <1>2, <1>3, <1>4 DEF Heard

\* What is heard of an event keeps step with what it does to the runtime.
LEMMA NotedKeeps ==
  ASSUME RuntimeInv, NEW e \in EventsSeen, unsaid' = Append(unsaid, e),
         UNCHANGED <<lines, torn, cursor, signals, advised, deaths, orphans>>,
         rt' \in Runtimes, IsFiniteSet(started'),
         "events" \notin orphans => InFlight(rt', RT!Folded(Heard, e), started', orphans)
  PROVE  RuntimeInv'
<1>1. unsaid' \in Seq(EventsSeen) /\ Heard' = RT!Folded(Heard, e)
  BY Noted
<1>2. RT!BatchesAgree'
  BY DEF RuntimeInv, RT!BatchesAgree
<1>3. orphans' = orphans /\ ("events" \notin orphans' => InFlight(rt, Heard, started, orphans)')
  BY <1>1 DEF InFlight
<1> QED
  BY <1>1, <1>2, <1>3 DEF RuntimeInv

\* The members of what is in flight.
LEMMA OneMoreRuns ==
  ASSUME NEW S, IsFiniteSet(S), NEW i, i \notin S
  PROVE  IsFiniteSet(S \cup {i}) /\ Cardinality(S) \in Nat /\ Cardinality(S \cup {i}) = Cardinality(S) + 1
BY FS_AddElement, FS_CardinalityType

LEMMA OneLessRuns ==
  ASSUME NEW S, IsFiniteSet(S), NEW i \in S
  PROVE  Cardinality(S) \in Nat \ {0} /\ Cardinality(S \ {i}) = Cardinality(S) - 1
<1>1. Cardinality(S) \in Nat /\ Cardinality(S \ {i}) = Cardinality(S) - 1
  BY FS_RemoveElement, FS_CardinalityType
<1>2. Cardinality(S) # 0
  BY FS_EmptySet
<1> QED
  BY <1>1, <1>2

LEMMA SubStartsKeeps ==
  ASSUME RuntimeInv, NEW i \in Subs, RT!SubStarts(i),
         UNCHANGED <<lines, torn, cursor, signals, advised, deaths, orphans>>
  PROVE  RuntimeInv'
<1> DEFINE e(denied) == [kind |-> "subagentStarted", id |-> i, denied |-> denied]
<1>0. e(TRUE) \in EventsSeen /\ e(FALSE) \in EventsSeen
  BY DEF EventsSeen
<1>1. Heard \in SignalsSeen /\ rt \in Runtimes /\ IsFiniteSet(started)
  BY SaidIsSeen DEF RuntimeInv
<1>2. CASE i \notin started /\ started' = started \cup {i} /\ rt' = [rt EXCEPT !.subs = @ \cup {i}]
           /\ unsaid' = Append(unsaid, e(FALSE))
  <2>1. rt' \in Runtimes /\ rt'.turn = rt.turn /\ rt'.tools = rt.tools /\ rt'.subs = rt.subs \cup {i}
    BY <1>1, <1>2 DEF Runtimes
  <2>2. IsFiniteSet(started')
    BY <1>1, <1>2, OneMoreRuns
  <2> DEFINE h == RT!Folded(Heard, e(FALSE))
  <2>3. h = [Heard EXCEPT !.live = @ \cup {i}]
    <3>1. e(FALSE).kind = "subagentStarted" /\ e(FALSE).denied = FALSE /\ e(FALSE).id = i
      OBVIOUS
    <3> HIDE DEF e
    <3> QED
      BY <1>1, <3>1, FoldedIs
  <2>4. h.turnOpen = Heard.turnOpen /\ h.pending = Heard.pending /\ h.live = Heard.live \cup {i}
    BY <1>1, <2>3 DEF SignalsSeen
  <2>5. ASSUME "events" \notin orphans PROVE InFlight(rt', h, started', orphans)
    <3>1. InFlight(rt, Heard, started, orphans)
      BY <2>5 DEF RuntimeInv
    <3>2. i \notin rt.subs /\ i \notin Heard.live /\ IsFiniteSet(rt.subs) /\ IsFiniteSet(Heard.live)
      <4>1. rt.subs \subseteq started /\ Heard.live \subseteq started
        BY <3>1 DEF InFlight
      <4> QED
        BY <1>1, <1>2, <4>1, FS_Subset
    <3>3. /\ Cardinality(rt.subs) \in Nat /\ Cardinality(rt.subs \cup {i}) = Cardinality(rt.subs) + 1
          /\ Cardinality(Heard.live) \in Nat /\ Cardinality(Heard.live \cup {i}) = Cardinality(Heard.live) + 1
      BY <3>2, OneMoreRuns
    <3> HIDE DEF h
    <3> QED
      BY <1>2, <2>1, <2>4, <3>1, <3>3 DEF InFlight
  <2> QED
    BY <1>0, <1>2, <2>1, <2>2, <2>5, NotedKeeps
<1>3. CASE UNCHANGED <<rt, started>> /\ unsaid' = Append(unsaid, e(TRUE))
  <2>1. RT!Folded(Heard, e(TRUE)) = Heard
    BY <1>1, FoldedIs
  <2>2. "events" \notin orphans => InFlight(rt', RT!Folded(Heard, e(TRUE)), started', orphans)
    BY <1>3, <2>1 DEF RuntimeInv
  <2> HIDE DEF e
  <2> QED
    BY <1>0, <1>1, <1>3, <2>2, NotedKeeps
<1> QED
  BY <1>2, <1>3 DEF RT!SubStarts, RT!Says

LEMMA SubCompletesKeeps ==
  ASSUME RuntimeInv, NEW i \in Subs, NEW named \in BOOLEAN, RT!SubCompletes(i, named), started' = started,
         UNCHANGED <<lines, torn, cursor, signals, advised, deaths, orphans>>
  PROVE  RuntimeInv'
<1> DEFINE e == [kind |-> "subagentCompleted", id |-> IF named THEN i ELSE "unnamed"]
<1>0. e \in EventsSeen /\ e.kind = "subagentCompleted"
  BY DEF EventsSeen
<1>1. Heard \in SignalsSeen /\ rt \in Runtimes /\ IsFiniteSet(started)
  BY SaidIsSeen DEF RuntimeInv
<1>2. i \in rt.subs /\ rt' = [rt EXCEPT !.subs = @ \ {i}] /\ unsaid' = Append(unsaid, e)
  BY DEF RT!SubCompletes, RT!Says
<1> HIDE DEF e
<1>3. rt' \in Runtimes /\ rt'.turn = rt.turn /\ rt'.tools = rt.tools /\ rt'.subs = rt.subs \ {i}
  BY <1>1, <1>2 DEF Runtimes
<1> DEFINE h == RT!Folded(Heard, e)
<1>4. PICK x : RT!SubDone(Heard, e.id) = [Heard EXCEPT !.live = @ \ {x}] /\ (Heard.live # {} => x \in Heard.live)
  BY <1>1, SubDoneTakesOne
<1>5. h = [Heard EXCEPT !.live = @ \ {x}]
  BY <1>0, <1>1, <1>4, FoldedIs
<1>6. h.turnOpen = Heard.turnOpen /\ h.pending = Heard.pending /\ h.live = Heard.live \ {x}
  BY <1>1, <1>5 DEF SignalsSeen
<1> HIDE DEF h
<1>7. ASSUME "events" \notin orphans PROVE InFlight(rt', h, started, orphans)
  <2>1. InFlight(rt, Heard, started, orphans)
    BY <1>7 DEF RuntimeInv
  <2>2. IsFiniteSet(rt.subs) /\ IsFiniteSet(Heard.live)
    <3>1. rt.subs \subseteq started /\ Heard.live \subseteq started
      BY <2>1 DEF InFlight
    <3> QED
      BY <1>1, <3>1, FS_Subset
  <2>3. Cardinality(rt.subs) \in Nat \ {0} /\ Cardinality(rt.subs \ {i}) = Cardinality(rt.subs) - 1
    BY <1>2, <2>2, OneLessRuns
  <2>4. Cardinality(rt.subs) <= Cardinality(Heard.live)
    BY <2>1 DEF InFlight
  <2>5. Heard.live # {}
    BY <2>3, <2>4, FS_EmptySet
  <2>6. Cardinality(Heard.live) \in Nat \ {0} /\ Cardinality(Heard.live \ {x}) = Cardinality(Heard.live) - 1
    BY <1>4, <2>2, <2>5, OneLessRuns
  <2> QED
    BY <1>3, <1>6, <2>1, <2>3, <2>6 DEF InFlight
<1> QED
  BY <1>0, <1>1, <1>2, <1>3, <1>7, NotedKeeps DEF h

LEMMA WorksKeeps ==
  ASSUME RuntimeInv, RT!Works
  PROVE  RuntimeInv'
<1> DEFINE rests == UNCHANGED <<lines, torn, cursor, signals, advised, deaths, orphans>>
<1>1. Heard \in SignalsSeen /\ rt \in Runtimes /\ IsFiniteSet(started) /\ rests
  BY SaidIsSeen DEF RuntimeInv, RT!Works
<1>2. "events" \notin orphans => InFlight(rt, Heard, started, orphans)
  BY DEF RuntimeInv
<1>3. CASE RT!StartsTurn /\ started' = started
  <2> DEFINE e == [kind |-> "turnStarted"]
             h == RT!Folded(Heard, e)
  <2>1. e \in EventsSeen /\ e.kind = "turnStarted"
    BY DEF EventsSeen
  <2>2. rt' = [rt EXCEPT !.turn = TRUE] /\ unsaid' = Append(unsaid, e)
    BY <1>3 DEF RT!StartsTurn, RT!Says
  <2> HIDE DEF e
  <2>3. h = [Heard EXCEPT !.turnOpen = TRUE]
    BY <1>1, <2>1, FoldedIs
  <2>4. h.turnOpen = TRUE /\ h.pending = Heard.pending /\ h.live = Heard.live
    BY <1>1, <2>3 DEF SignalsSeen
  <2>5. rt' \in Runtimes /\ rt'.tools = rt.tools /\ rt'.subs = rt.subs
    BY <1>1, <2>2 DEF Runtimes
  <2> HIDE DEF h
  <2>6. "events" \notin orphans => InFlight(rt', h, started', orphans)
    BY <1>2, <1>3, <2>4, <2>5 DEF InFlight
  <2> QED
    BY <1>1, <1>3, <2>1, <2>2, <2>5, <2>6, NotedKeeps DEF h
<1>4. CASE RT!CompletesTurn /\ started' = started
  <2> DEFINE e == [kind |-> "turnCompleted"]
             h == RT!Folded(Heard, e)
  <2>1. e \in EventsSeen /\ e.kind = "turnCompleted"
    BY DEF EventsSeen
  <2>2. rt.tools = {} /\ rt' = [rt EXCEPT !.turn = FALSE] /\ unsaid' = Append(unsaid, e)
    BY <1>4 DEF RT!CompletesTurn, RT!Says
  <2> HIDE DEF e
  <2>3. h = [Heard EXCEPT !.turnOpen = FALSE, !.pending = {}]
    BY <1>1, <2>1, FoldedIs
  <2>4. h.pending = {} /\ h.live = Heard.live
    BY <1>1, <2>3 DEF SignalsSeen
  <2>5. rt' \in Runtimes /\ rt'.turn = FALSE /\ rt'.tools = {} /\ rt'.subs = rt.subs
    BY <1>1, <2>2 DEF Runtimes
  <2> HIDE DEF h
  <2>6. "events" \notin orphans => InFlight(rt', h, started', orphans)
    BY <1>2, <1>4, <2>4, <2>5 DEF InFlight
  <2> QED
    BY <1>1, <1>4, <2>1, <2>2, <2>5, <2>6, NotedKeeps DEF h
<1>5. CASE RT!Fills /\ started' = started
  <2> DEFINE e == [kind |-> "contextChanged"]
             h == RT!Folded(Heard, e)
  <2>1. e \in EventsSeen /\ e.kind = "contextChanged"
    BY DEF EventsSeen
  <2>2. rt' = [rt EXCEPT !.full = TRUE] /\ unsaid' = Append(unsaid, e)
    BY <1>5 DEF RT!Fills, RT!Says
  <2> HIDE DEF e
  <2>3. h = [Heard EXCEPT !.full = TRUE]
    BY <1>1, <2>1, FoldedIs
  <2>4. h.turnOpen = Heard.turnOpen /\ h.pending = Heard.pending /\ h.live = Heard.live
    BY <1>1, <2>3 DEF SignalsSeen
  <2>5. rt' \in Runtimes /\ rt'.turn = rt.turn /\ rt'.tools = rt.tools /\ rt'.subs = rt.subs
    BY <1>1, <2>2 DEF Runtimes
  <2> HIDE DEF h
  <2>6. "events" \notin orphans => InFlight(rt', h, started', orphans)
    BY <1>2, <1>5, <2>4, <2>5 DEF InFlight
  <2> QED
    BY <1>1, <1>5, <2>1, <2>2, <2>5, <2>6, NotedKeeps DEF h
<1>6. ASSUME NEW i \in Tools, RT!Tool(i), started' = started PROVE RuntimeInv'
  <2> DEFINE wants == [kind |-> "toolRequested", id |-> i, within |-> FALSE]
             ends == [kind |-> "toolCompleted", id |-> i, within |-> FALSE]
             inner == [kind |-> "toolRequested", id |-> i, within |-> TRUE]
  <2>1. /\ wants \in EventsSeen /\ wants.kind = "toolRequested" /\ wants.within = FALSE /\ wants.id = i
        /\ ends \in EventsSeen /\ ends.kind = "toolCompleted" /\ ends.within = FALSE /\ ends.id = i
        /\ inner \in EventsSeen /\ inner.kind = "toolRequested" /\ inner.within = TRUE
    BY DEF EventsSeen
  <2>2. \/ rt' = [rt EXCEPT !.tools = @ \cup {i}] /\ unsaid' = Append(unsaid, wants)
        \/ rt' = [rt EXCEPT !.tools = @ \ {i}] /\ unsaid' = Append(unsaid, ends)
        \/ rt' = rt /\ unsaid' = Append(unsaid, inner)
    BY <1>6 DEF RT!Tool, RT!Says
  <2> HIDE DEF wants, ends, inner
  <2>3. CASE rt' = [rt EXCEPT !.tools = @ \cup {i}] /\ unsaid' = Append(unsaid, wants)
    <3> DEFINE h == RT!Folded(Heard, wants)
    <3>1. h = [Heard EXCEPT !.pending = @ \cup {i}]
      <4>1. h = IF wants.within THEN Heard ELSE [Heard EXCEPT !.pending = @ \cup {wants.id}]
        BY <1>1, <2>1, FoldedIs
      <4>2. wants.within = FALSE /\ wants.id = i
        BY <2>1
      <4> HIDE DEF h
      <4> QED
        BY <4>1, <4>2
    <3>2. h.turnOpen = Heard.turnOpen /\ h.pending = Heard.pending \cup {i} /\ h.live = Heard.live
      BY <1>1, <3>1 DEF SignalsSeen
    <3>3. rt' \in Runtimes /\ rt'.turn = rt.turn /\ rt'.tools = rt.tools \cup {i} /\ rt'.subs = rt.subs
      BY <1>1, <2>3 DEF Runtimes
    <3> HIDE DEF h
    <3>4. "events" \notin orphans => InFlight(rt', h, started', orphans)
      BY <1>2, <1>6, <3>2, <3>3 DEF InFlight
    <3> QED
      BY <1>1, <1>6, <2>1, <2>3, <3>3, <3>4, NotedKeeps DEF h
  <2>4. CASE rt' = [rt EXCEPT !.tools = @ \ {i}] /\ unsaid' = Append(unsaid, ends)
    <3> DEFINE h == RT!Folded(Heard, ends)
    <3>1. h = [Heard EXCEPT !.pending = @ \ {i}]
      <4>1. h = IF ends.within THEN Heard ELSE [Heard EXCEPT !.pending = @ \ {ends.id}]
        BY <1>1, <2>1, FoldedIs
      <4>2. ends.within = FALSE /\ ends.id = i
        BY <2>1
      <4> HIDE DEF h
      <4> QED
        BY <4>1, <4>2
    <3>2. h.turnOpen = Heard.turnOpen /\ h.pending = Heard.pending \ {i} /\ h.live = Heard.live
      BY <1>1, <3>1 DEF SignalsSeen
    <3>3. rt' \in Runtimes /\ rt'.turn = rt.turn /\ rt'.tools = rt.tools \ {i} /\ rt'.subs = rt.subs
      BY <1>1, <2>4 DEF Runtimes
    <3> HIDE DEF h
    <3>4. "events" \notin orphans => InFlight(rt', h, started', orphans)
      BY <1>2, <1>6, <3>2, <3>3 DEF InFlight
    <3> QED
      BY <1>1, <1>6, <2>1, <2>4, <3>3, <3>4, NotedKeeps DEF h
  <2>5. CASE rt' = rt /\ unsaid' = Append(unsaid, inner)
    <3>1. RT!Folded(Heard, inner) = Heard
      BY <1>1, <2>1, FoldedIs
    <3> QED
      BY <1>1, <1>2, <1>6, <2>1, <2>5, <3>1, NotedKeeps
  <2> QED
    BY <2>2, <2>3, <2>4, <2>5
<1>7. ASSUME NEW i \in Subs, RT!SubStarts(i) PROVE RuntimeInv'
  BY <1>1, <1>7, SubStartsKeeps
<1>8. ASSUME NEW i \in Subs, NEW named \in BOOLEAN, RT!SubCompletes(i, named), started' = started PROVE RuntimeInv'
  BY <1>1, <1>8, SubCompletesKeeps
<1> QED
  BY <1>3, <1>4, <1>5, <1>6, <1>7, <1>8 DEF RT!Works

LEMMA SequencePieces ==
  ASSUME NEW Whole, NEW s \in Seq(Whole), NEW n \in 0..Len(s)
  PROVE  /\ SubSeq(s, 1, n) \in Seq(Whole) /\ SubSeq(s, n + 1, Len(s)) \in Seq(Whole)
         /\ SubSeq(s, 1, n) \o SubSeq(s, n + 1, Len(s)) = s
<1>1. Len(s) \in Nat /\ n \in Nat
  OBVIOUS
<1> DEFINE a == SubSeq(s, 1, n)
           b == SubSeq(s, n + 1, Len(s))
<1>2. a \in Seq(Whole) /\ Len(a) = n /\ \A i \in 1..n : a[i] = s[i]
  BY <1>1
<1>3. b \in Seq(Whole) /\ Len(b) = Len(s) - n /\ \A i \in 1..(Len(s) - n) : b[i] = s[n + i]
  BY <1>1
<1> HIDE DEF a, b
<1>4. a \o b \in Seq(Whole) /\ Len(a \o b) = Len(s)
  <2>1. a \o b \in Seq(Whole) /\ Len(a \o b) = Len(a) + Len(b)
    BY <1>2, <1>3, ConcatProperties
  <2> QED
    BY <1>1, <1>2, <1>3, <2>1
<1>5. ASSUME NEW i \in 1..Len(s) PROVE (a \o b)[i] = s[i]
  <2>1. CASE i <= n
    BY <1>1, <1>2, <1>3, <2>1
  <2>2. CASE ~(i <= n)
    <3>1. i - n \in 1..(Len(s) - n) /\ n + (i - n) = i
      BY <1>1, <2>2
    <3>2. (a \o b)[i] = b[i - n]
      BY <1>1, <1>2, <1>3, <2>2
    <3> QED
      BY <1>3, <3>1, <3>2
  <2> QED
    BY <2>1, <2>2
<1>6. a \o b = s
  BY <1>4, <1>5, SeqEqual
<1> QED
  BY <1>2, <1>3, <1>6 DEF a, b

LEMMA FlushesKeeps ==
  ASSUME RuntimeInv, RT!Flushes
  PROVE  RuntimeInv'
<1>1. PICK piece \in BOOLEAN :
        LET n == IF piece THEN Len(unsaid) - 1 ELSE Len(unsaid)
        IN /\ n > 0 \/ torn = "no"
           /\ lines' = lines \o (IF torn = "dead" THEN <<RT!Garbage>> \o SubSeq(unsaid, 2, n) ELSE SubSeq(unsaid, 1, n))
           /\ unsaid' = SubSeq(unsaid, n + 1, Len(unsaid))
           /\ torn' = IF piece THEN "live" ELSE "no"
  BY DEF RT!Flushes
<1> DEFINE n == IF piece THEN Len(unsaid) - 1 ELSE Len(unsaid)
           w == IF torn = "dead" THEN <<RT!Garbage>> \o SubSeq(unsaid, 2, n) ELSE SubSeq(unsaid, 1, n)
<1>2. /\ unsaid # <<>> /\ lines' = lines \o w /\ unsaid' = SubSeq(unsaid, n + 1, Len(unsaid))
      /\ torn' \in {"live", "no"}
      /\ UNCHANGED <<rt, cursor, signals, advised, orphans, started>>
  BY <1>1 DEF RT!Flushes
<1>3. lines \in Seq(EventsSeen) /\ unsaid \in Seq(EventsSeen) /\ cursor \in 0..Len(lines)
  BY DEF RuntimeInv
<1>4. Len(unsaid) \in Nat /\ Len(unsaid) # 0 /\ n \in 0..Len(unsaid) /\ n \in Nat
  BY <1>2, <1>3
<1>5. w \in Seq(EventsSeen)
  <2>1. RT!Garbage \in EventsSeen
    BY DEF RT!Garbage, EventsSeen
  <2>2. SubSeq(unsaid, 2, n) \in Seq(EventsSeen) /\ SubSeq(unsaid, 1, n) \in Seq(EventsSeen)
    BY <1>3, <1>4
  <2> HIDE DEF n
  <2> QED
    BY <2>1, <2>2
<1>6. lines' \in Seq(EventsSeen) /\ unsaid' \in Seq(EventsSeen)
  BY <1>2, <1>3, <1>4, <1>5, SequencePieces
<1> DEFINE u == SubSeq(unsaid, n + 1, Len(unsaid))
<1>7. torn # "dead" => w \o u = unsaid
  BY <1>3, <1>4, SequencePieces
<1>8. u \in Seq(EventsSeen) /\ unsaid' = u
  BY <1>2, <1>6
<1> HIDE DEF n, w, u
<1>9. Len(lines) \in Nat /\ Len(lines') = Len(lines) + Len(w) /\ Len(w) \in Nat
  BY <1>2, <1>3, <1>5
<1>10. RT!BatchesAgree'
  <2>1. SubSeq(lines', 1, cursor) = SubSeq(lines, 1, cursor)
    BY <1>2, <1>3, <1>5
  <2> QED
    BY <1>2, <2>1 DEF RuntimeInv, RT!BatchesAgree
<1>11. torn # "dead" => Heard' = Heard
  <2>1. (lines \o w) \o u = lines \o (w \o u)
    BY <1>3, <1>5, <1>8
  <2>2. torn # "dead" => Said' = Said
    BY <1>2, <1>7, <1>8, <2>1 DEF Said
  <2> QED
    BY <2>2 DEF Heard
<1>12. "events" \notin orphans' => InFlight(rt', Heard', started', orphans')
  BY <1>2, <1>11 DEF RuntimeInv
<1>13. cursor' \in 0..Len(lines')
  BY <1>2, <1>3, <1>9
<1> QED
  BY <1>2, <1>6, <1>10, <1>12, <1>13 DEF RuntimeInv

LEMMA DiesKeeps ==
  ASSUME RuntimeInv, RT!Dies
  PROVE  RuntimeInv'
<1>1. /\ rt' = [RT!Quiescent EXCEPT !.full = rt.full] /\ unsaid' = <<>>
      /\ torn' = IF torn = "no" THEN "no" ELSE "dead"
      /\ orphans' = orphans \cup (IF rt.subs # {} THEN {"subagents"} ELSE {})
                            \cup (IF unsaid # <<>> \/ torn # "no" THEN {"events"} ELSE {})
      /\ UNCHANGED <<lines, cursor, signals, advised, started>>
  BY DEF RT!Dies
<1>2. rt \in Runtimes /\ lines \in Seq(EventsSeen)
  BY DEF RuntimeInv
<1>3. rt' \in Runtimes /\ rt'.turn = FALSE /\ rt'.tools = {} /\ rt'.subs = {} /\ unsaid' \in Seq(EventsSeen)
  <2>1. rt' = [turn |-> FALSE, tools |-> {}, subs |-> {}, full |-> rt.full] /\ rt.full \in BOOLEAN
    BY <1>1, <1>2 DEF RT!Quiescent, Runtimes
  <2>2. rt' \in Runtimes
    BY <2>1 DEF Runtimes
  <2> QED
    BY <1>1, <2>1, <2>2
<1>4. RT!BatchesAgree' /\ torn' \in {"no", "live", "dead"} /\ (torn' = "dead" => "events" \in orphans')
  BY <1>1 DEF RuntimeInv, RT!BatchesAgree
<1>5. ASSUME "events" \notin orphans' PROVE InFlight(rt', Heard', started', orphans')
  <2>1. unsaid = <<>> /\ "events" \notin orphans /\ ("subagents" \notin orphans' => rt.subs = {} /\ "subagents" \notin orphans)
    BY <1>1, <1>5
  <2>2. Heard' = Heard
    BY <1>1, <2>1 DEF Heard, Said
  <2>3. InFlight(rt, Heard, started, orphans)
    BY <2>1 DEF RuntimeInv
  <2>4. Cardinality({}) = 0 /\ Cardinality(Heard.live) \in Nat
    <3>1. IsFiniteSet(Heard.live)
      BY <2>3, FS_Subset DEF RuntimeInv, InFlight
    <3> QED
      BY <3>1, FS_EmptySet, FS_CardinalityType
  <2>5. "subagents" \notin orphans' => Cardinality(Heard.live) = 0
    BY <2>1, <2>3, <2>4 DEF InFlight
  <2>6. Heard.live \subseteq started
    BY <2>3 DEF InFlight
  <2>7. InFlight(rt', Heard, started, orphans')
    BY <1>3, <2>4, <2>5, <2>6 DEF InFlight
  <2> QED
    BY <1>1, <2>2, <2>7
<1> QED
  BY <1>1, <1>3, <1>4, <1>5 DEF RuntimeInv

LEMMA TicksKeeps ==
  ASSUME RuntimeInv, RT!Ticks
  PROVE  RuntimeInv'
<1>1. /\ cursor' = Len(lines) /\ signals' = RT!deriveSignals(SubSeq(lines, cursor + 1, Len(lines)), signals)
      /\ advised' = RT!handoffAdvice(signals')
      /\ UNCHANGED <<rt, unsaid, lines, torn, orphans, started>>
  BY DEF RT!Ticks
<1>2. lines \in Seq(EventsSeen) /\ cursor \in 0..Len(lines) /\ Len(lines) \in Nat
  BY DEF RuntimeInv
<1>3. RT!BatchesAgree'
  <2> DEFINE a == SubSeq(lines, 1, cursor)
             b == SubSeq(lines, cursor + 1, Len(lines))
  <2>1. a \in Seq(EventsSeen) /\ b \in Seq(EventsSeen) /\ a \o b = lines
    BY <1>2, SequencePieces
  <2>2. signals = RT!deriveSignals(a, RT!NoSignals)
    BY DEF RuntimeInv, RT!BatchesAgree
  <2>3. signals' = RT!deriveSignals(b, signals)
    BY <1>1
  <2>4. SubSeq(lines, 1, Len(lines)) = lines
    BY <1>2
  <2> HIDE DEF a, b
  <2>5. RT!deriveSignals(a \o b, RT!NoSignals) = RT!deriveSignals(b, RT!deriveSignals(a, RT!NoSignals))
    BY <2>1, SignalsOfBoth
  <2> QED
    BY <1>1, <2>1, <2>2, <2>3, <2>4, <2>5 DEF RT!BatchesAgree
<1>4. Heard' = Heard
  BY <1>1 DEF Heard, Said
<1>5. "events" \notin orphans' => InFlight(rt', Heard', started', orphans')
  BY <1>1, <1>4 DEF RuntimeInv
<1> QED
  BY <1>1, <1>2, <1>3, <1>5 DEF RuntimeInv

\* What the tap answers once it has read everything.
LEMMA RuntimeInvSuffices ==
  ASSUME RuntimeInv
  PROVE  RT!TapIsTrue
<1>1. Heard \in SignalsSeen /\ rt \in Runtimes /\ lines \in Seq(EventsSeen)
  BY SaidIsSeen DEF RuntimeInv
<1>2. ASSUME RT!CaughtUp PROVE signals = Heard
  <2>1. SubSeq(lines, 1, cursor) = lines /\ lines \o unsaid = lines
    BY <1>1, <1>2 DEF RT!CaughtUp
  <2> QED
    BY <2>1 DEF RuntimeInv, RT!BatchesAgree, Heard, Said
<1>3. ASSUME RT!CaughtUp, advised = "now", "events" \notin orphans
      PROVE  ~rt.turn /\ rt.tools = {} /\ rt.subs = {}
  <2>1. RT!cleanBoundary(signals)
    BY <1>3 DEF RuntimeInv, RT!handoffAdvice
  <2>2. ~Heard.turnOpen /\ Heard.pending = {} /\ Heard.live = {}
    BY <1>2, <1>3, <2>1 DEF RT!cleanBoundary
  <2>3. InFlight(rt, Heard, started, orphans)
    BY <1>3 DEF RuntimeInv
  <2>4. rt.subs = {}
    <3>1. IsFiniteSet(rt.subs) /\ Cardinality(rt.subs) <= 0
      BY <2>2, <2>3, FS_EmptySet, FS_Subset DEF RuntimeInv, InFlight
    <3>2. Cardinality(rt.subs) \in Nat
      BY <3>1, FS_CardinalityType
    <3> QED
      BY <3>1, <3>2, FS_EmptySet
  <2>5. rt.turn = FALSE /\ rt.tools = {}
    BY <1>1, <2>2, <2>3 DEF InFlight, Runtimes
  <2> QED
    BY <2>4, <2>5
<1>4. ASSUME RT!CaughtUp, lines # <<>>, lines[Len(lines)].kind = "turnCompleted", rt.subs = {}, orphans = {}
      PROVE  RT!cleanBoundary(signals)
  <2> DEFINE front == SubSeq(lines, 1, Len(lines) - 1)
             last == lines[Len(lines)]
             before == RT!deriveSignals(front, RT!NoSignals)
  <2>1. front \in Seq(EventsSeen) /\ last \in EventsSeen /\ lines = Append(front, last)
    BY <1>1, <1>4
  <2>2. last.kind = "turnCompleted" /\ Said = lines
    BY <1>1, <1>4 DEF RT!CaughtUp, Said
  <2> HIDE DEF front, last
  <2>3. Heard = RT!Folded(before, last) /\ before \in SignalsSeen
    BY <2>1, <2>2, SignalsOfMore, HeardIsSignals DEF Heard
  <2> HIDE DEF before
  <2>4. Heard = [before EXCEPT !.turnOpen = FALSE, !.pending = {}]
    BY <2>2, <2>3, FoldedIs
  <2>5. Heard.turnOpen = FALSE /\ Heard.pending = {}
    BY <2>3, <2>4 DEF SignalsSeen
  <2>6. InFlight(rt, Heard, started, orphans)
    BY <1>4 DEF RuntimeInv
  <2>7. Heard.live = {}
    <3>1. IsFiniteSet(Heard.live) /\ Cardinality(Heard.live) = 0
      BY <1>4, <2>6, FS_EmptySet, FS_Subset DEF RuntimeInv, InFlight
    <3> QED
      BY <3>1, FS_EmptySet
  <2> QED
    BY <1>2, <1>4, <2>5, <2>7 DEF RT!cleanBoundary
<1>5. RT!BatchesAgree
  BY DEF RuntimeInv
<1> QED
  BY <1>3, <1>4, <1>5 DEF RT!TapIsTrue, RT!BoundaryIsTrue

\* The tap on a runtime tells the truth, whatever the runtime does, and however it flushes and dies.
THEOREM TapIsTrueThm == FeedsSpec => []TapIsTrue
<1> DEFINE Inv == feed = "runtime" => RuntimeInv
<1>1. FeedsInit => Inv
  BY RuntimeStart DEF FeedsInit
<1>2. Inv /\ [FeedsNext]_feedsVars => Inv'
  <2> SUFFICES ASSUME Inv, [FeedsNext]_feedsVars PROVE Inv'
    OBVIOUS
  <2>1. CASE feed = "runtime" /\ RT!RuntimeNext /\ UNCHANGED feed
    BY <2>1, WorksKeeps, FlushesKeeps, DiesKeeps, TicksKeeps DEF RT!RuntimeNext
  <2>2. CASE feed # "runtime" /\ UNCHANGED feed
    BY <2>2
  <2>3. CASE feed = "runtime" /\ UNCHANGED feedsVars
    BY <2>3 DEF feedsVars, RTvars, RuntimeInv, RT!BatchesAgree, InFlight, Heard, Said
  <2> QED
    BY <2>1, <2>2, <2>3 DEF FeedsNext, feedsVars
<1>3. Inv => TapIsTrue
  BY RuntimeInvSuffices DEF TapIsTrue
<1> QED
  BY <1>1, <1>2, <1>3, PTL DEF FeedsSpec

-----------------------------------------------------------------------------
(* What a terminal hears (Taps.tla): the lines of a text, in pieces.       *)

LEMMA UpTo == ASSUME NEW n \in Nat PROVE IsFiniteSet(1 .. n) /\ Cardinality(1 .. n) = n
<1>1. 1 \in Int /\ n \in Int
  OBVIOUS
<1>2. IsFiniteSet(1 .. n) /\ Cardinality(1 .. n) = IF 1 > n THEN 0 ELSE n - 1 + 1
  BY <1>1, FS_Interval
<1> QED
  BY <1>2

\* To count a set of positions up to each of them is to number them.
LEMMA Ranks ==
  ASSUME NEW m \in Nat, NEW S \in SUBSET (1 .. m)
  PROVE  /\ Cardinality(S) \in Nat
         /\ \A i \in S : Cardinality(S \cap 1 .. i) \in 1 .. Cardinality(S)
         /\ \A i, j \in S : Cardinality(S \cap 1 .. i) = Cardinality(S \cap 1 .. j) => i = j
         /\ \A n \in 1 .. Cardinality(S) : \E i \in S : Cardinality(S \cap 1 .. i) = n
<1> DEFINE k == Cardinality(S)
           f == [i \in S |-> Cardinality(S \cap 1 .. i)]
<1>1. IsFiniteSet(S) /\ k \in Nat
  BY UpTo, FS_Subset, FS_CardinalityType
<1>2. ASSUME NEW i \in S PROVE IsFiniteSet(S \cap 1 .. i) /\ Cardinality(S \cap 1 .. i) \in 1 .. k
  <2>1. S \cap 1 .. i \in SUBSET S /\ i \in S \cap 1 .. i
    BY SMT
  <2> DEFINE c == S \cap 1 .. i
  <2>2. IsFiniteSet(c) /\ Cardinality(c) \in Nat /\ Cardinality(c) <= k
    BY <1>1, <2>1, FS_Subset, FS_CardinalityType
  <2>3. Cardinality(c) # 0
    BY <2>1, <2>2, FS_EmptySet
  <2> HIDE DEF c, k
  <2>4. Cardinality(c) \in 1 .. k
    BY <1>1, <2>2, <2>3
  <2> QED
    BY <2>2, <2>4 DEF c
<1>3. ASSUME NEW i \in S, NEW j \in S, i < j PROVE Cardinality(S \cap 1 .. i) # Cardinality(S \cap 1 .. j)
  <2>1. S \cap 1 .. i \in SUBSET (S \cap 1 .. j) /\ j \in S \cap 1 .. j /\ j \notin S \cap 1 .. i
    BY <1>3
  <2> QED
    BY <1>2, <2>1, FS_Subset
<1>4. ASSUME NEW i \in S, NEW j \in S, Cardinality(S \cap 1 .. i) = Cardinality(S \cap 1 .. j) PROVE i = j
  <2>1. i < j \/ j < i \/ i = j
    OBVIOUS
  <2> QED
    BY <1>3, <1>4, <2>1
<1> HIDE DEF k
<1>5. f \in Injection(S, 1 .. k)
  <2>1. f \in [S -> 1 .. k]
    BY <1>2
  <2>2. \A i, j \in S : f[i] = f[j] => i = j
    BY <1>4
  <2> HIDE DEF f
  <2> QED
    BY <2>1, <2>2 DEF Injection, IsInjective
<1>6. f \in Surjection(S, 1 .. k)
  <2>1. IsFiniteSet(1 .. k) /\ Cardinality(1 .. k) = k /\ Cardinality(S) = k
    BY <1>1, UpTo DEF k
  <2> HIDE DEF f
  <2> QED
    BY <1>5, <2>1, FS_Injection
<1>7. ASSUME NEW n \in 1 .. k PROVE \E i \in S : Cardinality(S \cap 1 .. i) = n
  <2>1. PICK i \in S : f[i] = n
    <3> HIDE DEF f
    <3> QED
      BY <1>6 DEF Surjection
  <2> QED
    BY <2>1
<1> QED
  BY <1>1, <1>2, <1>4, <1>7 DEF k

TapPieces == [line : Nat, by : Tapped, leg : Nat, half : {1, 2}]
\* The piece ends a line of what it is appended to.
EndsLine(s, p) ==
  /\ p.half = 2 /\ Len(s) # 0 /\ s[Len(s)].half # 2 /\ s[Len(s)].line = p.line
  /\ Len(s) = 1 \/ s[Len(s) - 1].half = 2

LEMMA TapsCount == ASSUME NEW S PROVE T!Cardinality(S) = Cardinality(S)
BY DEF T!Cardinality, Cardinality

LEMMA WholeAre ==
  ASSUME NEW s \in Seq(TapPieces)
  PROVE  /\ T!Whole(s) \in SUBSET (1..Len(s))
         /\ \A i \in 1..Len(s) : i \in T!Whole(s) <=>
              /\ i # 1 /\ s[i].half = 2 /\ s[i - 1].half # 2 /\ s[i - 1].line = s[i].line
              /\ i = 2 \/ s[i - 2].half = 2
<1>1. \A i \in 0..Len(s) : i \in T!Cuts(s) <=> i = 0 \/ s[i].half = 2
  BY DEF T!Cuts
<1> QED
  BY <1>1 DEF T!Whole

LEMMA WholeAppended ==
  ASSUME NEW s \in Seq(TapPieces), NEW p \in TapPieces
  PROVE  T!Whole(Append(s, p)) = T!Whole(s) \cup IF EndsLine(s, p) THEN {Len(s) + 1} ELSE {}
<1> DEFINE n == Len(s)
           r == Append(s, p)
<1>1. r \in Seq(TapPieces) /\ Len(r) = n + 1 /\ n \in Nat /\ r[n + 1] = p /\ \A i \in 1..n : r[i] = s[i]
  OBVIOUS
<1> HIDE DEF r, n
<1>2. ASSUME NEW i \in 1..n PROVE i \in T!Whole(r) <=> i \in T!Whole(s)
  <2>1. r[i] = s[i] /\ (i # 1 => r[i - 1] = s[i - 1]) /\ (i # 1 /\ i # 2 => r[i - 2] = s[i - 2])
    BY <1>1
  <2>2. i \in 1..Len(r) /\ i \in 1..Len(s)
    BY <1>1 DEF n
  <2> QED
    BY <1>1, <2>1, <2>2, WholeAre
<1>3. n + 1 \in T!Whole(r) <=> EndsLine(s, p)
  <2>1. n + 1 \in 1..Len(r) /\ (n # 0 => r[n] = s[n]) /\ (n # 0 /\ n # 1 => r[n - 1] = s[n - 1])
    BY <1>1
  <2>2. n + 1 - 1 = n /\ n + 1 - 2 = n - 1 /\ (n + 1 = 2 <=> n = 1) /\ (n + 1 = 1 <=> n = 0)
    BY <1>1
  <2> QED
    BY <1>1, <2>1, <2>2, WholeAre DEF EndsLine, n
<1>4. T!Whole(r) \in SUBSET (1..n + 1) /\ T!Whole(s) \in SUBSET (1..n)
  BY <1>1, WholeAre DEF n
<1> QED
  BY <1>1, <1>2, <1>3, <1>4 DEF r, n

LEMMA LinesAt ==
  ASSUME NEW s \in Seq(TapPieces)
  PROVE  /\ T!Lines(s) \in Seq(TapPieces) /\ Len(T!Lines(s)) = Cardinality(T!Whole(s)) /\ Cardinality(T!Whole(s)) \in Nat
         /\ \A i \in T!Whole(s) : /\ Cardinality(T!Whole(s) \cap 1..i) \in 1..Len(T!Lines(s))
                                  /\ T!Lines(s)[Cardinality(T!Whole(s) \cap 1..i)] = s[i]
         /\ \A k \in 1..Len(T!Lines(s)) : \E i \in T!Whole(s) : k = Cardinality(T!Whole(s) \cap 1..i) /\ T!Lines(s)[k] = s[i]
<1> DEFINE W == T!Whole(s)
           at(k) == CHOOSE i \in W : T!Cardinality({j \in W : j <= i}) = k
<1>1. W \in SUBSET (1..Len(s)) /\ Len(s) \in Nat
  BY WholeAre
<1>2. T!Lines(s) = [k \in 1..Cardinality(W) |-> s[at(k)]]
  BY TapsCount DEF T!Lines
<1> HIDE DEF W
<1>3. /\ Cardinality(W) \in Nat
      /\ \A i \in W : Cardinality(W \cap 1..i) \in 1..Cardinality(W)
      /\ \A i, j \in W : Cardinality(W \cap 1..i) = Cardinality(W \cap 1..j) => i = j
      /\ \A n \in 1..Cardinality(W) : \E i \in W : Cardinality(W \cap 1..i) = n
  BY <1>1, Ranks
<1>4. ASSUME NEW k \in 1..Cardinality(W) PROVE at(k) \in W /\ Cardinality(W \cap 1..at(k)) = k
  <2>1. ASSUME NEW i \in W PROVE T!Cardinality({j \in W : j <= i}) = Cardinality(W \cap 1..i)
    <3>0. i \in Nat /\ \A j \in W : j \in Nat /\ 1 <= j
      BY <1>1
    <3>1. {j \in W : j <= i} = W \cap 1..i
      <4>1. \A j \in W : j <= i <=> j \in 1..i
        BY <3>0
      <4> QED
        BY <4>1, Zenon
    <3> QED
      BY <3>1, TapsCount
  <2>2. \E i \in W : T!Cardinality({j \in W : j <= i}) = k
    BY <1>3, <2>1
  <2>3. at(k) \in W /\ T!Cardinality({j \in W : j <= at(k)}) = k
    BY <2>2
  <2> HIDE DEF at
  <2> QED
    BY <2>1, <2>3
<1> HIDE DEF at
<1>5. T!Lines(s) \in Seq(TapPieces) /\ Len(T!Lines(s)) = Cardinality(W) /\ \A k \in 1..Cardinality(W) : T!Lines(s)[k] = s[at(k)]
  <2>1. \A k \in 1..Cardinality(W) : s[at(k)] \in TapPieces
    <3>1. \A i \in W : s[i] \in TapPieces
      BY <1>1
    <3> QED
      BY <1>4, <3>1
  <2> DEFINE l == [k \in 1..Cardinality(W) |-> s[at(k)]]
  <2>2. l \in Seq(TapPieces) /\ Len(l) = Cardinality(W)
    BY <1>3, <2>1
  <2> QED
    BY <1>2, <2>2
<1>6. ASSUME NEW i \in W PROVE T!Lines(s)[Cardinality(W \cap 1..i)] = s[i]
  BY <1>3, <1>4, <1>5
<1>7. ASSUME NEW k \in 1..Cardinality(W) PROVE \E i \in W : k = Cardinality(W \cap 1..i) /\ T!Lines(s)[k] = s[i]
  BY <1>4, <1>5
<1> QED
  BY <1>3, <1>5, <1>6, <1>7 DEF W

\* A piece adds a line, at the end, or none.
LEMMA LinesAppended ==
  ASSUME NEW s \in Seq(TapPieces), NEW p \in TapPieces
  PROVE  T!Lines(Append(s, p)) = IF EndsLine(s, p) THEN Append(T!Lines(s), p) ELSE T!Lines(s)
<1> DEFINE n == Len(s)
           r == Append(s, p)
           W == T!Whole(s)
           V == T!Whole(r)
<1>1. r \in Seq(TapPieces) /\ Len(r) = n + 1 /\ n \in Nat /\ r[n + 1] = p /\ \A i \in 1..n : r[i] = s[i]
  OBVIOUS
<1>2. V = W \cup IF EndsLine(s, p) THEN {n + 1} ELSE {}
  BY WholeAppended
<1>3. W \in SUBSET (1..n) /\ IsFiniteSet(W)
  BY <1>1, WholeAre, UpTo, FS_Subset
<1>4. /\ T!Lines(s) \in Seq(TapPieces) /\ Len(T!Lines(s)) = Cardinality(W) /\ Cardinality(W) \in Nat
      /\ \A k \in 1..Cardinality(W) : \E i \in W : k = Cardinality(W \cap 1..i) /\ T!Lines(s)[k] = s[i]
  BY LinesAt
<1>5. /\ T!Lines(r) \in Seq(TapPieces) /\ Len(T!Lines(r)) = Cardinality(V)
      /\ \A i \in V : T!Lines(r)[Cardinality(V \cap 1..i)] = r[i]
  BY <1>1, LinesAt
<1> HIDE DEF r, W, V, n
<1>6. ASSUME NEW k \in 1..Cardinality(W) PROVE T!Lines(r)[k] = T!Lines(s)[k]
  <2>1. PICK i \in W : k = Cardinality(W \cap 1..i) /\ T!Lines(s)[k] = s[i]
    BY <1>4
  <2>2. i \in V /\ V \cap 1..i = W \cap 1..i /\ r[i] = s[i]
    BY <1>1, <1>2, <1>3, <2>1
  <2> QED
    BY <1>5, <2>1, <2>2
<1>7. CASE EndsLine(s, p)
  <2>1. V = W \cup {n + 1} /\ n + 1 \notin W
    BY <1>1, <1>2, <1>3, <1>7
  <2>2. Cardinality(V) = Cardinality(W) + 1
    BY <1>3, <2>1, FS_AddElement
  <2>3. V \cap 1..(n + 1) = V /\ n + 1 \in V
    <3>1. \A i \in V : i \in 1..(n + 1)
      BY <1>1, <1>3, <2>1
    <3> QED
      BY <2>1, <3>1
  <2>4. T!Lines(r)[Cardinality(W) + 1] = p
    BY <1>1, <1>5, <2>2, <2>3
  <2> DEFINE q == Append(T!Lines(s), p)
  <2>5. /\ q \in Seq(TapPieces) /\ Len(q) = Cardinality(W) + 1 /\ q[Cardinality(W) + 1] = p
        /\ \A k \in 1..Cardinality(W) : q[k] = T!Lines(s)[k]
    BY <1>4
  <2> HIDE DEF q
  <2>6. T!Lines(r) = q
    BY <1>4, <1>5, <1>6, <2>2, <2>4, <2>5
  <2> QED
    BY <1>7, <2>6 DEF r, q
<1>8. CASE ~EndsLine(s, p)
  <2>1. V = W
    BY <1>2, <1>8
  <2>2. T!Lines(r) = T!Lines(s)
    BY <1>4, <1>5, <1>6, <2>1
  <2> QED
    BY <1>8, <2>2 DEF r
<1> QED
  BY <1>7, <1>8

\* A text in which no line ends has no lines.
LEMMA NoLines ==
  ASSUME NEW s \in Seq(TapPieces), \A i \in 1..Len(s) : s[i].half # 2
  PROVE  T!Lines(s) = <<>>
<1>1. T!Whole(s) = {}
  BY WholeAre
<1>2. Len(T!Lines(s)) = 0 /\ T!Lines(s) \in Seq(TapPieces)
  BY <1>1, LinesAt, FS_EmptySet
<1> QED
  BY <1>2, EmptySeq
-----------------------------------------------------------------------------
(* The invariant of the taps.                                              *)
TapLegs == [agent : {"none", "codex", "agy"}, n : Nat, began : Nat, into : T!Files \cup {"none", "no thread"}]
TapFiles == [born : Nat, mtime : Nat, users : SUBSET Tapped, body : Seq(TapPieces)]
TapTails == [of : T!Files \cup {"none"}, from : Nat, off : Nat, rest : Seq(TapPieces), found : BOOLEAN]
TapTypes ==
  /\ tapClock \in Nat /\ said \in Nat /\ IsFiniteSet(prompted)
  /\ leg \in [Tapped -> TapLegs] /\ file \in [T!Files -> TapFiles] /\ tail \in [Tapped -> TapTails]
  /\ got \in [Tapped -> Seq(TapPieces)] /\ due \in [Tapped -> Seq(TapPieces)]
  /\ turns \in [Tapped -> [count : Nat, start : Nat]] /\ blind \in [Tapped -> SUBSET {"failed", "replaced"}]

\* Who writes a thread is one of its users, and a log is its terminal's own.
TapPlaces ==
  /\ tapClock # 0 /\ \A f \in T!Files : file[f].born = 0 => file[f].users = {}
  /\ \A t \in Tapped :
    /\ leg[t].into \in {"none", "no thread", t} \cup Threads /\ tail[t].of \in {"none", t} \cup Threads
    /\ leg[t].into \in Threads => t \in file[leg[t].into].users
    /\ leg[t].into = "none" \/ tail[t].of = "none" => got[t] = <<>> /\ due[t] = <<>>

\* A tail d on a body b: the piece of a line it holds begins a line, and is all that it has read and not acted on.
Begins(d) == d.off - Len(d.rest)
Hearing(d, b, g, u) ==
  /\ d.off <= Len(b) /\ Len(d.rest) <= d.off /\ d.from <= Begins(d)
  /\ Begins(d) = d.from \/ b[Begins(d)].half = 2
  /\ d.rest = SubSeq(b, Begins(d) + 1, d.off) /\ \A i \in 1..Len(d.rest) : d.rest[i].half # 2
  /\ u = g \o T!Lines(SubSeq(b, Begins(d) + 1, Len(b)))
Listens(t) == leg[t].into # "none" /\ tail[t].of # "none"
HearInv == \A t \in Tapped : Listens(t) /\ blind[t] = {} => Hearing(tail[t], file[tail[t].of].body, got[t], due[t])

\* Whatever is to be read, was read or is held is of this leg of the terminal.
OwnPiece(t, n, p) == p.by = t /\ p.leg = n
OwnPieces(t, n, d, b, g) ==
  /\ d.from <= d.off
  /\ \A i \in 1..Len(b) : i > d.from \/ Len(b) < d.off => OwnPiece(t, n, b[i])
  /\ \A i \in 1..Len(d.rest) : OwnPiece(t, n, d.rest[i])
  /\ \A i \in 1..Len(g) : OwnPiece(t, n, g[i])
OwnInv ==
  \A t \in Tapped : Listens(t) =>
    \/ tail[t].found \/ file[tail[t].of].users \ {t} # {}
    \/ OwnPieces(t, leg[t].n, tail[t], file[tail[t].of].body, got[t])
TapsInv == TapTypes /\ TapPlaces /\ HearInv /\ OwnInv /\ T!TurnsAreOwn

LEMMA TapsAre ==
  /\ TapSlack \in Nat /\ Threads \cap Tapped = {} /\ {"none", "no thread"} \cap T!Files = {}
  /\ T!Files = Threads \cup Tapped
BY FeedsAssumption DEF T!TapsAssumption, T!Files

\* A part of a sequence.
LEMMA PartIs ==
  ASSUME NEW S, NEW b \in Seq(S), NEW e \in 0..Len(b), NEW s \in 0..e
  PROVE  /\ SubSeq(b, s + 1, e) \in Seq(S) /\ Len(SubSeq(b, s + 1, e)) = e - s
         /\ \A i \in 1..(e - s) : SubSeq(b, s + 1, e)[i] = b[s + i]
<1>1. /\ s + 1 \in Int /\ e \in Int /\ \A i \in (s + 1)..e : b[i] \in S
      /\ e - (s + 1) + 1 = e - s /\ (s + 1 <= e \/ e - s = 0)
  OBVIOUS
<1>2. /\ SubSeq(b, s + 1, e) \in Seq(S) /\ Len(SubSeq(b, s + 1, e)) = IF s + 1 <= e THEN e - (s + 1) + 1 ELSE 0
      /\ \A i \in 1..(e - (s + 1) + 1) : SubSeq(b, s + 1, e)[i] = b[s + 1 + i - 1]
  BY <1>1, SubSeqProperties
<1>3. \A i \in 1..(e - s) : s + 1 + i - 1 = s + i
  OBVIOUS
<1> QED
  BY <1>1, <1>2, <1>3

LEMMA PartAppended ==
  ASSUME NEW S, NEW b \in Seq(S), NEW p \in S, NEW s \in 0..Len(b)
  PROVE  SubSeq(Append(b, p), s + 1, Len(b) + 1) = Append(SubSeq(b, s + 1, Len(b)), p)
<1> DEFINE n == Len(b)
           r == Append(b, p)
           x == SubSeq(b, s + 1, n)
           y == SubSeq(r, s + 1, n + 1)
           z == Append(x, p)
<1>1. r \in Seq(S) /\ Len(r) = n + 1 /\ n \in Nat /\ r[n + 1] = p /\ \A i \in 1..n : r[i] = b[i]
  OBVIOUS
<1>2. x \in Seq(S) /\ Len(x) = n - s /\ \A i \in 1..(n - s) : x[i] = b[s + i]
  BY PartIs
<1> HIDE DEF x, r
<1>3. y \in Seq(S) /\ Len(y) = n + 1 - s /\ \A i \in 1..(n + 1 - s) : y[i] = r[s + i]
  <2>1. n + 1 \in 0..Len(r) /\ s \in 0..(n + 1)
    BY <1>1
  <2> HIDE DEF n
  <2> QED
    BY <1>1, <2>1, PartIs
<1>4. z \in Seq(S) /\ Len(z) = n + 1 - s /\ z[n + 1 - s] = p /\ \A i \in 1..(n - s) : z[i] = x[i]
  BY <1>1, <1>2
<1> HIDE DEF y, z, n
<1>5. ASSUME NEW i \in 1..(n + 1 - s) PROVE y[i] = z[i]
  <2>1. CASE i = n + 1 - s
    <3>1. s + i = n + 1
      BY <1>1, <2>1
    <3> QED
      BY <1>1, <1>3, <1>4, <2>1, <3>1
  <2>2. CASE i # n + 1 - s
    <3>1. i \in 1..(n - s) /\ s + i \in 1..n
      BY <1>1, <2>2
    <3> QED
      BY <1>1, <1>2, <1>3, <1>4, <3>1
  <2> QED
    BY <2>1, <2>2
<1>6. y = z
  BY <1>3, <1>4, <1>5
<1> QED
  BY <1>6 DEF x, y, z, r, n

LEMMA PartsJoined ==
  ASSUME NEW S, NEW b \in Seq(S), NEW o \in 0..Len(b), NEW s \in 0..o
  PROVE  SubSeq(b, s + 1, o) \o SubSeq(b, o + 1, Len(b)) = SubSeq(b, s + 1, Len(b))
<1> DEFINE n == Len(b)
           x == SubSeq(b, s + 1, o)
           y == SubSeq(b, o + 1, n)
           z == SubSeq(b, s + 1, n)
           j == x \o y
<1>1. /\ x \in Seq(S) /\ Len(x) = o - s /\ \A i \in 1..(o - s) : x[i] = b[s + i]
      /\ y \in Seq(S) /\ Len(y) = n - o /\ \A i \in 1..(n - o) : y[i] = b[o + i]
      /\ z \in Seq(S) /\ Len(z) = n - s /\ \A i \in 1..(n - s) : z[i] = b[s + i]
      /\ n \in Nat
  <2>1. n \in 0..n /\ o \in 0..n /\ s \in 0..o /\ s \in 0..n /\ n \in Nat
    OBVIOUS
  <2> QED
    BY <2>1, PartIs
<1> HIDE DEF x, y, z, n
<1>2. /\ j \in Seq(S) /\ Len(j) = (o - s) + (n - o)
      /\ \A i \in 1..((o - s) + (n - o)) : j[i] = IF i <= o - s THEN x[i] ELSE y[i - (o - s)]
  <2>1. x \in Seq(S) /\ y \in Seq(S) /\ Len(x) = o - s /\ Len(y) = n - o
    BY <1>1
  <2>2. /\ j \in Seq(S) /\ Len(j) = Len(x) + Len(y)
        /\ \A i \in 1..(Len(x) + Len(y)) : j[i] = IF i <= Len(x) THEN x[i] ELSE y[i - Len(x)]
    BY <2>1, ConcatProperties, Zenon
  <2> HIDE DEF j
  <2> QED
    BY <2>1, <2>2, SMT
<1>3. (o - s) + (n - o) = n - s
  BY <1>1
<1> HIDE DEF j
<1>4. ASSUME NEW i \in 1..(n - s) PROVE j[i] = z[i]
  <2>1. CASE i <= o - s
    BY <1>1, <1>2, <1>3, <2>1
  <2>2. CASE ~(i <= o - s)
    <3>1. i - (o - s) \in 1..(n - o) /\ o + (i - (o - s)) = s + i
      BY <1>1, <2>2
    <3> QED
      BY <1>1, <1>2, <1>3, <2>2, <3>1
  <2> QED
    BY <2>1, <2>2
<1>5. j = z
  <2>1. j \in Seq(S) /\ z \in Seq(S) /\ Len(j) = Len(z) /\ Len(z) = n - s
    BY <1>1, <1>2, <1>3
  <2>2. \A i \in 1..Len(z) : j[i] = z[i]
    BY <1>4, <2>1
  <2> QED
    BY <2>1, <2>2, SeqEqual
<1> QED
  BY <1>5 DEF j, x, y, z, n

LEMMA PartOfPart ==
  ASSUME NEW S, NEW b \in Seq(S), NEW s \in 0..Len(b), NEW c \in 0..(Len(b) - s)
  PROVE  SubSeq(SubSeq(b, s + 1, Len(b)), c + 1, Len(b) - s) = SubSeq(b, s + c + 1, Len(b))
<1> DEFINE n == Len(b)
           x == SubSeq(b, s + 1, n)
           y == SubSeq(x, c + 1, n - s)
           z == SubSeq(b, s + c + 1, n)
<1>1. n \in 0..n /\ s \in 0..n /\ n \in Nat /\ s + c \in 0..n /\ n - s \in Nat
  OBVIOUS
<1>2. x \in Seq(S) /\ Len(x) = n - s /\ \A i \in 1..(n - s) : x[i] = b[s + i]
  BY <1>1, PartIs
<1>3. z \in Seq(S) /\ Len(z) = n - (s + c) /\ \A i \in 1..(n - (s + c)) : z[i] = b[s + c + i]
  BY <1>1, PartIs
<1> HIDE DEF x, z
<1>4. y \in Seq(S) /\ Len(y) = (n - s) - c /\ \A i \in 1..((n - s) - c) : y[i] = x[c + i]
  <2>1. n - s \in 0..Len(x) /\ c \in 0..(n - s)
    BY <1>1, <1>2
  <2> QED
    BY <1>2, <2>1, PartIs
<1> HIDE DEF y, n
<1>5. (n - s) - c = n - (s + c)
  BY <1>1
<1>6. ASSUME NEW i \in 1..(n - (s + c)) PROVE y[i] = z[i]
  <2>1. c + i \in 1..(n - s) /\ s + (c + i) = s + c + i
    BY <1>1
  <2> QED
    BY <1>2, <1>3, <1>4, <1>5, <2>1
<1>7. y = z
  BY <1>3, <1>4, <1>5, <1>6
<1> QED
  BY <1>7 DEF x, y, z, n

\* The last line of a text ends somewhere, or not at all.
LEMMA LastCutIs ==
  ASSUME NEW s \in Seq(TapPieces)
  PROVE  /\ T!LastCut(s) \in 0..Len(s) /\ (T!LastCut(s) # 0 => s[T!LastCut(s)].half = 2)
         /\ \A i \in 1..Len(s) : i > T!LastCut(s) => s[i].half # 2
<1> DEFINE C == T!Cuts(s)
           c == T!LastCut(s)
           Back == {Len(s) - i : i \in C}
<1>1. /\ C \subseteq 0..Len(s) /\ 0 \in C /\ Len(s) \in Nat
      /\ \A i \in 0..Len(s) : i \in C <=> i = 0 \/ s[i].half = 2
  BY DEF T!Cuts
<1>2. c = CHOOSE i \in C : \A j \in C : j <= i
  BY DEF T!LastCut
<1> HIDE DEF C, c
<1>3. \E i \in C : \A j \in C : j <= i
  <2>1. Back \subseteq Nat /\ Back # {}
    BY <1>1
  <2>2. PICK x \in Back : \A y \in Back : x <= y
    <3> HIDE DEF Back
    <3> QED
      BY <2>1, LeastElement
  <2>3. PICK i \in C : x = Len(s) - i
    OBVIOUS
  <2>4. \A j \in C : Len(s) - i <= Len(s) - j
    BY <2>2, <2>3
  <2> QED
    BY <1>1, <2>4
<1>4. c \in C /\ \A j \in C : j <= c
  BY <1>2, <1>3, Zenon
<1>5. c \in 0..Len(s) /\ (c # 0 => s[c].half = 2)
  BY <1>1, <1>4
<1>6. ASSUME NEW i \in 1..Len(s), i > c PROVE s[i].half # 2
  <2>1. i \in 0..Len(s) /\ i # 0 /\ ~(i <= c)
    BY <1>5, <1>6
  <2> QED
    BY <1>1, <1>4, <2>1
<1> QED
  BY <1>5, <1>6 DEF c

\* What a read takes from the file is what the tail has not acted on; what is left of it begins a line.
Takes(d, b, x, e) ==
  /\ x = d.rest \o SubSeq(b, d.off + 1, Len(b))
  /\ e.from = d.from /\ e.off = Len(b) /\ e.rest = SubSeq(x, T!LastCut(x) + 1, Len(x))

LEMMA ReadTakes ==
  ASSUME NEW d \in TapTails, NEW b \in Seq(TapPieces), NEW g \in Seq(TapPieces), NEW u, Hearing(d, b, g, u),
         NEW x, NEW e \in TapTails, Takes(d, b, x, e)
  PROVE  x \in Seq(TapPieces) /\ x = SubSeq(b, Begins(d) + 1, Len(b)) /\ Hearing(e, b, g \o T!Lines(x), u)
<1> DEFINE n == Len(b)
           B == Begins(d)
           c == T!LastCut(x)
           y == SubSeq(b, B + c + 1, n)
<1>0. n \in Nat /\ d.off \in Nat /\ d.from \in Nat /\ Len(d.rest) \in Nat /\ d.rest \in Seq(TapPieces)
  BY DEF TapTails
<1>a. d.off <= n /\ Len(d.rest) <= d.off /\ d.from <= B
  BY DEF Hearing
<1>b. B = d.off - Len(d.rest)
  BY DEF Begins
<1>1. /\ B = d.from \/ b[B].half = 2
      /\ d.rest = SubSeq(b, B + 1, d.off) /\ u = g \o T!Lines(SubSeq(b, B + 1, n))
  BY DEF Hearing
<1> HIDE DEF B, n
<1>2. B \in 0..d.off /\ d.off \in 0..n /\ B \in 0..n /\ n \in 0..n
  BY <1>0, <1>a, <1>b
<1>3. x = SubSeq(b, B + 1, n)
  BY <1>1, <1>2, PartsJoined DEF n, Takes
<1>4. x \in Seq(TapPieces) /\ Len(x) = n - B /\ \A i \in 1..(n - B) : x[i] = b[B + i]
  <2>1. n \in 0..Len(b) /\ B \in 0..n
    BY <1>2 DEF n
  <2> QED
    BY <1>3, <2>1, PartIs
<1>5. c \in 0..(n - B) /\ (c # 0 => x[c].half = 2) /\ \A i \in 1..(n - B) : i > c => x[i].half # 2
  BY <1>4, LastCutIs
<1>6. e.rest = y
  <2>1. SubSeq(SubSeq(b, B + 1, n), c + 1, n - B) = y
    BY <1>2, <1>5, PartOfPart DEF n
  <2>2. Len(x) = n - B /\ e.rest = SubSeq(x, c + 1, Len(x))
    BY <1>4 DEF Takes
  <2> HIDE DEF c, y
  <2> QED
    BY <1>3, <2>1, <2>2
<1> HIDE DEF c
<1>7. B + c \in 0..n /\ y \in Seq(TapPieces) /\ Len(y) = n - (B + c) /\ \A i \in 1..(n - (B + c)) : y[i] = b[B + c + i]
  <2>1. B + c \in 0..n
    BY <1>0, <1>2, <1>5
  <2>2. n \in 0..Len(b)
    BY <1>2 DEF n
  <2> QED
    BY <2>1, <2>2, PartIs
<1> HIDE DEF y
<1>8. \A i \in 1..Len(y) : y[i].half # 2
  <2>1. ASSUME NEW i \in 1..Len(y) PROVE y[i].half # 2
    <3>1. c + i \in 1..(n - B) /\ c + i > c /\ B + (c + i) = B + c + i
      BY <1>0, <1>2, <1>5, <1>7
    <3> QED
      BY <1>4, <1>5, <1>7, <3>1
  <2> QED
    BY <2>1
<1>9. Begins(e) = B + c
  <2>1. Begins(e) = n - Len(y) /\ Len(y) = n - (B + c)
    BY <1>6, <1>7 DEF Begins, n, Takes
  <2> HIDE DEF y
  <2> QED
    BY <1>0, <1>2, <1>5, <2>1
<1>10. B + c = d.from \/ b[B + c].half = 2
  <2>1. CASE c = 0
    <3>1. B + c = B
      BY <1>0, <1>2, <2>1
    <3> QED
      BY <1>1, <3>1
  <2>2. CASE c # 0
    <3>1. c \in 1..(n - B)
      BY <1>0, <1>2, <1>5, <2>2
    <3> QED
      BY <1>4, <1>5, <2>2, <3>1
  <2> QED
    BY <2>1, <2>2
<1>11. u = (g \o T!Lines(x)) \o T!Lines(y)
  <2>1. T!Lines(y) = <<>>
    BY <1>7, <1>8, NoLines
  <2>2. g \o T!Lines(x) \in Seq(TapPieces)
    BY <1>4, LinesAt, ConcatProperties
  <2>3. (g \o T!Lines(x)) \o <<>> = g \o T!Lines(x)
    BY <2>2, ConcatEmptySeq
  <2> QED
    BY <1>1, <1>3, <2>1, <2>3
<1>12. /\ e.off <= n /\ Len(e.rest) <= e.off /\ e.from <= B + c
       /\ e.rest = SubSeq(b, B + c + 1, e.off) /\ y = SubSeq(b, B + c + 1, n)
  <2>1. e.off = n /\ y = SubSeq(b, B + c + 1, n)
    BY DEF n, y, Takes
  <2>2. e.off <= n /\ Len(y) <= e.off /\ e.from <= B + c
    <3>1. e.from = d.from
      BY DEF Takes
    <3> HIDE DEF y
    <3> QED
      BY <1>0, <1>a, <1>2, <1>5, <1>7, <2>1, <3>1
  <2> QED
    BY <1>6, <2>1, <2>2
<1>13. Hearing(e, b, g \o T!Lines(x), u)
  <2>1. e.from = d.from
    BY DEF Takes
  <2> HIDE DEF y
  <2> QED
    BY <2>1, <1>6, <1>8, <1>9, <1>10, <1>11, <1>12 DEF Hearing, n
<1> QED
  BY <1>3, <1>4, <1>13 DEF B, n

\* A piece that is added is heard when it ends the line the tail heard the beginning of.
LEMMA HearsAdd ==
  ASSUME NEW d \in TapTails, NEW b \in Seq(TapPieces), NEW g \in Seq(TapPieces), NEW u \in Seq(TapPieces), Hearing(d, b, g, u),
         NEW p \in TapPieces, NEW ends \in BOOLEAN,
         ends => Len(b) # 0 /\ b[Len(b)].half = 1 /\ p.half = 2 /\ p.line = b[Len(b)].line, ~ends => p.half = 1
  PROVE  Hearing(d, Append(b, p), g, IF ends /\ T!Clean(d.from, b) THEN Append(u, p) ELSE u)
<1> DEFINE n == Len(b)
           B == Begins(d)
           x == SubSeq(b, B + 1, n)
           r == Append(b, p)
           v == IF ends /\ T!Clean(d.from, b) THEN Append(u, p) ELSE u
<1>0. n \in Nat /\ d.off \in Nat /\ d.from \in Nat /\ Len(d.rest) \in Nat /\ d.rest \in Seq(TapPieces)
  BY DEF TapTails
<1>a. d.off <= n /\ Len(d.rest) <= d.off /\ d.from <= B
  BY DEF Hearing
<1>b. B = d.off - Len(d.rest)
  BY DEF Begins
<1>1. /\ B = d.from \/ b[B].half = 2
      /\ d.rest = SubSeq(b, B + 1, d.off) /\ u = g \o T!Lines(x) /\ \A i \in 1..Len(d.rest) : d.rest[i].half # 2
  BY DEF Hearing
<1> HIDE DEF B, n
<1>2. B \in 0..d.off /\ d.off \in 0..n /\ B \in 0..n /\ n \in 0..n
  BY <1>0, <1>a, <1>b
<1>3. x \in Seq(TapPieces) /\ Len(x) = n - B /\ \A i \in 1..(n - B) : x[i] = b[B + i]
  <2>1. n \in 0..Len(b) /\ B \in 0..n
    BY <1>2 DEF n
  <2> QED
    BY <2>1, PartIs
<1>4. r \in Seq(TapPieces) /\ Len(r) = n + 1 /\ \A i \in 1..n : r[i] = b[i]
  BY DEF n
<1>5. SubSeq(r, B + 1, Len(r)) = Append(x, p)
  BY <1>2, <1>4, PartAppended DEF n
<1>6. SubSeq(r, B + 1, d.off) = d.rest
  <2> DEFINE y == SubSeq(r, B + 1, d.off)
             z == SubSeq(b, B + 1, d.off)
  <2>1. z \in Seq(TapPieces) /\ Len(z) = d.off - B /\ \A i \in 1..(d.off - B) : z[i] = b[B + i]
    BY <1>2, PartIs DEF n
  <2>2. y \in Seq(TapPieces) /\ Len(y) = d.off - B /\ \A i \in 1..(d.off - B) : y[i] = r[B + i]
    <3>1. d.off \in 0..Len(r)
      BY <1>0, <1>a, <1>4
    <3> HIDE DEF r
    <3> QED
      BY <1>2, <1>4, <3>1, PartIs
  <2>3. \A i \in 1..(d.off - B) : B + i \in 1..n
    BY <1>0, <1>2
  <2> HIDE DEF y, z, r
  <2>4. y = z
    <3>1. Len(y) = Len(z) /\ \A i \in 1..Len(z) : y[i] = z[i]
      BY <1>4, <2>1, <2>2, <2>3
    <3> QED
      BY <2>1, <2>2, <3>1, SeqEqual
  <2> QED
    BY <1>1, <2>4 DEF y, z, r
<1> HIDE DEF x, r
<1>7. EndsLine(x, p) <=> ends /\ T!Clean(d.from, b)
  <2>1. CASE ~ends
    BY <2>1 DEF EndsLine
  <2>2. CASE ends /\ B = n
    <3>1. Len(x) = 0
      BY <1>0, <1>3, <2>2
    <3>2. n = d.from
      <4>1. n # 0 /\ b[n].half = 1
        BY <2>2 DEF n
      <4> QED
        BY <1>1, <2>2, <4>1
    <3>3. ~T!Clean(d.from, b)
      <4>1. ~(n - 1 = d.from) /\ ~(n - 1 > d.from)
        BY <1>0, <3>2
      <4> QED
        BY <4>1 DEF T!Clean, n
    <3> QED
      BY <3>1, <3>3 DEF EndsLine
  <2>3. CASE ends /\ B # n
    <3>1. n - B \in 1..(n - B) /\ B + (n - B) = n /\ Len(x) # 0 /\ x[Len(x)] = b[n]
      <4>1. n - B \in 1..(n - B) /\ B + (n - B) = n
        BY <1>0, <1>2, <2>3
      <4> QED
        BY <1>0, <1>2, <1>3, <4>1
    <3>2. EndsLine(x, p) <=> Len(x) = 1 \/ x[Len(x) - 1].half = 2
      BY <2>3, <3>1 DEF EndsLine, n
    <3>3. CASE B = n - 1
      <4>1. Len(x) = 1
        BY <1>0, <1>2, <1>3, <3>3
      <4>2. T!Clean(d.from, b)
        <5>1. B = d.from => n - 1 = d.from
          BY <3>3
        <5>2. B # d.from => n - 1 > d.from /\ b[n - 1].half = 2
          <6>1. B # d.from => B > d.from
            BY <1>0, <1>a, <1>2
          <6> QED
            BY <1>1, <3>3, <6>1
        <5> QED
          BY <5>1, <5>2 DEF T!Clean, n
      <4> QED
        BY <2>3, <3>2, <4>1, <4>2
    <3>4. CASE B # n - 1
      <4>1. Len(x) # 1 /\ Len(x) - 1 \in 1..(n - B) /\ B + (Len(x) - 1) = n - 1 /\ n - 1 > d.from
        <5>1. Len(x) = n - B /\ n - B \in 2..n
          BY <1>0, <1>2, <1>3, <2>3, <3>4
        <5> QED
          BY <1>0, <1>a, <1>2, <5>1
      <4>2. x[Len(x) - 1] = b[n - 1]
        BY <1>3, <4>1
      <4>3. T!Clean(d.from, b) <=> b[n - 1].half = 2
        <5>1. n - 1 # d.from
          BY <1>0, <4>1
        <5> QED
          BY <4>1, <5>1 DEF T!Clean, n
      <4> QED
        BY <2>3, <3>2, <4>1, <4>2, <4>3
    <3> QED
      BY <3>3, <3>4
  <2> QED
    BY <2>1, <2>2, <2>3
<1>8. T!Lines(Append(x, p)) = IF EndsLine(x, p) THEN Append(T!Lines(x), p) ELSE T!Lines(x)
  BY <1>3, LinesAppended
<1>9. g \o T!Lines(Append(x, p)) = v
  <2>1. CASE EndsLine(x, p)
    <3>1. v = Append(g \o T!Lines(x), p)
      BY <1>1, <1>7, <2>1
    <3>2. T!Lines(x) \in Seq(TapPieces)
      BY <1>3, LinesAt
    <3>3. g \o Append(T!Lines(x), p) = Append(g \o T!Lines(x), p)
      BY <3>2
    <3> QED
      BY <1>8, <2>1, <3>1, <3>3
  <2>2. CASE ~EndsLine(x, p)
    BY <1>1, <1>7, <1>8, <2>2
  <2> QED
    BY <2>1, <2>2
<1>10. B = d.from \/ r[B].half = 2
  <2>1. B # d.from => B \in 1..n
    BY <1>0, <1>a, <1>2
  <2> QED
    BY <1>1, <1>4, <2>1
<1> HIDE DEF v
<1>11. Hearing(d, r, g, v)
  <2>1. d.off <= Len(r)
    BY <1>0, <1>a, <1>4
  <2> QED
    BY <1>a, <1>1, <1>4, <1>5, <1>6, <1>9, <1>10, <2>1 DEF Hearing, B
<1> QED
  BY <1>11 DEF r, v, n

LEMMA RewoundIs ==
  ASSUME TapTypes, NEW d \in TapTails, d.of \in T!Files
  PROVE  /\ T!Rewound(d) \in TapTails /\ T!Rewound(d).of = d.of /\ T!Rewound(d).found = d.found
         /\ d.off <= Len(file[d.of].body) => T!Rewound(d) = d
         /\ ~(d.off <= Len(file[d.of].body)) =>
              Len(file[d.of].body) < d.off /\ T!Rewound(d).from = 0 /\ T!Rewound(d).off = 0 /\ T!Rewound(d).rest = <<>>
<1> DEFINE at == T!Rewound(d)
           m == Len(file[d.of].body)
           z == [d EXCEPT !.from = 0, !.off = 0, !.rest = <<>>]
<1>0. m \in Nat /\ d.off \in Nat
  <2>1. file[d.of] \in TapFiles
    BY DEF TapTypes
  <2> QED
    BY <2>1 DEF TapFiles, TapTails
<1>1. z \in TapTails /\ z.of = d.of /\ z.found = d.found /\ z.from = 0 /\ z.off = 0 /\ z.rest = <<>>
  <2> DEFINE none == <<>>
             y == [d EXCEPT !.from = 0, !.off = 0, !.rest = none]
  <2>0. none \in Seq(TapPieces)
    BY EmptySeq
  <2> HIDE DEF none
  <2>1. y \in TapTails
    BY <2>0 DEF TapTails
  <2>2. y.of = d.of /\ y.from = 0 /\ y.off = 0 /\ y.rest = none
    BY DEF TapTails
  <2>3. y.found = d.found
    BY DEF TapTails
  <2> QED
    BY <2>1, <2>2, <2>3 DEF none
<1>2. at = IF m < d.off THEN z ELSE d
  BY DEF T!Rewound
<1> HIDE DEF z, at, m
<1>3. /\ at \in TapTails /\ at.of = d.of /\ at.found = d.found /\ (d.off <= m => at = d)
      /\ ~(d.off <= m) => m < d.off /\ at.from = 0 /\ at.off = 0 /\ at.rest = <<>>
  BY <1>0, <1>1, <1>2
<1> QED
  BY <1>3 DEF at, m

\* The lines of a text are pieces of it.
LEMMA LinesFrom ==
  ASSUME NEW s \in Seq(TapPieces)
  PROVE  T!Lines(s) \in Seq(TapPieces) /\ \A k \in 1..Len(T!Lines(s)) : \E i \in 1..Len(s) : T!Lines(s)[k] = s[i]
<1>1. T!Whole(s) \in SUBSET (1..Len(s))
  BY WholeAre
<1>2. T!Lines(s) \in Seq(TapPieces) /\ \A k \in 1..Len(T!Lines(s)) : \E i \in T!Whole(s) : T!Lines(s)[k] = s[i]
  BY LinesAt
<1> QED
  BY <1>1, <1>2

\* What a read takes from the file, whatever it had read of it.
LEMMA ReadIs ==
  ASSUME TapTypes, NEW d \in TapTails, d.of \in T!Files, NEW b, b = file[d.of].body, NEW r, r = T!Read(d)
  PROVE  /\ r.next \in TapTails /\ r.next.of = d.of /\ r.next.found = d.found /\ r.lines \in Seq(TapPieces) /\ b \in Seq(TapPieces)
         /\ \/ Len(b) <= T!Rewound(d).off /\ r.next = T!Rewound(d) /\ r.lines = <<>>
            \/ /\ T!Rewound(d).off < Len(b)
               /\ \E x \in Seq(TapPieces) : Takes(T!Rewound(d), b, x, r.next) /\ r.lines = T!Lines(x)
<1> DEFINE at == T!Rewound(d)
           x == at.rest \o SubSeq(b, at.off + 1, Len(b))
           c == T!LastCut(x)
           left == SubSeq(x, c + 1, Len(x))
           z == [at EXCEPT !.off = Len(b), !.rest = left]
<1>1. b \in Seq(TapPieces)
  <2>1. file[d.of] \in TapFiles
    BY DEF TapTypes
  <2> QED
    BY <2>1 DEF TapFiles
<1>2. at \in TapTails /\ at.of = d.of /\ at.found = d.found
  BY RewoundIs
<1>3. r = IF Len(b) <= at.off THEN [lines |-> <<>>, next |-> at] ELSE [lines |-> T!Lines(x), next |-> z]
  BY <1>2 DEF T!Read, T!Text
<1> HIDE DEF at
<1>4. CASE Len(b) <= at.off
  <2>1. r.lines = <<>> /\ r.next = at /\ <<>> \in Seq(TapPieces)
    BY <1>3, <1>4, EmptySeq
  <2> QED
    BY <1>1, <1>2, <1>4, <2>1 DEF at
<1>5. CASE ~(Len(b) <= at.off)
  <2>1. r.lines = T!Lines(x) /\ r.next = z
    <3> HIDE DEF z, x
    <3>1. r = [lines |-> T!Lines(x), next |-> z]
      BY <1>3, <1>5, Zenon
    <3> QED
      BY <3>1
  <2>2. at.off \in Nat /\ at.rest \in Seq(TapPieces) /\ Len(b) \in Nat /\ at.off < Len(b)
    BY <1>1, <1>2, <1>5 DEF TapTails
  <2>3. x \in Seq(TapPieces)
    <3>1. at.off \in 0..Len(b) /\ Len(b) \in 0..Len(b)
      BY <2>2
    <3>2. SubSeq(b, at.off + 1, Len(b)) \in Seq(TapPieces)
      BY <1>1, <3>1, PartIs
    <3> QED
      BY <2>2, <3>2, ConcatProperties, Zenon
  <2> HIDE DEF x
  <2>4. left \in Seq(TapPieces)
    <3>1. c \in 0..Len(x) /\ Len(x) \in 0..Len(x)
      BY <2>3, LastCutIs
    <3> QED
      BY <2>3, <3>1, PartIs
  <2> HIDE DEF left
  <2>5. z \in TapTails
    BY <1>2, <2>2, <2>4 DEF TapTails
  <2>6. z.of = at.of /\ z.from = at.from /\ z.off = Len(b) /\ z.rest = left
    BY <1>2 DEF TapTails
  <2>7. z.found = at.found
    BY <1>2 DEF TapTails
  <2> HIDE DEF z
  <2>8. Takes(at, b, x, z)
    BY <2>6 DEF Takes, x, left, c
  <2>9. T!Lines(x) \in Seq(TapPieces)
    BY <2>3, LinesFrom
  <2> QED
    BY <1>1, <1>2, <2>1, <2>2, <2>3, <2>5, <2>6, <2>7, <2>8, <2>9 DEF at
<1> QED
  BY <1>4, <1>5

\* A read keeps to what there is to hear.
LEMMA ReadHears ==
  ASSUME TapTypes, NEW d \in TapTails, d.of \in T!Files, NEW g \in Seq(TapPieces), NEW u,
         Hearing(d, file[d.of].body, g, u)
  PROVE  Hearing(T!Read(d).next, file[d.of].body, g \o T!Read(d).lines, u)
<1> DEFINE b == file[d.of].body
           r == T!Read(d)
<1>1. d.off <= Len(b)
  BY DEF Hearing
<1>2. T!Rewound(d) = d
  BY <1>1, RewoundIs
<1>3. /\ r.next \in TapTails /\ b \in Seq(TapPieces)
      /\ \/ Len(b) <= d.off /\ r.next = d /\ r.lines = <<>>
         \/ d.off < Len(b) /\ \E x \in Seq(TapPieces) : Takes(d, b, x, r.next) /\ r.lines = T!Lines(x)
  BY <1>2, ReadIs
<1> HIDE DEF r
<1>4. CASE r.next = d /\ r.lines = <<>>
  <2>1. g \o <<>> = g
    BY ConcatEmptySeq
  <2> QED
    BY <1>4, <2>1 DEF r
<1>5. CASE \E x \in Seq(TapPieces) : Takes(d, b, x, r.next) /\ r.lines = T!Lines(x)
  <2>1. PICK x \in Seq(TapPieces) : Takes(d, b, x, r.next) /\ r.lines = T!Lines(x)
    BY <1>5
  <2>2. Hearing(r.next, b, g \o T!Lines(x), u)
    BY <1>3, <2>1, ReadTakes
  <2> QED
    BY <2>1, <2>2 DEF r
<1> QED
  BY <1>3, <1>4, <1>5

\* A read of what is a terminal's own takes what is its own.
LEMMA ReadOwn ==
  ASSUME TapTypes, NEW d \in TapTails, d.of \in T!Files, NEW g \in Seq(TapPieces), NEW t, NEW n,
         OwnPieces(t, n, d, file[d.of].body, g)
  PROVE  /\ OwnPieces(t, n, T!Read(d).next, file[d.of].body, g \o T!Read(d).lines)
         /\ OwnPieces(t, n, T!Read(d).next, file[d.of].body, g)
<1> DEFINE b == file[d.of].body
           r == T!Read(d)
           at == T!Rewound(d)
<1>0. b \in Seq(TapPieces) /\ at \in TapTails /\ r.next \in TapTails
  BY ReadIs, RewoundIs
<1>1. OwnPieces(t, n, at, b, g)
  <2>1. CASE d.off <= Len(b)
    BY <2>1, RewoundIs
  <2>2. CASE ~(d.off <= Len(b))
    <3>1. Len(b) < d.off /\ at.from = 0 /\ at.off = 0 /\ at.rest = <<>>
      BY <2>2, RewoundIs
    <3>2. \A i \in 1..Len(b) : OwnPiece(t, n, b[i])
      BY <3>1 DEF OwnPieces
    <3> QED
      BY <3>1, <3>2 DEF OwnPieces
  <2> QED
    BY <2>1, <2>2
<1>2. CASE r.next = at /\ r.lines = <<>>
  <2>1. g \o <<>> = g
    BY ConcatEmptySeq
  <2> QED
    BY <1>1, <1>2, <2>1
<1>3. CASE at.off < Len(b) /\ \E x \in Seq(TapPieces) : Takes(at, b, x, r.next) /\ r.lines = T!Lines(x)
  <2>1. PICK x \in Seq(TapPieces) : Takes(at, b, x, r.next) /\ r.lines = T!Lines(x)
    BY <1>3
  <2> HIDE DEF at, r, b
  <2>2. at.off \in Nat /\ at.from \in Nat /\ Len(b) \in Nat /\ at.rest \in Seq(TapPieces)
    BY <1>0 DEF TapTails
  <2>3. at.from <= at.off /\ (\A i \in 1..Len(b) : i > at.from => OwnPiece(t, n, b[i]))
        /\ (\A i \in 1..Len(at.rest) : OwnPiece(t, n, at.rest[i])) /\ (\A i \in 1..Len(g) : OwnPiece(t, n, g[i]))
    BY <1>1 DEF OwnPieces
  <2> DEFINE y == SubSeq(b, at.off + 1, Len(b))
             c == T!LastCut(x)
  <2>4. y \in Seq(TapPieces) /\ Len(y) = Len(b) - at.off /\ \A i \in 1..(Len(b) - at.off) : y[i] = b[at.off + i]
    <3>1. at.off \in 0..Len(b) /\ Len(b) \in 0..Len(b)
      BY <1>3, <2>2
    <3> QED
      BY <1>0, <3>1, PartIs
  <2>5. \A i \in 1..Len(y) : OwnPiece(t, n, y[i])
    <3>1. ASSUME NEW i \in 1..Len(y) PROVE OwnPiece(t, n, y[i])
      <4>1. i \in 1..(Len(b) - at.off) /\ at.off + i \in 1..Len(b) /\ at.off + i > at.from
        <5> HIDE DEF y
        <5> QED
          BY <2>2, <2>3, <2>4
      <4> QED
        BY <2>3, <2>4, <4>1
    <3> QED
      BY <3>1
  <2> HIDE DEF y
  <2>6. x = at.rest \o y
    BY <2>1 DEF Takes, y
  <2>7. /\ Len(x) = Len(at.rest) + Len(y)
        /\ \A i \in 1..(Len(at.rest) + Len(y)) : x[i] = IF i <= Len(at.rest) THEN at.rest[i] ELSE y[i - Len(at.rest)]
    BY <2>2, <2>4, <2>6, ConcatProperties, Zenon
  <2>8. \A i \in 1..Len(x) : OwnPiece(t, n, x[i])
    <3>1. ASSUME NEW i \in 1..Len(x) PROVE OwnPiece(t, n, x[i])
      <4>1. Len(at.rest) \in Nat /\ Len(y) \in Nat
        BY <2>2, <2>4
      <4>2. CASE i <= Len(at.rest)
        <5>1. x[i] = at.rest[i] /\ i \in 1..Len(at.rest)
          BY <2>7, <4>1, <4>2
        <5> QED
          BY <2>3, <5>1
      <4>3. CASE ~(i <= Len(at.rest))
        <5>1. x[i] = y[i - Len(at.rest)] /\ i - Len(at.rest) \in 1..Len(y)
          BY <2>7, <4>1, <4>3
        <5> QED
          BY <2>5, <5>1
      <4> QED
        BY <4>2, <4>3
    <3> QED
      BY <3>1
  <2>9. r.lines \in Seq(TapPieces) /\ \A k \in 1..Len(r.lines) : OwnPiece(t, n, r.lines[k])
    BY <2>1, <2>8, LinesFrom
  <2>10. c \in 0..Len(x) /\ Len(x) \in 0..Len(x)
    BY LastCutIs
  <2>11. r.next.from = at.from /\ r.next.off = Len(b) /\ r.next.rest = SubSeq(x, c + 1, Len(x))
    BY <2>1 DEF Takes
  <2> HIDE DEF c
  <2>12. Len(r.next.rest) = Len(x) - c /\ \A i \in 1..(Len(x) - c) : r.next.rest[i] = x[c + i]
    BY <2>10, <2>11, PartIs
  <2>13. \A i \in 1..Len(r.next.rest) : OwnPiece(t, n, r.next.rest[i])
    <3>1. ASSUME NEW i \in 1..Len(r.next.rest) PROVE OwnPiece(t, n, r.next.rest[i])
      <4>1. i \in 1..(Len(x) - c) /\ c + i \in 1..Len(x)
        BY <2>10, <2>12
      <4> QED
        BY <2>8, <2>12, <4>1
    <3> QED
      BY <3>1
  <2> DEFINE h == g \o r.lines
  <2>14. \A i \in 1..Len(h) : OwnPiece(t, n, h[i])
    <3>1. /\ Len(h) = Len(g) + Len(r.lines)
          /\ \A i \in 1..(Len(g) + Len(r.lines)) : h[i] = IF i <= Len(g) THEN g[i] ELSE r.lines[i - Len(g)]
      BY <2>9, ConcatProperties, Zenon
    <3> HIDE DEF h
    <3>2. ASSUME NEW i \in 1..Len(h) PROVE OwnPiece(t, n, h[i])
      <4>1. Len(g) \in Nat /\ Len(r.lines) \in Nat
        BY <2>9
      <4>2. CASE i <= Len(g)
        <5>1. h[i] = g[i] /\ i \in 1..Len(g)
          BY <3>1, <4>1, <4>2
        <5> QED
          BY <2>3, <5>1
      <4>3. CASE ~(i <= Len(g))
        <5>1. h[i] = r.lines[i - Len(g)] /\ i - Len(g) \in 1..Len(r.lines)
          BY <3>1, <4>1, <4>3
        <5> QED
          BY <2>9, <5>1
      <4> QED
        BY <4>2, <4>3
    <3> QED
      BY <3>2
  <2> HIDE DEF h
  <2>15. r.next.from <= r.next.off /\ \A i \in 1..Len(b) : i > r.next.from \/ Len(b) < r.next.off => OwnPiece(t, n, b[i])
    <3>1. r.next.from <= r.next.off /\ ~(Len(b) < r.next.off)
      BY <1>3, <2>2, <2>3, <2>11
    <3> QED
      BY <2>3, <2>11, <3>1
  <2>16. OwnPieces(t, n, r.next, b, h) /\ OwnPieces(t, n, r.next, b, g)
    BY <2>3, <2>13, <2>14, <2>15 DEF OwnPieces
  <2> QED
    BY <2>16 DEF h, r, b
<1> QED
  BY <1>2, <1>3, ReadIs

LEMMA FreshHears ==
  ASSUME NEW d \in TapTails, d.from = 0, d.off = 0, d.rest = <<>>, NEW b \in Seq(TapPieces)
  PROVE  Hearing(d, b, <<>>, T!Lines(b))
<1>1. SubSeq(b, 1, Len(b)) = b
  <2>1. Len(b) \in 0..Len(b) /\ 0 \in 0..Len(b) /\ 0 + 1 = 1 /\ Len(b) - 0 = Len(b)
    OBVIOUS
  <2>2. SubSeq(b, 1, Len(b)) \in Seq(TapPieces) /\ Len(SubSeq(b, 1, Len(b))) = Len(b) /\ \A i \in 1..Len(b) : SubSeq(b, 1, Len(b))[i] = b[0 + i]
    BY <2>1, PartIs
  <2> QED
    BY <2>2, SeqEqual
<1>2. Len(d.rest) = 0 /\ Begins(d) = 0
  <2>1. Len(d.rest) = 0
    OBVIOUS
  <2> DEFINE m == Len(d.rest)
  <2>2. Begins(d) = 0 - m
    BY Zenon DEF Begins
  <2>3. m = 0
    BY <2>1
  <2> HIDE DEF m
  <2>4. Begins(d) = 0
    BY <2>2, <2>3
  <2> QED
    BY <2>1, <2>4
<1>3. <<>> \o T!Lines(b) = T!Lines(b)
  BY LinesFrom, ConcatEmptySeq
<1>4. SubSeq(b, 1, 0) = <<>>
  BY SubSeqEmpty
<1> QED
  <2>1. d.rest = SubSeq(b, Begins(d) + 1, d.off) /\ T!Lines(b) = <<>> \o T!Lines(SubSeq(b, Begins(d) + 1, Len(b)))
    <3>1. Begins(d) + 1 = 1
      BY <1>2
    <3> QED
      BY <1>1, <1>3, <1>4, <3>1, Zenon
  <2>2. d.off <= Len(b) /\ Len(d.rest) <= d.off /\ d.from <= Begins(d) /\ Begins(d) = d.from
    BY <1>2
  <2> QED
    BY <1>2, <2>1, <2>2 DEF Hearing

\* A tail at the end of its file, of which nothing was heard yet.
LEMMA EndHears ==
  ASSUME NEW d \in TapTails, NEW b \in Seq(TapPieces), d.from = Len(b), d.off = Len(b), d.rest = <<>>
  PROVE  Hearing(d, b, <<>>, <<>>) /\ \A t, n : OwnPieces(t, n, d, b, <<>>)
<1> DEFINE m == Len(b)
<1>1. m \in Nat /\ Begins(d) = m /\ Len(d.rest) = 0
  BY DEF Begins
<1>2. SubSeq(b, m + 1, m) = <<>>
  BY <1>1, SubSeqEmpty
<1>3. T!Lines(<<>>) = <<>> /\ <<>> \o <<>> = <<>>
  <2>1. <<>> \in Seq(TapPieces) /\ Len(<<>>) = 0
    BY EmptySeq
  <2>2. T!Lines(<<>>) = <<>>
    <3> DEFINE z == <<>>
    <3>1. z \in Seq(TapPieces) /\ Len(z) = 0
      BY <2>1
    <3> HIDE DEF z
    <3>2. T!Lines(z) = <<>>
      <4>1. \A i \in 1..Len(z) : z[i].half # 2
        BY <3>1
      <4> QED
        BY <3>1, <4>1, NoLines
    <3> QED
      BY <3>2 DEF z
  <2> QED
    BY <2>1, <2>2, ConcatEmptySeq
<1>4. Hearing(d, b, <<>>, <<>>)
  <2>1. d.rest = SubSeq(b, Begins(d) + 1, d.off) /\ <<>> = <<>> \o T!Lines(SubSeq(b, Begins(d) + 1, Len(b)))
    BY <1>1, <1>2, <1>3
  <2> HIDE DEF m
  <2>2. d.off <= Len(b) /\ Len(d.rest) <= d.off /\ d.from <= Begins(d) /\ Begins(d) = d.from
    BY <1>1 DEF m
  <2> QED
    BY <1>1, <2>1, <2>2 DEF Hearing
<1>5. ASSUME NEW t, NEW n PROVE OwnPieces(t, n, d, b, <<>>)
  BY <1>1 DEF OwnPieces
<1> QED
  BY <1>4, <1>5

LEMMA TapsStart == T!TapsInit => TapsInv
<1> SUFFICES ASSUME T!TapsInit PROVE TapsInv
  OBVIOUS
<1>1. \A t \in Tapped : leg[t] = T!NoLeg /\ tail[t] = T!NoTail /\ got[t] = <<>> /\ due[t] = <<>> /\ blind[t] = {}
  BY DEF T!TapsInit
<1>2. TapTypes
  <2>1. T!NoLeg \in TapLegs
    BY DEF T!NoLeg, TapLegs
  <2>2. T!NoTail \in TapTails
    BY EmptySeq DEF T!NoTail, TapTails
  <2>3. [born |-> 0, mtime |-> 0, users |-> {}, body |-> <<>>] \in TapFiles
    BY EmptySeq DEF TapFiles
  <2>4. IsFiniteSet(prompted)
    BY FS_EmptySet DEF T!TapsInit
  <2> QED
    BY <2>1, <2>2, <2>3, <2>4, EmptySeq DEF T!TapsInit, TapTypes
<1>3. TapPlaces
  <2>1. \A t \in Tapped : leg[t].into = "none" /\ tail[t].of = "none"
    BY <1>1 DEF T!NoLeg, T!NoTail
  <2>2. tapClock # 0 /\ \A f \in T!Files : file[f].born = 0 => file[f].users = {}
    BY DEF T!TapsInit
  <2>3. "none" \notin Threads
    BY TapsAre
  <2> QED
    BY <1>1, <2>1, <2>2, <2>3 DEF TapPlaces
<1>4. HearInv /\ OwnInv /\ T!TurnsAreOwn
  BY <1>1 DEF HearInv, OwnInv, T!TurnsAreOwn, Listens, T!NoLeg
<1> QED
  BY <1>2, <1>3, <1>4 DEF TapsInv

\* The turns of a leg stay its own while what was prompted does not shrink.
LEMMA TurnsStay ==
  ASSUME TapTypes, T!TurnsAreOwn, NEW t \in Tapped, leg[t].into # "none",
         leg'[t].agent = leg[t].agent, leg'[t].n = leg[t].n, leg'[t].began = leg[t].began, turns'[t] = turns[t],
         prompted \subseteq prompted', IsFiniteSet(prompted')
  PROVE  turns'[t].count - turns'[t].start \in 0..T!Cardinality(T!Own(t) \cup T!Near(t))'
<1> DEFINE A == T!Own(t) \cup T!Near(t)
           B == (T!Own(t) \cup T!Near(t))'
<1>1. A \subseteq B
  BY DEF T!Own, T!Near
<1>2. IsFiniteSet(B)
  <2>1. B \subseteq prompted'
    BY DEF T!Own, T!Near
  <2> QED
    BY <2>1, FS_Subset
<1>3. turns[t].count - turns[t].start \in 0..Cardinality(A) /\ T!Cardinality(B) = Cardinality(B)
  BY TapsCount DEF T!TurnsAreOwn
<1> HIDE DEF A, B
<1>4. Cardinality(A) \in Nat /\ Cardinality(B) \in Nat /\ Cardinality(A) <= Cardinality(B)
  BY <1>1, <1>2, FS_Subset, FS_CardinalityType
<1>5. turns[t].count \in Nat /\ turns[t].start \in Nat
  BY DEF TapTypes
<1>6. turns'[t].count - turns'[t].start \in 0..Cardinality(B)
  BY <1>3, <1>4, <1>5
<1> QED
  BY <1>3, <1>6 DEF B

\* The record of a terminal, the file its poll reads.
LEMMA TapsTyped ==
  ASSUME TapTypes, TapPlaces, NEW t \in Tapped
  PROVE  /\ leg[t] \in TapLegs /\ tail[t] \in TapTails /\ got[t] \in Seq(TapPieces) /\ due[t] \in Seq(TapPieces)
         /\ turns[t].count \in Nat /\ turns[t].start \in Nat /\ t \in T!Files /\ Threads \subseteq T!Files
         /\ \A f \in T!Files : file[f] \in TapFiles /\ file[f].body \in Seq(TapPieces)
         /\ tail[t].of # "none" => tail[t].of \in T!Files
<1>1. leg[t] \in TapLegs /\ tail[t] \in TapTails /\ got[t] \in Seq(TapPieces) /\ due[t] \in Seq(TapPieces)
      /\ turns[t] \in [count : Nat, start : Nat] /\ \A f \in T!Files : file[f] \in TapFiles
  BY DEF TapTypes
<1>2. tail[t].of # "none" => tail[t].of \in T!Files
  BY <1>1 DEF TapTails
<1> QED
  BY <1>1, <1>2 DEF TapFiles, T!Files

LEMMA TapsStarts ==
  ASSUME TapsInv, NEW t \in Tapped, NEW cli \in {"codex", "agy"}, NEW continues \in BOOLEAN, T!Starts(t, cli, continues)
  PROVE  TapsInv'
<1> DEFINE l == [agent |-> cli, n |-> leg[t].n + 1, began |-> tapClock, into |-> IF cli = "codex" THEN "no thread" ELSE T!Log(t)]
           at(f) == [T!NoTail EXCEPT !.of = f, !.from = T!From(f), !.off = T!From(f)]
           e == IF cli = "codex" THEN IF continues THEN at(tail[t].of) ELSE T!NoTail ELSE at(T!Log(t))
           c == turns[t].count
           w == [turns[t] EXCEPT !.start = c]
<1> USE DEF TapsInv
<1>1. leg[t].into = "none" /\ UNCHANGED <<tapClock, file, prompted, got, due, said, faults, blind>>
      /\ (cli = "codex" /\ continues => tail[t].of \in Threads)
  BY DEF T!Starts
<1>2. got[t] = <<>> /\ due[t] = <<>> /\ tail[t].of \in {"none", t} \cup Threads
  BY <1>1 DEF TapPlaces
<1>3. ASSUME NEW f \in T!Files
      PROVE  /\ at(f) \in TapTails /\ at(f).of = f /\ at(f).from = Len(file[f].body) /\ at(f).off = Len(file[f].body)
             /\ at(f).rest = <<>>
  <2> DEFINE none == <<>>
             s == Len(file[f].body)
  <2>1. none \in Seq(TapPieces) /\ s \in Nat
    BY TapsTyped, EmptySeq
  <2> DEFINE N == T!NoTail
             z == [N EXCEPT !.of = f, !.from = s, !.off = s]
  <2>2. at(f) = z
    BY DEF T!From
  <2>3. N \in TapTails /\ N.rest = none
    BY <2>1 DEF T!NoTail, TapTails
  <2> HIDE DEF none, s, N
  <2>4. z \in TapTails
    BY <2>1, <2>3 DEF TapTails
  <2>5. z.of = f /\ z.from = s /\ z.off = s /\ z.rest = none
    BY <2>3 DEF TapTails
  <2> HIDE DEF z, at
  <2> QED
    BY <2>2, <2>4, <2>5 DEF none, s
<1>4. T!NoTail \in TapTails /\ T!NoTail.of = "none"
  BY EmptySeq DEF T!NoTail, TapTails
<1>5. e = T!NoTail \/ \E f \in {t} \cup Threads : e = at(f)
  BY <1>1 DEF T!Log
<1>6. l \in TapLegs /\ l.into \in {"no thread", t}
  <2>0. leg[t].n \in Nat
    BY TapsTyped DEF TapLegs
  <2>1. leg[t].n + 1 \in Nat /\ tapClock \in Nat /\ t \in T!Files
    BY <2>0, TapsTyped DEF TapTypes
  <2> QED
    BY <2>1 DEF TapLegs, T!Log
<1>7. w.count = c /\ w.start = c /\ w \in [count : Nat, start : Nat] /\ c \in Nat
  <2>1. c \in Nat /\ turns[t] \in [count : Nat, start : Nat]
    BY TapsTyped DEF TapTypes
  <2> DEFINE q == turns[t]
  <2>2. w = [q EXCEPT !.start = c]
    OBVIOUS
  <2>3. q.count = c
    OBVIOUS
  <2> HIDE DEF c, q, w
  <2> QED
    BY <2>1, <2>2, <2>3 DEF q
<1>8. leg' = [leg EXCEPT ![t] = l] /\ tail' = [tail EXCEPT ![t] = e] /\ turns' = [turns EXCEPT ![t] = w]
  BY DEF T!Starts
<1> HIDE DEF l, e, w, c, at
<1>9. /\ e \in TapTails /\ e.of \in {"none", t} \cup Threads
      /\ e.of # "none" => e.of \in T!Files /\ e = at(e.of)
  BY <1>3, <1>4, <1>5, TapsTyped
<1>10. leg'[t] = l /\ tail'[t] = e /\ turns'[t] = w
       /\ \A r \in Tapped : r # t => leg'[r] = leg[r] /\ tail'[r] = tail[r] /\ turns'[r] = turns[r]
  BY <1>8 DEF TapTypes
<1>11. TapTypes'
  <2>1. leg' \in [Tapped -> TapLegs] /\ tail' \in [Tapped -> TapTails] /\ turns' \in [Tapped -> [count : Nat, start : Nat]]
    BY <1>6, <1>7, <1>8, <1>9 DEF TapTypes
  <2> QED
    BY <1>1, <2>1 DEF TapTypes
<1>12. TapPlaces'
  <2>1. t \notin Threads /\ "no thread" \notin Threads
    BY TapsAre DEF T!Files
  <2>2. tapClock' # 0 /\ \A f \in T!Files : file'[f].born = 0 => file'[f].users = {}
    BY <1>1 DEF TapPlaces
  <2>3. ASSUME NEW r \in Tapped
        PROVE  /\ leg'[r].into \in {"none", "no thread", r} \cup Threads /\ tail'[r].of \in {"none", r} \cup Threads
               /\ leg'[r].into \in Threads => r \in file'[leg'[r].into].users
               /\ leg'[r].into = "none" \/ tail'[r].of = "none" => got'[r] = <<>> /\ due'[r] = <<>>
    <3>1. CASE r = t
      BY <1>1, <1>2, <1>6, <1>9, <1>10, <2>1, <3>1
    <3>2. CASE r # t
      BY <1>1, <1>10, <3>2 DEF TapPlaces
    <3> QED
      BY <3>1, <3>2
  <2> QED
    BY <2>2, <2>3 DEF TapPlaces
<1>13. HearInv'
  <2>1. e.of # "none" => Hearing(e, file[e.of].body, <<>>, <<>>)
    BY <1>3, <1>9, TapsTyped, EndHears
  <2> QED
    BY <1>1, <1>2, <1>10, <2>1 DEF HearInv, Listens
<1>14. OwnInv'
  <2>1. e.of # "none" => OwnPieces(t, l.n, e, file[e.of].body, <<>>)
    BY <1>3, <1>9, TapsTyped, EndHears
  <2> QED
    BY <1>1, <1>2, <1>10, <2>1 DEF OwnInv, Listens
<1>15. T!TurnsAreOwn'
  <2>1. ASSUME NEW r \in Tapped, leg'[r].into # "none"
        PROVE  turns'[r].count - turns'[r].start \in 0..T!Cardinality(T!Own(r) \cup T!Near(r))'
    <3>1. CASE r = t
      <4>1. (T!Own(t) \cup T!Near(t))' \subseteq prompted' /\ IsFiniteSet(prompted')
        BY <1>1 DEF T!Own, T!Near, TapTypes
      <4>2. Cardinality((T!Own(t) \cup T!Near(t))') \in Nat
        BY <4>1, FS_Subset, FS_CardinalityType
      <4>3. turns'[t].count - turns'[t].start = 0
        BY <1>7, <1>10
      <4> QED
        BY <3>1, <4>2, <4>3, TapsCount
    <3>2. CASE r # t
      <4>1. leg'[r] = leg[r] /\ turns'[r] = turns[r] /\ prompted' = prompted /\ IsFiniteSet(prompted')
        BY <1>1, <1>10, <3>2 DEF TapTypes
      <4> QED
        BY <2>1, <4>1, TurnsStay
    <3> QED
      BY <3>1, <3>2
  <2> QED
    BY <2>1 DEF T!TurnsAreOwn
<1> QED
  BY <1>11, <1>12, <1>13, <1>14, <1>15

\* What keeps the legs, what they prompted and their turns keeps the turns.
LEMMA TurnsKept ==
  ASSUME TapTypes, T!TurnsAreOwn, turns' = turns, prompted \subseteq prompted', IsFiniteSet(prompted'),
         \A t \in Tapped : /\ leg'[t].agent = leg[t].agent /\ leg'[t].n = leg[t].n /\ leg'[t].began = leg[t].began
                           /\ leg'[t].into # "none" => leg[t].into # "none"
  PROVE  T!TurnsAreOwn'
<1>1. ASSUME NEW t \in Tapped, leg'[t].into # "none"
      PROVE  turns'[t].count - turns'[t].start \in 0..T!Cardinality(T!Own(t) \cup T!Near(t))'
  <2>1. leg[t].into # "none" /\ leg'[t].agent = leg[t].agent /\ leg'[t].n = leg[t].n /\ leg'[t].began = leg[t].began
        /\ turns'[t] = turns[t]
    BY <1>1
  <2> QED
    BY <2>1, TurnsStay
<1> QED
  BY <1>1 DEF T!TurnsAreOwn

\* A leg that turns to another file, or to none.
LEMMA LegTurned ==
  ASSUME TapTypes, NEW t \in Tapped, NEW f \in T!Files \cup {"none", "no thread"}, leg' = [leg EXCEPT ![t].into = f]
  PROVE  /\ leg' \in [Tapped -> TapLegs] /\ leg'[t].into = f /\ \A r \in Tapped : r # t => leg'[r] = leg[r]
         /\ \A r \in Tapped : leg'[r].agent = leg[r].agent /\ leg'[r].n = leg[r].n /\ leg'[r].began = leg[r].began
<1> DEFINE q == leg[t]
           l == [q EXCEPT !.into = f]
<1>1. q \in TapLegs /\ leg' = [leg EXCEPT ![t] = l] /\ leg \in [Tapped -> TapLegs]
  BY DEF TapTypes
<1> HIDE DEF q
<1>2. l \in TapLegs
  BY <1>1 DEF TapLegs
<1>3. l.into = f /\ l.agent = q.agent /\ l.n = q.n /\ l.began = q.began
  BY <1>1 DEF TapLegs
<1> HIDE DEF l
<1> QED
  BY <1>1, <1>2, <1>3 DEF q

LEMMA TapsExits == ASSUME TapsInv, NEW t \in Tapped, T!Exits(t) PROVE TapsInv'
<1> USE DEF TapsInv
<1>1. /\ leg' = [leg EXCEPT ![t].into = "none"] /\ got' = [got EXCEPT ![t] = <<>>] /\ due' = [due EXCEPT ![t] = <<>>]
      /\ blind' = [blind EXCEPT ![t] = {}] /\ UNCHANGED <<tapClock, file, tail, prompted, turns, said, faults>>
  BY DEF T!Exits
<1>2. /\ leg' \in [Tapped -> TapLegs] /\ leg'[t].into = "none" /\ \A r \in Tapped : r # t => leg'[r] = leg[r]
      /\ \A r \in Tapped : leg'[r].agent = leg[r].agent /\ leg'[r].n = leg[r].n /\ leg'[r].began = leg[r].began
  BY <1>1, LegTurned
<1>3. /\ got'[t] = <<>> /\ due'[t] = <<>> /\ \A r \in Tapped : r # t => got'[r] = got[r] /\ due'[r] = due[r] /\ blind'[r] = blind[r]
  BY <1>1 DEF TapTypes
<1>4. TapTypes'
  <2>1. got' \in [Tapped -> Seq(TapPieces)] /\ due' \in [Tapped -> Seq(TapPieces)] /\ blind' \in [Tapped -> SUBSET {"failed", "replaced"}]
    BY <1>1, EmptySeq DEF TapTypes
  <2> QED
    BY <1>1, <1>2, <2>1 DEF TapTypes
<1>5. TapPlaces'
  <2>1. "none" \notin Threads
    BY TapsAre
  <2> QED
    BY <1>1, <1>2, <1>3, <2>1 DEF TapPlaces
<1>6. HearInv'
  BY <1>1, <1>2, <1>3 DEF HearInv, Listens
<1>7. OwnInv'
  BY <1>1, <1>2, <1>3 DEF OwnInv, Listens
<1>8. T!TurnsAreOwn'
  <2>1. turns' = turns /\ prompted' = prompted /\ IsFiniteSet(prompted')
        /\ \A r \in Tapped : leg'[r].into # "none" => leg[r].into # "none"
    BY <1>1, <1>2 DEF TapTypes
  <2> QED
    BY <1>2, <2>1, TurnsKept
<1> QED
  BY <1>4, <1>5, <1>6, <1>7, <1>8

LEMMA TapsOpens == ASSUME TapsInv, NEW t \in Tapped, NEW f \in Threads, T!Opens(t, f) PROVE TapsInv'
<1> USE DEF TapsInv
<1> DEFINE q == file[f]
           users == IF q.born = 0 THEN {t} ELSE q.users \cup {t}
           p == IF q.born = 0 THEN [q EXCEPT !.born = tapClock, !.mtime = tapClock, !.users = users] ELSE [q EXCEPT !.users = users]
<1>1. leg[t].into # "none" /\ leg' = [leg EXCEPT ![t].into = f]
      /\ UNCHANGED <<tapClock, tail, prompted, turns, got, due, said, faults, blind>>
  BY DEF T!Opens
<1>2. /\ leg' \in [Tapped -> TapLegs] /\ leg'[t].into = f /\ \A r \in Tapped : r # t => leg'[r] = leg[r]
      /\ \A r \in Tapped : leg'[r].agent = leg[r].agent /\ leg'[r].n = leg[r].n /\ leg'[r].began = leg[r].began
  BY <1>1, LegTurned DEF T!Files
<1>3. f \in T!Files /\ q \in TapFiles /\ tapClock \in Nat /\ tapClock # 0 /\ (q.born = 0 => q.users = {})
  BY DEF TapTypes, TapPlaces, T!Files
<1>4. file' = [file EXCEPT ![f] = p]
  BY DEF T!Opens
<1>5. users \in SUBSET Tapped /\ users = q.users \cup {t}
  BY <1>3 DEF TapFiles
<1> HIDE DEF q, users
<1>6. p \in TapFiles
  BY <1>3, <1>5 DEF TapFiles
<1>7. p.users = users /\ p.body = q.body /\ p.born # 0
  BY <1>3 DEF TapFiles
<1> HIDE DEF p
<1>8. file' \in [T!Files -> TapFiles] /\ file'[f] = p /\ \A g \in T!Files : g # f => file'[g] = file[g]
  BY <1>3, <1>4, <1>6 DEF TapTypes
<1>9. \A g \in T!Files : file'[g].body = file[g].body /\ file[g].users \subseteq file'[g].users
  BY <1>5, <1>7, <1>8 DEF q
<1>10. TapTypes'
  BY <1>1, <1>2, <1>8 DEF TapTypes
<1>11. \A r \in Tapped : tail[r].of # "none" => tail[r].of \in T!Files
  BY TapsTyped
<1>12. TapPlaces'
  <2>1. tapClock' # 0 /\ \A g \in T!Files : file'[g].born = 0 => file'[g].users = {}
    BY <1>1, <1>7, <1>8 DEF TapPlaces
  <2>2. f # "none" /\ Threads \subseteq T!Files
    BY TapsAre
  <2>3. ASSUME NEW r \in Tapped
        PROVE  /\ leg'[r].into \in {"none", "no thread", r} \cup Threads /\ tail'[r].of \in {"none", r} \cup Threads
               /\ leg'[r].into \in Threads => r \in file'[leg'[r].into].users
               /\ leg'[r].into = "none" \/ tail'[r].of = "none" => got'[r] = <<>> /\ due'[r] = <<>>
    <3>1. CASE r = t
      BY <1>1, <1>2, <1>5, <1>7, <1>8, <2>2, <3>1 DEF TapPlaces
    <3>2. CASE r # t
      BY <1>1, <1>2, <1>9, <2>2, <3>2 DEF TapPlaces
    <3> QED
      BY <3>1, <3>2
  <2> QED
    BY <2>1, <2>3 DEF TapPlaces
<1>13. ASSUME NEW r \in Tapped PROVE Listens(r)' => Listens(r)
  BY <1>1, <1>2 DEF Listens
<1>14. HearInv'
  <2>1. ASSUME NEW r \in Tapped, Listens(r)', blind'[r] = {}
        PROVE  Hearing(tail'[r], file'[tail'[r].of].body, got'[r], due'[r])
    <3>1. Listens(r) /\ tail[r].of \in T!Files
      BY <1>11, <1>13, <2>1 DEF Listens
    <3> QED
      BY <1>1, <1>9, <2>1, <3>1 DEF HearInv
  <2> QED
    BY <2>1 DEF HearInv, Listens
<1>15. OwnInv'
  <2>1. ASSUME NEW r \in Tapped, Listens(r)'
        PROVE  \/ tail'[r].found \/ file'[tail'[r].of].users \ {r} # {}
               \/ OwnPieces(r, leg'[r].n, tail'[r], file'[tail'[r].of].body, got'[r])
    <3>1. Listens(r) /\ tail[r].of \in T!Files
      BY <1>11, <1>13, <2>1 DEF Listens
    <3> QED
      BY <1>1, <1>2, <1>9, <3>1 DEF OwnInv
  <2> QED
    BY <2>1 DEF OwnInv, Listens
<1>16. T!TurnsAreOwn'
  <2>1. turns' = turns /\ prompted' = prompted /\ IsFiniteSet(prompted')
        /\ \A r \in Tapped : leg'[r].into # "none" => leg[r].into # "none"
    BY <1>1, <1>2 DEF TapTypes
  <2> QED
    BY <1>2, <2>1, TurnsKept
<1> QED
  BY <1>10, <1>12, <1>14, <1>15, <1>16

\* What leaves the legs, the files, the tails and what was heard leaves the rest of the invariant.
LEMMA TapsRest ==
  ASSUME TapsInv, UNCHANGED <<leg, file, tail, got, due, blind>>, tapClock' \in Nat \ {0}, said' \in Nat,
         IsFiniteSet(prompted'), turns' \in [Tapped -> [count : Nat, start : Nat]]
  PROVE  TapTypes' /\ TapPlaces' /\ HearInv' /\ OwnInv'
<1>1. TapTypes'
  BY DEF TapsInv, TapTypes
<1>2. TapPlaces'
  BY DEF TapsInv, TapPlaces
<1>3. HearInv'
  BY DEF TapsInv, HearInv, Listens
<1>4. OwnInv'
  BY DEF TapsInv, OwnInv, Listens
<1> QED
  BY <1>1, <1>2, <1>3, <1>4

LEMMA TapsPrompts == ASSUME TapsInv, NEW t \in Tapped, T!Prompts(t) PROVE TapsInv'
<1> DEFINE p == [line |-> said + 1, agent |-> leg[t].agent, by |-> t, leg |-> leg[t].n, at |-> tapClock]
<1>1. said' = said + 1 /\ prompted' = prompted \cup {p} /\ UNCHANGED <<tapClock, leg, file, tail, turns, got, due, faults, blind>>
  BY DEF T!Prompts
<1> HIDE DEF p
<1>2. TapTypes /\ T!TurnsAreOwn /\ said \in Nat /\ IsFiniteSet(prompted) /\ turns \in [Tapped -> [count : Nat, start : Nat]]
      /\ tapClock \in Nat \ {0}
  BY DEF TapsInv, TapTypes, TapPlaces
<1>3. IsFiniteSet(prompted')
  BY <1>1, <1>2, FS_AddElement
<1>4. TapTypes' /\ TapPlaces' /\ HearInv' /\ OwnInv'
  BY <1>1, <1>2, <1>3, TapsRest
<1>5. T!TurnsAreOwn'
  BY <1>1, <1>2, <1>3, TurnsKept
<1> QED
  BY <1>4, <1>5 DEF TapsInv

LEMMA TapsTick == ASSUME TapsInv, T!TapTick PROVE TapsInv'
<1>1. tapClock' = tapClock + 1 /\ UNCHANGED <<leg, file, tail, prompted, turns, got, due, said, faults, blind>>
  BY DEF T!TapTick
<1>2. TapTypes /\ T!TurnsAreOwn /\ said \in Nat /\ IsFiniteSet(prompted) /\ turns \in [Tapped -> [count : Nat, start : Nat]]
      /\ tapClock \in Nat
  BY DEF TapsInv, TapTypes
<1>3. TapTypes' /\ TapPlaces' /\ HearInv' /\ OwnInv'
  BY <1>1, <1>2, TapsRest
<1>4. T!TurnsAreOwn'
  BY <1>1, <1>2, TurnsKept
<1> QED
  BY <1>3, <1>4 DEF TapsInv

LEMMA TapsCounts == ASSUME TapsInv, NEW t \in Tapped, T!CountsTurns(t) PROVE TapsInv'
<1> DEFINE q == turns[t]
           A == T!Own(t) \cup T!Near(t)
           c == q.start + Cardinality(T!Since(t))
           w == [q EXCEPT !.count = c]
<1>1. turns' = [turns EXCEPT ![t] = w] /\ UNCHANGED <<tapClock, leg, file, tail, prompted, got, due, said, faults, blind>>
  BY TapsCount DEF T!CountsTurns
<1>2. TapTypes /\ T!TurnsAreOwn /\ said \in Nat /\ IsFiniteSet(prompted) /\ tapClock \in Nat \ {0}
      /\ turns \in [Tapped -> [count : Nat, start : Nat]]
  BY DEF TapsInv, TapTypes, TapPlaces
<1>3. T!Since(t) \subseteq A /\ A \subseteq prompted
  BY DEF T!Since, T!Own, T!Near
<1>4. Cardinality(T!Since(t)) \in Nat /\ Cardinality(A) \in Nat /\ Cardinality(T!Since(t)) <= Cardinality(A)
  BY <1>2, <1>3, FS_Subset, FS_CardinalityType
<1>5. q \in [count : Nat, start : Nat] /\ q.start \in Nat
  BY <1>2
<1> HIDE DEF q, A
<1>6. c \in Nat
  BY <1>4, <1>5
<1>7. c - q.start \in 0..Cardinality(A)
  BY <1>4, <1>5
<1> HIDE DEF c
<1>8. w \in [count : Nat, start : Nat] /\ w.count = c /\ w.start = q.start
  BY <1>5, <1>6
<1> HIDE DEF w
<1>9. turns' \in [Tapped -> [count : Nat, start : Nat]] /\ turns'[t] = w /\ \A r \in Tapped : r # t => turns'[r] = turns[r]
  BY <1>1, <1>2, <1>8
<1>10. TapTypes' /\ TapPlaces' /\ HearInv' /\ OwnInv'
  BY <1>1, <1>2, <1>9, TapsRest
<1>11. T!TurnsAreOwn'
  <2>1. ASSUME NEW r \in Tapped, leg'[r].into # "none"
        PROVE  turns'[r].count - turns'[r].start \in 0..T!Cardinality(T!Own(r) \cup T!Near(r))'
    <3>1. CASE r = t
      <4>1. (T!Own(t) \cup T!Near(t))' = A
        BY <1>1 DEF T!Own, T!Near, A
      <4>2. turns'[t].count - turns'[t].start \in 0..Cardinality(A)
        BY <1>7, <1>8, <1>9
      <4> QED
        BY <3>1, <4>1, <4>2, TapsCount
    <3>2. CASE r # t
      <4>1. leg'[r] = leg[r] /\ turns'[r] = turns[r] /\ prompted' = prompted
        BY <1>1, <1>9, <3>2
      <4> QED
        BY <1>2, <2>1, <4>1, TurnsStay
    <3> QED
      BY <3>1, <3>2
  <2> QED
    BY <2>1 DEF T!TurnsAreOwn
<1> QED
  BY <1>10, <1>11 DEF TapsInv

LEMMA TapsReplaced == ASSUME TapsInv, NEW f \in T!Files, T!Replaced(f) PROVE TapsInv'
<1> USE DEF TapsInv
<1> DEFINE q == file[f]
           none == <<>>
           p == [q EXCEPT !.body = none]
<1>1. file' = [file EXCEPT ![f] = p] /\ UNCHANGED <<tapClock, leg, tail, prompted, turns, got, due, said>>
      /\ blind' = [t \in Tapped |-> IF tail[t].of = f THEN blind[t] \cup {"replaced"} ELSE blind[t]]
  BY DEF T!Replaced
<1>2. q \in TapFiles /\ none \in Seq(TapPieces) /\ Len(none) = 0
  BY EmptySeq DEF TapTypes
<1> HIDE DEF q, none
<1>3. p \in TapFiles
  BY <1>2 DEF TapFiles
<1>4. p.users = q.users /\ p.body = none /\ p.born = q.born
  BY <1>2 DEF TapFiles
<1> HIDE DEF p
<1>5. file' \in [T!Files -> TapFiles] /\ file'[f] = p /\ \A g \in T!Files : g # f => file'[g] = file[g]
  BY <1>1, <1>3 DEF TapTypes
<1>6. \A g \in T!Files : file'[g].users = file[g].users /\ file'[g].born = file[g].born
  BY <1>4, <1>5 DEF q
<1>7. TapTypes'
  BY <1>1, <1>5 DEF TapTypes
<1>8. \A r \in Tapped : tail[r].of # "none" => tail[r].of \in T!Files
  BY TapsTyped
<1>9. TapPlaces'
  <2>1. tapClock' # 0 /\ \A g \in T!Files : file'[g].born = 0 => file'[g].users = {}
    BY <1>1, <1>6 DEF TapPlaces
  <2>2. Threads \subseteq T!Files
    BY TapsAre
  <2>3. ASSUME NEW r \in Tapped
        PROVE  /\ leg'[r].into \in {"none", "no thread", r} \cup Threads /\ tail'[r].of \in {"none", r} \cup Threads
               /\ leg'[r].into \in Threads => r \in file'[leg'[r].into].users
               /\ leg'[r].into = "none" \/ tail'[r].of = "none" => got'[r] = <<>> /\ due'[r] = <<>>
    <3>1. /\ leg[r].into \in {"none", "no thread", r} \cup Threads /\ tail[r].of \in {"none", r} \cup Threads
          /\ leg[r].into \in Threads => r \in file[leg[r].into].users
          /\ leg[r].into = "none" \/ tail[r].of = "none" => got[r] = <<>> /\ due[r] = <<>>
      BY DEF TapPlaces
    <3>2. leg'[r] = leg[r] /\ tail'[r] = tail[r] /\ got'[r] = got[r]
      BY <1>1
    <3>3. leg[r].into \in Threads => file'[leg[r].into].users = file[leg[r].into].users
      BY <1>6, <2>2
    <3> QED
      BY <1>1, <3>1, <3>2, <3>3
  <2> QED
    BY <2>1, <2>3 DEF TapPlaces
<1>10. HearInv'
  <2>1. ASSUME NEW r \in Tapped, Listens(r)', blind'[r] = {}
        PROVE  Hearing(tail'[r], file'[tail'[r].of].body, got'[r], due'[r])
    <3>1. Listens(r) /\ tail[r].of \in T!Files
      BY <1>1, <1>8, <2>1 DEF Listens
    <3>2. tail[r].of # f /\ blind[r] = {}
      BY <1>1, <2>1
    <3> QED
      BY <1>1, <1>5, <3>1, <3>2 DEF HearInv
  <2> QED
    BY <2>1 DEF HearInv, Listens
<1>11. OwnInv'
  <2>1. ASSUME NEW r \in Tapped, Listens(r)'
        PROVE  \/ tail'[r].found \/ file'[tail'[r].of].users \ {r} # {}
               \/ OwnPieces(r, leg'[r].n, tail'[r], file'[tail'[r].of].body, got'[r])
    <3>1. Listens(r) /\ tail[r].of \in T!Files
      BY <1>1, <1>8, <2>1 DEF Listens
    <3>2. CASE tail[r].of = f
      <4>1. OwnPieces(r, leg[r].n, tail[r], file[f].body, got[r]) => OwnPieces(r, leg[r].n, tail[r], none, got[r])
        BY <1>2 DEF OwnPieces
      <4> QED
        BY <1>1, <1>4, <1>5, <1>6, <3>1, <3>2, <4>1 DEF OwnInv
    <3>3. CASE tail[r].of # f
      BY <1>1, <1>5, <1>6, <3>1, <3>3 DEF OwnInv
    <3> QED
      BY <3>2, <3>3
  <2> QED
    BY <2>1 DEF OwnInv, Listens
<1>12. T!TurnsAreOwn'
  <2>1. IsFiniteSet(prompted')
    BY <1>1 DEF TapTypes
  <2> QED
    BY <1>1, <2>1, TurnsKept
<1> QED
  BY <1>7, <1>9, <1>10, <1>11, <1>12

LEMMA OwnAdds ==
  ASSUME NEW d \in TapTails, NEW b \in Seq(TapPieces), NEW g, NEW t, NEW n, OwnPieces(t, n, d, b, g),
         NEW p \in TapPieces, OwnPiece(t, n, p)
  PROVE  OwnPieces(t, n, d, Append(b, p), g)
<1> DEFINE m == Len(b)
           r == Append(b, p)
<1>1. Len(r) = m + 1 /\ m \in Nat /\ r[m + 1] = p /\ (\A i \in 1..m : r[i] = b[i]) /\ d.from \in Nat /\ d.off \in Nat
  BY DEF TapTails
<1> HIDE DEF r
<1>2. ASSUME NEW i \in 1..Len(r), i > d.from \/ Len(r) < d.off PROVE OwnPiece(t, n, r[i])
  <2>1. CASE i = m + 1
    BY <1>1, <2>1
  <2>2. CASE i # m + 1
    <3>1. i \in 1..m /\ (i > d.from \/ m < d.off)
      BY <1>1, <1>2, <2>2
    <3> QED
      BY <1>1, <3>1 DEF OwnPieces
  <2> QED
    BY <2>1, <2>2
<1>3. OwnPieces(t, n, d, r, g)
  BY <1>2 DEF OwnPieces
<1> QED
  BY <1>3 DEF r

LEMMA TapsAdds == ASSUME TapsInv, NEW t \in Tapped, T!Adds(t) PROVE TapsInv'
<1> USE DEF TapsInv
<1> DEFINE f == leg[t].into
           q == file[f]
           b == q.body
           last == b[Len(b)]
           ends == T!Open(f) /\ last.by = t /\ last.leg = leg[t].n
           piece == IF ends THEN [last EXCEPT !.half = 2] ELSE [line |-> said + 1, by |-> t, leg |-> leg[t].n, half |-> 1]
           body == Append(b, piece)
           born == IF q.born = 0 THEN tapClock ELSE q.born
           p == [q EXCEPT !.body = body, !.mtime = tapClock, !.born = born]
<1>1. /\ f \in T!Files /\ file' = [file EXCEPT ![f] = p]
      /\ due' = [r \in Tapped |-> IF tail[r].of = f /\ leg[r].into # "none" /\ ends /\ T!Clean(tail[r].from, b) THEN Append(due[r], piece) ELSE due[r]]
      /\ UNCHANGED <<tapClock, leg, tail, prompted, turns, got, faults, blind>> /\ (said' = said \/ said' = said + 1)
  BY DEF T!Adds, T!Last
<1>2. q \in TapFiles /\ b \in Seq(TapPieces) /\ tapClock \in Nat /\ tapClock # 0 /\ said \in Nat /\ leg[t].n \in Nat
  <2>1. leg[t] \in TapLegs /\ q \in TapFiles /\ b \in Seq(TapPieces)
    BY <1>1, TapsTyped
  <2> QED
    BY <2>1 DEF TapLegs, TapTypes, TapPlaces
<1>3. ends => Len(b) # 0 /\ last \in TapPieces /\ last.half = 1
  <2>1. ends => b # <<>> /\ last.half = 1
    BY DEF T!Open, T!Last
  <2>2. b # <<>> => Len(b) \in 1..Len(b)
    BY <1>2
  <2> HIDE DEF ends
  <2> QED
    BY <1>2, <2>1, <2>2
<1>4. ends => last.by = t /\ last.leg = leg[t].n
  OBVIOUS
<1>5. ends \in BOOLEAN
  OBVIOUS
<1>6. T!Files \cap {"none"} = {}
  BY TapsAre
<1> HIDE DEF q, b, last, ends, f
<1>7. piece \in TapPieces /\ OwnPiece(t, leg[t].n, piece)
      /\ (ends => piece.half = 2 /\ piece.line = last.line) /\ (~ends => piece.half = 1)
  <2>1. CASE ends
    <3> DEFINE z == [last EXCEPT !.half = 2]
    <3>1. z \in TapPieces
      BY <1>3, <2>1 DEF TapPieces
    <3>2. z.half = 2 /\ z.line = last.line /\ z.by = last.by /\ z.leg = last.leg
      BY <1>3, <2>1 DEF TapPieces
    <3>3. piece = z
      BY <2>1
    <3> HIDE DEF z, piece
    <3> QED
      BY <1>4, <2>1, <3>1, <3>2, <3>3 DEF OwnPiece
  <2>2. CASE ~ends
    <3> DEFINE z == [line |-> said + 1, by |-> t, leg |-> leg[t].n, half |-> 1]
    <3>1. z \in TapPieces /\ z.half = 1 /\ z.by = t /\ z.leg = leg[t].n
      BY <1>2 DEF TapPieces
    <3>2. piece = z
      BY <2>2
    <3> HIDE DEF z, piece
    <3> QED
      BY <2>2, <3>1, <3>2 DEF OwnPiece
  <2> QED
    BY <2>1, <2>2
<1> HIDE DEF piece
<1>8. body \in Seq(TapPieces)
  BY <1>2, <1>7
<1>9. born \in Nat /\ born # 0
  BY <1>2 DEF TapFiles
<1> HIDE DEF body, born
<1>10. p \in TapFiles
  BY <1>2, <1>8, <1>9 DEF TapFiles
<1>11. p.users = q.users /\ p.body = body /\ p.born # 0
  BY <1>2, <1>9 DEF TapFiles
<1> HIDE DEF p
<1>12. file' \in [T!Files -> TapFiles] /\ file'[f] = p /\ \A g \in T!Files : g # f => file'[g] = file[g]
  BY <1>1, <1>10 DEF TapTypes
<1>13. \A g \in T!Files : file'[g].users = file[g].users
  BY <1>11, <1>12 DEF q
<1>14. \A r \in Tapped : due'[r] = IF tail[r].of = f /\ leg[r].into # "none" /\ ends /\ T!Clean(tail[r].from, b) THEN Append(due[r], piece) ELSE due[r]
  BY <1>1
<1>15. \A r \in Tapped : /\ tail[r] \in TapTails /\ got[r] \in Seq(TapPieces) /\ due[r] \in Seq(TapPieces)
                         /\ tail[r].of # "none" => tail[r].of \in T!Files
  BY TapsTyped
<1>16. TapTypes'
  <2>1. due' \in [Tapped -> Seq(TapPieces)]
    <3>1. ASSUME NEW r \in Tapped PROVE due'[r] \in Seq(TapPieces)
      <4>1. due[r] \in Seq(TapPieces) /\ Append(due[r], piece) \in Seq(TapPieces)
        BY <1>7, <1>15
      <4> QED
        BY <1>14, <4>1
    <3>2. DOMAIN due' = Tapped /\ due' = [r \in Tapped |-> due'[r]]
      BY <1>1
    <3> QED
      BY <3>1, <3>2
  <2>2. said' \in Nat
    BY <1>1, <1>2
  <2> QED
    BY <1>1, <1>12, <2>1, <2>2 DEF TapTypes
<1>17. TapPlaces'
  <2>1. tapClock' # 0 /\ \A g \in T!Files : file'[g].born = 0 => file'[g].users = {}
    BY <1>1, <1>11, <1>12 DEF TapPlaces
  <2>2. Threads \subseteq T!Files
    BY TapsAre
  <2>3. ASSUME NEW r \in Tapped
        PROVE  /\ leg'[r].into \in {"none", "no thread", r} \cup Threads /\ tail'[r].of \in {"none", r} \cup Threads
               /\ leg'[r].into \in Threads => r \in file'[leg'[r].into].users
               /\ leg'[r].into = "none" \/ tail'[r].of = "none" => got'[r] = <<>> /\ due'[r] = <<>>
    <3>1. leg[r].into = "none" \/ tail[r].of = "none" => due'[r] = due[r]
      BY <1>1, <1>6, <1>14
    <3>2. /\ leg[r].into \in {"none", "no thread", r} \cup Threads /\ tail[r].of \in {"none", r} \cup Threads
          /\ leg[r].into \in Threads => r \in file[leg[r].into].users
          /\ leg[r].into = "none" \/ tail[r].of = "none" => got[r] = <<>> /\ due[r] = <<>>
      BY DEF TapPlaces
    <3>3. leg'[r] = leg[r] /\ tail'[r] = tail[r] /\ got'[r] = got[r]
      BY <1>1
    <3>4. leg[r].into \in Threads => file'[leg[r].into].users = file[leg[r].into].users
      BY <1>13, <2>2
    <3> QED
      BY <3>1, <3>2, <3>3, <3>4
  <2> QED
    BY <2>1, <2>3 DEF TapPlaces
<1>18. HearInv'
  <2>1. ASSUME NEW r \in Tapped, Listens(r)', blind'[r] = {}
        PROVE  Hearing(tail'[r], file'[tail'[r].of].body, got'[r], due'[r])
    <3>1. Listens(r) /\ tail[r].of \in T!Files /\ leg[r].into # "none"
      BY <1>1, <1>15, <2>1 DEF Listens
    <3>2. Hearing(tail[r], file[tail[r].of].body, got[r], due[r])
      BY <1>1, <2>1, <3>1 DEF HearInv
    <3>3. CASE tail[r].of = f
      <4>1. Hearing(tail[r], b, got[r], due[r])
        BY <3>2, <3>3 DEF b, q
      <4>2. ends => Len(b) # 0 /\ b[Len(b)].half = 1 /\ piece.half = 2 /\ piece.line = b[Len(b)].line
        BY <1>3, <1>7 DEF last
      <4>3. Hearing(tail[r], body, got[r], IF ends /\ T!Clean(tail[r].from, b) THEN Append(due[r], piece) ELSE due[r])
        BY <1>2, <1>5, <1>7, <1>15, <4>1, <4>2, HearsAdd DEF body
      <4> QED
        BY <1>1, <1>11, <1>12, <1>14, <3>1, <3>3, <4>3
    <3>4. CASE tail[r].of # f
      BY <1>1, <1>12, <1>14, <3>1, <3>2, <3>4
    <3> QED
      BY <3>3, <3>4
  <2> QED
    BY <2>1 DEF HearInv, Listens
<1>19. OwnInv'
  <2>1. ASSUME NEW r \in Tapped, Listens(r)'
        PROVE  \/ tail'[r].found \/ file'[tail'[r].of].users \ {r} # {}
               \/ OwnPieces(r, leg'[r].n, tail'[r], file'[tail'[r].of].body, got'[r])
    <3>1. Listens(r) /\ tail[r].of \in T!Files
      BY <1>1, <1>15, <2>1 DEF Listens
    <3>2. \/ tail[r].found \/ file[tail[r].of].users \ {r} # {}
          \/ OwnPieces(r, leg[r].n, tail[r], file[tail[r].of].body, got[r])
      BY <3>1 DEF OwnInv
    <3>3. CASE tail[r].of = f /\ r = t
      <4>1. OwnPieces(r, leg[r].n, tail[r], b, got[r]) => OwnPieces(r, leg[r].n, tail[r], body, got[r])
        BY <1>2, <1>7, <1>15, <3>3, OwnAdds DEF body
      <4> QED
        BY <1>1, <1>11, <1>12, <1>13, <3>1, <3>2, <3>3, <4>1 DEF b, q
    <3>4. CASE tail[r].of = f /\ r # t
      <4>1. f \in Threads
        <5>1. leg[t].into \in {"none", "no thread", t} \cup Threads /\ tail[r].of \in {"none", r} \cup Threads
          BY DEF TapPlaces
        <5>2. f # "none" /\ f # "no thread" /\ t \notin Threads /\ r \notin Threads
          BY <1>1, TapsAre
        <5> QED
          BY <3>4, <5>1, <5>2 DEF f
      <4>2. t \in file[f].users
        BY <4>1 DEF TapPlaces, f
      <4> QED
        BY <1>1, <1>13, <3>1, <3>4, <4>2
    <3>5. CASE tail[r].of # f
      BY <1>1, <1>12, <3>1, <3>2, <3>5
    <3> QED
      BY <3>3, <3>4, <3>5
  <2> QED
    BY <2>1 DEF OwnInv, Listens
<1>20. T!TurnsAreOwn'
  <2>1. IsFiniteSet(prompted')
    BY <1>1 DEF TapTypes
  <2> QED
    BY <1>1, <2>1, TurnsKept
<1> QED
  BY <1>16, <1>17, <1>18, <1>19, <1>20

LEMMA TapsPoll == ASSUME TapsInv, NEW t \in Tapped, NEW d \in T!Tails(t), NEW fails \in BOOLEAN, T!Poll(t, d, fails) PROVE TapsInv'
<1> USE DEF TapsInv
<1> DEFINE r == IF d.of = "none" THEN [lines |-> <<>>, next |-> d] ELSE T!Read(d)
           e == r.next
           u == IF d # tail[t] THEN T!Lines(file[d.of].body) ELSE due[t]
           g == IF fails THEN got[t] ELSE got[t] \o r.lines
           x == IF fails THEN blind[t] \cup {"failed"} ELSE blind[t]
<1>1. /\ leg[t].into # "none" /\ tail' = [tail EXCEPT ![t] = e] /\ due' = [due EXCEPT ![t] = u]
      /\ UNCHANGED <<tapClock, leg, file, prompted, turns, said>>
  BY DEF T!Poll
<1>2. /\ tail[t] \in TapTails /\ got[t] \in Seq(TapPieces) /\ due[t] \in Seq(TapPieces)
      /\ (tail[t].of # "none" => tail[t].of \in T!Files) /\ (\A f \in T!Files : file[f].body \in Seq(TapPieces))
      /\ tail[t].of \in {"none", t} \cup Threads
  BY TapsTyped DEF TapPlaces
<1>3. got' = [got EXCEPT ![t] = g] /\ blind' = [blind EXCEPT ![t] = x]
  <2>1. got \in [Tapped -> Seq(TapPieces)] /\ blind \in [Tapped -> SUBSET {"failed", "replaced"}]
    BY DEF TapTypes
  <2>2. IF fails THEN blind' = [blind EXCEPT ![t] = @ \cup {"failed"}] /\ got' = got
        ELSE got' = [got EXCEPT ![t] = @ \o r.lines] /\ blind' = blind
    BY DEF T!Poll
  <2> HIDE DEF r
  <2> QED
    BY <2>1, <2>2
<1>4. \/ d = tail[t]
      \/ /\ tail[t].of = "none" /\ d \in TapTails /\ d.of \in Threads /\ d.from = 0 /\ d.off = 0 /\ d.rest = <<>> /\ d.found
  <2>1. CASE leg[t].agent = "codex" /\ tail[t].of = "none" /\ T!Found(t) # {}
    <3>1. PICK f \in T!Found(t) : d = [T!NoTail EXCEPT !.of = f, !.found = TRUE]
      BY <2>1 DEF T!Tails
    <3>2. f \in Threads
      BY DEF T!Found
    <3> DEFINE N == T!NoTail
               none == <<>>
               z == [N EXCEPT !.of = f, !.found = TRUE]
    <3>3. none \in Seq(TapPieces) /\ f \in T!Files
      BY <3>2, EmptySeq DEF T!Files
    <3>4. N \in TapTails /\ N.from = 0 /\ N.off = 0 /\ N.rest = none
      BY <3>3 DEF T!NoTail, TapTails
    <3> HIDE DEF N, none
    <3>5. z \in TapTails
      BY <3>3, <3>4 DEF TapTails
    <3>6. z.of = f /\ z.from = 0 /\ z.off = 0 /\ z.rest = none
      BY <3>4 DEF TapTails
    <3>7. z.found
      BY <3>4 DEF TapTails
    <3>8. d = z
      BY <3>1 DEF N
    <3> HIDE DEF z
    <3> QED
      BY <2>1, <3>2, <3>5, <3>6, <3>7, <3>8 DEF none
  <2>2. CASE ~(leg[t].agent = "codex" /\ tail[t].of = "none" /\ T!Found(t) # {})
    BY <2>2 DEF T!Tails
  <2> QED
    BY <2>1, <2>2
<1>5. /\ d \in TapTails /\ d.of \in {"none", t} \cup Threads
      /\ d.of # "none" => d.of \in T!Files
      /\ d # tail[t] => d.of # "none"
  <2>1. "none" \notin Threads /\ Threads \subseteq T!Files
    BY TapsAre
  <2> QED
    BY <1>2, <1>4, <2>1
<1>6. /\ e \in TapTails /\ e.of = d.of /\ e.found = d.found /\ r.lines \in Seq(TapPieces)
      /\ d.of = "none" => r.lines = <<>> /\ e = d
      /\ d.of # "none" => r = T!Read(d)
  <2>1. CASE d.of = "none"
    BY <1>5, <2>1, EmptySeq
  <2>2. CASE d.of # "none"
    <3>1. r = T!Read(d) /\ d.of \in T!Files
      BY <1>5, <2>2
    <3> QED
      BY <1>5, <2>2, <3>1, ReadIs
  <2> QED
    BY <2>1, <2>2
<1>7. /\ fails => r.lines # <<>>
      /\ ~fails => x = blind[t]
  BY DEF T!Poll
<1> HIDE DEF r
<1>8. g \in Seq(TapPieces) /\ u \in Seq(TapPieces)
  <2>1. got[t] \o r.lines \in Seq(TapPieces)
    BY <1>2, <1>6, ConcatProperties, Zenon
  <2>2. d # tail[t] => T!Lines(file[d.of].body) \in Seq(TapPieces)
    BY <1>2, <1>5, LinesFrom
  <2> QED
    BY <1>2, <2>1, <2>2
<1>9. d.of = "none" => ~fails /\ g = got[t] /\ u = due[t] /\ d = tail[t]
  <2>1. got[t] \o <<>> = got[t]
    BY <1>2, ConcatEmptySeq
  <2> QED
    BY <1>5, <1>6, <1>7, <2>1
<1>10. /\ ~fails => g = got[t] \o r.lines
       /\ fails => g = got[t] /\ x = blind[t] \cup {"failed"}
       /\ d = tail[t] => u = due[t]
       /\ d # tail[t] => u = T!Lines(file[d.of].body)
  OBVIOUS
<1> HIDE DEF e, g, u, x
<1>11. tail'[t] = e /\ due'[t] = u /\ got'[t] = g /\ blind'[t] = x
       /\ \A s \in Tapped : s # t => tail'[s] = tail[s] /\ due'[s] = due[s] /\ got'[s] = got[s] /\ blind'[s] = blind[s]
  BY <1>1, <1>3 DEF TapTypes
<1>12. TapTypes'
  <2>1. tail' \in [Tapped -> TapTails] /\ due' \in [Tapped -> Seq(TapPieces)] /\ got' \in [Tapped -> Seq(TapPieces)]
    BY <1>1, <1>3, <1>6, <1>8 DEF TapTypes
  <2>2. blind' \in [Tapped -> SUBSET {"failed", "replaced"}]
    <3>1. blind \in [Tapped -> SUBSET {"failed", "replaced"}]
      BY DEF TapTypes
    <3>2. x \in SUBSET {"failed", "replaced"}
      BY <1>7, <1>10, <3>1
    <3> QED
      BY <1>3, <3>1, <3>2
  <2> QED
    BY <1>1, <2>1, <2>2 DEF TapTypes
<1>13. TapPlaces'
  <2>1. tapClock' # 0 /\ \A f \in T!Files : file'[f].born = 0 => file'[f].users = {}
    BY <1>1 DEF TapPlaces
  <2>2. ASSUME NEW s \in Tapped
        PROVE  /\ leg'[s].into \in {"none", "no thread", s} \cup Threads /\ tail'[s].of \in {"none", s} \cup Threads
               /\ leg'[s].into \in Threads => s \in file'[leg'[s].into].users
               /\ leg'[s].into = "none" \/ tail'[s].of = "none" => got'[s] = <<>> /\ due'[s] = <<>>
    <3>1. /\ leg[s].into \in {"none", "no thread", s} \cup Threads /\ tail[s].of \in {"none", s} \cup Threads
          /\ leg[s].into \in Threads => s \in file[leg[s].into].users
          /\ leg[s].into = "none" \/ tail[s].of = "none" => got[s] = <<>> /\ due[s] = <<>>
      BY DEF TapPlaces
    <3>2. CASE s = t
      BY <1>1, <1>5, <1>6, <1>9, <1>11, <3>1, <3>2
    <3>3. CASE s # t
      BY <1>1, <1>11, <3>1, <3>3
    <3> QED
      BY <3>2, <3>3
  <2> QED
    BY <2>1, <2>2 DEF TapPlaces
<1>14. d # tail[t] => got[t] = <<>>
  BY <1>4 DEF TapPlaces
<1>15. HearInv'
  <2>1. ASSUME NEW s \in Tapped, Listens(s)', blind'[s] = {}
        PROVE  Hearing(tail'[s], file'[tail'[s].of].body, got'[s], due'[s])
    <3>1. CASE s = t
      <4>1. ~fails /\ blind[t] = {} /\ d.of # "none" /\ d.of \in T!Files
        BY <1>5, <1>6, <1>7, <1>10, <1>11, <2>1, <3>1 DEF Listens
      <4>2. Hearing(d, file[d.of].body, got[t], u)
        <5>1. CASE d = tail[t]
          BY <1>1, <1>10, <4>1, <5>1 DEF HearInv, Listens
        <5>2. CASE d # tail[t]
          <6>1. Hearing(d, file[d.of].body, <<>>, T!Lines(file[d.of].body))
            BY <1>2, <1>4, <4>1, <5>2, FreshHears
          <6> QED
            BY <1>10, <1>14, <5>2, <6>1
        <5> QED
          BY <5>1, <5>2
      <4>3. Hearing(T!Read(d).next, file[d.of].body, got[t] \o T!Read(d).lines, u)
        BY <1>2, <1>5, <4>1, <4>2, ReadHears
      <4>4. r = T!Read(d) /\ e = r.next
        BY <1>6, <4>1 DEF e
      <4>5. tail'[s] = T!Read(d).next /\ tail'[s].of = d.of /\ got'[s] = got[t] \o T!Read(d).lines /\ due'[s] = u /\ file' = file
        BY <1>1, <1>6, <1>10, <1>11, <3>1, <4>1, <4>4
      <4> QED
        BY <4>3, <4>5
    <3>2. CASE s # t
      BY <1>1, <1>11, <2>1, <3>2 DEF HearInv, Listens
    <3> QED
      BY <3>1, <3>2
  <2> QED
    BY <2>1 DEF HearInv, Listens
<1>16. OwnInv'
  <2>1. ASSUME NEW s \in Tapped, Listens(s)'
        PROVE  \/ tail'[s].found \/ file'[tail'[s].of].users \ {s} # {}
               \/ OwnPieces(s, leg'[s].n, tail'[s], file'[tail'[s].of].body, got'[s])
    <3>1. CASE s = t /\ d # tail[t]
      BY <1>4, <1>6, <1>11, <3>1
    <3>2. CASE s = t /\ d = tail[t]
      <4>1. d.of # "none" /\ d.of \in T!Files /\ r = T!Read(d)
        BY <1>5, <1>6, <1>11, <2>1, <3>2 DEF Listens
      <4>2. \/ d.found \/ file[d.of].users \ {t} # {}
            \/ OwnPieces(t, leg[t].n, d, file[d.of].body, got[t])
        BY <1>1, <3>2, <4>1 DEF OwnInv, Listens
      <4>3. OwnPieces(t, leg[t].n, d, file[d.of].body, got[t]) =>
              /\ OwnPieces(t, leg[t].n, e, file[d.of].body, got[t] \o r.lines)
              /\ OwnPieces(t, leg[t].n, e, file[d.of].body, got[t])
        BY <1>2, <1>5, <4>1, ReadOwn DEF e
      <4>4. tail'[s] = e /\ e.of = d.of /\ file' = file /\ leg' = leg /\ got'[s] = g /\ (g = got[t] \o r.lines \/ g = got[t])
        BY <1>1, <1>6, <1>10, <1>11, <3>2
      <4>5. d.found => tail'[s].found
        BY <1>6, <4>4
      <4> QED
        BY <3>2, <4>2, <4>3, <4>4, <4>5
    <3>3. CASE s # t
      BY <1>1, <1>11, <2>1, <3>3 DEF OwnInv, Listens
    <3> QED
      BY <3>1, <3>2, <3>3
  <2> QED
    BY <2>1 DEF OwnInv, Listens
<1>17. T!TurnsAreOwn'
  <2>1. IsFiniteSet(prompted')
    BY <1>1 DEF TapTypes
  <2> QED
    BY <1>1, <2>1, TurnsKept
<1> QED
  BY <1>12, <1>13, <1>15, <1>16, <1>17

LEMMA TapsStep == ASSUME TapsInv, T!TapsNext PROVE TapsInv'
<1>1. ASSUME NEW t \in Tapped, NEW cli \in {"codex", "agy"}, NEW continues \in BOOLEAN, T!Starts(t, cli, continues) PROVE TapsInv'
  BY <1>1, TapsStarts
<1>2. ASSUME NEW t \in Tapped, T!Exits(t) \/ (\E f \in Threads : T!Opens(t, f)) \/ T!Adds(t) \/ T!Prompts(t) \/ T!CountsTurns(t) PROVE TapsInv'
  BY <1>2, TapsExits, TapsOpens, TapsAdds, TapsPrompts, TapsCounts
<1>3. ASSUME NEW t \in Tapped, NEW d \in T!Tails(t), NEW fails \in BOOLEAN, T!Poll(t, d, fails) PROVE TapsInv'
  BY <1>3, TapsPoll
<1>4. ASSUME NEW f \in T!Files, T!Replaced(f) PROVE TapsInv'
  BY <1>4, TapsReplaced
<1>5. CASE T!TapTick
  BY <1>5, TapsTick
<1> QED
  BY <1>1, <1>2, <1>3, <1>4, <1>5 DEF T!TapsNext

LEMMA TapsSuffices == ASSUME TapsInv PROVE T!TapsHear
<1> USE DEF TapsInv
<1>1. ASSUME NEW t \in Tapped
      PROVE  /\ tail[t] \in TapTails /\ got[t] \in Seq(TapPieces) /\ due[t] \in Seq(TapPieces)
             /\ (tail[t].of # "none" => tail[t].of \in T!Files) /\ (\A f \in T!Files : file[f].body \in Seq(TapPieces))
  BY TapsTyped
<1>2. T!Hears
  <2>1. ASSUME NEW t \in Tapped, leg[t].into # "none", tail[t].of # "none", tail[t].off = Len(file[tail[t].of].body), blind[t] = {}
        PROVE  got[t] = due[t]
    <3> DEFINE d == tail[t]
               b == file[d.of].body
               x == SubSeq(b, Begins(d) + 1, Len(b))
    <3>1. Hearing(d, b, got[t], due[t]) /\ d \in TapTails /\ b \in Seq(TapPieces)
      BY <1>1, <2>1 DEF HearInv, Listens
    <3>2. d.rest = x /\ (\A i \in 1..Len(d.rest) : d.rest[i].half # 2) /\ due[t] = got[t] \o T!Lines(x) /\ d.rest \in Seq(TapPieces)
      BY <2>1, <3>1 DEF Hearing, TapTails
    <3>3. T!Lines(d.rest) = <<>>
      BY <3>2, NoLines
    <3>4. got[t] \o <<>> = got[t]
      BY <1>1, ConcatEmptySeq
    <3> QED
      BY <3>2, <3>3, <3>4
  <2> QED
    BY <2>1 DEF T!Hears
<1>3. T!LinesAreOwn
  <2>1. ASSUME NEW t \in Tapped, NEW p \in T!ToSet(got[t])
        PROVE  (p.by = t /\ p.leg = leg[t].n) \/ tail[t].found \/ file[tail[t].of].users \ {t} # {}
    <3>1. PICK i \in 1..Len(got[t]) : p = got[t][i]
      BY <1>1 DEF T!ToSet
    <3>2. Listens(t)
      <4>1. got[t] # <<>>
        BY <3>1
      <4> QED
        BY <4>1 DEF TapPlaces, Listens
    <3> QED
      BY <3>1, <3>2 DEF OwnInv, OwnPieces, OwnPiece
  <2> QED
    BY <2>1 DEF T!LinesAreOwn
<1> QED
  BY <1>2, <1>3 DEF T!TapsHear, T!TapsAreOwn

-----------------------------------------------------------------------------
(* The hand-off file (Resume.tla).                                         *)

AtWork == {"runs", "saved", "gathered"}
\* Who may still write the file, or died before it did.
Unwritten == AtWork \cup {"ended", "idles", "dead"}
Bundles == [status : {"none", "live", "dead", "lost", "ended"}, bundle : Nat]
HandOffFiles == [kind : {"handoff"}, by : Sharers, live : SUBSET Sharers, of : Nat, head : Nat, names : Nat, text : Nat]
IdleFiles == [kind : {"idle"}, by : {"none"}, live : SUBSET Sharers, of : Nat, head : Nat, names : Nat, text : Nat]
PointerFiles == {R!Absent, R!Unstamped} \cup HandOffFiles \cup IdleFiles

ResumeTypes ==
  /\ work \in [head : Nat, names : Nat, text : Nat] /\ work.names <= work.text
  /\ record \in [Sharers -> Bundles] /\ place \in [Sharers -> {"new", "over"} \cup Unwritten]
  /\ hand \in [Sharers -> PointerFiles] /\ ckpt \in [Sharers -> Nat] /\ pointer \in PointerFiles
  /\ starter \in [at : {"none", "listed", "judged"}, list : SUBSET Sharers, saw : PointerFiles]

\* An active record is of a terminal that is at work, or has died.
RecordsKept ==
  \A t \in Sharers :
    /\ place[t] \in AtWork => record[t].status = "live"
    /\ record[t].status \in R!ActiveRecord => place[t] \in AtWork \cup {"dead"}
\* A hand-off names who makes it.
NamesItself(f) == f.kind = "handoff" => f.by \in f.live
HandsInv ==
  /\ NamesItself(pointer)
  /\ \A t \in Sharers :
       /\ place[t] = "gathered" => hand[t].kind = "handoff" /\ hand[t].by = t /\ NamesItself(hand[t])
       /\ place[t] = "idles" => hand[t].kind = "idle"
\* A stamp that still agrees with the checkout is of its files as they are.
Agrees(f) ==
  /\ f.head <= work.head /\ f.names <= work.text
  /\ f.head = work.head /\ f.names = work.names => f.text = work.text \/ "a dirty file was edited again" \in moved
StampsInv ==
  /\ pointer.kind = "handoff" => Agrees(pointer)
  /\ \A t \in Sharers : place[t] = "gathered" => Agrees(hand[t])
\* Whom the file names has yet to write it.
NamesInv ==
  /\ pointer.kind = "handoff" => place[pointer.by] \in Unwritten
  /\ pointer.kind = "unstamped" => \A t \in Sharers : place[t] # "over"
  /\ pointer.kind = "idle" => "ended together" \in moved \/ \A t \in pointer.live : place[t] \in Unwritten
JudgedInv == starter.at = "judged" /\ starter.saw.kind = "handoff" => starter.saw.by \notin starter.list

ResumeInv == ResumeTypes /\ RecordsKept /\ HandsInv /\ StampsInv /\ NamesInv /\ R!OneSave /\ JudgedInv

LEMMA PointersAre ==
  /\ R!Absent \in PointerFiles /\ R!Unstamped \in PointerFiles /\ HandOffFiles \subseteq PointerFiles /\ IdleFiles \subseteq PointerFiles
  /\ R!Absent.kind = "absent" /\ R!Unstamped.kind = "unstamped"
  /\ \A f \in PointerFiles : (f.kind = "handoff" <=> f \in HandOffFiles) /\ (f.kind = "idle" <=> f \in IdleFiles)
                             /\ f.kind \in {"absent", "unstamped", "handoff", "idle"}
                             /\ (f.kind = "absent" => f = R!Absent)
<1>1. R!Absent.kind = "absent" /\ R!Unstamped.kind = "unstamped"
  BY DEF R!Absent, R!Unstamped
<1>2. \A f \in HandOffFiles : f.kind = "handoff"
  BY DEF HandOffFiles
<1>3. \A f \in IdleFiles : f.kind = "idle"
  BY DEF IdleFiles
<1> QED
  BY <1>1, <1>2, <1>3 DEF PointerFiles

LEMMA StampIs ==
  ASSUME ResumeTypes, NEW live \in SUBSET Sharers, NEW of \in Nat
  PROVE  /\ \A t \in Sharers : /\ R!Stamp("handoff", t, live, of) \in HandOffFiles /\ R!Stamp("handoff", t, live, of).kind = "handoff"
                                /\ R!Stamp("handoff", t, live, of).by = t /\ R!Stamp("handoff", t, live, of).live = live
                                /\ Agrees(R!Stamp("handoff", t, live, of))
         /\ R!Stamp("idle", "none", live, of) \in IdleFiles /\ R!Stamp("idle", "none", live, of).live = live
<1>1. work.head \in Nat /\ work.names \in Nat /\ work.text \in Nat /\ work.names <= work.text
  BY DEF ResumeTypes
<1>2. ASSUME NEW kind, NEW t
      PROVE  R!Stamp(kind, t, live, of) = [kind |-> kind, by |-> t, live |-> live, of |-> of, head |-> work.head, names |-> work.names, text |-> work.text]
  BY DEF R!Stamp
<1>3. R!Stamp("idle", "none", live, of) \in IdleFiles /\ R!Stamp("idle", "none", live, of).live = live
  BY <1>1, <1>2 DEF IdleFiles
<1>4. ASSUME NEW t \in Sharers
      PROVE  /\ R!Stamp("handoff", t, live, of) \in HandOffFiles /\ R!Stamp("handoff", t, live, of).kind = "handoff"
             /\ R!Stamp("handoff", t, live, of).by = t /\ R!Stamp("handoff", t, live, of).live = live
             /\ Agrees(R!Stamp("handoff", t, live, of))
  <2> DEFINE f == R!Stamp("handoff", t, live, of)
  <2>1. f = [kind |-> "handoff", by |-> t, live |-> live, of |-> of, head |-> work.head, names |-> work.names, text |-> work.text]
    BY <1>2
  <2> HIDE DEF f
  <2>2. f.kind = "handoff" /\ f.by = t /\ f.live = live /\ f.head = work.head /\ f.names = work.names /\ f.text = work.text
    BY <2>1
  <2>3. f \in HandOffFiles
    BY <1>1, <2>1 DEF HandOffFiles
  <2>4. Agrees(f)
    BY <1>1, <2>2 DEF Agrees
  <2> QED
    BY <2>2, <2>3, <2>4 DEF f
<1> QED
  BY <1>3, <1>4

LEMMA ResumeStart == R!ResumeInit => ResumeInv
<1> SUFFICES ASSUME R!ResumeInit PROVE ResumeInv
  OBVIOUS
<1>1. pointer \in PointerFiles /\ R!Absent \in PointerFiles /\ (pointer.kind = "absent" \/ pointer.kind = "unstamped") /\ R!Absent.kind = "absent"
  BY PointersAre DEF R!ResumeInit
<1>2. ResumeTypes
  BY <1>1 DEF R!ResumeInit, ResumeTypes, Bundles, Unwritten, R!NoBoardStart, R!Idle
<1>3. RecordsKept /\ HandsInv /\ StampsInv /\ NamesInv /\ R!OneSave /\ JudgedInv
  BY <1>1 DEF R!ResumeInit, RecordsKept, HandsInv, NamesItself, StampsInv, NamesInv, R!OneSave, JudgedInv,
     R!NoBoardStart, R!ActiveRecord, AtWork, Unwritten
<1> QED
  BY <1>2, <1>3 DEF ResumeInv

\* Who has yet to write the file still has, and nobody else is over.
LEMMA NamesStay ==
  ASSUME ResumeTypes, NamesInv, pointer' = pointer, "ended together" \in moved => "ended together" \in moved',
         \A t \in Sharers : /\ place[t] \in Unwritten => place'[t] \in Unwritten \/ pointer.kind = "absent"
                            /\ place'[t] = "over" => place[t] = "over" \/ pointer.kind = "absent"
  PROVE  NamesInv'
<1>1. pointer \in PointerFiles
  BY DEF ResumeTypes
<1>2. pointer.kind = "handoff" => pointer.by \in Sharers
  BY <1>1, PointersAre DEF HandOffFiles
<1>3. pointer.kind = "idle" => pointer.live \subseteq Sharers
  BY <1>1, PointersAre DEF IdleFiles
<1> QED
  BY <1>2, <1>3 DEF NamesInv

\* A record that changes in one field.
LEMMA BundleIs ==
  ASSUME ResumeTypes, NEW t \in Sharers
  PROVE  /\ \A b \in Nat : /\ [record[t] EXCEPT !.bundle = b] \in Bundles
                           /\ [record[t] EXCEPT !.bundle = b].status = record[t].status
         /\ \A s \in {"none", "live", "dead", "lost", "ended"} : /\ [record[t] EXCEPT !.status = s] \in Bundles
                                                                 /\ [record[t] EXCEPT !.status = s].status = s
<1> DEFINE q == record[t]
<1>1. q \in Bundles
  BY DEF ResumeTypes
<1> HIDE DEF q
<1>2. \A b \in Nat : [q EXCEPT !.bundle = b] \in Bundles /\ [q EXCEPT !.bundle = b].status = q.status
  BY <1>1 DEF Bundles
<1>3. \A s \in {"none", "live", "dead", "lost", "ended"} : [q EXCEPT !.status = s] \in Bundles /\ [q EXCEPT !.status = s].status = s
  BY <1>1 DEF Bundles
<1> QED
  BY <1>2, <1>3 DEF q

LEMMA ResumeOpens == ASSUME ResumeInv, NEW t \in Sharers, R!Opens(t) PROVE ResumeInv'
<1> USE DEF ResumeInv
<1>1. /\ place[t] = "new" /\ place' = [place EXCEPT ![t] = "runs"]
      /\ record' \in [Sharers -> Bundles] /\ record'[t].status = "live" /\ \A r \in Sharers : r # t => record'[r] = record[r]
      /\ UNCHANGED <<work, hand, ckpt, pointer, starter, moved>>
  BY BundleIs DEF R!Opens, ResumeTypes
<1>2. ResumeTypes'
  BY <1>1 DEF ResumeTypes, AtWork, Unwritten
<1>3. RecordsKept'
  BY <1>1 DEF ResumeTypes, RecordsKept, AtWork, Unwritten, R!ActiveRecord
<1>4. HandsInv'
  BY <1>1 DEF ResumeTypes, HandsInv
<1>5. StampsInv'
  BY <1>1 DEF ResumeTypes, StampsInv, Agrees
<1>6. NamesInv'
  BY <1>1, NamesStay DEF ResumeTypes, AtWork, Unwritten
<1>7. R!OneSave'
  BY <1>1 DEF ResumeTypes, R!OneSave
<1>8. JudgedInv'
  BY <1>1 DEF JudgedInv
<1> QED
  BY <1>2, <1>3, <1>4, <1>5, <1>6, <1>7, <1>8

LEMMA ResumeCheckpoints == ASSUME ResumeInv, NEW t \in Sharers, R!Checkpoints(t) PROVE ResumeInv'
<1> USE DEF ResumeInv
<1>1. place[t] = "runs" /\ ckpt' = [ckpt EXCEPT ![t] = work.text] /\ UNCHANGED <<work, record, place, hand, pointer, starter, moved>>
  BY DEF R!Checkpoints
<1>2. ResumeTypes'
  BY <1>1 DEF ResumeTypes, AtWork, Unwritten
<1>3. RecordsKept'
  BY <1>1 DEF ResumeTypes, RecordsKept, AtWork, Unwritten, R!ActiveRecord
<1>4. HandsInv'
  BY <1>1 DEF ResumeTypes, HandsInv
<1>5. StampsInv'
  BY <1>1 DEF ResumeTypes, StampsInv, Agrees
<1>6. NamesInv'
  BY <1>1, NamesStay DEF ResumeTypes, AtWork, Unwritten
<1>7. R!OneSave'
  BY <1>1 DEF ResumeTypes, R!OneSave
<1>8. JudgedInv'
  BY <1>1 DEF JudgedInv
<1> QED
  BY <1>2, <1>3, <1>4, <1>5, <1>6, <1>7, <1>8

LEMMA ResumeCheckpointSaved == ASSUME ResumeInv, NEW t \in Sharers, R!CheckpointSaved(t) PROVE ResumeInv'
<1> USE DEF ResumeInv
<1>1. /\ ckpt' = [ckpt EXCEPT ![t] = R!Idle] /\ R!Idle \in Nat
      /\ record' \in [Sharers -> Bundles] /\ \A r \in Sharers : record'[r].status = record[r].status
      /\ UNCHANGED <<work, place, hand, pointer, starter, moved>>
  <2> DEFINE b == ckpt[t]
  <2>1. b \in Nat
    BY DEF ResumeTypes
  <2>2. record' = [record EXCEPT ![t] = [record[t] EXCEPT !.bundle = b]]
    BY DEF R!CheckpointSaved
  <2>3. [record[t] EXCEPT !.bundle = b] \in Bundles /\ [record[t] EXCEPT !.bundle = b].status = record[t].status
    BY <2>1, BundleIs
  <2> HIDE DEF b
  <2>4. record' \in [Sharers -> Bundles] /\ \A r \in Sharers : record'[r].status = record[r].status
    BY <2>2, <2>3 DEF ResumeTypes
  <2> QED
    BY <2>4 DEF R!CheckpointSaved, R!GateIdle, R!Idle
<1>2. ResumeTypes'
  BY <1>1 DEF ResumeTypes, AtWork, Unwritten
<1>3. RecordsKept'
  BY <1>1 DEF ResumeTypes, RecordsKept, AtWork, Unwritten, R!ActiveRecord
<1>4. HandsInv'
  BY <1>1 DEF ResumeTypes, HandsInv
<1>5. StampsInv'
  BY <1>1 DEF ResumeTypes, StampsInv, Agrees
<1>6. NamesInv'
  BY <1>1, NamesStay DEF ResumeTypes, AtWork, Unwritten
<1>7. R!OneSave'
  BY <1>1 DEF ResumeTypes, R!OneSave
<1>8. JudgedInv'
  BY <1>1 DEF JudgedInv
<1> QED
  BY <1>2, <1>3, <1>4, <1>5, <1>6, <1>7, <1>8

LEMMA ResumeHandsOff == ASSUME ResumeInv, NEW t \in Sharers, R!HandsOff(t) PROVE ResumeInv'
<1> USE DEF ResumeInv
<1>1. /\ place[t] = "runs" /\ ckpt[t] = R!Idle /\ place' = [place EXCEPT ![t] = "saved"]
      /\ record' \in [Sharers -> Bundles] /\ \A r \in Sharers : record'[r].status = record[r].status
      /\ UNCHANGED <<work, hand, ckpt, pointer, starter, moved>>
  <2> DEFINE b == work.text
  <2>1. b \in Nat
    BY DEF ResumeTypes
  <2>2. record' = [record EXCEPT ![t] = [record[t] EXCEPT !.bundle = b]]
    BY DEF R!HandsOff
  <2>3. [record[t] EXCEPT !.bundle = b] \in Bundles /\ [record[t] EXCEPT !.bundle = b].status = record[t].status
    BY <2>1, BundleIs
  <2> HIDE DEF b
  <2>4. record' \in [Sharers -> Bundles] /\ \A r \in Sharers : record'[r].status = record[r].status
    BY <2>2, <2>3 DEF ResumeTypes
  <2> QED
    BY <2>4 DEF R!HandsOff, R!GateIdle, R!Idle
<1>2. ResumeTypes'
  BY <1>1 DEF ResumeTypes, AtWork, Unwritten
<1>3. RecordsKept'
  BY <1>1 DEF ResumeTypes, RecordsKept, AtWork, Unwritten, R!ActiveRecord
<1>4. HandsInv'
  BY <1>1 DEF ResumeTypes, HandsInv
<1>5. StampsInv'
  BY <1>1 DEF ResumeTypes, StampsInv, Agrees
<1>6. NamesInv'
  BY <1>1, NamesStay DEF ResumeTypes, AtWork, Unwritten
<1>7. R!OneSave'
  BY <1>1 DEF ResumeTypes, R!OneSave
<1>8. JudgedInv'
  BY <1>1 DEF JudgedInv
<1> QED
  BY <1>2, <1>3, <1>4, <1>5, <1>6, <1>7, <1>8

LEMMA ResumeKeepsConversation == ASSUME ResumeInv, NEW t \in Sharers, R!KeepsConversation(t) PROVE ResumeInv'
<1> USE DEF ResumeInv
<1>1. place[t] = "saved" /\ place' = [place EXCEPT ![t] = "runs"] /\ UNCHANGED <<work, record, hand, ckpt, pointer, starter, moved>>
  BY DEF R!KeepsConversation
<1>2. ResumeTypes'
  BY <1>1 DEF ResumeTypes, AtWork, Unwritten
<1>3. RecordsKept'
  BY <1>1 DEF ResumeTypes, RecordsKept, AtWork, Unwritten, R!ActiveRecord
<1>4. HandsInv'
  BY <1>1 DEF ResumeTypes, HandsInv
<1>5. StampsInv'
  BY <1>1 DEF ResumeTypes, StampsInv, Agrees
<1>6. NamesInv'
  BY <1>1, NamesStay DEF ResumeTypes, AtWork, Unwritten
<1>7. R!OneSave'
  BY <1>1 DEF ResumeTypes, R!OneSave
<1>8. JudgedInv'
  BY <1>1 DEF JudgedInv
<1> QED
  BY <1>2, <1>3, <1>4, <1>5, <1>6, <1>7, <1>8

LEMMA ResumeGathers == ASSUME ResumeInv, NEW t \in Sharers, R!Gathers(t) PROVE ResumeInv'
<1> USE DEF ResumeInv
<1> DEFINE live == IF R!Active = {} THEN {t} ELSE R!Active
           f == R!Stamp("handoff", t, live, record[t].bundle)
<1>1. /\ place[t] = "saved" /\ place' = [place EXCEPT ![t] = "gathered"] /\ hand' = [hand EXCEPT ![t] = f]
      /\ f \in PointerFiles /\ f.kind = "handoff" /\ f.by = t /\ NamesItself(f) /\ Agrees(f)
      /\ UNCHANGED <<work, record, ckpt, pointer, starter, moved>>
  <2>1. record[t].bundle \in Nat /\ t \in live /\ live \in SUBSET Sharers
    <3>1. record[t].bundle \in Nat
      BY DEF ResumeTypes, Bundles
    <3>2. t \in live
      BY DEF R!Gathers, RecordsKept, AtWork, R!Active, R!ActiveRecord
    <3>3. live \in SUBSET Sharers
      BY DEF R!Active
    <3> QED
      BY <3>1, <3>2, <3>3
  <2>2. place[t] = "saved" /\ place' = [place EXCEPT ![t] = "gathered"] /\ hand' = [hand EXCEPT ![t] = f]
        /\ UNCHANGED <<work, record, ckpt, pointer, starter, moved>>
    BY DEF R!Gathers
  <2> HIDE DEF live
  <2>3. f \in HandOffFiles /\ f.kind = "handoff" /\ f.by = t /\ f.live = live /\ Agrees(f)
    BY <2>1, StampIs
  <2> HIDE DEF f
  <2>4. NamesItself(f) /\ f \in PointerFiles
    BY <2>1, <2>3, PointersAre DEF NamesItself
  <2> QED
    BY <2>2, <2>3, <2>4
<1> HIDE DEF f
<1>2. ResumeTypes'
  BY <1>1 DEF ResumeTypes, AtWork, Unwritten
<1>3. RecordsKept'
  BY <1>1 DEF ResumeTypes, RecordsKept, AtWork, Unwritten, R!ActiveRecord
<1>4. HandsInv'
  BY <1>1 DEF ResumeTypes, HandsInv
<1>5. StampsInv'
  BY <1>1 DEF ResumeTypes, StampsInv, Agrees
<1>6. NamesInv'
  BY <1>1, NamesStay DEF ResumeTypes, AtWork, Unwritten
<1>7. R!OneSave'
  BY <1>1 DEF ResumeTypes, R!OneSave
<1>8. JudgedInv'
  BY <1>1 DEF JudgedInv
<1> QED
  BY <1>2, <1>3, <1>4, <1>5, <1>6, <1>7, <1>8

LEMMA ResumeWrites == ASSUME ResumeInv, NEW t \in Sharers, R!Writes(t) PROVE ResumeInv'
<1> USE DEF ResumeInv
<1>1. /\ place[t] = "gathered" /\ place' = [place EXCEPT ![t] = "runs"] /\ pointer' = hand[t] /\ hand' = [hand EXCEPT ![t] = R!Absent]
      /\ moved' = moved \ {"ended together"} /\ UNCHANGED <<work, record, ckpt, starter>> /\ R!Absent \in PointerFiles
      /\ hand[t] \in PointerFiles /\ hand[t].kind = "handoff" /\ hand[t].by = t /\ NamesItself(hand[t]) /\ Agrees(hand[t])
  <2>1. /\ place[t] = "gathered" /\ place' = [place EXCEPT ![t] = "runs"] /\ pointer' = hand[t] /\ hand' = [hand EXCEPT ![t] = R!Absent]
        /\ moved' = moved \ {"ended together"} /\ UNCHANGED <<work, record, ckpt, starter>>
    BY DEF R!Writes
  <2>2. hand[t] \in PointerFiles /\ hand[t].kind = "handoff" /\ hand[t].by = t /\ NamesItself(hand[t]) /\ Agrees(hand[t])
    BY <2>1 DEF ResumeTypes, HandsInv, StampsInv
  <2> QED
    BY <2>1, <2>2, PointersAre
<1>2. ResumeTypes'
  BY <1>1 DEF ResumeTypes, AtWork, Unwritten
<1>3. RecordsKept'
  BY <1>1 DEF ResumeTypes, RecordsKept, AtWork, Unwritten, R!ActiveRecord
<1>4. HandsInv'
  BY <1>1 DEF ResumeTypes, HandsInv
<1>5. StampsInv'
  BY <1>1 DEF ResumeTypes, StampsInv, Agrees
<1>6. NamesInv'
  BY <1>1 DEF ResumeTypes, NamesInv, AtWork, Unwritten
<1>7. R!OneSave'
  BY <1>1 DEF ResumeTypes, R!OneSave
<1>8. JudgedInv'
  BY <1>1 DEF JudgedInv
<1> QED
  BY <1>2, <1>3, <1>4, <1>5, <1>6, <1>7, <1>8

LEMMA ResumeEnds == ASSUME ResumeInv, NEW t \in Sharers, R!Ends(t) PROVE ResumeInv'
<1> USE DEF ResumeInv
<1>1. /\ place[t] = "saved" \/ (place[t] = "runs" /\ ckpt[t] = R!Idle)
      /\ place' = [place EXCEPT ![t] = "ended"]
      /\ record' \in [Sharers -> Bundles] /\ record'[t].status = "ended" /\ \A r \in Sharers : r # t => record'[r] = record[r]
      /\ UNCHANGED <<work, hand, ckpt, pointer, starter, moved>>
  BY BundleIs DEF R!Ends, R!GateIdle, ResumeTypes
<1>2. ResumeTypes'
  BY <1>1 DEF ResumeTypes, AtWork, Unwritten
<1>3. RecordsKept'
  BY <1>1 DEF ResumeTypes, RecordsKept, AtWork, Unwritten, R!ActiveRecord
<1>4. HandsInv'
  BY <1>1 DEF ResumeTypes, HandsInv
<1>5. StampsInv'
  BY <1>1 DEF ResumeTypes, StampsInv, Agrees
<1>6. NamesInv'
  BY <1>1, NamesStay DEF ResumeTypes, AtWork, Unwritten
<1>7. R!OneSave'
  BY <1>1 DEF ResumeTypes, R!OneSave
<1>8. JudgedInv'
  BY <1>1 DEF JudgedInv
<1> QED
  BY <1>2, <1>3, <1>4, <1>5, <1>6, <1>7, <1>8

LEMMA ResumeEndGathers == ASSUME ResumeInv, NEW t \in Sharers, R!EndGathers(t) PROVE ResumeInv'
<1> USE DEF ResumeInv
<1> DEFINE f == R!Stamp("idle", "none", R!Active, R!Idle)
<1>1. /\ place[t] = "ended" /\ UNCHANGED <<work, record, ckpt, pointer, starter, moved>>
      /\ \/ pointer.kind = "absent" /\ place' = [place EXCEPT ![t] = "over"] /\ hand' = hand
         \/ place' = [place EXCEPT ![t] = "idles"] /\ hand' = [hand EXCEPT ![t] = f]
      /\ f \in PointerFiles /\ f.kind = "idle"
  <2>1. R!Active \in SUBSET Sharers /\ R!Idle \in Nat
    BY DEF R!Active, R!Idle
  <2>2. f \in IdleFiles
    BY <2>1, StampIs
  <2>3. /\ place[t] = "ended" /\ UNCHANGED <<work, record, ckpt, pointer, starter, moved>>
        /\ \/ pointer = R!Absent /\ place' = [place EXCEPT ![t] = "over"] /\ hand' = hand
           \/ place' = [place EXCEPT ![t] = "idles"] /\ hand' = [hand EXCEPT ![t] = f]
    BY DEF R!EndGathers
  <2> HIDE DEF f
  <2>4. f \in PointerFiles /\ f.kind = "idle"
    BY <2>2, PointersAre
  <2> QED
    BY <2>3, <2>4, PointersAre
<1> HIDE DEF f
<1>2. ResumeTypes'
  BY <1>1 DEF ResumeTypes, AtWork, Unwritten
<1>3. RecordsKept'
  BY <1>1 DEF ResumeTypes, RecordsKept, AtWork, Unwritten, R!ActiveRecord
<1>4. HandsInv'
  BY <1>1 DEF ResumeTypes, HandsInv
<1>5. StampsInv'
  BY <1>1 DEF ResumeTypes, StampsInv, Agrees
<1>6. NamesInv'
  BY <1>1, NamesStay DEF ResumeTypes, AtWork, Unwritten
<1>7. R!OneSave'
  BY <1>1 DEF ResumeTypes, R!OneSave
<1>8. JudgedInv'
  BY <1>1 DEF JudgedInv
<1> QED
  BY <1>2, <1>3, <1>4, <1>5, <1>6, <1>7, <1>8

LEMMA ResumeEndWrites == ASSUME ResumeInv, NEW t \in Sharers, R!EndWrites(t) PROVE ResumeInv'
<1> USE DEF ResumeInv
<1>1. /\ place[t] = "idles" /\ place' = [place EXCEPT ![t] = "over"] /\ pointer' = hand[t] /\ hand' = [hand EXCEPT ![t] = R!Absent]
      /\ UNCHANGED <<work, record, ckpt, starter>> /\ R!Absent \in PointerFiles /\ hand[t] \in IdleFiles /\ hand[t].kind = "idle"
      /\ hand[t] \in PointerFiles
      /\ moved' = IF hand[t].live \subseteq R!Active THEN moved \ {"ended together"} ELSE moved \cup {"ended together"}
  <2>1. /\ place[t] = "idles" /\ place' = [place EXCEPT ![t] = "over"] /\ pointer' = hand[t] /\ hand' = [hand EXCEPT ![t] = R!Absent]
        /\ UNCHANGED <<work, record, ckpt, starter>>
        /\ moved' = IF hand[t].live \subseteq R!Active THEN moved \ {"ended together"} ELSE moved \cup {"ended together"}
    BY DEF R!EndWrites
  <2>2. hand[t] \in PointerFiles /\ hand[t].kind = "idle"
    BY <2>1 DEF ResumeTypes, HandsInv
  <2> QED
    BY <2>1, <2>2, PointersAre
<1>2. ResumeTypes'
  BY <1>1 DEF ResumeTypes, AtWork, Unwritten
<1>3. RecordsKept'
  BY <1>1 DEF ResumeTypes, RecordsKept, AtWork, Unwritten, R!ActiveRecord
<1>4. HandsInv'
  BY <1>1 DEF ResumeTypes, HandsInv, NamesItself
<1>5. StampsInv'
  <2>1. "a dirty file was edited again" \in moved => "a dirty file was edited again" \in moved'
    BY <1>1
  <2> QED
    BY <1>1, <2>1 DEF ResumeTypes, StampsInv, Agrees
<1>6. NamesInv'
  <2>1. \A r \in R!Active : r \in Sharers /\ r # t /\ place[r] \in AtWork \cup {"dead"}
    BY <1>1 DEF R!Active, RecordsKept, AtWork
  <2>2. hand[t].live \subseteq R!Active => \A r \in hand[t].live : place'[r] \in Unwritten
    BY <1>1, <2>1 DEF ResumeTypes, Unwritten
  <2>3. ~(hand[t].live \subseteq R!Active) => "ended together" \in moved'
    BY <1>1
  <2> QED
    BY <1>1, <2>2, <2>3 DEF NamesInv
<1>7. R!OneSave'
  BY <1>1 DEF ResumeTypes, R!OneSave
<1>8. JudgedInv'
  BY <1>1 DEF JudgedInv
<1> QED
  BY <1>2, <1>3, <1>4, <1>5, <1>6, <1>7, <1>8

LEMMA ResumeDies == ASSUME ResumeInv, NEW t \in Sharers, R!Dies(t) PROVE ResumeInv'
<1> USE DEF ResumeInv
<1>1. /\ place[t] \notin {"new", "over", "dead"} /\ place' = [place EXCEPT ![t] = "dead"]
      /\ record' \in [Sharers -> Bundles] /\ record'[t].status \in {"none", "lost", "ended", "dead"}
      /\ (\A r \in Sharers : r # t => record'[r] = record[r])
      /\ ckpt' = [ckpt EXCEPT ![t] = R!Idle] /\ hand' = [hand EXCEPT ![t] = R!Absent] /\ R!Idle \in Nat /\ R!Absent \in PointerFiles
      /\ UNCHANGED <<work, pointer, starter, moved>>
  <2> DEFINE s == IF record[t].status \in R!ActiveRecord THEN "dead" ELSE record[t].status
  <2>1. record[t].status \in {"none", "live", "dead", "lost", "ended"}
    BY DEF ResumeTypes, Bundles
  <2>2. s \in {"none", "lost", "ended", "dead"}
    BY <2>1 DEF R!ActiveRecord
  <2>3. record' = [record EXCEPT ![t] = [record[t] EXCEPT !.status = s]]
    BY DEF R!Dies
  <2> HIDE DEF s
  <2>4. [record[t] EXCEPT !.status = s] \in Bundles /\ [record[t] EXCEPT !.status = s].status = s
    BY <2>2, BundleIs
  <2>5. record' \in [Sharers -> Bundles] /\ record'[t].status = s /\ \A r \in Sharers : r # t => record'[r] = record[r]
    BY <2>3, <2>4 DEF ResumeTypes
  <2> QED
    BY <2>2, <2>5, PointersAre DEF R!Dies, R!Idle
<1>2. ResumeTypes'
  BY <1>1 DEF ResumeTypes, AtWork, Unwritten
<1>3. RecordsKept'
  BY <1>1 DEF ResumeTypes, RecordsKept, AtWork, Unwritten, R!ActiveRecord
<1>4. HandsInv'
  BY <1>1 DEF ResumeTypes, HandsInv
<1>5. StampsInv'
  BY <1>1 DEF ResumeTypes, StampsInv, Agrees
<1>6. NamesInv'
  BY <1>1, NamesStay DEF ResumeTypes, AtWork, Unwritten
<1>7. R!OneSave'
  BY <1>1 DEF ResumeTypes, R!OneSave
<1>8. JudgedInv'
  BY <1>1 DEF JudgedInv
<1> QED
  BY <1>2, <1>3, <1>4, <1>5, <1>6, <1>7, <1>8

LEMMA ResumeBoardLists == ASSUME ResumeInv, R!BoardLists PROVE ResumeInv'
<1> USE DEF ResumeInv
<1>1. /\ record' \in [Sharers -> Bundles]
      /\ \A t \in Sharers : record'[t].status = IF record[t].status = "dead" THEN "lost" ELSE record[t].status
      /\ starter' = starter \/ starter'.at = "listed"
      /\ starter' \in [at : {"none", "listed", "judged"}, list : SUBSET Sharers, saw : PointerFiles]
      /\ UNCHANGED <<work, place, hand, ckpt, pointer, moved>>
  <2>1. /\ record' \in [Sharers -> Bundles]
        /\ \A t \in Sharers : record'[t].status = IF record[t].status = "dead" THEN "lost" ELSE record[t].status
    <3>1. ASSUME NEW t \in Sharers
          PROVE  record'[t] \in Bundles /\ record'[t].status = IF record[t].status = "dead" THEN "lost" ELSE record[t].status
      <4> DEFINE s == IF record[t].status = "dead" THEN "lost" ELSE record[t].status
      <4>1. s \in {"none", "live", "dead", "lost", "ended"}
        BY DEF ResumeTypes, Bundles
      <4>2. record'[t] = [record[t] EXCEPT !.status = s]
        BY DEF R!BoardLists, R!Reaped
      <4> HIDE DEF s
      <4>3. [record[t] EXCEPT !.status = s] \in Bundles /\ [record[t] EXCEPT !.status = s].status = s
        BY <4>1, BundleIs
      <4>4. record'[t] \in Bundles /\ record'[t].status = s
        BY <4>2, <4>3
      <4> QED
        BY <4>4 DEF s
    <3>2. record' = [t \in Sharers |-> record'[t]]
      BY DEF R!BoardLists, R!Reaped
    <3> QED
      BY <3>1, <3>2
  <2>2. /\ starter' = starter \/ starter'.at = "listed"
        /\ starter' \in [at : {"none", "listed", "judged"}, list : SUBSET Sharers, saw : PointerFiles]
    <3>1. \/ starter' = starter
          \/ starter' = [at |-> "listed", list |-> {t \in Sharers : record[t].status = "live"}, saw |-> pointer]
      BY DEF R!BoardLists
    <3> QED
      BY <3>1 DEF ResumeTypes
  <2> QED
    BY <2>1, <2>2 DEF R!BoardLists
<1>2. ResumeTypes'
  BY <1>1 DEF ResumeTypes, AtWork, Unwritten
<1>3. RecordsKept'
  BY <1>1 DEF ResumeTypes, RecordsKept, AtWork, Unwritten, R!ActiveRecord
<1>4. HandsInv'
  BY <1>1 DEF ResumeTypes, HandsInv
<1>5. StampsInv'
  BY <1>1 DEF ResumeTypes, StampsInv, Agrees
<1>6. NamesInv'
  BY <1>1, NamesStay DEF ResumeTypes, AtWork, Unwritten
<1>7. R!OneSave'
  BY <1>1 DEF ResumeTypes, R!OneSave
<1>8. JudgedInv'
  BY <1>1 DEF JudgedInv
<1> QED
  BY <1>2, <1>3, <1>4, <1>5, <1>6, <1>7, <1>8

LEMMA ResumeBoardJudges == ASSUME ResumeInv, R!BoardJudges PROVE ResumeInv'
<1> USE DEF ResumeInv
<1>1. /\ \/ starter'.at = "none"
         \/ starter'.at = "judged" /\ starter'.saw = pointer /\ starter'.list = starter.list /\ ~(pointer.kind = "handoff" /\ pointer.by \in starter.list)
      /\ starter' \in [at : {"none", "listed", "judged"}, list : SUBSET Sharers, saw : PointerFiles]
      /\ UNCHANGED <<work, record, place, hand, ckpt, pointer, moved>>
  <2> DEFINE q == starter
             z == [q EXCEPT !.at = "judged", !.saw = pointer]
             Starters == [at : {"none", "listed", "judged"}, list : SUBSET Sharers, saw : PointerFiles]
  <2>1. q \in Starters /\ pointer \in PointerFiles /\ R!NoBoardStart \in Starters /\ R!NoBoardStart.at = "none"
    BY PointersAre DEF ResumeTypes, R!NoBoardStart
  <2>2. starter' = R!NoBoardStart \/ (starter' = z /\ ~(pointer.kind = "handoff" /\ pointer.by \in starter.list))
    BY DEF R!BoardJudges, R!Owned
  <2> HIDE DEF q
  <2>3. z \in Starters
    BY <2>1
  <2>4. z.at = "judged" /\ z.saw = pointer /\ z.list = q.list
    BY <2>1
  <2> HIDE DEF z, Starters
  <2>5. UNCHANGED <<work, record, place, hand, ckpt, pointer, moved>>
    BY DEF R!BoardJudges
  <2>6. starter' \in Starters
    BY <2>1, <2>2, <2>3
  <2> QED
    BY <2>1, <2>2, <2>4, <2>5, <2>6 DEF q, Starters
<1>2. ResumeTypes'
  BY <1>1 DEF ResumeTypes, AtWork, Unwritten
<1>3. RecordsKept'
  BY <1>1 DEF ResumeTypes, RecordsKept, AtWork, Unwritten, R!ActiveRecord
<1>4. HandsInv'
  BY <1>1 DEF ResumeTypes, HandsInv
<1>5. StampsInv'
  BY <1>1 DEF ResumeTypes, StampsInv, Agrees
<1>6. NamesInv'
  BY <1>1, NamesStay DEF ResumeTypes, AtWork, Unwritten
<1>7. R!OneSave'
  BY <1>1 DEF ResumeTypes, R!OneSave
<1>8. JudgedInv'
  BY <1>1 DEF JudgedInv
<1> QED
  BY <1>2, <1>3, <1>4, <1>5, <1>6, <1>7, <1>8

LEMMA ResumeBoardWrites == ASSUME ResumeInv, R!BoardWrites PROVE ResumeInv'
<1> USE DEF ResumeInv
<1> DEFINE f == R!Stamp("idle", "none", starter.list, R!Idle)
<1>1. /\ starter.at = "judged" /\ starter' = R!NoBoardStart /\ pointer' = f /\ UNCHANGED <<work, record, place, hand, ckpt>>
      /\ moved' = IF starter.list \subseteq R!Active THEN moved \ {"ended together"} ELSE moved \cup {"ended together"}
      /\ f \in PointerFiles /\ f.kind = "idle" /\ f.live = starter.list
      /\ R!NoBoardStart.at = "none" /\ R!NoBoardStart \in [at : {"none", "listed", "judged"}, list : SUBSET Sharers, saw : PointerFiles]
  <2>1. starter.list \in SUBSET Sharers /\ R!Idle \in Nat
    BY DEF ResumeTypes, R!Idle
  <2>2. f \in IdleFiles /\ f.live = starter.list
    BY <2>1, StampIs
  <2>3. starter.at = "judged" /\ starter' = R!NoBoardStart /\ pointer' = f /\ UNCHANGED <<work, record, place, hand, ckpt>>
        /\ moved' = IF starter.list \subseteq R!Active THEN moved \ {"ended together"} ELSE moved \cup {"ended together"}
    BY DEF R!BoardWrites
  <2> HIDE DEF f
  <2>4. f \in PointerFiles /\ f.kind = "idle"
    BY <2>2, PointersAre
  <2>5. R!NoBoardStart.at = "none" /\ R!NoBoardStart \in [at : {"none", "listed", "judged"}, list : SUBSET Sharers, saw : PointerFiles]
    BY PointersAre DEF R!NoBoardStart
  <2> QED
    BY <2>2, <2>3, <2>4, <2>5
<1> HIDE DEF f
<1>2. ResumeTypes'
  BY <1>1 DEF ResumeTypes, AtWork, Unwritten
<1>3. RecordsKept'
  BY <1>1 DEF ResumeTypes, RecordsKept, AtWork, Unwritten, R!ActiveRecord
<1>4. HandsInv'
  BY <1>1 DEF ResumeTypes, HandsInv, NamesItself
<1>5. StampsInv'
  <2>1. "a dirty file was edited again" \in moved => "a dirty file was edited again" \in moved'
    BY <1>1
  <2> QED
    BY <1>1, <2>1 DEF ResumeTypes, StampsInv, Agrees
<1>6. NamesInv'
  <2>1. \A r \in R!Active : place'[r] \in Unwritten
    BY <1>1 DEF R!Active, RecordsKept, AtWork, Unwritten
  <2>2. starter.list \subseteq R!Active \/ "ended together" \in moved'
    BY <1>1
  <2> QED
    BY <1>1, <2>1, <2>2 DEF NamesInv
<1>7. R!OneSave'
  BY <1>1 DEF ResumeTypes, R!OneSave
<1>8. JudgedInv'
  BY <1>1 DEF JudgedInv
<1> QED
  BY <1>2, <1>3, <1>4, <1>5, <1>6, <1>7, <1>8

LEMMA ResumeWorks == ASSUME ResumeInv, NEW kind \in {"edit", "again", "commit"}, R!Works(kind) PROVE ResumeInv'
<1> USE DEF ResumeInv
<1> DEFINE h == IF kind = "commit" THEN work.head + 1 ELSE work.head
           n == IF kind = "commit" THEN 0 ELSE IF kind = "edit" THEN work.text + 1 ELSE work.names
<1>1. /\ work' = [head |-> h, names |-> n, text |-> work.text + 1] /\ h \in Nat /\ n \in Nat /\ n <= work.text + 1
      /\ work \in [head : Nat, names : Nat, text : Nat] /\ work.names <= work.text
      /\ h > work.head \/ (h = work.head /\ (n > work.text \/ (n = work.names /\ "a dirty file was edited again" \in moved')))
      /\ moved \subseteq moved' /\ h >= work.head /\ moved' \subseteq moved \cup {"a dirty file was edited again"}
      /\ UNCHANGED <<record, place, hand, ckpt, pointer, starter>>
  <2>1. work \in [head : Nat, names : Nat, text : Nat] /\ work.names <= work.text
    BY DEF ResumeTypes
  <2>2. work.head \in Nat /\ work.names \in Nat /\ work.text \in Nat
    BY <2>1
  <2>3. work' = [head |-> h, names |-> n, text |-> work.text + 1]
        /\ moved' = moved \cup (IF kind = "again" THEN {"a dirty file was edited again"} ELSE {})
        /\ UNCHANGED <<record, place, hand, ckpt, pointer, starter>>
    BY DEF R!Works
  <2>4. h \in Nat /\ n \in Nat /\ n <= work.text + 1 /\ h >= work.head
    BY <2>1, <2>2
  <2>5. h > work.head \/ (h = work.head /\ (n > work.text \/ (n = work.names /\ "a dirty file was edited again" \in moved')))
    <3>1. CASE kind = "commit"
      <4>1. h = work.head + 1
        BY <3>1
      <4> HIDE DEF h, n
      <4>2. h > work.head
        BY <2>2, <4>1
      <4> QED
        BY <4>2
    <3>2. CASE kind = "edit"
      <4>1. h = work.head /\ n = work.text + 1
        BY <3>2
      <4> HIDE DEF h, n
      <4>2. n > work.text
        BY <2>2, <4>1
      <4> QED
        BY <4>1, <4>2
    <3>3. CASE kind = "again"
      <4>1. "a dirty file was edited again" \in moved'
        BY <2>3, <3>3
      <4> QED
        BY <3>3, <4>1
    <3> QED
      BY <3>1, <3>2, <3>3
  <2> HIDE DEF h, n
  <2> QED
    BY <2>1, <2>3, <2>4, <2>5
<1> HIDE DEF h, n
<1>2. ResumeTypes'
  <2>1. work'.names = n /\ work'.text = work.text + 1 /\ work' \in [head : Nat, names : Nat, text : Nat]
    <3>1. work.text \in Nat /\ h \in Nat /\ n \in Nat /\ work' = [head |-> h, names |-> n, text |-> work.text + 1]
      BY <1>1
    <3> DEFINE m == work.text + 1
    <3>2. m \in Nat /\ work' = [head |-> h, names |-> n, text |-> m]
      BY <3>1
    <3> HIDE DEF m
    <3>3. work'.names = n /\ work'.text = m /\ work' \in [head : Nat, names : Nat, text : Nat]
      BY <3>1, <3>2
    <3> QED
      BY <3>3 DEF m
  <2>2. work'.names <= work'.text
    BY <1>1, <2>1
  <2> QED
    BY <1>1, <2>1, <2>2 DEF ResumeTypes
<1>3. RecordsKept'
  BY <1>1 DEF ResumeTypes, RecordsKept, AtWork, Unwritten, R!ActiveRecord
<1>4. HandsInv'
  BY <1>1 DEF ResumeTypes, HandsInv
<1>5. StampsInv'
  <2>1. ASSUME NEW f \in HandOffFiles, Agrees(f)
        PROVE  /\ f.head <= work'.head /\ f.names <= work'.text
               /\ f.head = work'.head /\ f.names = work'.names => f.text = work'.text \/ "a dirty file was edited again" \in moved'
    <3>1. f.head \in Nat /\ f.names \in Nat /\ work.head \in Nat /\ work.text \in Nat /\ work.names \in Nat
      BY <1>1 DEF HandOffFiles
    <3>2. work'.head = h /\ work'.names = n /\ work'.text = work.text + 1
      BY <1>1
    <3>3. f.head <= work.head /\ f.names <= work.text
      BY <2>1 DEF Agrees
    <3>4. h >= work.head /\ h \in Nat /\ n \in Nat
      BY <1>1
    <3>5. f.head <= h /\ f.names <= work.text + 1
      BY <3>1, <3>3, <3>4
    <3>6. CASE h > work.head
      <4>1. f.head # h
        BY <3>1, <3>3, <3>4, <3>6
      <4> QED
        BY <3>2, <3>5, <4>1
    <3>7. CASE n > work.text
      <4>1. f.names # n
        BY <3>1, <3>3, <3>4, <3>7
      <4> QED
        BY <3>2, <3>5, <4>1
    <3>8. CASE "a dirty file was edited again" \in moved'
      BY <3>2, <3>5, <3>8
    <3> QED
      BY <1>1, <3>6, <3>7, <3>8
  <2>2. (pointer.kind = "handoff" => pointer \in HandOffFiles) /\ \A t \in Sharers : place[t] = "gathered" => hand[t] \in HandOffFiles
    <3>1. pointer \in PointerFiles /\ \A t \in Sharers : hand[t] \in PointerFiles
      BY DEF ResumeTypes
    <3>2. \A t \in Sharers : place[t] = "gathered" => hand[t].kind = "handoff"
      BY DEF HandsInv
    <3> QED
      BY <3>1, <3>2, PointersAre
  <2> QED
    BY <1>1, <2>1, <2>2 DEF StampsInv, Agrees
<1>6. NamesInv'
  BY <1>1, NamesStay DEF ResumeTypes, AtWork, Unwritten
<1>7. R!OneSave'
  BY <1>1 DEF ResumeTypes, R!OneSave
<1>8. JudgedInv'
  BY <1>1 DEF JudgedInv
<1> QED
  BY <1>2, <1>3, <1>4, <1>5, <1>6, <1>7, <1>8

LEMMA ResumeStep == ASSUME ResumeInv, R!ResumeNext PROVE ResumeInv'
<1>1. ASSUME NEW t \in Sharers,
             R!Opens(t) \/ R!Checkpoints(t) \/ R!CheckpointSaved(t) \/ R!HandsOff(t) \/ R!KeepsConversation(t)
      PROVE  ResumeInv'
  BY <1>1, ResumeOpens, ResumeCheckpoints, ResumeCheckpointSaved, ResumeHandsOff, ResumeKeepsConversation
<1>2. ASSUME NEW t \in Sharers, R!Gathers(t) \/ R!Writes(t) \/ R!Ends(t) \/ R!EndGathers(t) \/ R!EndWrites(t) \/ R!Dies(t)
      PROVE  ResumeInv'
  BY <1>2, ResumeGathers, ResumeWrites, ResumeEnds, ResumeEndGathers, ResumeEndWrites, ResumeDies
<1>3. CASE R!BoardLists \/ R!BoardJudges \/ R!BoardWrites
  BY <1>3, ResumeBoardLists, ResumeBoardJudges, ResumeBoardWrites
<1>4. ASSUME NEW kind \in {"edit", "again", "commit"}, R!Works(kind) PROVE ResumeInv'
  BY <1>4, ResumeWorks
<1> QED
  BY <1>1, <1>2, <1>3, <1>4 DEF R!ResumeNext

LEMMA ResumeSuffices == ASSUME ResumeInv PROVE R!PointerIsTrue /\ R!HandOffKept
<1> USE DEF ResumeInv
<1>1. pointer \in PointerFiles
  BY DEF ResumeTypes
<1>2. R!FreshIsTrue
  <2>1. SUFFICES ASSUME pointer.kind = "handoff", R!Verdict(R!Active) = "fresh"
        PROVE  pointer.by \in R!Active /\ (pointer.of = work.text \/ pointer.of # pointer.text \/ "a dirty file was edited again" \in moved)
    BY DEF R!FreshIsTrue
  <2>2. R!Reasons(pointer, R!Active) = {}
    BY <2>1 DEF R!Verdict
  <2>3. pointer.live \subseteq R!Active
    <3>1. "gone" \notin R!Reasons(pointer, R!Active)
      BY <2>2
    <3> QED
      BY <3>1 DEF R!Reasons
  <2>4. pointer.head = work.head /\ pointer.names = work.names
    <3>1. "work" \notin R!Reasons(pointer, R!Active)
      BY <2>2
    <3> QED
      BY <2>1, <3>1 DEF R!Reasons
  <2> QED
    BY <2>1, <2>3, <2>4 DEF HandsInv, NamesItself, StampsInv, Agrees
<1>3. R!NothingLooksLive
  <2>1. SUFFICES ASSUME \A t \in Sharers : place[t] \in {"new", "over"}, NEW t \in Sharers, place[t] = "over"
        PROVE  pointer = R!Absent \/ (pointer.kind = "idle" /\ (pointer.live = {} \/ "ended together" \in moved))
    BY DEF R!NothingLooksLive
  <2>2. \A r \in Sharers : place[r] \notin Unwritten
    BY <2>1 DEF Unwritten, AtWork
  <2>3. pointer.kind # "handoff"
    BY <1>1, <2>2, PointersAre DEF NamesInv, HandOffFiles
  <2>4. pointer.kind # "unstamped"
    BY <2>1 DEF NamesInv
  <2>5. pointer.kind = "idle" => pointer.live = {} \/ "ended together" \in moved
    BY <1>1, <2>2, PointersAre DEF NamesInv, IdleFiles
  <2> QED
    BY <1>1, <2>3, <2>4, <2>5, PointersAre
<1>4. R!OneSave
  OBVIOUS
<1>5. R!HandOffKept
  BY DEF JudgedInv, R!HandOffKept
<1> QED
  BY <1>2, <1>3, <1>4, <1>5 DEF R!PointerIsTrue

-----------------------------------------------------------------------------
(* What the next leg is handed.                                            *)

LEMMA TapsRests == ASSUME TapsInv, UNCHANGED T!tapsVars PROVE TapsInv'
<1>1. TapTypes' /\ TapPlaces'
  BY DEF TapsInv, TapTypes, TapPlaces, T!tapsVars
<1>2. HearInv'
  BY DEF TapsInv, HearInv, Listens, T!tapsVars
<1>3. OwnInv'
  BY DEF TapsInv, OwnInv, Listens, T!tapsVars
<1>4. T!TurnsAreOwn'
  BY DEF TapsInv, T!TurnsAreOwn, T!Own, T!Near, T!tapsVars
<1> QED
  BY <1>1, <1>2, <1>3, <1>4 DEF TapsInv

LEMMA ResumeRests == ASSUME ResumeInv, UNCHANGED R!resumeVars PROVE ResumeInv'
<1> USE DEF ResumeInv, R!resumeVars
<1>1. ResumeTypes' /\ RecordsKept' /\ HandsInv'
  BY DEF ResumeTypes, RecordsKept, HandsInv
<1>2. StampsInv' /\ NamesInv'
  BY DEF StampsInv, Agrees, NamesInv
<1>3. R!OneSave' /\ JudgedInv'
  BY DEF R!OneSave, JudgedInv
<1> QED
  BY <1>1, <1>2, <1>3

\* FeedsSpec => CarriedIsTrue: a terminal that read its file to the end acted on every line it was due and on no other's, the turns
\* of a leg are its prompts (the poll of attach.mjs, createTail, promptsSince), a RESUME.md that reads as current is of a terminal that
\* runs and of the checkout as it is (resumeVerdict), and a board that starts takes no hand-off from who runs (refreshPointers).
THEOREM CarriedIsTrueThm == FeedsSpec => CarriedIsTrue
<1> DEFINE Inv == (feed = "taps" => TapsInv) /\ (feed = "resume" => ResumeInv)
           Keeps == feed = "resume" => R!HandOffKept
<1>1. FeedsInit => Inv
  BY TapsStart, ResumeStart DEF FeedsInit
<1>2. Inv /\ [FeedsNext]_feedsVars => Inv'
  <2> SUFFICES ASSUME Inv, [FeedsNext]_feedsVars PROVE Inv'
    OBVIOUS
  <2>1. CASE feed = "taps" /\ T!TapsNext /\ UNCHANGED feed
    BY <2>1, TapsStep
  <2>2. CASE feed = "resume" /\ R!ResumeNext /\ UNCHANGED feed
    BY <2>2, ResumeStep
  <2>3. CASE feed \notin {"taps", "resume"} /\ UNCHANGED feed
    BY <2>3
  <2>4. CASE UNCHANGED feedsVars
    <3>1. UNCHANGED <<feed, T!tapsVars, R!resumeVars>>
      BY <2>4 DEF feedsVars, Tvars, Rvars, T!tapsVars, R!resumeVars
    <3> QED
      BY <3>1, TapsRests, ResumeRests
  <2> QED
    BY <2>1, <2>2, <2>3, <2>4 DEF FeedsNext
<1>3. Inv => (feed = "taps" => T!TapsHear)
  BY TapsSuffices
<1>4. Inv => (feed = "resume" => R!PointerIsTrue)
  BY ResumeSuffices
<1>5. Inv /\ [FeedsNext]_feedsVars => [Keeps]_feedsVars
  BY ResumeSuffices
<1> QED
  BY <1>1, <1>2, <1>3, <1>4, <1>5, PTL DEF FeedsSpec, CarriedIsTrue

-----------------------------------------------------------------------------
(* The reading of usage (UsagePoll.tla).                                   *)

Slots ==
  [delay : Nat \ {0}, due : Nat, at : {"none", "asked", "tells"}, since : Nat,
   saw : {"none", "ok"} \cup Errors, todo : SUBSET PollTerms, changed : BOOLEAN]
Reasons == {U!NoError} \cup Errors
CardRecords ==
  [login : PollLogins \cup {"none"}, active : BOOLEAN, err : Reasons, figures : PollLogins \cup {"none"}]

PollTypes ==
  /\ now \in Nat \ {0} /\ boardUp \in BOOLEAN /\ accounts \subseteq PollLogins /\ told \subseteq PollTerms
  /\ endpoint \in [PollLogins -> {"ok"} \cup Errors]
  /\ slot \in [PollLogins -> Slots]
  /\ usage \in [PollLogins -> [observed : Nat, error : Reasons, next : Nat]]
  /\ cardOf \in [PollTerms -> CardRecords]
  /\ own \in [PollTerms -> [of : PollLogins \cup {"none"}, last : Nat]]

\* A card that a round of this board has listed says what the round found, or is about to be told.
Tells(t, l) == slot[l].at = "tells" /\ t \in slot[l].todo
CardsInv ==
  \A t \in PollTerms : cardOf[t].active =>
    /\ cardOf[t].login \in PollLogins /\ cardOf[t].figures \in {"none", cardOf[t].login}
    /\ boardUp /\ t \in told => cardOf[t].err = usage[cardOf[t].login].error \/ Tells(t, cardOf[t].login)
TellsInv ==
  \A l \in PollLogins : slot[l].at = "tells" =>
    usage[l].error = IF slot[l].saw = "ok" THEN U!NoError ELSE slot[l].saw
\* What the poller promised holds while it waits, and an answer is no later than the grace.
PromiseInv ==
  \A l \in PollLogins :
    /\ slot[l].at = "none" /\ slot[l].due = 0 => slot[l].delay = Interval
    /\ slot[l].at # "none" => slot[l].due = 0
    /\ slot[l].due > 0 => usage[l].next = slot[l].due /\ now <= slot[l].due
    /\ slot[l].at # "none" /\ slot[l].delay # Interval =>
         usage[l].next = slot[l].since /\ slot[l].since > 0 /\ now <= slot[l].since + 1

PollInv == PollTypes /\ CardsInv /\ TellsInv /\ PromiseInv

\* A slot that is asked is a slot.
LEMMA SlotsAre ==
  /\ U!NoSlot \in Slots
  /\ \A s \in Slots : now \in Nat => U!Asked(s) \in Slots
<1>1. U!NoSlot \in Slots
  BY FeedsAssumption DEF U!PollAssumption, U!NoSlot, Slots
<1>2. ASSUME NEW s \in Slots, now \in Nat PROVE U!Asked(s) \in Slots
  BY <1>2 DEF Slots, U!Asked
<1> QED
  BY <1>1, <1>2

LEMMA PollStart == U!PollInit => PollInv
<1> SUFFICES ASSUME U!PollInit PROVE PollInv
  OBVIOUS
<1>1. PollTypes
  <2>1. [login |-> "none", active |-> FALSE, err |-> U!NoError, figures |-> "none"] \in CardRecords
    BY DEF CardRecords, Reasons
  <2>2. [observed |-> 0, error |-> U!NoError, next |-> 0] \in [observed : Nat, error : Reasons, next : Nat]
    BY DEF Reasons
  <2>3. slot \in [PollLogins -> Slots]
    BY SlotsAre DEF U!PollInit
  <2>4. usage \in [PollLogins -> [observed : Nat, error : Reasons, next : Nat]]
    BY <2>2 DEF U!PollInit
  <2>5. cardOf \in [PollTerms -> CardRecords]
    BY <2>1 DEF U!PollInit
  <2>6. now \in Nat \ {0} /\ boardUp \in BOOLEAN /\ accounts \subseteq PollLogins /\ told \subseteq PollTerms
    <3>1. PICK l \in PollLogins : accounts = {l}
      BY DEF U!PollInit
    <3>2. accounts \subseteq PollLogins
      BY <3>1
    <3>3. now = 1 /\ told = {}
      BY DEF U!PollInit
    <3>4. boardUp \in BOOLEAN
      BY Zenon DEF U!PollInit
    <3> QED
      BY <3>2, <3>3, <3>4
  <2>7. /\ endpoint \in [PollLogins -> {"ok"} \cup Errors]
        /\ own \in [PollTerms -> [of : PollLogins \cup {"none"}, last : Nat]]
    BY DEF U!PollInit
  <2> QED
    BY <2>3, <2>4, <2>5, <2>6, <2>7 DEF PollTypes
<1>2. CardsInv /\ TellsInv /\ PromiseInv
  BY DEF U!PollInit, CardsInv, TellsInv, PromiseInv, U!NoSlot
<1> QED
  BY <1>1, <1>2 DEF PollInv

\* Every step of it keeps the types.
LEMMA PollTyped ==
  ASSUME PollTypes, U!PollNext
  PROVE  PollTypes'
<1> USE DEF PollTypes
<1>1. CASE U!BoardStarts
  <2>1. \A l \in PollLogins : slot'[l] \in Slots
    BY <1>1, SlotsAre DEF U!BoardStarts
  <2> QED
    BY <1>1, <2>1 DEF U!BoardStarts
<1>2. CASE U!BoardStops
  BY <1>2, SlotsAre DEF U!BoardStops
<1>3. CASE U!Passes
  BY <1>3 DEF U!Passes
<1>4. ASSUME NEW l \in PollLogins, U!TimerFires(l) PROVE PollTypes'
  BY <1>4, SlotsAre DEF U!TimerFires
<1>5. ASSUME NEW l \in PollLogins, U!Answers(l) PROVE PollTypes'
  <2> DEFINE saw == endpoint[l]
             why == IF saw = "ok" THEN U!NoError ELSE saw
             changed == U!Changed(usage[l], why)
  <2>1. why \in Reasons /\ changed \in BOOLEAN
    BY DEF Reasons, U!Changed
  <2>2. U!OnLogin(l) \subseteq PollTerms /\ U!Behind(l, changed, why) \in SUBSET PollTerms
    BY DEF U!OnLogin, U!Behind
  <2>3. [slot[l] EXCEPT !.at = "tells", !.saw = saw, !.todo = U!Behind(l, changed, why), !.changed = changed] \in Slots
    <3> HIDE DEF changed, why
    <3> QED
      BY <2>1, <2>2 DEF Slots
  <2>4. \A u \in [observed : Nat, error : Reasons, next : Nat] :
          /\ [u EXCEPT !.error = why] \in [observed : Nat, error : Reasons, next : Nat]
          /\ [[u EXCEPT !.observed = now] EXCEPT !.error = why] \in [observed : Nat, error : Reasons, next : Nat]
    <3> HIDE DEF why
    <3> QED
      BY <2>1
  <2> QED
    BY <1>5, <2>2, <2>3, <2>4 DEF U!Answers, U!noteUsageError
<1>6. ASSUME NEW l \in PollLogins, U!RoundEnds(l) PROVE PollTypes'
  <2> DEFINE delay == IF slot[l].saw = "ok" THEN Interval ELSE U!Lesser(MaxDelay, slot[l].delay * 2)
  <2>1. delay \in Nat \ {0}
    BY FeedsAssumption DEF U!PollAssumption, U!Lesser, Slots
  <2>2. [U!NoSlot EXCEPT !.delay = delay, !.due = now + delay] \in Slots
    <3> HIDE DEF delay
    <3>1. now + delay \in Nat
      BY <2>1
    <3> QED
      BY <2>1, <3>1 DEF Slots, U!NoSlot
  <2>3. \A m \in PollLogins : slot'[m] \in Slots
    BY <1>6, <2>2, SlotsAre DEF U!RoundEnds
  <2>4. usage' \in [PollLogins -> [observed : Nat, error : Reasons, next : Nat]]
    <3> HIDE DEF delay
    <3>1. usage' = [usage EXCEPT ![l] = U!notePoll(@, l, now + delay)]
      BY <1>6 DEF U!RoundEnds, delay
    <3> QED
      BY <2>1, <3>1 DEF U!notePoll
  <2> QED
    BY <1>6, <2>3, <2>4 DEF U!RoundEnds
<1>7. ASSUME NEW l \in PollLogins, U!AddsLogin(l) PROVE PollTypes'
  BY <1>7 DEF U!AddsLogin
<1>8. ASSUME NEW l \in PollLogins, NEW t \in PollTerms, U!pushToSession(l, t) PROVE PollTypes'
  <2>1. \A q \in SUBSET PollTerms : [slot[l] EXCEPT !.todo = q] \in Slots
    BY DEF Slots
  <2>2. /\ [cardOf[t] EXCEPT !.err = U!NoError, !.figures = l] \in CardRecords
        /\ slot[l].saw # "ok" => [cardOf[t] EXCEPT !.err = slot[l].saw] \in CardRecords
    BY DEF CardRecords, Reasons, Slots, U!NoError
  <2>3. slot' \in [PollLogins -> Slots]
    <3>1. slot[l].todo \ {t} \in SUBSET PollTerms
      BY DEF Slots
    <3>2. slot' = [slot EXCEPT ![l].todo = slot[l].todo \ {t}]
      BY <1>8 DEF U!pushToSession
    <3> QED
      BY <2>1, <3>1, <3>2
  <2>4. cardOf' \in {cardOf, [cardOf EXCEPT ![t] = [@ EXCEPT !.err = U!NoError, !.figures = l]],
                     [cardOf EXCEPT ![t] = [@ EXCEPT !.err = slot[l].saw]]}
        /\ (cardOf' = [cardOf EXCEPT ![t] = [@ EXCEPT !.err = slot[l].saw]] => cardOf' = cardOf \/ slot[l].saw # "ok" \/ cardOf' = [cardOf EXCEPT ![t] = [@ EXCEPT !.err = U!NoError, !.figures = l]])
    BY <1>8 DEF U!pushToSession
  <2> QED
    BY <1>8, <2>1, <2>2, <2>3, <2>4 DEF U!pushToSession
<1>9. ASSUME NEW l \in PollLogins, NEW t \in PollTerms, U!LegBegins(t, l) PROVE PollTypes'
  <2>1. [login |-> l, active |-> TRUE, err |-> U!NoError, figures |-> "none"] \in CardRecords
    BY DEF CardRecords, Reasons
  <2> QED
    BY <1>9, <2>1 DEF U!LegBegins
<1>10. ASSUME NEW l \in PollLogins, NEW how \in {"ok"} \cup Errors, U!EndpointTurns(l, how) PROVE PollTypes'
  BY <1>10 DEF U!EndpointTurns
<1>11. ASSUME NEW t \in PollTerms, U!TerminalAsks(t) PROVE PollTypes'
  <2>1. [of |-> cardOf[t].login, last |-> now] \in [of : PollLogins \cup {"none"}, last : Nat]
    BY DEF CardRecords
  <2> QED
    BY <1>11, <2>1 DEF U!TerminalAsks
<1>12. ASSUME NEW t \in PollTerms, U!TerminalHears(t) PROVE PollTypes'
  <2> DEFINE l == own[t].of
  <2>1. l \in PollLogins
    BY <1>12 DEF U!TerminalHears
  <2>2. own' \in [PollTerms -> [of : PollLogins \cup {"none"}, last : Nat]]
    BY <1>12 DEF U!TerminalHears
  <2>3. usage' \in [PollLogins -> [observed : Nat, error : Reasons, next : Nat]]
    <3>1. usage' = usage \/ usage' = [usage EXCEPT ![l].observed = now]
      BY <1>12 DEF U!TerminalHears
    <3> QED
      BY <2>1, <3>1
  <2>4. cardOf' \in [PollTerms -> CardRecords]
    <3>1. /\ [cardOf[t] EXCEPT !.err = U!NoError, !.figures = l] \in CardRecords
          /\ endpoint[l] # "ok" =>
               [cardOf[t] EXCEPT !.err = IF @ = U!NoError THEN endpoint[l] ELSE @] \in CardRecords
      BY <2>1 DEF CardRecords, Reasons
    <3> QED
      BY <1>12, <3>1 DEF U!TerminalHears
  <2> QED
    BY <1>12, <2>2, <2>3, <2>4 DEF U!TerminalHears
<1>13. ASSUME NEW t \in PollTerms, U!TerminalEnds(t) PROVE PollTypes'
  <2>1. [cardOf[t] EXCEPT !.active = FALSE] \in CardRecords
    BY DEF CardRecords
  <2> QED
    BY <1>13, <2>1 DEF U!TerminalEnds
<1> QED
  BY <1>1, <1>2, <1>3, <1>4, <1>5, <1>6, <1>7, <1>8, <1>9, <1>10, <1>11, <1>12, <1>13 DEF U!PollNext

\* What the cards say.
LEMMA CardsAreTold ==
  ASSUME PollTypes, CardsInv, TellsInv, U!PollNext
  PROVE  (CardsInv /\ TellsInv)'
<1> USE DEF PollTypes, Slots, Reasons, CardRecords, U!NoSlot, U!NoError, U!Asked, CardsInv, TellsInv, Tells
<1>1. CASE U!BoardStarts
  BY <1>1 DEF U!BoardStarts
<1>2. CASE U!BoardStops
  BY <1>2 DEF U!BoardStops
<1>3. CASE U!Passes
  BY <1>3 DEF U!Passes
<1>4. ASSUME NEW l \in PollLogins, U!TimerFires(l) PROVE (CardsInv /\ TellsInv)'
  BY <1>4 DEF U!TimerFires
<1>5. ASSUME NEW l \in PollLogins, U!Answers(l) PROVE (CardsInv /\ TellsInv)'
  BY <1>5 DEF U!Answers, U!noteUsageError, U!Changed, U!Behind, U!OnLogin
<1>6. ASSUME NEW l \in PollLogins, U!RoundEnds(l) PROVE (CardsInv /\ TellsInv)'
  BY <1>6 DEF U!RoundEnds, U!notePoll, U!Lesser
<1>7. ASSUME NEW l \in PollLogins, U!AddsLogin(l) PROVE (CardsInv /\ TellsInv)'
  BY <1>7 DEF U!AddsLogin
<1>8. ASSUME NEW l \in PollLogins, NEW t \in PollTerms, U!pushToSession(l, t) PROVE (CardsInv /\ TellsInv)'
  <2>1. slot' = [slot EXCEPT ![l].todo = slot[l].todo \ {t}] /\ UNCHANGED <<usage, told, boardUp>>
    BY <1>8 DEF U!pushToSession
  <2>2. TellsInv'
    BY <2>1
  <2>3. \A m \in PollLogins, r \in PollTerms : m # l \/ r # t =>
          (slot[m].at = "tells" /\ r \in slot[m].todo => slot'[m].at = "tells" /\ r \in slot'[m].todo)
    BY <2>1
  <2>4. \A r \in PollTerms : cardOf'[r].active => cardOf[r].active /\ cardOf'[r].login = cardOf[r].login
    BY <1>8 DEF U!pushToSession
  <2>5. ASSUME NEW r \in PollTerms, cardOf'[r].active, r # t \/ ~U!StillOn(t, l)
        PROVE  /\ cardOf'[r].figures \in {"none", cardOf'[r].login}
               /\ boardUp' /\ r \in told' =>
                    \/ cardOf'[r].err = usage'[cardOf'[r].login].error
                    \/ slot'[cardOf'[r].login].at = "tells" /\ r \in slot'[cardOf'[r].login].todo
    <3>1. cardOf'[r] = cardOf[r]
      BY <1>8, <2>5 DEF U!pushToSession
    <3>2. r = t => cardOf[r].login # l
      BY <2>5, <3>1 DEF U!StillOn
    <3> QED
      BY <2>1, <2>3, <2>5, <3>1, <3>2
  <2>6. ASSUME U!StillOn(t, l)
        PROVE  cardOf'[t].figures \in {"none", l} /\ cardOf'[t].err = usage[l].error
    BY <1>8, <2>6 DEF U!pushToSession, U!StillOn
  <2> QED
    <3>1. \A r \in PollTerms : cardOf'[r].active => cardOf'[r].login \in PollLogins
      BY <2>4
    <3>2. ASSUME U!StillOn(t, l), cardOf'[t].active
          PROVE  cardOf'[t].figures \in {"none", cardOf'[t].login} /\ cardOf'[t].err = usage'[cardOf'[t].login].error
      BY <2>1, <2>4, <2>6, <3>2 DEF U!StillOn
    <3> QED
      BY <2>2, <2>5, <3>1, <3>2
<1>9. ASSUME NEW l \in PollLogins, NEW t \in PollTerms, U!LegBegins(t, l) PROVE (CardsInv /\ TellsInv)'
  BY <1>9 DEF U!LegBegins
<1>10. ASSUME NEW l \in PollLogins, NEW how \in {"ok"} \cup Errors, U!EndpointTurns(l, how)
      PROVE  (CardsInv /\ TellsInv)'
  BY <1>10 DEF U!EndpointTurns
<1>11. ASSUME NEW t \in PollTerms, U!TerminalAsks(t) PROVE (CardsInv /\ TellsInv)'
  BY <1>11 DEF U!TerminalAsks
<1>12. ASSUME NEW t \in PollTerms, U!TerminalHears(t) PROVE (CardsInv /\ TellsInv)'
  <2> DEFINE l == own[t].of
  <2>1. l \in PollLogins /\ UNCHANGED <<slot, boardUp>>
    BY <1>12 DEF U!TerminalHears
  <2>2. \A m \in PollLogins : usage'[m].error = usage[m].error
    BY <1>12, <2>1 DEF U!TerminalHears
  <2>3. CASE ~U!StillOn(t, l)
    BY <1>12, <2>3 DEF U!TerminalHears
  <2>4. CASE U!StillOn(t, l)
    <3>1. told' = told \ {t} /\ \A r \in PollTerms : r # t => cardOf'[r] = cardOf[r]
      BY <1>12, <2>4 DEF U!TerminalHears
    <3>2. cardOf'[t].active /\ cardOf'[t].login = l /\ cardOf'[t].figures \in {"none", l}
      BY <1>12, <2>1, <2>4 DEF U!TerminalHears, U!StillOn
    <3> QED
      BY <2>1, <2>2, <3>1, <3>2
  <2> QED
    BY <2>3, <2>4
<1>13. ASSUME NEW t \in PollTerms, U!TerminalEnds(t) PROVE (CardsInv /\ TellsInv)'
  BY <1>13 DEF U!TerminalEnds
<1> QED
  BY <1>1, <1>2, <1>3, <1>4, <1>5, <1>6, <1>7, <1>8, <1>9, <1>10, <1>11, <1>12, <1>13 DEF U!PollNext

\* What the poller promised.
LEMMA PromisesHold ==
  ASSUME PollTypes, PromiseInv, U!PollNext
  PROVE  PromiseInv'
<1> USE FeedsAssumption DEF U!PollAssumption, PollTypes, Slots, Reasons, U!NoSlot, U!Asked, PromiseInv
<1>1. CASE U!BoardStarts
  BY <1>1 DEF U!BoardStarts
<1>2. CASE U!BoardStops
  BY <1>2 DEF U!BoardStops
<1>3. CASE U!Passes
  BY <1>3 DEF U!Passes
<1>4. ASSUME NEW l \in PollLogins, U!TimerFires(l) PROVE PromiseInv'
  BY <1>4 DEF U!TimerFires
<1>5. ASSUME NEW l \in PollLogins, U!Answers(l) PROVE PromiseInv'
  BY <1>5 DEF U!Answers, U!noteUsageError
<1>6. ASSUME NEW l \in PollLogins, U!RoundEnds(l) PROVE PromiseInv'
  BY <1>6 DEF U!RoundEnds, U!notePoll, U!Lesser
<1>7. ASSUME NEW l \in PollLogins, NEW t \in PollTerms, U!pushToSession(l, t) PROVE PromiseInv'
  <2>1. slot' = [slot EXCEPT ![l].todo = slot[l].todo \ {t}] /\ UNCHANGED <<usage, now>>
    BY <1>7 DEF U!pushToSession
  <2>2. \A m \in PollLogins : /\ slot'[m].at = slot[m].at /\ slot'[m].due = slot[m].due
                              /\ slot'[m].delay = slot[m].delay /\ slot'[m].since = slot[m].since
    BY <2>1
  <2> QED
    BY <2>1, <2>2
<1>8. CASE UNCHANGED <<now, slot, usage>>
  BY <1>8
<1>9. ASSUME NEW t \in PollTerms, U!TerminalHears(t) PROVE PromiseInv'
  <2> DEFINE l == own[t].of
  <2>1. l \in PollLogins /\ UNCHANGED <<slot, now>>
    BY <1>9 DEF U!TerminalHears
  <2>2. \A m \in PollLogins : usage'[m].next = usage[m].next
    BY <1>9, <2>1 DEF U!TerminalHears
  <2> QED
    BY <2>1, <2>2
<1> HIDE DEF PollTypes, PromiseInv
<1> QED
  BY <1>1, <1>2, <1>3, <1>4, <1>5, <1>6, <1>7, <1>8, <1>9
  DEF U!PollNext, U!AddsLogin, U!LegBegins, U!EndpointTurns, U!TerminalAsks, U!TerminalEnds

LEMMA PollStep ==
  ASSUME PollInv, U!PollNext
  PROVE  PollInv'
BY PollTyped, CardsAreTold, PromisesHold DEF PollInv

LEMMA PollSuffices ==
  ASSUME PollInv
  PROVE  U!CardsTell /\ (U!PollNext => U!AsksWhileNoneDoes)
<1>1. U!CardsTell
  BY DEF PollInv, PollTypes, CardsInv, Tells, U!CardsTell
<1>2. ASSUME U!PollNext, NEW t \in PollTerms, own'[t].of # "none", own[t].of = "none"
      PROVE  LET s == slot[own'[t].of] IN ~boardUp \/ s = U!NoSlot \/ (s.due = 0 /\ s.delay = Interval)
  <2>1. U!TerminalAsks(t)
    BY <1>2 DEF U!PollNext, U!BoardStarts, U!BoardStops, U!Passes, U!TimerFires, U!Answers, U!RoundEnds,
       U!AddsLogin, U!pushToSession, U!LegBegins, U!EndpointTurns, U!TerminalAsks, U!TerminalHears,
       U!TerminalEnds, PollInv, PollTypes
  <2> DEFINE l == cardOf[t].login
  <2>2. own'[t].of = l /\ l \in PollLogins /\ ~U!boardIsPolling(usage[l])
    BY <2>1 DEF U!TerminalAsks, PollInv, PollTypes, CardsInv
  <2>3. slot[l] \in Slots /\ now \in Nat \ {0} /\ usage[l].next \in Nat /\ Grace \in Nat \ {0}
    BY <2>2, FeedsAssumption DEF PollInv, PollTypes, U!PollAssumption
  <2>4. ~(slot[l].due > 0)
    BY <2>2, <2>3 DEF PollInv, PromiseInv, U!boardIsPolling, Slots
  <2>5. slot[l].delay = Interval
    BY <2>2, <2>3, <2>4 DEF PollInv, PromiseInv, U!boardIsPolling, Slots
  <2> QED
    BY <2>2, <2>3, <2>4, <2>5 DEF Slots
<1> QED
  BY <1>1, <1>2 DEF U!AsksWhileNoneDoes

-----------------------------------------------------------------------------
(* The record of a login (UsageRecord.tla).                                *)

IsObservation(o) ==
  /\ o.login \in Logins /\ o.seen \in Nat /\ o.ends \in Nat
  /\ o.kind = "reading" => o.model = "none" /\ o.ends = 0
  /\ o.kind # "reading" => o.kind = "wall" /\ o.model \in Models \cup {"none"}
IsWall(w) == DOMAIN w = {"until", "at"} /\ w.at \in Nat
IsUsage(u) ==
  /\ DOMAIN u = {"five", "seven", "buckets", "history", "observed", "available", "updated", "wall", "walls"}
  /\ u.observed \in Nat /\ u.available \in Nat /\ u.updated \in Nat
  /\ IsWall(u.wall) /\ DOMAIN u.walls = Models /\ \A m \in Models : IsWall(u.walls[m])

\* What was read or met last is no older than what the record says of the wall and of the opening,
\* and a wall that stands is no older than the opening.
Dated(u) ==
  /\ u.wall.at <= u.observed /\ u.available <= u.observed
  /\ u.wall.until # 0 => u.available <= u.wall.at

UsageTypes ==
  /\ clock \in Nat /\ (\A o \in pending : IsObservation(o))
  /\ DOMAIN rec = Logins /\ rec = [l \in Logins |-> rec[l]] /\ \A l \in Logins : IsUsage(rec[l]) /\ Dated(rec[l])
  /\ \A w \in given : w.login \in Logins /\ w.at \in Nat /\ w.until \in Nat

\* A word against a login, or a model of it, is what its record says, or was answered.
Says(u, w) == UR!WallOf(u, w.model).until = w.until /\ UR!WallOf(u, w.model).at = w.at
Covers(v, w) == v # w /\ v.login = w.login /\ v.model = w.model /\ v.says # "unknown" /\ v.at >= w.at
WordInv ==
  \A w \in given : w.says = "no" /\ w.until > clock =>
    (w.model # "none" => w.model \in Models) /\ (Says(rec[w.login], w) \/ \E v \in given : Covers(v, w))
OpenInv == \A v \in given : v.says = "yes" => v.at <= rec[v.login].available

UsageInv == UsageTypes /\ WordInv /\ OpenInv

LEMMA UsageStart == UR!UsageInit => UsageInv
<1> SUFFICES ASSUME UR!UsageInit PROVE UsageInv
  OBVIOUS
<1>1. IsUsage(UR!EmptyUsage) /\ Dated(UR!EmptyUsage)
  BY DEF UR!EmptyUsage, UR!NoWall, IsUsage, IsWall, Dated
<1>2. clock = 1 /\ rec = [l \in Logins |-> UR!EmptyUsage] /\ pending = {} /\ given = {}
  BY DEF UR!UsageInit
<1>3. UsageTypes
  BY <1>1, <1>2 DEF UsageTypes
<1> QED
  BY <1>2, <1>3 DEF UsageInv, WordInv, OpenInv

\* What a reading makes of a record, but for the figures.
Reread(u, o, e) == [UR!recordUsage(u, o) EXCEPT !.updated = e]
ReadWall(o, wall, new) ==
  \/ o.reading.avail = "yes" /\ o.seen >= wall.at /\ new = UR!NoWall
  \/ o.reading.avail = "no" /\ \E end : new = [until |-> end, at |-> o.seen]
  \/ ~(o.reading.avail = "yes" /\ o.seen >= wall.at) /\ o.reading.avail # "no" /\ new = wall
LEMMA ReadingIs ==
  ASSUME NEW u, IsUsage(u), NEW o, NEW e
  PROVE  /\ DOMAIN Reread(u, o, e) = DOMAIN u
         /\ Reread(u, o, e).observed = o.seen /\ Reread(u, o, e).updated = e
         /\ Reread(u, o, e).available = IF o.reading.avail = "yes" THEN o.seen ELSE u.available
         /\ Reread(u, o, e).walls = [m \in Models |-> UR!Expire(u.walls[m])]
         /\ ReadWall(o, UR!Expire(u.wall), Reread(u, o, e).wall)
<1> DEFINE b == UR!Buckets(u, o)
<1>1. /\ DOMAIN b = DOMAIN u /\ b.observed = u.observed /\ b.available = u.available
      /\ b.wall = u.wall /\ b.walls = u.walls
  BY DEF UR!Buckets, IsUsage
<1> DEFINE read == [b EXCEPT !.five = o.reading.five, !.seven = o.reading.seven, !.observed = o.seen,
                             !.available = IF o.reading.avail = "yes" THEN o.seen ELSE b.available,
                             !.wall = UR!Expire(b.wall),
                             !.walls = [m \in Models |-> UR!Expire(b.walls[m])]]
<1>2. UR!recordUsage(u, o) = [read EXCEPT !.wall = UR!Answered(read, o)]
  BY DEF UR!recordUsage
<1> HIDE DEF b
<1>3. /\ DOMAIN read = DOMAIN u /\ read.observed = o.seen
      /\ read.available = (IF o.reading.avail = "yes" THEN o.seen ELSE u.available)
      /\ read.wall = UR!Expire(u.wall) /\ read.walls = [m \in Models |-> UR!Expire(u.walls[m])]
  BY <1>1 DEF IsUsage
<1> HIDE DEF read
<1> DEFINE answer == UR!Answered(read, o)
           wall == UR!Expire(u.wall)
<1>4. ReadWall(o, wall, answer)
  <2> HIDE DEF wall
  <2>1. read.wall = wall
    BY <1>3 DEF wall
  <2>2. answer = CASE o.reading.avail = "yes" /\ o.seen >= wall.at -> UR!NoWall
                   [] o.reading.avail = "no" -> [until |-> UR!WindowEnds(read), at |-> o.seen]
                   [] OTHER -> wall
    BY <2>1 DEF UR!Answered
  <2> HIDE DEF answer
  <2> QED
    BY <2>2 DEF ReadWall
<1> HIDE DEF answer, wall
<1> DEFINE new == [UR!recordUsage(u, o) EXCEPT !.updated = e]
<1>5. /\ DOMAIN new = DOMAIN u /\ new.observed = o.seen /\ new.updated = e
      /\ new.available = read.available /\ new.walls = read.walls /\ new.wall = answer
  BY <1>2, <1>3 DEF IsUsage, answer
<1> QED
  BY <1>3, <1>4, <1>5 DEF wall, Reread

\* A new word of a login stays true to the words before it when it is not older than what it replaces.
LEMMA SaveKeeps ==
  ASSUME UsageInv, NEW o \in pending, NEW new, UR!Save(o, new),
         LET u == rec[o.login]
             n == [new EXCEPT !.updated = clock]
             word == UR!Word(o)
         IN /\ IsUsage(n) /\ Dated(n) /\ u.available <= n.available
            /\ word.says = "yes" => o.seen <= n.available
            /\ word.says = "no" /\ word.until > clock => Says(n, word) /\ (o.model # "none" => o.model \in Models)
            /\ \A w \in given : w.login = o.login /\ w.says = "no" /\ w.until > clock /\ Says(u, w)
                                  /\ (w.model # "none" => w.model \in Models) =>
                 Says(n, w) \/ Covers(word, w)
  PROVE  UsageInv'
<1> DEFINE u == rec[o.login]
           n == [new EXCEPT !.updated = clock]
           word == UR!Word(o)
<1>1. /\ rec' = [rec EXCEPT ![o.login] = n] /\ given' = given \cup {word}
      /\ pending' = pending \ {o} /\ clock' = clock
  BY DEF UR!Save
<1>2. word.login = o.login /\ word.at = o.seen /\ word.until = o.ends /\ word.model = o.model
  BY DEF UR!Word
<1>3. IsObservation(o)
  BY DEF UsageInv, UsageTypes
<1> HIDE DEF n, word
<1>4. rec'[o.login] = n /\ DOMAIN rec' = Logins /\ \A l \in Logins : l # o.login => rec'[l] = rec[l]
  BY <1>1, <1>3 DEF UsageInv, UsageTypes, IsObservation
<1>5. UsageTypes'
  BY <1>1, <1>2, <1>3, <1>4 DEF UsageInv, UsageTypes, IsObservation, n
<1>6. WordInv'
  <2> SUFFICES ASSUME NEW w \in given', w.says = "no", w.until > clock
               PROVE  /\ w.model # "none" => w.model \in Models
                      /\ Says(rec'[w.login], w) \/ \E v \in given' : Covers(v, w)
    BY <1>1 DEF WordInv
  <2>1. CASE w = word
    BY <1>2, <1>4, <2>1 DEF n, word
  <2>2. CASE w # word
    <3>1. w \in given /\ w.login \in Logins
      BY <1>1, <2>2 DEF UsageInv, UsageTypes
    <3>2. (w.model # "none" => w.model \in Models) /\ (Says(rec[w.login], w) \/ \E v \in given : Covers(v, w))
      BY <3>1 DEF UsageInv, WordInv
    <3>3. CASE \E v \in given : Covers(v, w)
      BY <1>1, <3>2, <3>3
    <3>4. CASE Says(rec[w.login], w) /\ w.login # o.login
      BY <1>4, <3>1, <3>2, <3>4
    <3>5. CASE Says(rec[w.login], w) /\ w.login = o.login
      <4>1. Says(n, w) \/ Covers(word, w)
        BY <3>1, <3>2, <3>5 DEF n, word
      <4> QED
        BY <1>1, <1>4, <3>2, <3>5, <4>1
    <3> QED
      BY <3>2, <3>3, <3>4, <3>5
  <2> QED
    BY <2>1, <2>2
<1>7. OpenInv'
  <2> SUFFICES ASSUME NEW v \in given', v.says = "yes" PROVE v.at <= rec'[v.login].available
    BY DEF OpenInv
  <2>1. CASE v = word
    BY <1>2, <1>4, <2>1 DEF n, word
  <2>2. CASE v # word
    <3>1. v \in given /\ v.login \in Logins /\ v.at \in Nat /\ v.at <= rec[v.login].available
      BY <1>1, <2>2 DEF UsageInv, UsageTypes, OpenInv
    <3>2. u.available \in Nat /\ n.available \in Nat /\ u.available <= n.available
      BY <1>3 DEF UsageInv, UsageTypes, IsObservation, IsUsage, n
    <3> QED
      BY <1>4, <3>1, <3>2
  <2> QED
    BY <2>1, <2>2
<1> QED
  BY <1>5, <1>6, <1>7 DEF UsageInv

LEMMA DropKeeps ==
  ASSUME UsageInv, NEW o, UR!Drop(o)
  PROVE  UsageInv'
BY DEF UR!Drop, UsageInv, UsageTypes, WordInv, OpenInv

LEMMA ExpireIs ==
  ASSUME NEW w, IsWall(w)
  PROVE  /\ IsWall(UR!Expire(w)) /\ UR!Expire(w).at <= w.at
         /\ w.until > clock => UR!Expire(w) = w
         /\ UR!Expire(w).until # 0 => UR!Expire(w) = w
BY DEF IsWall, UR!Expire, UR!wallActive, UR!NoWall

LEMMA ReadingKeeps ==
  ASSUME UsageInv, NEW o \in pending, UR!WriteReading(o)
  PROVE  UsageInv'
<1> DEFINE u == rec[o.login]
           new == UR!recordUsage(u, o)
           n == [new EXCEPT !.updated = clock]
           word == UR!Word(o)
           wall == UR!Expire(u.wall)
<1>1. CASE UR!StaleReading(u, o)
  BY <1>1, DropKeeps DEF UR!WriteReading
<1>2. CASE ~UR!StaleReading(u, o)
  <2>1. IsObservation(o) /\ o.kind = "reading" /\ o.model = "none" /\ o.ends = 0 /\ o.seen \in Nat
    BY DEF UsageInv, UsageTypes, IsObservation, UR!WriteReading
  <2>2. UR!Save(o, new)
    BY <1>2 DEF UR!WriteReading
  <2>3. IsUsage(u) /\ Dated(u) /\ clock \in Nat
    BY <2>1 DEF UsageInv, UsageTypes, IsObservation
  <2>4. u.observed <= o.seen
    BY <1>2, <2>1, <2>3 DEF UR!StaleReading, IsUsage
  <2>5. word.says = o.reading.avail /\ word.at = o.seen /\ word.until = 0 /\ word.model = "none" /\ word.login = o.login
    BY <2>1 DEF UR!Word
  <2>6. /\ DOMAIN n = DOMAIN u /\ n.observed = o.seen /\ n.updated = clock
        /\ n.available = IF o.reading.avail = "yes" THEN o.seen ELSE u.available
        /\ n.walls = [m \in Models |-> UR!Expire(u.walls[m])]
        /\ ReadWall(o, wall, n.wall)
    <3>1. n = Reread(u, o, clock)
      BY DEF Reread
    <3> HIDE DEF n
    <3> QED
      BY <2>3, <3>1, ReadingIs
  <2> HIDE DEF n, new, word, wall
  <2>7. /\ IsWall(u.wall) /\ IsWall(wall) /\ wall.at <= u.wall.at
        /\ (u.wall.until > clock => wall = u.wall) /\ (wall.until # 0 => wall = u.wall)
    BY <2>3, ExpireIs DEF IsUsage, wall
  <2>8. u.wall.at <= u.observed /\ u.available <= u.observed /\ (u.wall.until # 0 => u.available <= u.wall.at)
        /\ u.wall.at \in Nat /\ u.observed \in Nat /\ u.available \in Nat /\ wall.at \in Nat
    BY <2>3, <2>7 DEF Dated, IsUsage, IsWall
  <2>9. IsWall(n.wall) /\ n.wall.at <= o.seen /\ (n.wall.until # 0 => n.available <= n.wall.at)
    <3>1. CASE n.wall = UR!NoWall
      BY <2>1, <3>1 DEF IsWall, UR!NoWall
    <3>2. CASE o.reading.avail = "no" /\ \E end : n.wall = [until |-> end, at |-> o.seen]
      <4>1. n.available <= o.seen
        BY <2>1, <2>4, <2>6, <2>8, <3>2
      <4> QED
        BY <2>1, <3>2, <4>1 DEF IsWall
    <3>3. CASE /\ ~(o.reading.avail = "yes" /\ o.seen >= wall.at) /\ o.reading.avail # "no"
               /\ n.wall = wall
      <4>1. wall.at <= o.seen
        BY <2>1, <2>4, <2>7, <2>8
      <4> QED
        BY <2>1, <2>6, <2>7, <2>8, <3>3, <4>1
    <3> QED
      BY <2>6, <3>1, <3>2, <3>3 DEF ReadWall
  <2>10. IsUsage(n) /\ Dated(n)
    <3>1. \A m \in Models : IsWall(n.walls[m])
      BY <2>3, <2>6, ExpireIs DEF IsUsage
    <3> QED
      BY <2>1, <2>3, <2>4, <2>6, <2>8, <2>9, <3>1 DEF IsUsage, Dated
  <2>11. ASSUME NEW w \in given, w.login = o.login, w.says = "no", w.until > clock, Says(u, w),
                w.model # "none" => w.model \in Models
         PROVE  Says(n, w) \/ Covers(word, w)
    <3>1. w.at \in Nat /\ w.until \in Nat
      BY DEF UsageInv, UsageTypes
    <3>2. CASE w.model # "none"
      <4>1. IsWall(u.walls[w.model]) /\ u.walls[w.model].until > clock /\ w.model \in Models
        BY <2>3, <2>11, <3>2 DEF IsUsage, Says, UR!WallOf
      <4>2. n.walls[w.model] = u.walls[w.model]
        BY <2>6, <4>1, ExpireIs
      <4> QED
        BY <2>11, <3>2, <4>2 DEF Says, UR!WallOf
    <3>3. CASE w.model = "none"
      <4>1. u.wall.until = w.until /\ u.wall.at = w.at /\ wall = u.wall
        BY <2>7, <2>11, <3>3 DEF Says, UR!WallOf
      <4>2. CASE n.wall = wall
        BY <3>3, <4>1, <4>2 DEF Says, UR!WallOf
      <4>3. CASE o.reading.avail \in {"yes", "no"} /\ o.seen >= w.at
        <5>1. word # w
          BY <2>3, <2>5, <2>11, <3>1
        <5> QED
          BY <2>5, <2>11, <3>3, <4>3, <5>1 DEF Covers
      <4>4. o.seen >= w.at
        BY <2>1, <2>4, <2>8, <4>1
      <4> QED
        BY <2>6, <4>2, <4>3, <4>4 DEF ReadWall
    <3> QED
      BY <3>2, <3>3
  <2>12. /\ u.available <= n.available
         /\ word.says = "yes" => o.seen <= n.available
         /\ ~(word.says = "no" /\ word.until > clock)
    BY <2>1, <2>3, <2>4, <2>5, <2>6, <2>8
  <2> QED
    BY <2>2, <2>10, <2>11, <2>12, SaveKeeps DEF n, word
<1> QED
  BY <1>1, <1>2

LEMMA WallKeeps ==
  ASSUME UsageInv, NEW o \in pending, UR!WriteWall(o)
  PROVE  UsageInv'
<1> DEFINE u == rec[o.login]
           new == UR!markLimited(u, o)
           n == [new EXCEPT !.updated = clock]
           word == UR!Word(o)
<1>1. CASE UR!StaleWall(u, o)
  BY <1>1, DropKeeps DEF UR!WriteWall
<1>2. CASE ~UR!StaleWall(u, o)
  <2>1. IsObservation(o) /\ o.kind = "wall" /\ o.model = "none" /\ o.ends \in Nat /\ o.seen \in Nat
    BY DEF UsageInv, UsageTypes, IsObservation, UR!WriteWall
  <2>2. UR!Save(o, new)
    BY <1>2 DEF UR!WriteWall
  <2>3. IsUsage(u) /\ Dated(u) /\ clock \in Nat
    BY <2>1 DEF UsageInv, UsageTypes, IsObservation
  <2>4. u.wall.at <= o.seen /\ u.available <= o.seen
    BY <1>2, <2>1, <2>3 DEF UR!StaleWall, IsUsage, IsWall
  <2>5. word.says = "no" /\ word.at = o.seen /\ word.until = o.ends /\ word.model = "none" /\ word.login = o.login
    BY <2>1 DEF UR!Word
  <2> DEFINE end == UR!Ends(o, UR!WindowEnds(u))
  <2>6. o.ends > clock => end = o.ends
    BY DEF UR!Ends
  <2> HIDE DEF end
  <2>7. /\ DOMAIN n = DOMAIN u /\ n.observed = o.seen /\ n.updated = clock /\ n.available = u.available
        /\ n.walls = u.walls /\ n.wall = [until |-> end, at |-> o.seen]
    <3>1. new = [u EXCEPT !.wall = [until |-> end, at |-> o.seen], !.observed = o.seen]
      BY DEF UR!markLimited, end
    <3> HIDE DEF new
    <3> QED
      BY <2>3, <3>1 DEF IsUsage
  <2> HIDE DEF n, new, word
  <2>8. IsUsage(n) /\ Dated(n)
    BY <2>1, <2>3, <2>4, <2>7 DEF IsUsage, IsWall, Dated
  <2>9. ASSUME NEW w \in given, w.login = o.login, w.says = "no", w.until > clock, Says(u, w),
               w.model # "none" => w.model \in Models
        PROVE  Says(n, w) \/ Covers(word, w)
    <3>1. CASE w.model # "none"
      BY <2>7, <2>9, <3>1 DEF Says, UR!WallOf
    <3>2. CASE w.model = "none" /\ word = w
      BY <2>5, <2>6, <2>7, <2>9, <3>2 DEF Says, UR!WallOf
    <3>3. CASE w.model = "none" /\ word # w
      BY <2>4, <2>5, <2>9, <3>3 DEF Says, UR!WallOf, Covers
    <3> QED
      BY <3>1, <3>2, <3>3
  <2>10. word.until > clock => Says(n, word)
    BY <2>5, <2>6, <2>7 DEF Says, UR!WallOf
  <2>11. u.available <= n.available
    BY <2>3, <2>7 DEF IsUsage
  <2> QED
    BY <2>1, <2>2, <2>5, <2>8, <2>9, <2>10, <2>11, SaveKeeps DEF n, word
<1> QED
  BY <1>1, <1>2

LEMMA ModelWallKeeps ==
  ASSUME UsageInv, NEW o \in pending, UR!WriteModelWall(o)
  PROVE  UsageInv'
<1> DEFINE u == rec[o.login]
           new == UR!markModelLimited(u, o)
           n == [new EXCEPT !.updated = clock]
           word == UR!Word(o)
<1>1. CASE UR!StaleModelWall(u, o)
  BY <1>1, DropKeeps DEF UR!WriteModelWall
<1>2. CASE ~UR!StaleModelWall(u, o)
  <2>1. IsObservation(o) /\ o.kind = "wall" /\ o.model # "none" /\ o.model \in Models /\ o.ends \in Nat /\ o.seen \in Nat
    BY DEF UsageInv, UsageTypes, IsObservation, UR!WriteModelWall
  <2>2. UR!Save(o, new)
    BY <1>2 DEF UR!WriteModelWall
  <2>3. IsUsage(u) /\ Dated(u) /\ clock \in Nat
    BY <2>1 DEF UsageInv, UsageTypes, IsObservation
  <2>4. u.walls[o.model].at <= o.seen
    BY <1>2, <2>1, <2>3 DEF UR!StaleModelWall, IsUsage, IsWall
  <2>5. word.says = "no" /\ word.at = o.seen /\ word.until = o.ends /\ word.model = o.model /\ word.login = o.login
    BY <2>1 DEF UR!Word
  <2> DEFINE end == UR!Ends(o, UR!ModelEnds(u, o.model))
  <2>6. o.ends > clock => end = o.ends
    BY DEF UR!Ends
  <2> HIDE DEF end
  <2>7. /\ DOMAIN n = DOMAIN u /\ n.observed = u.observed /\ n.updated = clock /\ n.available = u.available
        /\ n.walls = [u.walls EXCEPT ![o.model] = [until |-> end, at |-> o.seen]] /\ n.wall = u.wall
    <3>1. new = [u EXCEPT !.walls[o.model] = [until |-> end, at |-> o.seen]]
      BY DEF UR!markModelLimited, end
    <3> HIDE DEF new
    <3> QED
      BY <2>3, <3>1 DEF IsUsage
  <2>8. n.walls[o.model] = [until |-> end, at |-> o.seen] /\ \A m \in Models : m # o.model => n.walls[m] = u.walls[m]
    <3> HIDE DEF n
    <3> QED
      BY <2>1, <2>3, <2>7 DEF IsUsage
  <2> HIDE DEF n, new, word
  <2>9. IsUsage(n) /\ Dated(n)
    BY <2>1, <2>3, <2>7, <2>8 DEF IsUsage, IsWall, Dated
  <2>10. ASSUME NEW w \in given, w.login = o.login, w.says = "no", w.until > clock, Says(u, w),
                w.model # "none" => w.model \in Models
         PROVE  Says(n, w) \/ Covers(word, w)
    <3>1. CASE w.model # o.model
      BY <2>7, <2>8, <2>10, <3>1 DEF Says, UR!WallOf
    <3>2. CASE w.model = o.model /\ word = w
      BY <2>1, <2>5, <2>6, <2>8, <2>10, <3>2 DEF Says, UR!WallOf
    <3>3. CASE w.model = o.model /\ word # w
      BY <2>1, <2>4, <2>5, <2>10, <3>3 DEF Says, UR!WallOf, Covers
    <3> QED
      BY <3>1, <3>2, <3>3
  <2>11. word.until > clock => Says(n, word)
    BY <2>1, <2>5, <2>6, <2>8 DEF Says, UR!WallOf
  <2>12. u.available <= n.available
    BY <2>3, <2>7 DEF IsUsage
  <2> QED
    BY <2>1, <2>2, <2>5, <2>9, <2>10, <2>11, <2>12, SaveKeeps DEF n, word
<1> QED
  BY <1>1, <1>2

\* What is seen is dated by the clock.
LEMMA SightingIs ==
  ASSUME clock \in Nat, NEW l \in Logins, NEW o \in UR!Sighting(l)
  PROVE  IsObservation(o)
<1> DEFINE read == {r \in Readings : \A w \in r.buckets \cup {r.five, r.seven} : w.resets > clock \/ w.resets = 0}
           readings == [kind : {"reading"}, login : {l}, seen : {clock}, model : {"none"}, ends : {0}, reading : read]
           walls == [kind : {"wall"}, login : {l}, seen : {clock}, reading : {UR!NoReading},
                     model : Models \cup {"none"}, ends : WallEnds]
<1>1. o \in readings \/ o \in walls
  BY DEF UR!Sighting
<1> HIDE DEF read
<1>2. CASE o \in readings
  BY <1>2 DEF IsObservation
<1>3. CASE o \in walls
  BY <1>3, FeedsAssumption DEF UR!UsageAssumption, IsObservation
<1> QED
  BY <1>1, <1>2, <1>3

LEMMA UsageStep ==
  ASSUME UsageInv, UR!UsageNext
  PROVE  UsageInv'
<1>1. CASE UR!Tick
  <2>1. clock' = clock + 1 /\ UNCHANGED <<rec, pending, given>>
    BY <1>1 DEF UR!Tick
  <2>2. UsageTypes'
    BY <2>1 DEF UsageInv, UsageTypes
  <2>3. WordInv' /\ OpenInv'
    BY <2>1 DEF UsageInv, UsageTypes, WordInv, OpenInv
  <2> QED
    BY <2>2, <2>3 DEF UsageInv
<1>2. ASSUME NEW l \in Logins, UR!See(l) PROVE UsageInv'
  <2>1. UNCHANGED <<clock, rec, given>> /\ \E o \in UR!Sighting(l) : pending' = pending \cup {o}
    BY <1>2 DEF UR!See
  <2>2. UsageTypes'
    BY <2>1, SightingIs DEF UsageInv, UsageTypes
  <2> QED
    BY <2>1, <2>2 DEF UsageInv, WordInv, OpenInv
<1>3. ASSUME NEW l \in Logins, UR!NotePoll(l) PROVE UsageInv'
  <2>1. UNCHANGED <<clock, pending, given>> /\ rec' = [rec EXCEPT ![l].updated = clock]
    BY <1>3 DEF UR!NotePoll
  <2> DEFINE n == [rec[l] EXCEPT !.updated = clock]
  <2>2. /\ DOMAIN n = DOMAIN rec[l] /\ n.updated = clock /\ n.observed = rec[l].observed
        /\ n.available = rec[l].available /\ n.wall = rec[l].wall /\ n.walls = rec[l].walls
    BY DEF UsageInv, UsageTypes, IsUsage
  <2>3. rec' = [rec EXCEPT ![l] = n]
    BY <2>1
  <2> HIDE DEF n
  <2>4. rec'[l] = n /\ DOMAIN rec' = Logins /\ \A k \in Logins : k # l => rec'[k] = rec[k]
    BY <2>3 DEF UsageInv, UsageTypes
  <2>5. IsUsage(n) /\ Dated(n)
    BY <2>2 DEF UsageInv, UsageTypes, IsUsage, Dated
  <2>6. UsageTypes'
    BY <2>1, <2>3, <2>4, <2>5 DEF UsageInv, UsageTypes
  <2>7. \A k \in Logins : /\ rec'[k].wall = rec[k].wall /\ rec'[k].walls = rec[k].walls
                          /\ rec'[k].available = rec[k].available
    BY <2>2, <2>4
  <2>8. WordInv' /\ OpenInv'
    BY <2>1, <2>7 DEF UsageInv, UsageTypes, WordInv, OpenInv, Says, UR!WallOf
  <2> QED
    BY <2>6, <2>8 DEF UsageInv
<1> QED
  BY <1>1, <1>2, <1>3, ReadingKeeps, WallKeeps, ModelWallKeeps DEF UR!UsageNext

LEMMA UsageSuffices ==
  ASSUME UsageInv
  PROVE  UR!WordStands
<1>1. UR!WallStands
  <2> SUFFICES ASSUME NEW w \in given, w.says = "no", w.until > clock
               PROVE  \/ UR!wallActive(UR!WallOf(rec[w.login], w.model))
                      \/ \E v \in given \ {w} :
                           v.login = w.login /\ v.model = w.model /\ v.says # "unknown" /\ v.at >= w.at
    BY DEF UR!WallStands
  <2> QED
    BY DEF UsageInv, WordInv, Says, Covers, UR!wallActive
<1>2. UR!OpenStands
  <2> SUFFICES ASSUME NEW v \in given, v.says = "yes", UR!wallActive(rec[v.login].wall)
               PROVE  rec[v.login].wall.at >= v.at
    BY DEF UR!OpenStands
  <2>1. rec[v.login].wall.until > clock /\ clock \in Nat /\ IsUsage(rec[v.login]) /\ Dated(rec[v.login]) /\ v.at \in Nat
    BY DEF UR!wallActive, UsageInv, UsageTypes
  <2>2. v.at <= rec[v.login].available
    BY DEF UsageInv, OpenInv
  <2>3. rec[v.login].wall.until # 0
    BY <2>1
  <2> QED
    BY <2>1, <2>2, <2>3 DEF IsUsage, IsWall, Dated
<1> QED
  BY <1>1, <1>2 DEF UR!WordStands

\* What is known of a login's usage is what was measured: a wall stands until a word that is not older,
\* a card shows what the last round found, and a terminal asks only where no poller does.
THEOREM UsageTellsThm == FeedsSpec => UsageTells
<1> DEFINE Inv == (feed = "usage" => UsageInv) /\ (feed = "poll" => PollInv)
           Asking == feed = "poll" => U!AsksWhileNoneDoes
<1>1. FeedsInit => Inv
  BY UsageStart, PollStart DEF FeedsInit
<1>2. Inv /\ [FeedsNext]_feedsVars => Inv'
  <2> SUFFICES ASSUME Inv, [FeedsNext]_feedsVars PROVE Inv'
    OBVIOUS
  <2>1. CASE feed = "usage" /\ UR!UsageNext /\ UNCHANGED feed
    BY <2>1, UsageStep
  <2>2. CASE feed = "poll" /\ U!PollNext /\ UNCHANGED feed
    BY <2>2, PollStep
  <2>3. CASE feed \notin {"usage", "poll"} /\ UNCHANGED feed
    BY <2>3
  <2>4. CASE UNCHANGED feedsVars
    BY <2>4 DEF feedsVars, Uvars, URvars, UsageInv, UsageTypes, WordInv, OpenInv, PollInv, PollTypes, CardsInv,
       TellsInv, Tells, PromiseInv
  <2> QED
    BY <2>1, <2>2, <2>3, <2>4 DEF FeedsNext
<1>3. Inv /\ [FeedsNext]_feedsVars => [Asking]_feedsVars
  <2> SUFFICES ASSUME Inv, FeedsNext, feed = "poll" PROVE U!AsksWhileNoneDoes
    OBVIOUS
  <2> QED
    BY PollSuffices DEF FeedsNext
<1>4. Inv => (feed = "usage" => UR!WordStands) /\ (feed = "poll" => U!CardsTell)
  BY UsageSuffices, PollSuffices
<1> QED
  BY <1>1, <1>2, <1>3, <1>4, PTL DEF FeedsSpec, UsageTells

-----------------------------------------------------------------------------
(* The page (Page.tla).                                                    *)

\* A step that is not of the expanded terminal leaves what it shows, or closes it.
LEMMA ReadingStands ==
  ASSUME Next, ~Expansion
  PROVE  UNCHANGED reading /\ drawer' \in {drawer, "none"}
<1>1. ASSUME NEW v, Render(v) PROVE UNCHANGED reading /\ drawer' \in {drawer, "none"}
  BY <1>1 DEF Render
<1>2. CASE Background /\ UNCHANGED pageVars
  BY <1>2 DEF pageVars, reading
<1>3. CASE Arrives
  BY <1>1, <1>3 DEF Arrives, pageVars, reading
<1>4. CASE Questions
  BY <1>4 DEF Questions, Ask, Prepare, Prepared, NotPrepared, Yes, No, Escape, Refused, Done, Removed,
     ToggleFinished, reading
<1>5. CASE Draft
  BY <1>5 DEF Draft, Touch, Save, SaveElsewhere, Saved, SaveCame, SaveFailed, reading
<1> QED
  BY <1>2, <1>3, <1>4, <1>5 DEF Next

\* An open drawer shows the terminal it is titled with, in whatever order the answers to it and to
\* the drawers before it come (loadDrawer, sessions.js:2099).
THEOREM DrawerIsOwnThm == Spec => []DrawerIsOwn
<1>1. Init => DrawerIsOwn
  BY DEF Init, DrawerIsOwn
<1>2. DrawerIsOwn /\ [Next]_vars => DrawerIsOwn'
  <2> SUFFICES ASSUME DrawerIsOwn, [Next]_vars PROVE DrawerIsOwn'
    OBVIOUS
  <2>1. CASE Next /\ ~Expansion
    BY <2>1, ReadingStands DEF DrawerIsOwn, reading
  <2>2. CASE Expansion
    BY <2>2 DEF Expansion, Open, Close, Poll, DetailCame, Answers, Expand, DiffCame, reading, DrawerIsOwn
  <2>3. CASE UNCHANGED vars
    BY <2>3 DEF vars, pageVars, reading, DrawerIsOwn
  <2> QED
    BY <2>1, <2>2, <2>3
<1> QED
  BY <1>1, <1>2, PTL DEF Spec

LEMMA QuestionStep ==
  ASSUME acts \in Nat, Next, question # <<>>, <<question, drawn>>' # <<question, drawn>>
  PROVE  \/ acts' # acts \/ Yes \/ No
         \/ prepares' # prepares \/ action' # action
         \/ drawer' # drawer
<1>1. ASSUME NEW v, Render(v) PROVE drawer' # drawer
  BY <1>1 DEF Render, HoldsStill
<1>2. CASE Background /\ UNCHANGED pageVars
  BY <1>2 DEF pageVars, asking
<1>3. CASE Arrives
  BY <1>1, <1>3 DEF Arrives, pageVars, asking
<1>4. CASE Questions
  BY <1>4 DEF Questions, Act, Ask, Prepare, Prepared, NotPrepared, Escape, Refused, Done, Removed,
     ToggleFinished
<1>5. CASE Draft
  BY <1>5 DEF Draft, Touch, Save, SaveElsewhere, Saved, SaveCame, SaveFailed, asking
<1>6. CASE Expansion
  BY <1>6 DEF Expansion, Open, Close, Poll, DetailCame, Expand, DiffCame, Act, asking
<1> QED
  BY <1>2, <1>3, <1>4, <1>5, <1>6 DEF Next
LEMMA DraftStep ==
  ASSUME acts \in Nat, Next, dirty, draft' # draft
  PROVE  acts' # acts \/ SaveCame
<1>1. ASSUME NEW v, Render(v) PROVE FALSE
  BY <1>1 DEF Render, Fresh
<1>2. CASE Background /\ UNCHANGED pageVars
  BY <1>2 DEF pageVars, editing
<1>3. CASE Arrives
  BY <1>1, <1>3 DEF Arrives, pageVars, editing
<1>4. CASE Questions
  BY <1>4 DEF Questions, Act, Ask, Prepare, Prepared, NotPrepared, Yes, No, Escape, Refused, Done, Removed,
     ToggleFinished, editing
<1>5. CASE Draft
  <2>1. CASE Touch
    BY <2>1 DEF Touch, Act
  <2>2. CASE Save \/ SaveElsewhere \/ Saved \/ SaveFailed
    BY <2>2 DEF Save, SaveElsewhere, Saved, SaveFailed
  <2> QED
    BY <1>5, <2>1, <2>2 DEF Draft
<1>6. CASE Expansion
  BY <1>6 DEF Expansion, Open, Close, Poll, DetailCame, Expand, DiffCame, Act, editing
<1> QED
  BY <1>2, <1>3, <1>4, <1>5, <1>6 DEF Next

LEMMA ActsStep ==
  ASSUME acts \in Nat, [Next]_vars
  PROVE  acts' \in Nat
<1>1. ASSUME NEW kind, Act(kind) PROVE acts' \in Nat
  BY <1>1 DEF Act
<1>2. ASSUME NEW v, Render(v) PROVE acts' = acts
  BY <1>2 DEF Render
<1>3. CASE UNCHANGED vars \/ (Background /\ UNCHANGED pageVars)
  BY <1>3 DEF vars, pageVars
<1>4. CASE Arrives
  BY <1>2, <1>4 DEF Arrives, pageVars
<1>5. CASE Questions
  BY <1>1, <1>5 DEF Questions, Ask, Prepare, Prepared, NotPrepared, Yes, No, Escape, Refused, Done, Removed,
     ToggleFinished
<1>6. CASE Draft
  BY <1>1, <1>6 DEF Draft, Touch, Save, SaveElsewhere, Saved, SaveCame, SaveFailed
<1>7. CASE Expansion
  BY <1>1, <1>7 DEF Expansion, Open, Close, Poll, DetailCame, Expand, DiffCame
<1> QED
  BY <1>3, <1>4, <1>5, <1>6, <1>7 DEF Next

\* What arrives takes no question, draft or expansion from the reader (render, sessions.js:3002), for
\* any terminals, ladders and number of acts.
THEOREM ReaderIsLeftThm == Spec => ReaderIsLeft
<1>0. Init => acts \in Nat
  BY ActsAssumption DEF Init
<1>1. acts \in Nat /\ [Next]_vars => (acts \in Nat)'
  BY ActsStep
<1>2. acts \in Nat /\ [Next]_vars => [question # <<>> /\ <<question, drawn>>' # <<question, drawn>>
       => \/ acts' # acts \/ Yes \/ No
          \/ prepares' # prepares \/ action' # action
          \/ drawer' # drawer]_vars
  BY QuestionStep
<1>3. acts \in Nat /\ [Next]_vars => [dirty /\ draft' # draft => acts' # acts \/ SaveCame]_vars
  BY DraftStep
<1> QED
  BY <1>0, <1>1, <1>2, <1>3, PTL DEF Spec, ReaderIsLeft, QuestionStands, DraftKept

=============================================================================
