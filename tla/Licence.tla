------------------------------- MODULE Licence -------------------------------
(***************************************************************************)
(* The licence and the trial (license.mjs): two files that every command   *)
(* reads for itself.  A renewal asks the site and stores the answer; other *)
(* commands run meanwhile.  Dates are days.                                *)
(***************************************************************************)
EXTENDS Naturals, FiniteSets

CONSTANTS TrialDays,
          Keys,          \* [plan |-> "personal" or "team", until |-> a date], signed
          Forged,        \* keys the signature of which is not good
          MaxDay, MaxDecisions  \* bounds

VARIABLES
  today, release,  \* the machine's day; the date of the release installed
  trialFile,       \* when the trial started, or 0
  licence,         \* the key stored, or NoKey
  renewal,         \* the key `leg license refresh` presented and awaits the answer for
  decided,         \* (history) what the human last did with keys
  raced,           \* (history) ... while a renewal was under way
  decisions,
  tried            \* (history) the days something was allowed by the trial

licenceVars == <<today, release, trialFile, licence, renewal, decided, raced, decisions, tried>>

NoKey == [plan |-> "none", until |-> 0]
Gates == [trial |-> {"run", "share"}, personal |-> {"run"}, team |-> {"run", "share"}]

\* verifyLicense: a personal key is for releases up to its date, a team key for days.
verifyLicense(k) ==
  /\ k # NoKey /\ k \notin Forged
  /\ IF k.plan = "personal" THEN k.until >= release ELSE k.until >= today

\* (mutant) A trial that is over begins again.
Started_Again == IF trialFile = 0 \/ today >= trialFile + TrialDays THEN today ELSE trialFile
\* The trial starts the first time a session asks.
Started == IF trialFile = 0 THEN today ELSE trialFile
\* A day before the first counts as over: somebody set the clock back.
TrialRuns(started) == today < started + TrialDays /\ today >= started

\* entitlement and allows: a valid key, or else the trial.
Allowed(gate, started) ==
  IF verifyLicense(licence) THEN gate \in Gates[licence.plan] ELSE TrialRuns(started)

-----------------------------------------------------------------------------
\* leg <agent>, leg share on: they ask, and so start the trial unless a key is valid.
Asks(gate) ==
  LET starts == IF verifyLicense(licence) THEN trialFile ELSE Started
  IN /\ trialFile' = starts
     /\ tried' = IF ~verifyLicense(licence) /\ Allowed(gate, starts) THEN tried \cup {today} ELSE tried
     /\ UNCHANGED <<today, release, licence, renewal, decided, raced, decisions>>

Decides(what) ==
  /\ decisions < MaxDecisions /\ decisions' = decisions + 1
  /\ decided' = what /\ raced' = (renewal # NoKey)

\* A key that does not verify is refused and nothing is written.
activate(k) ==
  /\ verifyLicense(k) /\ Decides(k) /\ licence' = k
  /\ UNCHANGED <<today, release, trialFile, renewal, tried>>
deactivate ==
  /\ Decides(NoKey) /\ licence' = NoKey
  /\ UNCHANGED <<today, release, trialFile, renewal, tried>>

\* (mutant) Any key is presented for renewal.
Renews_Any == licence # NoKey
\* Only a team key renews.
Renews == licence.plan = "team"
RefreshAsks ==
  /\ renewal = NoKey /\ Renews /\ renewal' = licence
  /\ UNCHANGED <<today, release, trialFile, licence, decided, raced, decisions, tried>>
\* The site (external) answers with a later key of the same plan, or refuses; what it answers is
\* activated, whatever key is stored by now.
RefreshHears ==
  /\ renewal # NoKey /\ renewal' = NoKey
  /\ \/ licence' = licence
     \/ \E k \in Keys : k.until > renewal.until /\ k.plan = "team" /\ verifyLicense(k) /\ licence' = k
  /\ UNCHANGED <<today, release, trialFile, decided, raced, decisions, tried>>

Passes == today < MaxDay /\ today' = today + 1 /\ UNCHANGED <<release, trialFile, licence, renewal, decided, raced, decisions, tried>>
ClockIsSetBack == today > 1 /\ today' = today - 1 /\ UNCHANGED <<release, trialFile, licence, renewal, decided, raced, decisions, tried>>
\* An update is no newer than the day.
Updates == release < today /\ release' = release + 1 /\ UNCHANGED <<today, trialFile, licence, renewal, decided, raced, decisions, tried>>

LicenceInit ==
  /\ today = 1 /\ release = 1 /\ trialFile = 0 /\ licence = NoKey /\ renewal = NoKey
  /\ decided = NoKey /\ raced = FALSE /\ decisions = 0 /\ tried = {}
LicenceNext ==
  \/ \E gate \in {"run", "share"} : Asks(gate)
  \/ \E k \in Keys \cup Forged : activate(k)
  \/ deactivate \/ RefreshAsks \/ RefreshHears \/ Passes \/ ClockIsSetBack \/ Updates
LicenceSpec == LicenceInit /\ [][LicenceNext]_licenceVars

-----------------------------------------------------------------------------
\* The invariant behind it: the trial's days, and a renewal that was not raced is of the key stored.
LicenceTypeOK ==
  /\ today \in Nat \ {0} /\ release \in Nat /\ trialFile \in Nat
  /\ \A k \in {licence, renewal, decided} : k = NoKey \/ k \in Keys \cup Forged
  /\ raced \in BOOLEAN
LicenceInv ==
  /\ LicenceTypeOK
  /\ tried \subseteq trialFile .. trialFile + TrialDays - 1 /\ (trialFile = 0 => tried = {})
  /\ raced \/ renewal = NoKey \/ (renewal = licence /\ licence.plan = "team")
  /\ raced \/ licence = decided \/ (licence.plan = "team" /\ decided.plan = "team" /\ licence.until > decided.until)

(* The trial opens the gates on TrialDays days at most, whatever is done    *)
(* with the clock and with keys; and the key stored is the one the human    *)
(* chose, or a renewal of it, but where the choice was made while a renewal *)
(* was under way.                                                           *)
LicenceIsFair ==
  /\ Cardinality(tried) <= TrialDays
  /\ raced \/ licence = decided \/ (licence.plan = "team" /\ decided.plan = "team" /\ licence.until > decided.until)
=============================================================================
