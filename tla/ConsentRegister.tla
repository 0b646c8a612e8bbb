-------------------------- MODULE ConsentRegister --------------------------
(***************************************************************************)
(* backend/compliance/consent_manager.py: one JSON line for each decision  *)
(* of a data principal on a purpose.  Recording a decision appends a line; *)
(* revoking one loads all lines, truncates the file and writes them back   *)
(* marked, without a lock.                                                 *)
(***************************************************************************)
EXTENDS Naturals, Sequences

CONSTANTS
  Revokers,     \* revocations that can be in progress at once
  Subjects,     \* pairs of a data principal and a purpose
  Lifetimes,    \* the expires_days a decision may be given, in ticks
  MaxDecisions, \* bound on the decisions recorded
  MaxConsentTime, \* bound on the clock
  MaxRevocations  \* bound on the revocations begun

ASSUME ConsentAssumption ==
  Lifetimes \subseteq Nat /\ {MaxDecisions, MaxConsentTime, MaxRevocations} \subseteq Nat

VARIABLES
  consentFile,  \* consent_records.jsonl: whether it parses, and its lines
  revoking,     \* the revocations in progress
  consentTime,  \* the clock
  decided,      \* a history: the decisions whose recording has returned
  withdrawn,    \* a history: the consents whose revocation was answered True
  revocations,  \* revocations begun so far
  clashed       \* a history: the file changed under a revocation, or it died

consentVars == <<consentFile, revoking, consentTime, decided, withdrawn, revocations, clashed>>

-----------------------------------------------------------------------------
Decisions == [id : 1 .. MaxDecisions, subject : Subjects, granted : BOOLEAN,
              expires : Nat, revoked : BOOLEAN]
NoRevocation == [id |-> 0, step |-> "idle", lines |-> << >>]

ConsentTypeOK ==
  /\ consentFile.whole \in BOOLEAN /\ consentFile.lines \in Seq(Decisions)
  /\ \A v \in Revokers :
       /\ revoking[v].id \in 0 .. MaxDecisions /\ revoking[v].lines \in Seq(Decisions)
       /\ revoking[v].step \in {"idle", "truncate", "write"}
  /\ consentTime \in 0 .. MaxConsentTime
  /\ decided \in Seq(Decisions)
  /\ withdrawn \subseteq 1 .. MaxDecisions
  /\ revocations \in 0 .. MaxRevocations
  /\ clashed \in BOOLEAN

(***************************************************************************)
(* check_consent: the newest line of the subject that is revoked, expired  *)
(* or granted decides; a refusal that is none of these is passed over.     *)
(***************************************************************************)
Decisive(d) == d.revoked \/ consentTime > d.expires \/ d.granted
DecisiveLines(lines, subject) ==
  {n \in DOMAIN lines : lines[n].subject = subject /\ Decisive(lines[n])}

(* Faulty variant: the oldest line decides. *)
OldestDecides(lines, subject) ==
  CHOOSE n \in DecisiveLines(lines, subject) : \A m \in DecisiveLines(lines, subject) : n <= m
LastDecides(lines, subject) ==
  CHOOSE n \in DecisiveLines(lines, subject) : \A m \in DecisiveLines(lines, subject) : m <= n

HasConsent(lines, subject) ==
  /\ DecisiveLines(lines, subject) # {}
  /\ LET d == lines[LastDecides(lines, subject)] IN
     ~d.revoked /\ consentTime <= d.expires /\ d.granted

-----------------------------------------------------------------------------
ConsentInit ==
  /\ consentFile = [whole |-> TRUE, lines |-> << >>]
  /\ revoking = [v \in Revokers |-> NoRevocation]
  /\ consentTime = 0
  /\ decided = << >>
  /\ withdrawn = {}
  /\ revocations = 0
  /\ clashed = FALSE

InProgress == {v \in Revokers : revoking[v].step # "idle"}

(* record_consent: one append.  While a revocation has the file truncated, *)
(* the line goes where the revocation is about to write.                   *)
RecordConsent(subject, granted, days) ==
  LET d == [id |-> Len(decided) + 1, subject |-> subject, granted |-> granted,
            expires |-> consentTime + days, revoked |-> FALSE] IN
  /\ Len(decided) < MaxDecisions
  /\ consentFile' = [consentFile EXCEPT !.lines = Append(@, d)]
  /\ decided' = Append(decided, d)
  /\ clashed' = (clashed \/ InProgress # {})
  /\ UNCHANGED <<revoking, consentTime, withdrawn, revocations>>

(* revoke_consent: _load_all; a file that does not parse fails the call. *)
RevokeConsent(v, id) ==
  /\ revoking[v].step = "idle" /\ revocations < MaxRevocations
  /\ consentFile.whole
  /\ revocations' = revocations + 1
  /\ revoking' = [revoking EXCEPT ![v] =
       [id |-> id, step |-> "truncate", lines |-> consentFile.lines]]
  /\ UNCHANGED <<consentFile, consentTime, decided, withdrawn, clashed>>

TruncateConsents(v) ==
  /\ revoking[v].step = "truncate"
  /\ revoking' = [revoking EXCEPT ![v].step = "write"]
  /\ consentFile' = [whole |-> TRUE, lines |-> << >>]
  /\ clashed' = (clashed \/ InProgress # {v})
  /\ UNCHANGED <<consentTime, decided, withdrawn, revocations>>

(* Every line with this id is marked, the others are kept. *)
Marked(lines, id) ==
  [n \in DOMAIN lines |-> IF lines[n].id = id THEN [lines[n] EXCEPT !.revoked = TRUE] ELSE lines[n]]

(* What others wrote meanwhile is overwritten, or sticks out as garbage. *)
WriteConsents(v) ==
  LET lines == revoking[v].lines id == revoking[v].id IN
  /\ revoking[v].step = "write"
  /\ \/ consentFile' = [whole |-> TRUE, lines |-> Marked(lines, id)]
     \/ clashed /\ consentFile' = [whole |-> FALSE, lines |-> << >>]
  /\ revoking' = [revoking EXCEPT ![v] = NoRevocation]
  /\ withdrawn' = IF \E n \in DOMAIN lines : lines[n].id = id THEN withdrawn \cup {id} ELSE withdrawn
  /\ clashed' = (clashed \/ InProgress # {v})
  /\ UNCHANGED <<consentTime, decided, revocations>>

KillRevoker(v) ==
  /\ revoking[v].step # "idle"
  /\ revoking' = [revoking EXCEPT ![v] = NoRevocation]
  /\ clashed' = (clashed \/ revoking[v].step = "write")
  /\ UNCHANGED <<consentFile, consentTime, decided, withdrawn, revocations>>

ConsentTick ==
  /\ consentTime < MaxConsentTime
  /\ consentTime' = consentTime + 1
  /\ UNCHANGED <<consentFile, revoking, decided, withdrawn, revocations, clashed>>

ConsentNext ==
  \/ \E s \in Subjects, g \in BOOLEAN, days \in Lifetimes : RecordConsent(s, g, days)
  \/ \E v \in Revokers :
       \/ \E id \in 1 .. MaxDecisions : RevokeConsent(v, id)
       \/ TruncateConsents(v) \/ WriteConsents(v) \/ KillRevoker(v)
  \/ ConsentTick

ConsentSpec == ConsentInit /\ [][ConsentNext]_consentVars

-----------------------------------------------------------------------------
(* A consent exists if and only if it was given, has neither expired nor   *)
(* been withdrawn, and no later decision of the subject was withdrawn or   *)
(* has expired, a recorded refusal included, over restarts and any order   *)
(* of calls; the file may only betray that after a call changed it under a *)
(* revocation, or a kill between its truncation and its write.  A          *)
(* revocation that is answered True sticks.                                *)
RevocationSticks ==
  ~clashed /\ (\A v \in Revokers : revoking[v].step # "write") =>
    \A s \in Subjects :
      HasConsent(consentFile.lines, s) <=>
        \E n \in DOMAIN decided :
          LET d == decided[n] IN
          /\ d.subject = s /\ d.granted /\ consentTime <= d.expires /\ d.id \notin withdrawn
          /\ \A m \in DOMAIN decided :
               m > n /\ decided[m].subject = s =>
                 ~decided[m].granted /\ consentTime <= decided[m].expires
                 /\ decided[m].id \notin withdrawn
=============================================================================
