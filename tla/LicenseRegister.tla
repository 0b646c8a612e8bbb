-------------------------- MODULE LicenseRegister --------------------------
(***************************************************************************)
(* The licenses of backend/license_server.py, one JSON line each in one    *)
(* file, and the clients of backend/license_validator.py, each with a copy *)
(* of its record.  A call looks its record up, then loads all records,     *)
(* truncates the file and writes them back, without a lock: calls run in   *)
(* threads of several processes.                                           *)
(***************************************************************************)
EXTENDS Naturals, FiniteSets

CONSTANTS
  LicenseCalls, \* calls that can be in progress at once
  Keys,         \* license keys that may be generated
  Machines,     \* hardware ids
  Configured,   \* the machines whose LICENSE_SERVER_URL is set
  Terms,        \* what a license may be issued with: seats, hardware, mode, expiry
  MaxLicenseTime, \* bound on the clock
  MaxLicenseEvents \* bound on calls and kills together

ASSUME TermsAssumption ==
  Terms \subseteq [seats : Nat, hardware : Machines \cup {"none"},
                   mode : {"airgap", "cloud"}, expires : Nat]
ASSUME RegisterAssumption ==
  Keys # {} /\ Terms # {} /\ Configured \subseteq Machines /\ {MaxLicenseTime, MaxLicenseEvents} \subseteq Nat

VARIABLES
  licenseFile,  \* licenses.jsonl: whether it parses, and its records
  licenseCall,  \* the calls in progress
  copies,       \* .vault_license_v2 of each machine
  licenseTime,  \* the clock
  licenseEvents, \* calls and kills so far
  promised,     \* a history: what calls have answered
  overran       \* a history: a call wrote over what it had not read

licenseVars == <<licenseFile, licenseCall, copies, licenseTime, licenseEvents, promised, overran>>

-----------------------------------------------------------------------------
Records == [active : BOOLEAN, used : Nat, terms : Terms]
IsRegister(f) == DOMAIN f \subseteq Keys /\ \A k \in DOMAIN f : f[k] \in Records
SomeTerms == CHOOSE t \in Terms : TRUE
SomeKey == CHOOSE k \in Keys : TRUE
NewRecord(terms) == [active |-> TRUE, used |-> 0, terms |-> terms]
NoCall == [op |-> "none", key |-> SomeKey, machine |-> "none", step |-> "idle",
           record |-> NewRecord(SomeTerms), all |-> << >>, stale |-> FALSE]

LicenseTypeOK ==
  /\ licenseFile.whole \in BOOLEAN /\ IsRegister(licenseFile.records)
  /\ \A c \in LicenseCalls :
       /\ licenseCall[c].op \in {"none", "issue", "activate", "revoke"}
       /\ licenseCall[c].step \in {"idle", "load", "truncate", "write"}
       /\ licenseCall[c].record \in Records /\ IsRegister(licenseCall[c].all)
       /\ licenseCall[c].stale \in BOOLEAN
  /\ \A m \in DOMAIN copies : m \in Machines /\ copies[m].key \in Keys
  /\ licenseTime \in 0 .. MaxLicenseTime
  /\ licenseEvents \in 0 .. MaxLicenseEvents
  /\ promised \in [issued : SUBSET Keys, revoked : SUBSET Keys,
                   given : [Keys -> Nat]]
  /\ overran \in BOOLEAN

(* _find_by_key: a file that does not parse fails the call. *)
Found(k) == licenseFile.whole /\ k \in DOMAIN licenseFile.records
LicenseOf(k) == licenseFile.records[k]

Expired(r) == licenseTime > r.terms.expires

(* Faulty variant: the seat that is taken last is one too many. *)
MayActivateOneMore(r, m) ==
  /\ r.active /\ ~Expired(r)
  /\ r.used <= r.terms.seats
  /\ r.terms.hardware \in {"none", m}
(* activate: deactivated, expired, no seat left, locked to another machine. *)
MayActivate(r, m) ==
  /\ r.active /\ ~Expired(r)
  /\ r.used < r.terms.seats
  /\ r.terms.hardware \in {"none", m}

(* validate, at the server. *)
Valid(k, m) ==
  /\ Found(k)
  /\ LicenseOf(k).active /\ ~Expired(LicenseOf(k))
  /\ LicenseOf(k).terms.hardware \in {"none", m}

-----------------------------------------------------------------------------
LicenseInit ==
  /\ licenseFile = [whole |-> TRUE, records |-> << >>]
  /\ licenseCall = [c \in LicenseCalls |-> NoCall]
  /\ copies = << >>
  /\ licenseTime = 0
  /\ licenseEvents = 0
  /\ promised = [issued |-> {}, revoked |-> {}, given |-> [k \in Keys |-> 0]]
  /\ overran = FALSE

Begin(c, op, k, m, r) ==
  /\ licenseCall[c].step = "idle" /\ licenseEvents < MaxLicenseEvents
  /\ licenseEvents' = licenseEvents + 1
  /\ licenseCall' = [licenseCall EXCEPT ![c] =
       [op |-> op, key |-> k, machine |-> m, step |-> "load", record |-> r,
        all |-> << >>, stale |-> FALSE]]
  /\ UNCHANGED <<licenseFile, copies, licenseTime, promised, overran>>

(* issue: a key of its own; the generator draws random bytes. *)
Issue(c, k, terms) ==
  /\ k \notin promised.issued \cup {licenseCall[d].key : d \in {e \in LicenseCalls : licenseCall[e].op = "issue"}}
  /\ Begin(c, "issue", k, "none", NewRecord(terms))

Activate(c, k, m) ==
  /\ Found(k) /\ MayActivate(LicenseOf(k), m)
  /\ Begin(c, "activate", k, m, [LicenseOf(k) EXCEPT !.used = @ + 1])

Revoke(c, k) ==
  /\ Found(k)
  /\ Begin(c, "revoke", k, "none", [LicenseOf(k) EXCEPT !.active = FALSE])

(* _save_record loads all records again and replaces or appends its own. *)
LoadAll(c) ==
  /\ licenseCall[c].step = "load"
  /\ IF licenseFile.whole
       THEN LET k == licenseCall[c].key IN
            licenseCall' = [licenseCall EXCEPT ![c].step = "truncate", ![c].all =
              [key \in DOMAIN licenseFile.records \cup {k} |->
                 IF key = k THEN licenseCall[c].record ELSE licenseFile.records[key]]]
       ELSE licenseCall' = [licenseCall EXCEPT ![c] = NoCall]
  /\ UNCHANGED <<licenseFile, copies, licenseTime, licenseEvents, promised, overran>>

(* The calls that work on what the file held before this change of it. *)
Overtaken(c) ==
  [d \in LicenseCalls |-> IF d # c /\ licenseCall[d].step # "idle"
     THEN [licenseCall[d] EXCEPT !.stale = TRUE] ELSE licenseCall[d]]

TruncateLicenses(c) ==
  /\ licenseCall[c].step = "truncate"
  /\ licenseFile' = [whole |-> TRUE, records |-> << >>]
  /\ licenseCall' = [Overtaken(c) EXCEPT ![c].step = "write"]
  /\ UNCHANGED <<copies, licenseTime, licenseEvents, promised, overran>>

Answer(call) ==
  CASE call.op = "issue" -> [promised EXCEPT !.issued = @ \cup {call.key}]
    [] call.op = "revoke" -> [promised EXCEPT !.revoked = @ \cup {call.key}]
    [] OTHER -> [promised EXCEPT !.given[call.key] = @ + 1]

(* Where another call wrote meanwhile, its longer lines may stick out.  A  *)
(* machine that activates keeps a copy of the record.                      *)
WriteLicenses(c) ==
  LET call == licenseCall[c] IN
  /\ call.step = "write"
  /\ \/ licenseFile' = [whole |-> TRUE, records |-> call.all]
     \/ call.stale /\ licenseFile' = [whole |-> FALSE, records |-> << >>]
  /\ licenseCall' = [Overtaken(c) EXCEPT ![c] = NoCall]
  /\ promised' = Answer(call)
  /\ copies' = IF call.op = "activate"
       THEN [m \in DOMAIN copies \cup {call.machine} |->
               IF m = call.machine THEN [key |-> call.key, record |-> call.record] ELSE copies[m]]
       ELSE copies
  /\ overran' = (overran \/ call.stale)
  /\ UNCHANGED <<licenseTime, licenseEvents>>

(* The process dies: a truncated file stays empty. *)
KillCall(c) ==
  /\ licenseCall[c].step # "idle" /\ licenseEvents < MaxLicenseEvents
  /\ licenseEvents' = licenseEvents + 1
  /\ overran' = (overran \/ licenseCall[c].step = "write")
  /\ licenseCall' = [licenseCall EXCEPT ![c] = NoCall]
  /\ UNCHANGED <<licenseFile, copies, licenseTime, promised>>

LicenseTick ==
  /\ licenseTime < MaxLicenseTime
  /\ licenseTime' = licenseTime + 1
  /\ UNCHANGED <<licenseFile, licenseCall, copies, licenseEvents, promised, overran>>

LicenseNext ==
  \/ \E c \in LicenseCalls, k \in Keys :
       \/ \E t \in Terms : Issue(c, k, t)
       \/ \E m \in Machines : Activate(c, k, m)
       \/ Revoke(c, k)
  \/ \E c \in LicenseCalls : LoadAll(c) \/ TruncateLicenses(c) \/ WriteLicenses(c) \/ KillCall(c)
  \/ LicenseTick

LicenseSpec == LicenseInit /\ [][LicenseNext]_licenseVars

-----------------------------------------------------------------------------
(* validate_offline, by the copy: only an air-gapped license is locked to   *)
(* its machine.                                                            *)
OfflineValid(m) ==
  LET r == copies[m].record IN
  /\ ~Expired(r) /\ r.active
  /\ r.terms.mode = "airgap" => r.terms.hardware \in {"none", m}

(* is_valid asks the server where its URL is set and the license is not an *)
(* air-gapped one; by default the URL is empty, and the copy decides.      *)
ClientValid(m) ==
  /\ m \in DOMAIN copies
  /\ IF m \in Configured /\ copies[m].record.terms.mode # "airgap"
       THEN Valid(copies[m].key, m)
       ELSE OfflineValid(m)

(* The machines that run on a license.                                     *)
RunningOn(k) == {m \in Machines : ClientValid(m) /\ copies[m].key = k}

(* Whatever calls overlap, the file holds what they have answered: every   *)
(* license issued, every seat given and none beyond the total, every       *)
(* revocation.  No license runs on more machines than it has seats, also   *)
(* where the copies decide, which no revocation reaches; where the server  *)
(* is asked, a cloud license that was revoked runs on none.  What can undo *)
(* it is a call that writes although another one changed the file since it *)
(* looked its record up, or a kill between truncation and write.           *)
Settled == \A c \in LicenseCalls : licenseCall[c].step # "write"
LicensesTrue ==
  ~overran /\ Settled =>
    /\ licenseFile.whole /\ DOMAIN licenseFile.records = promised.issued
    /\ \A k \in promised.issued :
         LET r == LicenseOf(k) IN
         /\ r.used = promised.given[k] /\ r.used <= r.terms.seats
         /\ r.active = (k \notin promised.revoked)
    /\ \A k \in promised.issued : Cardinality(RunningOn(k)) <= LicenseOf(k).terms.seats
    /\ \A m \in Configured :
         ClientValid(m) /\ copies[m].record.terms.mode = "cloud" => copies[m].key \notin promised.revoked
=============================================================================
