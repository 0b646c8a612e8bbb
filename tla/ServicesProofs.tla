--------------------------- MODULE ServicesProofs ---------------------------
(***************************************************************************)
(* Theorems about the developers' keys (AccessKeys), the accounts with     *)
(* their first administrator (Accounts), the evidence routes               *)
(* (EvidenceDesk) and the compliance score (Compliance), and about the     *)
(* services together: each of them runs by its own specification while the *)
(* others rest, and so what is proved of it alone holds of all.            *)
(***************************************************************************)
EXTENDS Services, RecordProofs, GatewayProofs, FileProofs, FiniteSetTheorems, TLAPS

-----------------------------------------------------------------------------
(* The keys of the API. *)

(* What was withdrawn of a key is off in its row, and nobody is about to put *)
(* it on.                                                                    *)
Withdrawn == \A k \in ApiKeys : \A c \in revoked[k] :
  keyRow[k].issued /\ ~keyRow[k][c] /\ PuttingOn(k, c) = {}

(* A change that is alone at a column takes it off: nobody puts it on, and   *)
(* if the row has it on, the change read it on and will write it off.        *)
ChangesOK == \A a \in KeyAdmins, k \in ApiKeys : keyAdmin[a].busy /\ keyAdmin[a].key = k =>
  /\ keyRow[k].issued
  /\ \A c \in keyAdmin[a].alone :
       /\ keyAdmin[a].change[c] = "off"
       /\ PuttingOn(k, c) = {}
       /\ keyRow[k][c] => keyAdmin[a].read[c]

(* The inductive invariant of the keys; that no request runs on a spent key  *)
(* follows, when it is presented, from what was withdrawn being off.         *)
KeysInv == AccessKeysTypeOK /\ Withdrawn /\ ChangesOK /\ KeysOpen

KeyRecord == [issued : BOOLEAN, active : BOOLEAN, scope : BOOLEAN, expires : 0 .. MaxKeyTime + DefaultDays]
ChangeRecord == [busy : BOOLEAN, key : ApiKeys, change : KeyChanges \cup {NoChange},
                 read : KeyRecord, alone : SUBSET Columns]

(* The row of a key that was never issued, and a change at rest, have the    *)
(* types of their records.                                                   *)
LEMMA NoKeyTypes == NoKey \in KeyRecord /\ NoKeyChange \in ChangeRecord
<1>1. 0 \in 0 .. MaxKeyTime + DefaultDays
  BY KeysAssumption
<1>2. NoKey \in KeyRecord
  BY <1>1 DEF NoKey, KeyRecord
<1>3. (CHOOSE k \in ApiKeys : TRUE) \in ApiKeys
  BY KeysAssumption
<1> QED
  BY <1>2, <1>3 DEF NoKeyChange, ChangeRecord

(* The columns of a row that are switched on and off hold Booleans. *)
LEMMA ColumnOf ==
  ASSUME NEW row \in KeyRecord, NEW c \in Columns PROVE row[c] \in BOOLEAN
<1>1. CASE c = "active" BY <1>1 DEF KeyRecord
<1>2. CASE c = "scope" BY <1>2 DEF KeyRecord
<1> QED BY <1>1, <1>2 DEF Columns

(* Initially no key is withdrawn and nobody changes one. *)
LEMMA KeysInit == AccessKeysInit => KeysInv
<1> SUFFICES ASSUME AccessKeysInit PROVE KeysInv OBVIOUS
<1>1. AccessKeysTypeOK
  BY NoKeyTypes, KeysAssumption DEF AccessKeysInit, AccessKeysTypeOK, KeyRecord, ChangeRecord, NoCaller
<1>2. Withdrawn
  BY DEF AccessKeysInit, Withdrawn
<1>3. ChangesOK
  BY DEF AccessKeysInit, ChangesOK, NoKeyChange
<1>4. KeysOpen
  BY DEF AccessKeysInit, KeysOpen, NoCaller
<1> QED BY <1>1, <1>2, <1>3, <1>4 DEF KeysInv

(* What the object-relational mapper writes to a column: a value that a      *)
(* change did not ask to put on is on only where the row had it on, and one  *)
(* that it asks to take off, having read it on, is off.                      *)
LEMMA WrittenKeeps ==
  ASSUME NEW call \in ChangeRecord, NEW c \in Columns, keyRow \in [ApiKeys -> KeyRecord]
  PROVE  /\ Written(call, c) \in BOOLEAN
         /\ call.change[c] # "on" /\ Written(call, c) => keyRow[call.key][c]
         /\ call.change[c] = "off" /\ (keyRow[call.key][c] => call.read[c]) => ~Written(call, c)
<1>1. call.key \in ApiKeys /\ call.read \in KeyRecord BY DEF ChangeRecord
<1>2. keyRow[call.key][c] \in BOOLEAN /\ call.read[c] \in BOOLEAN BY <1>1, ColumnOf
<1> QED BY <1>2 DEF Written, Asked

(* Creating a key leaves the withdrawn ones as they are: the key was not     *)
(* issued before.                                                            *)
LEMMA CreateStep ==
  ASSUME KeysInv, NEW k \in ApiKeys, NEW role, NEW days \in 0 .. 1, NEW scope \in BOOLEAN,
         CreateKey(k, role, days, scope)
  PROVE  KeysInv'
<1> DEFINE row == [issued |-> TRUE, active |-> TRUE, scope |-> scope,
                   expires |-> keyTime + (IF days = 0 THEN DefaultDays ELSE days)]
<1>1. keyRow \in [ApiKeys -> KeyRecord] /\ keyTime \in 0 .. MaxKeyTime
  BY DEF KeysInv, AccessKeysTypeOK, KeyRecord
<1>2. keyTime + (IF days = 0 THEN DefaultDays ELSE days) \in 0 .. MaxKeyTime + DefaultDays
  BY <1>1, KeysAssumption
<1>3. row \in KeyRecord
  BY <1>2 DEF KeyRecord
<1>4. keyRow' = [keyRow EXCEPT ![k] = row] /\ ~keyRow[k].issued
  BY DEF CreateKey
<1>5. keyRow'[k] = row /\ \A j \in ApiKeys : j # k => keyRow'[j] = keyRow[j]
  BY <1>1, <1>4
<1>u. UNCHANGED <<keyAdmin, app, keyTime, keyChanges, inspections, revoked>>
  BY DEF CreateKey
<1>6. keyRow' \in [ApiKeys -> KeyRecord]
  BY <1>1, <1>3, <1>4
<1> HIDE DEF row
<1>7. AccessKeysTypeOK'
  BY <1>6, <1>u DEF KeysInv, AccessKeysTypeOK, KeyRecord
<1>8. \A j \in ApiKeys : \A c : PuttingOn(j, c)' = PuttingOn(j, c)
  BY <1>u DEF PuttingOn
<1>9. Withdrawn'
  BY <1>4, <1>5, <1>8, <1>u DEF KeysInv, Withdrawn
<1>10. \A a \in KeyAdmins : keyAdmin[a].busy => keyAdmin[a].key # k /\ keyAdmin[a].key \in ApiKeys
  BY <1>4 DEF KeysInv, ChangesOK, AccessKeysTypeOK
<1>11. ChangesOK'
  <2> SUFFICES ASSUME NEW a \in KeyAdmins, NEW j \in ApiKeys, keyAdmin'[a].busy, keyAdmin'[a].key = j
               PROVE  /\ keyRow'[j].issued
                      /\ \A c \in keyAdmin'[a].alone :
                           /\ keyAdmin'[a].change[c] = "off"
                           /\ PuttingOn(j, c)' = {}
                           /\ keyRow'[j][c] => keyAdmin'[a].read[c]
    BY DEF ChangesOK
  <2>1. keyAdmin'[a] = keyAdmin[a] BY <1>u
  <2>2. keyRow'[j] = keyRow[j]
    BY <1>5, <1>10, <2>1
  <2> QED BY <2>1, <2>2, <1>8 DEF KeysInv, ChangesOK
<1> QED BY <1>7, <1>9, <1>11, <1>u DEF KeysInv, KeysOpen

(* Beginning a change keeps the invariant: a change that puts a column on    *)
(* ends the withdrawal of it, and the changes that take it off are no longer *)
(* alone.                                                                    *)
LEMMA BeginStep ==
  ASSUME KeysInv, NEW a \in KeyAdmins, NEW role, NEW k \in ApiKeys, NEW change \in KeyChanges,
         BeginChange(a, role, k, change)
  PROVE  KeysInv'
<1> DEFINE on == {c \in Columns : change[c] = "on"}
           mine == [busy |-> TRUE, key |-> k, change |-> change, read |-> keyRow[k],
                    alone |-> {c \in Columns : change[c] = "off" /\ PuttingOn(k, c) = {}}]
           now(b) == IF b = a THEN mine
                     ELSE IF keyAdmin[b].busy /\ keyAdmin[b].key = k
                            THEN [keyAdmin[b] EXCEPT !.alone = @ \ on]
                            ELSE keyAdmin[b]
<1>1. keyRow \in [ApiKeys -> KeyRecord] /\ keyAdmin \in [KeyAdmins -> ChangeRecord]
      /\ revoked \in [ApiKeys -> SUBSET Columns] /\ keyChanges \in 0 .. MaxKeyChanges
  BY DEF KeysInv, AccessKeysTypeOK, KeyRecord, ChangeRecord
<1>2. keyAdmin' = [b \in KeyAdmins |-> now(b)] /\ revoked' = [revoked EXCEPT ![k] = @ \ on]
      /\ keyRow[k].issued /\ ~keyAdmin[a].busy
      /\ keyChanges < MaxKeyChanges /\ keyChanges' = keyChanges + 1
  BY DEF BeginChange
<1>3. UNCHANGED <<keyRow, app, keyTime, inspections>>
  BY DEF BeginChange
<1>4. mine \in ChangeRecord
  BY <1>1 DEF ChangeRecord
<1>5. \A b \in KeyAdmins : now(b) \in ChangeRecord
  <2> SUFFICES ASSUME NEW b \in KeyAdmins PROVE now(b) \in ChangeRecord OBVIOUS
  <2>1. keyAdmin[b] \in ChangeRecord BY <1>1
  <2>2. [keyAdmin[b] EXCEPT !.alone = @ \ on] \in ChangeRecord
    BY <2>1 DEF ChangeRecord
  <2> QED BY <2>1, <2>2, <1>4
<1>6. keyChanges' \in 0 .. MaxKeyChanges
  BY <1>1, <1>2, KeysAssumption
<1>7. revoked' \in [ApiKeys -> SUBSET Columns]
  BY <1>1, <1>2
<1>8. AccessKeysTypeOK'
  BY <1>1, <1>2, <1>3, <1>5, <1>6, <1>7 DEF KeysInv, AccessKeysTypeOK, KeyRecord, ChangeRecord
<1>9. \A b \in KeyAdmins : keyAdmin'[b] = now(b)
  BY <1>2
<1>10. ASSUME NEW b \in KeyAdmins, b # a
       PROVE  /\ keyAdmin'[b].busy = keyAdmin[b].busy /\ keyAdmin'[b].key = keyAdmin[b].key
              /\ keyAdmin'[b].change = keyAdmin[b].change /\ keyAdmin'[b].read = keyAdmin[b].read
              /\ keyAdmin'[b].alone \subseteq keyAdmin[b].alone
              /\ keyAdmin[b].busy /\ keyAdmin[b].key = k => keyAdmin'[b].alone \cap on = {}
  <2>1. keyAdmin[b] \in ChangeRecord /\ keyAdmin'[b] = now(b) BY <1>1, <1>9
  <2>2. CASE keyAdmin[b].busy /\ keyAdmin[b].key = k
    <3>1. keyAdmin'[b] = [keyAdmin[b] EXCEPT !.alone = @ \ on] BY <2>1, <2>2, <1>10
    <3> QED BY <2>1, <3>1 DEF ChangeRecord
  <2>3. CASE ~(keyAdmin[b].busy /\ keyAdmin[b].key = k)
    <3>1. keyAdmin'[b] = keyAdmin[b] BY <2>1, <2>3, <1>10
    <3> QED BY <2>3, <3>1
  <2> QED BY <2>2, <2>3
<1>11. keyAdmin'[a] = mine
  BY <1>9
<1>12. keyAdmin'[a].busy /\ keyAdmin'[a].key = k /\ keyAdmin'[a].change = change /\ keyAdmin'[a].read = keyRow[k]
       /\ keyAdmin'[a].alone = {c \in Columns : change[c] = "off" /\ PuttingOn(k, c) = {}}
  BY <1>11
<1> HIDE DEF mine, now
<1>13. ASSUME NEW j \in ApiKeys, NEW c \in Columns, PuttingOn(j, c) = {}, j # k \/ c \notin on
       PROVE  PuttingOn(j, c)' = {}
  <2> SUFFICES ASSUME NEW b \in KeyAdmins, keyAdmin'[b].busy, keyAdmin'[b].key = j, keyAdmin'[b].change[c] = "on"
               PROVE FALSE
    BY DEF PuttingOn
  <2>1. CASE b = a BY <2>1, <1>12, <1>13
  <2>2. CASE b # a
    <3>1. b \in PuttingOn(j, c) BY <2>2, <1>10 DEF PuttingOn
    <3> QED BY <3>1, <1>13
  <2> QED BY <2>1, <2>2
<1>14. Withdrawn'
  <2> SUFFICES ASSUME NEW j \in ApiKeys, NEW c \in revoked'[j]
               PROVE  keyRow'[j].issued /\ ~keyRow'[j][c] /\ PuttingOn(j, c)' = {}
    BY DEF Withdrawn
  <2>1. c \in revoked[j] /\ c \in Columns /\ (j # k \/ c \notin on)
    BY <1>1, <1>2
  <2>2. keyRow[j].issued /\ ~keyRow[j][c] /\ PuttingOn(j, c) = {}
    BY <2>1 DEF KeysInv, Withdrawn
  <2> QED BY <2>1, <2>2, <1>3, <1>13
<1>15. ChangesOK'
  <2> SUFFICES ASSUME NEW b \in KeyAdmins, NEW j \in ApiKeys, keyAdmin'[b].busy, keyAdmin'[b].key = j
               PROVE  /\ keyRow'[j].issued
                      /\ \A c \in keyAdmin'[b].alone :
                           /\ keyAdmin'[b].change[c] = "off"
                           /\ PuttingOn(j, c)' = {}
                           /\ keyRow'[j][c] => keyAdmin'[b].read[c]
    BY DEF ChangesOK
  <2>1. CASE b = a
    <3>1. j = k /\ keyRow'[j].issued
      BY <2>1, <1>2, <1>3, <1>12
    <3>2. ASSUME NEW c \in keyAdmin'[b].alone
          PROVE  keyAdmin'[b].change[c] = "off" /\ PuttingOn(j, c)' = {} /\ keyAdmin'[b].read[c] = keyRow'[j][c]
      <4>1. c \in Columns /\ change[c] = "off" /\ PuttingOn(k, c) = {} BY <2>1, <3>2, <1>12
      <4>2. c \notin on BY <4>1
      <4>3. PuttingOn(k, c)' = {} BY <4>1, <4>2, <1>13
      <4> QED BY <2>1, <3>1, <4>1, <4>3, <1>12, <1>3
    <3> QED BY <3>1, <3>2
  <2>2. CASE b # a
    <3>1. keyAdmin[b].busy /\ keyAdmin[b].key = j BY <2>2, <1>10
    <3>2. keyRow[j].issued BY <3>1 DEF KeysInv, ChangesOK
    <3>3. ASSUME NEW c \in keyAdmin'[b].alone
          PROVE  /\ keyAdmin'[b].change[c] = "off"
                 /\ PuttingOn(j, c)' = {}
                 /\ keyRow'[j][c] => keyAdmin'[b].read[c]
      <4>1. c \in keyAdmin[b].alone /\ c \in Columns BY <2>2, <3>3, <1>10, <1>1 DEF ChangeRecord
      <4>2. keyAdmin[b].change[c] = "off" /\ PuttingOn(j, c) = {} /\ (keyRow[j][c] => keyAdmin[b].read[c])
        BY <3>1, <4>1 DEF KeysInv, ChangesOK
      <4>3. j # k \/ c \notin on BY <2>2, <3>1, <3>3, <1>10
      <4>4. PuttingOn(j, c)' = {} BY <4>1, <4>2, <4>3, <1>13
      <4> QED BY <2>2, <4>2, <4>4, <1>10, <1>3
    <3> QED BY <3>2, <3>3, <1>3
  <2> QED BY <2>1, <2>2
<1> QED BY <1>3, <1>8, <1>14, <1>15 DEF KeysInv, KeysOpen

(* Committing a change keeps the invariant: a column counts as withdrawn     *)
(* only if its change was alone there, and then the row has it off.          *)
LEMMA CommitStep ==
  ASSUME KeysInv, NEW a \in KeyAdmins, CommitKeyChange(a)
  PROVE  KeysInv'
<1> DEFINE call == keyAdmin[a]
           k == call.key
<1>1. keyRow \in [ApiKeys -> KeyRecord] /\ keyAdmin \in [KeyAdmins -> ChangeRecord]
      /\ revoked \in [ApiKeys -> SUBSET Columns]
  BY DEF KeysInv, AccessKeysTypeOK, KeyRecord, ChangeRecord
<1>2. call.busy /\ k \in ApiKeys /\ call \in ChangeRecord /\ call.alone \subseteq Columns
  BY <1>1 DEF CommitKeyChange, ChangeRecord
<1>3. keyRow' = [keyRow EXCEPT ![k].active = Written(call, "active"), ![k].scope = Written(call, "scope")]
      /\ revoked' = [revoked EXCEPT ![k] = @ \cup call.alone]
      /\ keyAdmin' = [keyAdmin EXCEPT ![a] = NoKeyChange]
      /\ UNCHANGED <<app, keyTime, keyChanges, inspections>>
  BY DEF CommitKeyChange
<1>4. \A c \in Columns : Written(call, c) \in BOOLEAN
  BY <1>1, <1>2, WrittenKeeps
<1>5. Written(call, "active") \in BOOLEAN /\ Written(call, "scope") \in BOOLEAN
  BY <1>4 DEF Columns
<1>6. /\ keyRow' \in [ApiKeys -> KeyRecord]
      /\ \A j \in ApiKeys : keyRow'[j].issued = keyRow[j].issued /\ (j # k => keyRow'[j] = keyRow[j])
      /\ keyRow'[k].active = Written(call, "active") /\ keyRow'[k].scope = Written(call, "scope")
  BY <1>1, <1>2, <1>3, <1>5 DEF KeyRecord
<1>7. \A c \in Columns : keyRow'[k][c] = Written(call, c)
  BY <1>6 DEF Columns
<1>8. keyAdmin' \in [KeyAdmins -> ChangeRecord] /\ revoked' \in [ApiKeys -> SUBSET Columns]
  BY <1>1, <1>2, <1>3, NoKeyTypes
<1>9. AccessKeysTypeOK'
  BY <1>3, <1>6, <1>8 DEF KeysInv, AccessKeysTypeOK, KeyRecord, ChangeRecord
<1>10. \A b \in KeyAdmins : keyAdmin'[b].busy => b # a /\ keyAdmin'[b] = keyAdmin[b]
  BY <1>1, <1>3 DEF NoKeyChange
<1>11. \A j \in ApiKeys, c \in Columns : PuttingOn(j, c) = {} => PuttingOn(j, c)' = {}
  BY <1>10 DEF PuttingOn
<1>12. ASSUME NEW j \in ApiKeys, NEW c \in Columns, PuttingOn(j, c) = {}
       PROVE  keyRow'[j][c] => keyRow[j][c]
  <2>1. CASE j = k
    <3>1. call.change[c] # "on" BY <2>1, <1>2, <1>12 DEF PuttingOn
    <3>2. Written(call, c) => keyRow[k][c] BY <3>1, <1>1, <1>2, WrittenKeeps
    <3> QED BY <2>1, <3>2, <1>7
  <2>2. CASE j # k BY <2>2, <1>6
  <2> QED BY <2>1, <2>2
<1>13. ASSUME NEW c \in call.alone PROVE ~keyRow'[k][c] /\ PuttingOn(k, c) = {} /\ keyRow[k].issued
  <2>1. call.change[c] = "off" /\ PuttingOn(k, c) = {} /\ (keyRow[k][c] => call.read[c]) /\ keyRow[k].issued
    BY <1>2, <1>13 DEF KeysInv, ChangesOK
  <2>2. c \in Columns BY <1>2, <1>13
  <2>3. ~Written(call, c) BY <2>1, <2>2, <1>1, <1>2, WrittenKeeps
  <2> QED BY <2>1, <2>2, <2>3, <1>7
<1> HIDE DEF call, k
<1>14. Withdrawn'
  <2> SUFFICES ASSUME NEW j \in ApiKeys, NEW c \in revoked'[j]
               PROVE  keyRow'[j].issued /\ ~keyRow'[j][c] /\ PuttingOn(j, c)' = {}
    BY DEF Withdrawn
  <2>1. c \in Columns BY <1>8
  <2>2. CASE c \in revoked[j]
    <3>1. keyRow[j].issued /\ ~keyRow[j][c] /\ PuttingOn(j, c) = {}
      BY <2>2 DEF KeysInv, Withdrawn
    <3>2. keyRow'[j][c] => keyRow[j][c] BY <3>1, <2>1, <1>12
    <3> QED BY <2>1, <3>1, <3>2, <1>6, <1>11
  <2>3. CASE c \notin revoked[j]
    <3>1. j = k /\ c \in call.alone BY <2>3, <1>1, <1>2, <1>3
    <3> QED BY <2>1, <3>1, <1>2, <1>13, <1>6, <1>11
  <2> QED BY <2>2, <2>3
<1>15. ChangesOK'
  <2> SUFFICES ASSUME NEW b \in KeyAdmins, NEW j \in ApiKeys, keyAdmin'[b].busy, keyAdmin'[b].key = j
               PROVE  /\ keyRow'[j].issued
                      /\ \A c \in keyAdmin'[b].alone :
                           /\ keyAdmin'[b].change[c] = "off"
                           /\ PuttingOn(j, c)' = {}
                           /\ keyRow'[j][c] => keyAdmin'[b].read[c]
    BY DEF ChangesOK
  <2>1. keyAdmin'[b] = keyAdmin[b] /\ keyAdmin[b].busy /\ keyAdmin[b].key = j BY <1>10
  <2>2. keyRow[j].issued BY <2>1 DEF KeysInv, ChangesOK
  <2>3. ASSUME NEW c \in keyAdmin[b].alone
        PROVE  /\ keyAdmin[b].change[c] = "off"
               /\ PuttingOn(j, c)' = {}
               /\ keyRow'[j][c] => keyAdmin[b].read[c]
    <3>1. c \in Columns BY <2>3, <1>1 DEF ChangeRecord
    <3>2. keyAdmin[b].change[c] = "off" /\ PuttingOn(j, c) = {} /\ (keyRow[j][c] => keyAdmin[b].read[c])
      BY <2>1, <2>3 DEF KeysInv, ChangesOK
    <3>3. keyRow'[j][c] => keyRow[j][c] BY <3>1, <3>2, <1>12
    <3> QED BY <3>1, <3>2, <3>3, <1>11
  <2> QED BY <2>1, <2>2, <2>3, <1>6
<1> QED BY <1>3, <1>9, <1>14, <1>15 DEF KeysInv, KeysOpen

CallerRecord == [phase : {"idle", "admitted", "inspecting"}, spent : BOOLEAN]

(* A key whose row admits a request was neither withdrawn nor is it expired: *)
(* whichever column was withdrawn is off.                                    *)
LEMMA AdmittedUnspent ==
  ASSUME KeysInv, NEW k \in ApiKeys,
         keyRow[k].active, keyRow[k].scope, keyRow[k].expires >= keyTime
  PROVE  ~Spent(k)
<1>1. revoked[k] \subseteq Columns BY DEF KeysInv, AccessKeysTypeOK
<1>2. \A c \in Columns : keyRow[k][c] BY DEF Columns
<1>3. revoked[k] = {} BY <1>1, <1>2 DEF KeysInv, Withdrawn
<1>4. ~(keyTime > keyRow[k].expires) BY DEF KeysInv, AccessKeysTypeOK
<1> QED BY <1>3, <1>4 DEF Spent

(* Every step of the keys, and of an application that uses one, keeps the    *)
(* invariant.                                                                *)
LEMMA KeysStep == KeysInv /\ [AccessKeysNext]_keyVars => KeysInv'
<1> SUFFICES ASSUME KeysInv, [AccessKeysNext]_keyVars PROVE KeysInv' OBVIOUS
<1>1. ASSUME UNCHANGED <<keyRow, keyAdmin, revoked>>, AccessKeysTypeOK', KeysOpen'
      PROVE  KeysInv'
  <2>1. \A j \in ApiKeys : \A c : PuttingOn(j, c)' = PuttingOn(j, c) BY <1>1 DEF PuttingOn
  <2> QED BY <1>1, <2>1 DEF KeysInv, Withdrawn, ChangesOK
<1>t. app \in [Apps -> CallerRecord] /\ inspections \in 0 .. MaxInspections /\ keyTime \in 0 .. MaxKeyTime
      /\ \A p \in Apps : app[p].phase # "idle" => app[p].spent = FALSE
  BY DEF KeysInv, AccessKeysTypeOK, KeysOpen, CallerRecord
<1>2. ASSUME NEW p \in Apps, NEW k \in ApiKeys, PresentKey(p, k) PROVE KeysInv'
  <2>1. inspections' \in 0 .. MaxInspections
    BY <1>2, <1>t, KeysAssumption DEF PresentKey
  <2> DEFINE admitted == keyRow[k].issued /\ keyRow[k].active /\ keyRow[k].scope /\ keyRow[k].expires >= keyTime
             r == IF admitted THEN [phase |-> "admitted", spent |-> Spent(k)] ELSE NoCaller
  <2>2. app' = [app EXCEPT ![p] = r] BY <1>2 DEF PresentKey
  <2>3. UNCHANGED <<keyRow, keyAdmin, keyTime, keyChanges, revoked>>
    BY <1>2 DEF PresentKey
  <2>4. admitted => r = [phase |-> "admitted", spent |-> FALSE]
    <3>1. admitted => ~Spent(k) BY AdmittedUnspent
    <3>2. admitted => Spent(k) = FALSE BY <3>1 DEF Spent
    <3> QED BY <3>2
  <2>5. ~admitted => r = [phase |-> "idle", spent |-> FALSE] BY DEF NoCaller
  <2> HIDE DEF r, admitted
  <2>6. r \in CallerRecord /\ r.spent = FALSE
    <3>1. CASE admitted
      <4>1. r = [phase |-> "admitted", spent |-> FALSE] BY <3>1, <2>4
      <4> QED BY <4>1 DEF CallerRecord
    <3>2. CASE ~admitted
      <4>1. r = [phase |-> "idle", spent |-> FALSE] BY <3>2, <2>5
      <4> QED BY <4>1 DEF CallerRecord
    <3> QED BY <3>1, <3>2
  <2>7. app' \in [Apps -> CallerRecord] /\ \A q \in Apps : app'[q].phase # "idle" => app'[q].spent = FALSE
    BY <1>t, <2>2, <2>6
  <2>8. KeysOpen' BY <2>7 DEF KeysOpen
  <2>9. AccessKeysTypeOK' BY <2>1, <2>3, <2>7 DEF KeysInv, AccessKeysTypeOK, CallerRecord
  <2> QED BY <1>1, <2>3, <2>8, <2>9
<1>3. ASSUME NEW p \in Apps, StampUse(p) \/ Inspect(p) PROVE KeysInv'
  <2>1. \/ app[p].phase = "admitted" /\ app' = [app EXCEPT ![p] = [app[p] EXCEPT !.phase = "inspecting"]]
        \/ app' = [app EXCEPT ![p] = NoCaller]
    BY <1>3 DEF StampUse, Inspect
  <2>2. UNCHANGED <<keyRow, keyAdmin, keyTime, keyChanges, inspections, revoked>>
    BY <1>3 DEF StampUse, Inspect
  <2>3. app' \in [Apps -> CallerRecord] /\ \A q \in Apps : app'[q].phase # "idle" => app'[q].spent = FALSE
    <3> DEFINE r == [app[p] EXCEPT !.phase = "inspecting"]
    <3>1. CASE app[p].phase = "admitted" /\ app' = [app EXCEPT ![p] = r]
      <4>1. app[p] \in CallerRecord /\ app[p].spent = FALSE BY <3>1, <1>t
      <4>2. r \in CallerRecord /\ r.spent = FALSE BY <4>1 DEF CallerRecord
      <4> HIDE DEF r
      <4> QED BY <4>2, <3>1, <1>t
    <3>2. CASE app' = [app EXCEPT ![p] = NoCaller]
      <4>1. NoCaller \in CallerRecord /\ NoCaller.spent = FALSE BY DEF NoCaller, CallerRecord
      <4> QED BY <4>1, <3>2, <1>t
    <3> QED BY <2>1, <3>1, <3>2
  <2>4. KeysOpen' BY <2>3 DEF KeysOpen
  <2>5. AccessKeysTypeOK' BY <2>2, <2>3 DEF KeysInv, AccessKeysTypeOK, CallerRecord
  <2> QED BY <1>1, <2>2, <2>4, <2>5
<1>4. ASSUME KeyTick PROVE KeysInv'
  <2>1. keyTime' \in 0 .. MaxKeyTime
    BY <1>4, <1>t, KeysAssumption DEF KeyTick
  <2> QED BY <1>1, <1>4, <2>1 DEF KeyTick, KeysInv, AccessKeysTypeOK, KeysOpen
<1>5. ASSUME UNCHANGED keyVars PROVE KeysInv'
  BY <1>1, <1>5 DEF keyVars, KeysInv, AccessKeysTypeOK, KeysOpen
<1> QED BY <1>2, <1>3, <1>4, <1>5, CreateStep, BeginStep, CommitStep DEF AccessKeysNext

(* A key that was answered to be revoked, or to have lost the proxy's scope, *)
(* stays so until somebody asks for the contrary, for any number of          *)
(* administrators that read and write the same row at once: the PATCH and    *)
(* DELETE routes of the API keys.                                            *)
THEOREM WithdrawalsStay == AccessKeysSpec => []WithdrawalsHold
<1>1. KeysInv => WithdrawalsHold
  BY DEF KeysInv, Withdrawn, WithdrawalsHold
<1> QED BY <1>1, KeysInit, KeysStep, PTL DEF AccessKeysSpec

(* No request is served on a key that was presented after its withdrawal was *)
(* answered or after its time was over, whatever changes that were read      *)
(* before the withdrawal are committed after it: get_jwt_or_api_key_actor.   *)
THEOREM SpentKeysOpenNothing == AccessKeysSpec => []KeysOpen
<1>1. KeysInv => KeysOpen
  BY DEF KeysInv
<1> QED BY <1>1, KeysInit, KeysStep, PTL DEF AccessKeysSpec

-----------------------------------------------------------------------------
(* The phases a process comes to once the administrator is there. *)
Seeded == {"boot", "diagnose", "up"}

(* A process that is past a stage of create_all, or found one missing, has   *)
(* the pieces of that stage in the schema; past all, it has the whole        *)
(* schema.                                                                   *)
SchemaOK == \A p \in Servers :
  /\ starting[p].phase \in {"look", "make"} =>
       \A s \in 1 .. 3 : s < starting[p].stage => Stages[s] \subseteq schema
  /\ starting[p].phase = "make" => Stages[starting[p].stage] \subseteq schema \cup starting[p].missing
  /\ starting[p].phase \in {"seed", "insert", "print"} \cup Seeded => schema = Whole

(* The password a process or a creator holds was drawn. *)
DrawnOK ==
  /\ \A p \in Servers : starting[p].phase \in {"insert", "print"} => starting[p].password > 0
  /\ \A c \in Creators : creating[c].phase # "idle" => creating[c].password > 0

(* No two rows have one address: users.email is unique. *)
OneRowEach == \A one, other \in rows : one.email = other.email => one = other

(* A row of that address and password is there. *)
HasRow(email, password) == \E row \in rows : row.email = email /\ row.password = password

(* A password that was handed out, or is about to be, is that of a row. *)
ToldOK ==
  /\ \A pair \in handed : HasRow(pair[1], pair[2])
  /\ \A p \in Servers : starting[p].phase = "print" => HasRow(FirstEmail, starting[p].password)
  /\ \A c \in Creators : creating[c].phase = "answer" => HasRow(creating[c].email, creating[c].password)

(* The password of an address was handed out or is about to be. *)
Telling(email, password) ==
  \/ <<email, password>> \in handed
  \/ email = FirstEmail /\ \E q \in Servers : starting[q].phase = "print" /\ starting[q].password = password
  \/ \E c \in Creators : creating[c].phase = "answer" /\ creating[c].email = email /\ creating[c].password = password

(* Unless a kill kept one back, every row's password is told. *)
AllTold == forgotten \/ \A row \in rows : Telling(row.email, row.password)

(* There is an active account of the role SUPER_ADMIN. *)
SomeAdministrator == \E row \in rows : row.role = "SUPER_ADMIN" /\ row.active

(* Nobody is about to disable himself. *)
ManagersOK == \A u \in Managers :
  managing[u].phase = "commit" /\ managing[u].write.active = "off" => managing[u].email # managing[u].by

(* Unless somebody overreached there is an administrator, or no process is   *)
(* past its seeding and no row is there at all.                              *)
AdministratorOK ==
  \/ overreached
  \/ SomeAdministrator
  \/ /\ rows = {}
     /\ \A c \in Creators : creating[c].phase = "idle"
     /\ \A p \in Servers : starting[p].phase \notin Seeded

(* The inductive invariant of the accounts. *)
AccountsInv == AccountsTypeOK /\ SchemaOK /\ DrawnOK /\ OneRowEach /\ ToldOK /\ AllTold
               /\ ManagersOK /\ AdministratorOK

UserRow == [email : Addresses, password : 1 .. MaxPasswords, role : UserRoles, active : BOOLEAN]
StartRecord == [phase : StartPhases, stage : 1 .. 3, missing : SUBSET Whole, password : 0 .. MaxPasswords]
CreateRecord == [phase : {"idle", "insert", "answer"}, email : Addresses, role : UserRoles,
                 password : 0 .. MaxPasswords]
UpdateRecord == [phase : {"idle", "find", "commit"}, by : Addresses, email : Addresses,
                 write : UserChanges]

ManagerTypes == /\ badges \subseteq Addresses /\ managing \in [Managers -> UpdateRecord]
                /\ updates \in 0 .. MaxAccountEvents /\ overreached \in BOOLEAN

(* A process that is down and calls at rest have the types of their records. *)
LEMMA DownTypes == Down \in StartRecord /\ Rest \in CreateRecord /\ NoUpdate \in UpdateRecord
<1>1. 0 \in 0 .. MaxPasswords BY AccountsAssumption
<1>2. NoUpdate \in UpdateRecord BY DEF NoUpdate, UpdateRecord, UserChanges, Addresses
<1> QED BY <1>1, <1>2 DEF Down, Rest, StartRecord, CreateRecord, StartPhases, Addresses, UserRoles

(* Where no call of update_user moves, what they rely on stays true. *)
LEMMA ManagersRest ==
  ASSUME AccountsInv, UNCHANGED managerVars
  PROVE  ManagerTypes' /\ ManagersOK' /\ overreached' = overreached
<1>1. UNCHANGED <<badges, managing, updates, overreached>> BY DEF managerVars
<1> QED BY <1>1 DEF AccountsInv, AccountsTypeOK, ManagerTypes, UpdateRecord, ManagersOK

(* The three stages of create_all are parts of the schema and make up the    *)
(* whole of it.                                                              *)
LEMMA StagesOf == /\ Stages[1] = Tables /\ Stages[2] = {"metadata"} /\ Stages[3] = {"device"}
                  /\ Len(Stages) = 3
                  /\ \A s \in 1 .. 3 : Stages[s] \subseteq Whole
                  /\ \A X : (\A s \in 1 .. 3 : Stages[s] \subseteq X) => Whole \subseteq X
<1>1. /\ Stages[1] = Tables /\ Stages[2] = {"metadata"} /\ Stages[3] = {"device"}
      /\ Len(Stages) = 3
  BY DEF Stages
<1>2. \A s \in 1 .. 3 : s = 1 \/ s = 2 \/ s = 3 OBVIOUS
<1>3. \A s \in 1 .. 3 : Stages[s] \subseteq Whole BY <1>1, <1>2 DEF Whole
<1>4. ASSUME NEW X, \A s \in 1 .. 3 : Stages[s] \subseteq X PROVE Whole \subseteq X
  <2>1. Stages[1] \subseteq X /\ Stages[2] \subseteq X /\ Stages[3] \subseteq X
    BY <1>4
  <2> QED BY <2>1, <1>1 DEF Whole
<1> QED BY <1>1, <1>3, <1>4

(* Initially there are no rows, no process is up and nobody has been handed  *)
(* a password.                                                               *)
LEMMA AccountsInitOK == AccountsInit => AccountsInv
<1> SUFFICES ASSUME AccountsInit PROVE AccountsInv OBVIOUS
<1>1. AccountsTypeOK
  <2>1. starting \in [Servers -> StartRecord] /\ creating \in [Creators -> CreateRecord]
    BY DownTypes DEF AccountsInit
  <2>2. schema \subseteq Whole BY DEF AccountsInit, Whole
  <2>3. rows = {} /\ handed = {} /\ drawn \in 0 .. MaxPasswords /\ starts \in 0 .. MaxProcessStarts
        /\ badges = {} /\ updates \in 0 .. MaxAccountEvents
        /\ forgotten \in BOOLEAN /\ overreached \in BOOLEAN
    <3>1. MaxPasswords \in Nat /\ MaxProcessStarts \in Nat /\ MaxAccountEvents \in Nat
      BY AccountsAssumption
    <3>2. rows = {} /\ handed = {} /\ drawn = 0 /\ starts = 0 /\ badges = {} /\ updates = 0
      BY DEF AccountsInit
    <3>3. forgotten \in BOOLEAN /\ overreached \in BOOLEAN
      BY Zenon DEF AccountsInit
    <3> QED BY <3>1, <3>2, <3>3
  <2>5. starting \in [Servers -> [phase : StartPhases, stage : 1 .. 3, missing : SUBSET Whole,
                               password : 0 .. MaxPasswords]]
    BY <2>1 DEF StartRecord
  <2>6. creating \in [Creators -> [phase : {"idle", "insert", "answer"}, email : Addresses,
                                role : UserRoles, password : 0 .. MaxPasswords]]
    BY <2>1 DEF CreateRecord
  <2>7. managing \in [Managers -> [phase : {"idle", "find", "commit"}, by : Addresses,
                                 email : Addresses, write : UserChanges]]
    BY DownTypes DEF AccountsInit, UpdateRecord
  <2> QED BY <2>2, <2>3, <2>5, <2>6, <2>7 DEF AccountsTypeOK
<1>2. SchemaOK /\ DrawnOK /\ OneRowEach /\ ToldOK /\ AllTold /\ ManagersOK /\ AdministratorOK
  BY DEF AccountsInit, SchemaOK, DrawnOK, OneRowEach, ToldOK, AllTold, ManagersOK, AdministratorOK,
         Down, Rest, NoUpdate, Seeded
<1> QED BY <1>1, <1>2 DEF AccountsInv

(* A process that moves on without writing a row keeps the invariant, given  *)
(* what its new phase claims of the schema and the administrator.            *)
LEMMA ProgressKeeps ==
  ASSUME AccountsInv, NEW p \in Servers, NEW r \in StartRecord,
         Progress(p, r), UNCHANGED <<schema, rows, creating, handed, managerVars>>,
         forgotten' \in BOOLEAN, forgotten => forgotten',
         starting[p].phase = "print" => forgotten',
         drawn' \in 0 .. MaxPasswords, starts' \in 0 .. MaxProcessStarts,
         r.phase \in {"look", "make"} => \A s \in 1 .. 3 : s < r.stage => Stages[s] \subseteq schema,
         r.phase = "make" => Stages[r.stage] \subseteq schema \cup r.missing,
         r.phase \in {"seed", "insert"} \cup Seeded => schema = Whole,
         r.phase = "insert" => r.password > 0,
         r.phase # "print",
         r.phase \in Seeded => SomeAdministrator \/ overreached
  PROVE  AccountsInv'
<1>1. starting \in [Servers -> StartRecord]
  BY DEF AccountsInv, AccountsTypeOK, StartRecord
<1>2. starting' \in [Servers -> StartRecord] /\ starting'[p] = r
      /\ \A q \in Servers : q # p => starting'[q] = starting[q]
  BY <1>1 DEF Progress
<1>m. ManagerTypes' /\ ManagersOK' /\ overreached' = overreached BY ManagersRest
<1>3. AccountsTypeOK'
  BY <1>2, <1>m DEF AccountsInv, AccountsTypeOK, ManagerTypes, UpdateRecord, StartRecord
<1>4. SchemaOK'
  <2> SUFFICES ASSUME NEW q \in Servers
               PROVE  /\ starting'[q].phase \in {"look", "make"} =>
                           \A s \in 1 .. 3 : s < starting'[q].stage => Stages[s] \subseteq schema'
                      /\ starting'[q].phase = "make" => Stages[starting'[q].stage] \subseteq schema' \cup starting'[q].missing
                      /\ starting'[q].phase \in {"seed", "insert", "print"} \cup Seeded => schema' = Whole
    BY DEF SchemaOK, Stages
  <2>1. CASE q = p BY <2>1, <1>2
  <2>2. CASE q # p BY <2>2, <1>2 DEF AccountsInv, SchemaOK
  <2> QED BY <2>1, <2>2
<1>5. DrawnOK' BY <1>2 DEF AccountsInv, DrawnOK
<1>6. OneRowEach' BY DEF AccountsInv, OneRowEach
<1>7. ToldOK' BY <1>2 DEF AccountsInv, ToldOK, HasRow
<1>8. AllTold'
  <2> SUFFICES ASSUME ~forgotten', NEW row \in rows PROVE Telling(row.email, row.password)'
    BY DEF AllTold
  <2>1. ~forgotten /\ starting[p].phase # "print" BY DEF AccountsInv, AccountsTypeOK
  <2>2. Telling(row.email, row.password) BY <2>1 DEF AccountsInv, AllTold
  <2>3. \A q \in Servers : starting[q].phase = "print" => starting'[q] = starting[q] BY <2>1, <1>2
  <2> QED BY <2>2, <2>3 DEF Telling
<1>9. AdministratorOK'
  BY <1>2, <1>m DEF AccountsInv, AdministratorOK, SomeAdministrator
<1> QED BY <1>3, <1>4, <1>5, <1>6, <1>7, <1>8, <1>9, <1>m DEF AccountsInv

(* Making a piece of a stage keeps the invariant: the process goes to the    *)
(* next stage once nothing it found missing is left.                         *)
LEMMA MakeStep ==
  ASSUME AccountsInv, NEW p \in Servers, MakePiece(p)
  PROVE  AccountsInv'
<1> DEFINE at == starting[p]
<1>1. starting \in [Servers -> StartRecord] /\ schema \subseteq Whole
  BY DEF AccountsInv, AccountsTypeOK, StartRecord
<1>2. at \in StartRecord /\ at.phase = "make" BY <1>1 DEF MakePiece
<1>3. at.stage \in 1 .. 3 /\ at.missing \subseteq Whole BY <1>2 DEF StartRecord
<1>4. (\A s \in 1 .. 3 : s < at.stage => Stages[s] \subseteq schema) /\ Stages[at.stage] \subseteq schema \cup at.missing
  BY <1>2 DEF AccountsInv, SchemaOK
<1>u. UNCHANGED <<rows, creating, drawn, handed, starts, forgotten, managerVars>> BY DEF MakePiece
<1>m. ManagerTypes' /\ ManagersOK' /\ overreached' = overreached BY <1>u, ManagersRest
<1>t. forgotten \in BOOLEAN /\ drawn \in 0 .. MaxPasswords /\ starts \in 0 .. MaxProcessStarts
  BY DEF AccountsInv, AccountsTypeOK
<1>5. CASE at.missing = {} /\ UNCHANGED schema
           /\ Progress(p, IF at.stage < Len(Stages) THEN [at EXCEPT !.phase = "look", !.stage = @ + 1]
                                                    ELSE [at EXCEPT !.phase = "seed"])
  <2>1. CASE at.stage < 3
    <3> DEFINE r == [at EXCEPT !.phase = "look", !.stage = @ + 1]
    <3>0. at.stage < Len(Stages) BY <2>1, StagesOf
    <3>d. starting' = [starting EXCEPT ![p] = IF at.stage < Len(Stages)
                                               THEN [at EXCEPT !.phase = "look", !.stage = @ + 1]
                                               ELSE [at EXCEPT !.phase = "seed"]]
      BY <1>5 DEF Progress
    <3>c. starting' = [starting EXCEPT ![p] = r] BY <3>d, <3>0
    <3>1. Progress(p, r) BY <3>c DEF Progress
    <3>a. at.stage + 1 \in 1 .. 3 BY <1>3, <2>1
    <3> DEFINE s == [at EXCEPT !.phase = "look"]
    <3>b. s \in StartRecord /\ s.phase = "look" /\ r = [s EXCEPT !.stage = at.stage + 1]
      BY <1>2 DEF StartRecord, StartPhases
    <3> HIDE DEF s
    <3>2. r \in StartRecord /\ r.phase = "look" /\ r.stage = at.stage + 1
      BY <3>a, <3>b DEF StartRecord
    <3>3. \A n \in 1 .. 3 : n < r.stage => Stages[n] \subseteq schema
      BY <3>2, <1>3, <1>4, <1>5
    <3> HIDE DEF r
    <3> QED BY <3>1, <3>2, <3>3, <1>2, <1>5, <1>u, <1>t, ProgressKeeps DEF Seeded
  <2>2. CASE at.stage = 3
    <3> DEFINE r == [at EXCEPT !.phase = "seed"]
    <3>1. Progress(p, r) BY <1>5, <2>2, StagesOf
    <3>2. r \in StartRecord /\ r.phase = "seed"
      BY <1>2 DEF StartRecord, StartPhases
    <3>3. \A s \in 1 .. 3 : Stages[s] \subseteq schema
      BY <2>2, <1>4, <1>5
    <3>4. schema = Whole BY <3>3, <1>1, StagesOf
    <3> HIDE DEF r
    <3> QED BY <3>1, <3>2, <3>4, <1>2, <1>5, <1>u, <1>t, ProgressKeeps DEF Seeded
  <2> QED BY <2>1, <2>2, <1>3
<1>6. ASSUME NEW piece \in at.missing, schema' = schema \cup With(piece),
             Progress(p, IF piece \in schema THEN Down ELSE [at EXCEPT !.missing = @ \ {piece}])
      PROVE  AccountsInv'
  <2>1. With(piece) \subseteq Whole /\ piece \in With(piece)
    BY <1>3, <1>6 DEF With, Whole, Tables
  <2>2. schema \subseteq schema' /\ schema' \subseteq Whole BY <2>1, <1>1, <1>6
  <2> DEFINE r == IF piece \in schema THEN Down ELSE [at EXCEPT !.missing = @ \ {piece}]
  <2>3. r \in StartRecord /\ r.phase \in {"down", "make"}
        /\ (r.phase = "make" => r.stage = at.stage /\ r.missing = at.missing \ {piece})
    BY <1>2, DownTypes DEF StartRecord, Down
  <2>4. starting' \in [Servers -> StartRecord] /\ starting'[p] = r
        /\ \A q \in Servers : q # p => starting'[q] = starting[q]
    BY <1>1, <1>6, <2>3 DEF Progress
  <2> HIDE DEF r
  <2>5. AccountsTypeOK'
    BY <2>2, <2>4, <1>u, <1>m DEF AccountsInv, AccountsTypeOK, StartRecord, ManagerTypes, UpdateRecord
  <2>6. SchemaOK'
    <3> SUFFICES ASSUME NEW q \in Servers
                 PROVE  /\ starting'[q].phase \in {"look", "make"} =>
                             \A s \in 1 .. 3 : s < starting'[q].stage => Stages[s] \subseteq schema'
                        /\ starting'[q].phase = "make" => Stages[starting'[q].stage] \subseteq schema' \cup starting'[q].missing
                        /\ starting'[q].phase \in {"seed", "insert", "print"} \cup Seeded => schema' = Whole
      BY DEF SchemaOK, Stages
    <3>1. CASE q = p
      <4>1. r.phase = "make" => Stages[r.stage] \subseteq schema' \cup r.missing
        BY <1>4, <1>6, <2>1, <2>3
      <4>2. r.phase = "make" => \A s \in 1 .. 3 : s < r.stage => Stages[s] \subseteq schema'
        BY <1>4, <2>2, <2>3
      <4> QED BY <3>1, <4>1, <4>2, <2>3, <2>4 DEF Seeded
    <3>2. CASE q # p BY <3>2, <2>2, <2>4 DEF AccountsInv, SchemaOK
    <3> QED BY <3>1, <3>2
  <2>7. starting[p].phase \notin {"insert", "print"} \cup Seeded
        /\ starting'[p].phase \notin {"insert", "print"} \cup Seeded
    BY <1>2, <2>3, <2>4 DEF Seeded
  <2>8. DrawnOK' BY <2>4, <2>7, <1>u DEF AccountsInv, DrawnOK
  <2>9. OneRowEach' BY <1>u DEF AccountsInv, OneRowEach
  <2>10. ToldOK' BY <2>4, <2>7, <1>u DEF AccountsInv, ToldOK, HasRow
  <2>11. AllTold'
    <3>1. \A q \in Servers : starting[q].phase = "print" => starting'[q] = starting[q] BY <2>4, <2>7
    <3> QED BY <3>1, <1>u DEF AccountsInv, AllTold, Telling
  <2>12. AdministratorOK' BY <2>4, <2>7, <1>u, <1>m DEF AccountsInv, AdministratorOK, SomeAdministrator
  <2> QED BY <2>5, <2>6, <2>8, <2>9, <2>10, <2>11, <2>12, <1>m DEF AccountsInv
<1> QED BY <1>5, <1>6 DEF MakePiece

(* A start, a look at the schema or at the first account, a boot, a kill,    *)
(* and an insertion that finds the first account taken keep the invariant.   *)
LEMMA StartSteps ==
  ASSUME AccountsInv, NEW p \in Servers,
         \/ StartProcess(p) \/ LookAtSchema(p) \/ SeedLook(p) \/ Boot(p) \/ KillProcess(p)
         \/ SeedInsert(p) /\ Taken(FirstEmail)
  PROVE  AccountsInv'
<1> DEFINE at == starting[p]
<1>1. starting \in [Servers -> StartRecord] /\ at \in StartRecord /\ schema \subseteq Whole
  BY DEF AccountsInv, AccountsTypeOK, StartRecord
<1>t. forgotten \in BOOLEAN /\ drawn \in 0 .. MaxPasswords /\ starts \in 0 .. MaxProcessStarts
  BY DEF AccountsInv, AccountsTypeOK
<1>2. CASE StartProcess(p)
  <2> DEFINE r == [Down EXCEPT !.phase = "look"]
  <2>1. r \in StartRecord /\ r.phase = "look" /\ r.stage = 1
    BY DownTypes DEF StartRecord, StartPhases, Down
  <2>2. \A s \in 1 .. 3 : ~(s < r.stage) BY <2>1
  <2>3. starts' \in 0 .. MaxProcessStarts BY <1>2, <1>t, AccountsAssumption DEF StartProcess
  <2>4. Progress(p, r) /\ at.phase = "down" /\ UNCHANGED <<schema, rows, creating, drawn, handed, forgotten, managerVars>>
    BY <1>2 DEF StartProcess
  <2> HIDE DEF r
  <2> QED BY <2>1, <2>2, <2>3, <2>4, <1>t, ProgressKeeps DEF Seeded
<1>3. CASE LookAtSchema(p)
  <2> DEFINE r == [at EXCEPT !.phase = "make", !.missing = Stages[at.stage] \ schema]
             s == [at EXCEPT !.phase = "make"]
  <2>1. s \in StartRecord /\ s.phase = "make" /\ s.stage = at.stage /\ at.stage \in 1 .. 3
        /\ r = [s EXCEPT !.missing = Stages[at.stage] \ schema]
    BY <1>1 DEF StartRecord, StartPhases
  <2> HIDE DEF s
  <2>2. Stages[at.stage] \subseteq Whole BY <2>1, StagesOf
  <2>3. r \in StartRecord /\ r.phase = "make" /\ r.stage = at.stage /\ r.missing = Stages[at.stage] \ schema
    BY <2>1, <2>2 DEF StartRecord
  <2>4. Progress(p, r) /\ at.phase = "look"
        /\ UNCHANGED <<schema, rows, creating, drawn, handed, starts, forgotten, managerVars>>
    BY <1>3 DEF LookAtSchema
  <2> HIDE DEF r
  <2>5. \A n \in 1 .. 3 : n < r.stage => Stages[n] \subseteq schema
    BY <2>3, <2>4 DEF AccountsInv, SchemaOK
  <2> QED BY <2>3, <2>4, <2>5, <1>t, ProgressKeeps DEF Seeded
<1>4. ASSUME at.phase = "seed", UNCHANGED <<schema, rows, creating, handed, starts, forgotten, managerVars>>,
             drawn < MaxPasswords, drawn' = drawn + 1,
             Progress(p, [at EXCEPT !.phase = "insert", !.password = drawn + 1])
      PROVE  AccountsInv'
  <2> DEFINE r == [at EXCEPT !.phase = "insert", !.password = drawn + 1]
             s == [at EXCEPT !.phase = "insert"]
  <2>1. s \in StartRecord /\ s.phase = "insert" /\ r = [s EXCEPT !.password = drawn + 1]
    BY <1>1 DEF StartRecord, StartPhases
  <2> HIDE DEF s
  <2>2. drawn + 1 \in 0 .. MaxPasswords /\ drawn + 1 > 0 BY <1>t, <1>4, AccountsAssumption
  <2>3. r \in StartRecord /\ r.phase = "insert" /\ r.password = drawn + 1
    BY <2>1, <2>2 DEF StartRecord
  <2>4. Progress(p, r) BY <1>4
  <2> HIDE DEF r
  <2>5. schema = Whole BY <1>4 DEF AccountsInv, SchemaOK
  <2> QED BY <2>2, <2>3, <2>4, <2>5, <1>4, <1>t, ProgressKeeps DEF Seeded
<1>5. ASSUME NEW next \in Seeded, Progress(p, [at EXCEPT !.phase = next]), at.phase \in {"seed", "insert"} \cup Seeded,
             UNCHANGED <<schema, rows, creating, drawn, handed, starts, forgotten, managerVars>>,
             SomeAdministrator \/ overreached
      PROVE  AccountsInv'
  <2> DEFINE r == [at EXCEPT !.phase = next]
  <2>1. r \in StartRecord /\ r.phase = next
    BY <1>1, <1>5 DEF StartRecord, StartPhases, Seeded
  <2>2. schema = Whole BY <1>5 DEF AccountsInv, SchemaOK
  <2>3. Progress(p, r) BY <1>5
  <2> HIDE DEF r
  <2>4. at.phase # "print" /\ next \notin {"look", "make", "insert", "print"} BY <1>5 DEF Seeded
  <2> QED BY <2>1, <2>2, <2>3, <2>4, <1>5, <1>t, ProgressKeeps
<1>6. CASE SeedLook(p)
  <2>1. CASE \E row \in rows : row.role = "SUPER_ADMIN"
    <3>1. Progress(p, [at EXCEPT !.phase = "boot"]) /\ UNCHANGED drawn
      BY <1>6, <2>1 DEF SeedLook
    <3>2. at.phase = "seed" /\ UNCHANGED <<schema, rows, creating, handed, starts, forgotten, managerVars>>
      BY <1>6 DEF SeedLook
    <3>3. SomeAdministrator \/ overreached BY <2>1 DEF AccountsInv, AdministratorOK
    <3> QED BY <3>1, <3>2, <3>3, <1>5 DEF Seeded
  <2>2. CASE ~\E row \in rows : row.role = "SUPER_ADMIN"
    <3>1. drawn < MaxPasswords /\ drawn' = drawn + 1
          /\ Progress(p, [at EXCEPT !.phase = "insert", !.password = drawn + 1])
      BY <1>6, <2>2 DEF SeedLook
    <3>2. at.phase = "seed" /\ UNCHANGED <<schema, rows, creating, handed, starts, forgotten, managerVars>>
      BY <1>6 DEF SeedLook
    <3> QED BY <3>1, <3>2, <1>4
  <2> QED BY <2>1, <2>2
<1>7. CASE Boot(p)
  <2>1. Progress(p, [at EXCEPT !.phase = IF at.phase = "boot" THEN "diagnose" ELSE "up"])
        /\ at.phase \in Seeded
        /\ UNCHANGED <<schema, rows, creating, drawn, handed, starts, forgotten, managerVars>>
    BY <1>7 DEF Boot, Seeded
  <2>2. SomeAdministrator \/ overreached
    BY <2>1 DEF AccountsInv, AdministratorOK
  <2>3. (IF at.phase = "boot" THEN "diagnose" ELSE "up") \in Seeded BY DEF Seeded
  <2> QED BY <2>1, <2>2, <2>3, <1>5
<1>8. CASE KillProcess(p)
  <2>1. Progress(p, Down) /\ forgotten' = (forgotten \/ at.phase = "print")
        /\ UNCHANGED <<schema, rows, creating, drawn, handed, starts, managerVars>>
    BY <1>8 DEF KillProcess
  <2>2. Down \in StartRecord /\ Down.phase = "down" BY DownTypes DEF Down
  <2>3. forgotten' \in BOOLEAN /\ (forgotten => forgotten') /\ (at.phase = "print" => forgotten')
    BY <2>1, Zenon
  <2> QED BY <2>1, <2>2, <2>3, <1>t, ProgressKeeps DEF Seeded
<1>9. CASE SeedInsert(p) /\ Taken(FirstEmail)
  <2>1. Progress(p, [at EXCEPT !.phase = "boot"]) /\ at.phase = "insert"
        /\ UNCHANGED <<schema, rows, creating, drawn, handed, starts, forgotten, managerVars>>
    BY <1>9 DEF SeedInsert
  <2>2. rows # {} BY <1>9 DEF Taken
  <2>3. SomeAdministrator \/ overreached BY <2>2 DEF AccountsInv, AdministratorOK
  <2> QED BY <2>1, <2>3, <1>5 DEF Seeded
<1> QED BY <1>2, <1>3, <1>6, <1>7, <1>8, <1>9

(* A row of an address that no row had keeps the addresses apart and every   *)
(* row that was there.                                                       *)
LEMMA RowsGrow ==
  ASSUME AccountsInv, NEW email \in Addresses, NEW password \in 1 .. MaxPasswords, NEW role \in UserRoles,
         ~Taken(email), rows' = rows \cup {Row(email, password, role)}
  PROVE  /\ rows' \subseteq UserRow
         /\ OneRowEach'
         /\ \E row \in rows' : row.email = email /\ row.password = password
         /\ \A e, w : HasRow(e, w) => \E row \in rows' : row.email = e /\ row.password = w
         /\ \A row \in rows' : row \in rows \/ (row.email = email /\ row.password = password)
         /\ SomeAdministrator => SomeAdministrator'
         /\ role = "SUPER_ADMIN" => SomeAdministrator'
<1> DEFINE new == Row(email, password, role)
<1>1. new \in UserRow /\ new.email = email /\ new.password = password
      /\ new.role = role /\ new.active = TRUE
  BY DEF Row, UserRow
<1>2. rows' = rows \cup {new} OBVIOUS
<1>3. rows \subseteq UserRow BY DEF AccountsInv, AccountsTypeOK, UserRow, Addresses, UserRoles
<1>4. \A row \in rows : row.email # email BY DEF Taken
<1> HIDE DEF new
<1>5. OneRowEach' BY <1>1, <1>2, <1>4 DEF AccountsInv, OneRowEach
<1> QED BY <1>1, <1>2, <1>3, <1>5 DEF HasRow, SomeAdministrator

(* Inserting the first administrator keeps the invariant: its password is    *)
(* still to be printed.                                                      *)
LEMMA SeedInsertStep ==
  ASSUME AccountsInv, NEW p \in Servers, SeedInsert(p), ~Taken(FirstEmail)
  PROVE  AccountsInv'
<1> DEFINE at == starting[p]
           r == [at EXCEPT !.phase = "print"]
<1>1. starting \in [Servers -> StartRecord] /\ at \in StartRecord
  BY DEF AccountsInv, AccountsTypeOK, StartRecord
<1>2. at.phase = "insert" /\ rows' = rows \cup {Row(FirstEmail, at.password, "SUPER_ADMIN")}
      /\ Progress(p, r) /\ UNCHANGED <<schema, creating, drawn, handed, starts, forgotten, managerVars>>
  BY DEF SeedInsert
<1>3. at.password \in 1 .. MaxPasswords
  BY <1>1, <1>2, AccountsAssumption DEF AccountsInv, DrawnOK, StartRecord
<1>4. r \in StartRecord /\ r.phase = "print" /\ r.password = at.password
  BY <1>1 DEF StartRecord, StartPhases
<1>5. starting' \in [Servers -> StartRecord] /\ starting'[p] = r
      /\ \A q \in Servers : q # p => starting'[q] = starting[q]
  BY <1>1, <1>2, <1>4 DEF Progress
<1>6. FirstEmail \in Addresses /\ "SUPER_ADMIN" \in UserRoles BY DEF Addresses, UserRoles
<1>7. /\ rows' \subseteq UserRow
      /\ OneRowEach'
      /\ \E row \in rows' : row.email = FirstEmail /\ row.password = at.password
      /\ \A e, w : HasRow(e, w) => \E row \in rows' : row.email = e /\ row.password = w
      /\ \A row \in rows' : row \in rows \/ (row.email = FirstEmail /\ row.password = at.password)
      /\ SomeAdministrator'
  BY <1>2, <1>3, <1>6, RowsGrow
<1> HIDE DEF r
<1>m. ManagerTypes' /\ ManagersOK' /\ overreached' = overreached BY <1>2, ManagersRest
<1>8. AccountsTypeOK'
  BY <1>2, <1>5, <1>7, <1>m DEF AccountsInv, AccountsTypeOK, ManagerTypes, UpdateRecord, StartRecord, UserRow, Addresses, UserRoles
<1>9. schema = Whole BY <1>2 DEF AccountsInv, SchemaOK
<1>10. SchemaOK'
  <2> SUFFICES ASSUME NEW q \in Servers
               PROVE  /\ starting'[q].phase \in {"look", "make"} =>
                           \A s \in 1 .. 3 : s < starting'[q].stage => Stages[s] \subseteq schema'
                      /\ starting'[q].phase = "make" => Stages[starting'[q].stage] \subseteq schema' \cup starting'[q].missing
                      /\ starting'[q].phase \in {"seed", "insert", "print"} \cup Seeded => schema' = Whole
    BY DEF SchemaOK, Stages
  <2>1. CASE q = p BY <2>1, <1>2, <1>4, <1>5, <1>9
  <2>2. CASE q # p BY <2>2, <1>2, <1>5 DEF AccountsInv, SchemaOK
  <2> QED BY <2>1, <2>2
<1>11. DrawnOK' BY <1>2, <1>3, <1>4, <1>5 DEF AccountsInv, DrawnOK
<1>12. ToldOK'
  <2>1. ASSUME NEW n \in handed' PROVE \E row \in rows' : row.email = n[1] /\ row.password = n[2]
    BY <1>2, <1>7 DEF AccountsInv, ToldOK
  <2>2. ASSUME NEW q \in Servers, starting'[q].phase = "print"
        PROVE  \E row \in rows' : row.email = FirstEmail /\ row.password = starting'[q].password
    <3>1. CASE q = p BY <3>1, <1>4, <1>5, <1>7
    <3>2. CASE q # p
      <4>1. HasRow(FirstEmail, starting[q].password) BY <3>2, <2>2, <1>5 DEF AccountsInv, ToldOK
      <4> QED BY <4>1, <3>2, <1>5, <1>7
    <3> QED BY <3>1, <3>2
  <2>3. ASSUME NEW c \in Creators, creating'[c].phase = "answer"
        PROVE  \E row \in rows' : row.email = creating'[c].email /\ row.password = creating'[c].password
    <3>1. HasRow(creating[c].email, creating[c].password) BY <2>3, <1>2 DEF AccountsInv, ToldOK
    <3> QED BY <3>1, <1>2, <1>7
  <2> QED BY <2>1, <2>2, <2>3 DEF ToldOK, HasRow
<1>13. AllTold'
  <2> SUFFICES ASSUME ~forgotten, NEW row \in rows' PROVE Telling(row.email, row.password)'
    BY <1>2 DEF AllTold
  <2>1. \A q \in Servers : starting[q].phase = "print" => starting'[q] = starting[q] BY <1>2, <1>5
  <2>2. CASE row \in rows
    <3>1. Telling(row.email, row.password) BY <2>2 DEF AccountsInv, AllTold
    <3> QED BY <3>1, <2>1, <1>2 DEF Telling
  <2>3. CASE row \notin rows
    <3>1. row.email = FirstEmail /\ row.password = at.password BY <2>3, <1>7
    <3> QED BY <3>1, <1>4, <1>5 DEF Telling
  <2> QED BY <2>2, <2>3
<1>14. AdministratorOK' BY <1>7, <1>m DEF AdministratorOK
<1> QED BY <1>7, <1>8, <1>10, <1>11, <1>12, <1>13, <1>14, <1>m DEF AccountsInv

(* Printing the first password keeps the invariant: the row it was drawn for *)
(* is there.                                                                 *)
LEMMA SeedPrintStep ==
  ASSUME AccountsInv, NEW p \in Servers, SeedPrint(p)
  PROVE  AccountsInv'
<1> DEFINE at == starting[p]
           r == [at EXCEPT !.phase = "boot"]
<1>1. starting \in [Servers -> StartRecord] /\ at \in StartRecord
  BY DEF AccountsInv, AccountsTypeOK, StartRecord
<1>2. at.phase = "print" /\ handed' = handed \cup {<<FirstEmail, at.password>>}
      /\ Progress(p, r) /\ UNCHANGED <<schema, rows, creating, drawn, starts, forgotten, managerVars>>
  BY DEF SeedPrint
<1>3. at.password \in 1 .. MaxPasswords
  BY <1>1, <1>2, AccountsAssumption DEF AccountsInv, DrawnOK, StartRecord
<1>4. r \in StartRecord /\ r.phase = "boot"
  BY <1>1 DEF StartRecord, StartPhases
<1>5. starting' \in [Servers -> StartRecord] /\ starting'[p] = r
      /\ \A q \in Servers : q # p => starting'[q] = starting[q]
  BY <1>1, <1>2, <1>4 DEF Progress
<1>6. HasRow(FirstEmail, at.password) BY <1>2 DEF AccountsInv, ToldOK
<1> HIDE DEF r
<1>7. handed' \subseteq Addresses \X (1 .. MaxPasswords)
  BY <1>2, <1>3 DEF AccountsInv, AccountsTypeOK, Addresses
<1>m. ManagerTypes' /\ ManagersOK' /\ overreached' = overreached BY <1>2, ManagersRest
<1>8. AccountsTypeOK'
  BY <1>2, <1>5, <1>7, <1>m DEF AccountsInv, AccountsTypeOK, ManagerTypes, UpdateRecord, StartRecord, Addresses
<1>9. schema = Whole BY <1>2 DEF AccountsInv, SchemaOK
<1>10. SchemaOK'
  <2> SUFFICES ASSUME NEW q \in Servers
               PROVE  /\ starting'[q].phase \in {"look", "make"} =>
                           \A s \in 1 .. 3 : s < starting'[q].stage => Stages[s] \subseteq schema'
                      /\ starting'[q].phase = "make" => Stages[starting'[q].stage] \subseteq schema' \cup starting'[q].missing
                      /\ starting'[q].phase \in {"seed", "insert", "print"} \cup Seeded => schema' = Whole
    BY DEF SchemaOK, Stages
  <2>1. CASE q = p BY <2>1, <1>2, <1>4, <1>5, <1>9
  <2>2. CASE q # p BY <2>2, <1>2, <1>5 DEF AccountsInv, SchemaOK
  <2> QED BY <2>1, <2>2
<1>11. DrawnOK' BY <1>2, <1>4, <1>5 DEF AccountsInv, DrawnOK
<1>12. OneRowEach' BY <1>2 DEF AccountsInv, OneRowEach
<1>13. ToldOK'
  <2>1. ASSUME NEW n \in handed' PROVE HasRow(n[1], n[2])
    <3>1. CASE n \in handed BY <3>1 DEF AccountsInv, ToldOK
    <3>2. CASE n = <<FirstEmail, at.password>> BY <3>2, <1>6
    <3> QED BY <3>1, <3>2, <1>2
  <2>2. ASSUME NEW q \in Servers, starting'[q].phase = "print" PROVE HasRow(FirstEmail, starting'[q].password)
    BY <2>2, <1>4, <1>5 DEF AccountsInv, ToldOK
  <2> QED BY <2>1, <2>2, <1>2 DEF AccountsInv, ToldOK, HasRow
<1>14. AllTold'
  <2> SUFFICES ASSUME ~forgotten, NEW row \in rows PROVE Telling(row.email, row.password)'
    BY <1>2 DEF AllTold
  <2>1. Telling(row.email, row.password) BY DEF AccountsInv, AllTold
  <2>2. CASE row.email = FirstEmail /\ row.password = at.password
    BY <2>2, <1>2 DEF Telling
  <2>3. CASE ~(row.email = FirstEmail /\ row.password = at.password)
    BY <2>1, <2>3, <1>2, <1>5 DEF Telling
  <2> QED BY <2>2, <2>3
<1>15. AdministratorOK'
  <2>1. HasRow(FirstEmail, at.password) => rows # {} BY DEF HasRow
  <2> QED BY <2>1, <1>2, <1>6, <1>m DEF AccountsInv, AdministratorOK, SomeAdministrator
<1> QED BY <1>8, <1>10, <1>11, <1>12, <1>13, <1>14, <1>15, <1>m DEF AccountsInv

(* Where neither the schema nor a process changes, what the processes rely   *)
(* on stays true.                                                            *)
LEMMA ProcessesRest ==
  ASSUME AccountsInv, UNCHANGED <<schema, starting, starts>>
  PROVE  SchemaOK'
BY DEF AccountsInv, SchemaOK, Stages

(* A step of one creator leaves the others as they are. *)
LEMMA CreatorRecords ==
  ASSUME AccountsInv, NEW c \in Creators, NEW r \in CreateRecord,
         creating' = [creating EXCEPT ![c] = r]
  PROVE  /\ creating' \in [Creators -> CreateRecord] /\ creating'[c] = r
         /\ \A d \in Creators : d # c => creating'[d] = creating[d]
BY DEF AccountsInv, AccountsTypeOK, CreateRecord, Addresses, UserRoles

(* Beginning to create an account draws a password and writes nothing. *)
LEMMA BeginCreateStep ==
  ASSUME AccountsInv, NEW c \in Creators, NEW email \in Emails, NEW role \in UserRoles,
         BeginCreate(c, email, role)
  PROVE  AccountsInv'
<1> DEFINE r == [phase |-> "insert", email |-> email, role |-> role, password |-> drawn + 1]
<1>1. creating[c].phase = "idle" /\ drawn < MaxPasswords /\ drawn' = drawn + 1
      /\ creating' = [creating EXCEPT ![c] = r] /\ (\E p \in Servers : starting[p].phase = "up")
      /\ UNCHANGED <<schema, rows, starting, handed, starts, forgotten, managerVars>>
  BY DEF BeginCreate, Served
<1>2. drawn \in 0 .. MaxPasswords BY DEF AccountsInv, AccountsTypeOK
<1>3. drawn + 1 \in 0 .. MaxPasswords /\ drawn + 1 > 0 BY <1>1, <1>2, AccountsAssumption
<1>4. r \in CreateRecord /\ r.phase = "insert" /\ r.password = drawn + 1
  BY <1>3 DEF CreateRecord, Addresses, UserRoles
<1> HIDE DEF r
<1>5. creating' \in [Creators -> CreateRecord] /\ creating'[c] = r
      /\ \A d \in Creators : d # c => creating'[d] = creating[d]
  BY <1>1, <1>4, CreatorRecords
<1>m. ManagerTypes' /\ ManagersOK' /\ overreached' = overreached BY <1>1, ManagersRest
<1>6. AccountsTypeOK'
  BY <1>1, <1>3, <1>5, <1>m DEF AccountsInv, AccountsTypeOK, ManagerTypes, UpdateRecord, CreateRecord, Addresses, UserRoles
<1>7. SchemaOK' BY <1>1, ProcessesRest
<1>8. DrawnOK' BY <1>1, <1>3, <1>4, <1>5 DEF AccountsInv, DrawnOK
<1>9. OneRowEach' BY <1>1 DEF AccountsInv, OneRowEach
<1>10. ToldOK' BY <1>1, <1>4, <1>5 DEF AccountsInv, ToldOK, HasRow
<1>11. AllTold'
  <2>1. \A d \in Creators : creating[d].phase = "answer" => creating'[d] = creating[d] BY <1>1, <1>5
  <2> QED BY <2>1, <1>1 DEF AccountsInv, AllTold, Telling
<1>12. AdministratorOK'
  <2>1. overreached \/ SomeAdministrator BY <1>1 DEF AccountsInv, AdministratorOK, Seeded
  <2> QED BY <2>1, <1>1, <1>m DEF AdministratorOK, SomeAdministrator
<1> QED BY <1>6, <1>7, <1>8, <1>9, <1>10, <1>11, <1>12, <1>m DEF AccountsInv

(* Committing an account whose address is free keeps the invariant: its      *)
(* password is still to be answered.                                         *)
LEMMA CommitAccountStep ==
  ASSUME AccountsInv, NEW c \in Creators, CommitAccount(c), ~Taken(creating[c].email)
  PROVE  AccountsInv'
<1> DEFINE at == creating[c]
           r == [at EXCEPT !.phase = "answer"]
<1>1. creating \in [Creators -> CreateRecord] /\ at \in CreateRecord
  BY DEF AccountsInv, AccountsTypeOK, CreateRecord, Addresses, UserRoles
<1>2. at.phase = "insert" /\ rows' = rows \cup {Row(at.email, at.password, at.role)}
      /\ creating' = [creating EXCEPT ![c] = r]
      /\ UNCHANGED <<schema, starting, drawn, handed, starts, forgotten, managerVars>>
  BY DEF CommitAccount
<1>3. at.password \in 1 .. MaxPasswords /\ at.email \in Addresses /\ at.role \in UserRoles
  BY <1>1, <1>2, AccountsAssumption DEF AccountsInv, DrawnOK, CreateRecord
<1>4. r \in CreateRecord /\ r.phase = "answer" /\ r.password = at.password /\ r.email = at.email
  BY <1>1 DEF CreateRecord
<1>5. ~Taken(at.email) OBVIOUS
<1>6. /\ rows' \subseteq UserRow
      /\ OneRowEach'
      /\ \E row \in rows' : row.email = at.email /\ row.password = at.password
      /\ \A e, w : HasRow(e, w) => \E row \in rows' : row.email = e /\ row.password = w
      /\ \A row \in rows' : row \in rows \/ (row.email = at.email /\ row.password = at.password)
      /\ SomeAdministrator => SomeAdministrator'
  BY <1>2, <1>3, <1>5, RowsGrow
<1> HIDE DEF r
<1>7. creating' \in [Creators -> CreateRecord] /\ creating'[c] = r
      /\ \A d \in Creators : d # c => creating'[d] = creating[d]
  BY <1>2, <1>4, CreatorRecords
<1>m. ManagerTypes' /\ ManagersOK' /\ overreached' = overreached BY <1>2, ManagersRest
<1>8. AccountsTypeOK'
  BY <1>2, <1>6, <1>7, <1>m DEF AccountsInv, AccountsTypeOK, ManagerTypes, UpdateRecord, CreateRecord, UserRow, Addresses, UserRoles
<1>9. SchemaOK' BY <1>2, ProcessesRest
<1>10. DrawnOK' BY <1>2, <1>3, <1>4, <1>7, AccountsAssumption DEF AccountsInv, DrawnOK
<1> HIDE DEF at
<1>11. ToldOK'
  <2>1. ASSUME NEW n \in handed' PROVE \E row \in rows' : row.email = n[1] /\ row.password = n[2]
    BY <1>2, <1>6 DEF AccountsInv, ToldOK
  <2>2. ASSUME NEW q \in Servers, starting'[q].phase = "print"
        PROVE  \E row \in rows' : row.email = FirstEmail /\ row.password = starting'[q].password
    <3>1. HasRow(FirstEmail, starting[q].password) BY <2>2, <1>2 DEF AccountsInv, ToldOK
    <3> QED BY <3>1, <1>2, <1>6
  <2>3. ASSUME NEW d \in Creators, creating'[d].phase = "answer"
        PROVE  \E row \in rows' : row.email = creating'[d].email /\ row.password = creating'[d].password
    <3>1. CASE d = c BY <3>1, <1>4, <1>6, <1>7
    <3>2. CASE d # c
      <4>1. HasRow(creating[d].email, creating[d].password) BY <3>2, <2>3, <1>7 DEF AccountsInv, ToldOK
      <4> QED BY <4>1, <3>2, <1>6, <1>7
    <3> QED BY <3>1, <3>2
  <2> QED BY <2>1, <2>2, <2>3 DEF ToldOK, HasRow
<1>12. AllTold'
  <2> SUFFICES ASSUME ~forgotten, NEW row \in rows' PROVE Telling(row.email, row.password)'
    BY <1>2 DEF AllTold
  <2>1. \A d \in Creators : creating[d].phase = "answer" => creating'[d] = creating[d] BY <1>2, <1>7 DEF at
  <2>2. CASE row \in rows
    <3>1. Telling(row.email, row.password) BY <2>2 DEF AccountsInv, AllTold
    <3> QED BY <3>1, <2>1, <1>2 DEF Telling
  <2>3. CASE row \notin rows
    <3>1. row.email = at.email /\ row.password = at.password BY <2>3, <1>6
    <3> QED BY <3>1, <1>4, <1>7 DEF Telling
  <2> QED BY <2>2, <2>3
<1>13. AdministratorOK'
  <2>1. overreached \/ SomeAdministrator BY <1>2 DEF AccountsInv, AdministratorOK, at
  <2> QED BY <2>1, <1>2, <1>6, <1>m DEF AdministratorOK
<1> QED BY <1>6, <1>8, <1>9, <1>10, <1>11, <1>12, <1>13, <1>m DEF AccountsInv

(* The end of a creator's call, by an answer or by a failure, keeps the      *)
(* invariant.                                                                *)
LEMMA CallEnds ==
  ASSUME AccountsInv, NEW c \in Creators, creating' = [creating EXCEPT ![c] = Rest],
         UNCHANGED <<schema, rows, starting, drawn, starts, managerVars>>,
         creating[c].phase # "idle", forgotten' \in BOOLEAN, forgotten => forgotten',
         handed' \in {handed, handed \cup {<<creating[c].email, creating[c].password>>}},
         handed' # handed => creating[c].phase = "answer",
         creating[c].phase = "answer" =>
           forgotten' \/ <<creating[c].email, creating[c].password>> \in handed'
  PROVE  AccountsInv'
<1> DEFINE at == creating[c]
<1>1. creating \in [Creators -> CreateRecord] /\ at \in CreateRecord
  BY DEF AccountsInv, AccountsTypeOK, CreateRecord, Addresses, UserRoles
<1>2. Rest \in CreateRecord /\ Rest.phase = "idle" BY DownTypes DEF Rest
<1>3. creating' \in [Creators -> CreateRecord] /\ creating'[c] = Rest
      /\ \A d \in Creators : d # c => creating'[d] = creating[d]
  BY <1>2, CreatorRecords
<1>4. at.password \in 1 .. MaxPasswords /\ at.email \in Addresses
  BY <1>1, AccountsAssumption DEF AccountsInv, DrawnOK, CreateRecord
<1>5. handed' \subseteq Addresses \X (1 .. MaxPasswords)
  BY <1>4 DEF AccountsInv, AccountsTypeOK, Addresses
<1>m. ManagerTypes' /\ ManagersOK' /\ overreached' = overreached BY ManagersRest
<1>6. AccountsTypeOK'
  BY <1>3, <1>5, <1>m DEF AccountsInv, AccountsTypeOK, ManagerTypes, UpdateRecord, CreateRecord, Addresses, UserRoles
<1>7. SchemaOK' BY ProcessesRest
<1>8. DrawnOK' BY <1>2, <1>3 DEF AccountsInv, DrawnOK
<1>9. OneRowEach' BY DEF AccountsInv, OneRowEach
<1>10. ToldOK'
  <2>1. ASSUME NEW n \in handed' PROVE HasRow(n[1], n[2])
    <3>1. CASE n \in handed BY <3>1 DEF AccountsInv, ToldOK
    <3>2. CASE n \notin handed
      <4>1. n = <<at.email, at.password>> /\ at.phase = "answer" BY <3>2, <2>1
      <4>2. HasRow(at.email, at.password) BY <4>1 DEF AccountsInv, ToldOK
      <4> QED BY <4>1, <4>2
    <3> QED BY <3>1, <3>2
  <2>2. ASSUME NEW d \in Creators, creating'[d].phase = "answer" PROVE HasRow(creating'[d].email, creating'[d].password)
    BY <2>2, <1>2, <1>3 DEF AccountsInv, ToldOK
  <2> QED BY <2>1, <2>2 DEF AccountsInv, ToldOK, HasRow
<1>11. AllTold'
  <2> SUFFICES ASSUME ~forgotten', NEW row \in rows PROVE Telling(row.email, row.password)'
    BY DEF AllTold
  <2>1. Telling(row.email, row.password) BY DEF AccountsInv, AllTold
  <2>2. handed \subseteq handed' OBVIOUS
  <2>3. CASE at.phase = "answer" /\ at.email = row.email /\ at.password = row.password
    BY <2>3 DEF Telling
  <2>4. CASE ~(at.phase = "answer" /\ at.email = row.email /\ at.password = row.password)
    BY <2>1, <2>2, <2>4, <1>3 DEF Telling
  <2> QED BY <2>3, <2>4
<1>12. AdministratorOK' BY <1>2, <1>3, <1>m DEF AccountsInv, AdministratorOK, SomeAdministrator
<1> QED BY <1>6, <1>7, <1>8, <1>9, <1>10, <1>11, <1>12, <1>m DEF AccountsInv

(* A step of a call of update_user, or a login, that writes no row keeps the *)
(* invariant.                                                                *)
LEMMA CallerMoves ==
  ASSUME AccountsInv, UNCHANGED <<schema, rows, starting, creating, drawn, handed, starts, forgotten, overreached>>,
         badges' \subseteq Addresses, managing' \in [Managers -> UpdateRecord],
         updates' \in 0 .. MaxAccountEvents, ManagersOK'
  PROVE  AccountsInv'
<1>1. AccountsTypeOK' BY DEF AccountsInv, AccountsTypeOK, UpdateRecord
<1>2. SchemaOK' BY ProcessesRest
<1> QED BY <1>1, <1>2 DEF AccountsInv, DrawnOK, OneRowEach, ToldOK, HasRow, AllTold, Telling,
                          AdministratorOK, SomeAdministrator

(* A step of one manager leaves the others as they are. *)
LEMMA ManagerRecords ==
  ASSUME AccountsInv, NEW u \in Managers, NEW r \in UpdateRecord, Update(u, r)
  PROVE  /\ managing' \in [Managers -> UpdateRecord] /\ managing'[u] = r
         /\ \A v \in Managers : v # u => managing'[v] = managing[v]
         /\ (r.phase = "commit" /\ r.write.active = "off" => r.email # r.by) => ManagersOK'
<1>1. managing \in [Managers -> UpdateRecord] BY DEF AccountsInv, AccountsTypeOK, UpdateRecord
<1>2. /\ managing' \in [Managers -> UpdateRecord] /\ managing'[u] = r
      /\ \A v \in Managers : v # u => managing'[v] = managing[v]
  BY <1>1 DEF Update
<1>3. ASSUME r.phase = "commit" /\ r.write.active = "off" => r.email # r.by PROVE ManagersOK'
  BY <1>2, <1>3 DEF AccountsInv, ManagersOK
<1> QED BY <1>2, <1>3

(* A login, an admission, the reading of the row, and the end of a call by a *)
(* kill keep the invariant: no call that was let on disables its caller.     *)
LEMMA ManagerSteps ==
  ASSUME AccountsInv,
         \/ \E email \in Addresses : LogIn(email)
         \/ \E u \in Managers :
              \/ \E by \in Addresses : BeginUpdate(u, by)
              \/ \E row \in rows, change \in UserChanges : ReadUser(u, row, change)
              \/ DropUpdate(u)
  PROVE  AccountsInv'
<1>1. badges \subseteq Addresses /\ managing \in [Managers -> UpdateRecord]
      /\ updates \in 0 .. MaxAccountEvents /\ rows \subseteq UserRow
      /\ drawn \in Nat /\ starts \in Nat
  BY DEF AccountsInv, AccountsTypeOK, UpdateRecord, UserRow
<1>2. ASSUME NEW email \in Addresses, LogIn(email) PROVE AccountsInv'
  <2>1. badges' \subseteq Addresses
        /\ UNCHANGED <<schema, rows, starting, creating, drawn, handed, starts, forgotten, managing,
                       updates, overreached>>
    BY <1>1, <1>2 DEF LogIn
  <2>2. ManagersOK' BY <2>1 DEF AccountsInv, ManagersOK
  <2> QED BY <2>1, <2>2, <1>1, CallerMoves
<1>3. ASSUME NEW u \in Managers, NEW by \in Addresses, BeginUpdate(u, by) PROVE AccountsInv'
  <2> DEFINE r == [NoUpdate EXCEPT !.phase = "find", !.by = by]
  <2>1. r \in UpdateRecord /\ r.phase = "find" BY DownTypes DEF NoUpdate, UpdateRecord
  <2>2. Update(u, r) /\ updates' = updates + 1 /\ Room
        /\ UNCHANGED <<schema, rows, starting, creating, drawn, handed, starts, forgotten, badges,
                       overreached>>
    BY <1>3 DEF BeginUpdate
  <2>3. updates' \in 0 .. MaxAccountEvents BY <1>1, <2>2, AccountsAssumption DEF Room
  <2> HIDE DEF r
  <2>4. managing' \in [Managers -> UpdateRecord] /\ ManagersOK' BY <2>1, <2>2, ManagerRecords
  <2> QED BY <2>2, <2>3, <2>4, <1>1, CallerMoves
<1>4. ASSUME NEW u \in Managers, NEW row \in rows, NEW change \in UserChanges, ReadUser(u, row, change)
      PROVE  AccountsInv'
  <2> DEFINE r == [managing[u] EXCEPT !.phase = "commit", !.email = row.email,
                                      !.write = Differing(change, row)]
  <2>1. Differing(change, row) \in UserChanges
        /\ (Differing(change, row).active = "off" => change.active = "off")
    BY DEF Differing, UserChanges
  <2>2. managing[u] \in UpdateRecord /\ row.email \in Addresses BY <1>1 DEF UserRow
  <2>3. r \in UpdateRecord /\ r.email = row.email /\ r.by = managing[u].by /\ r.write = Differing(change, row)
    BY <2>1, <2>2 DEF UpdateRecord
  <2>4. Update(u, r) /\ ~(row.email = managing[u].by /\ change.active = "off")
        /\ UNCHANGED <<schema, rows, starting, creating, drawn, handed, starts, forgotten, badges,
                       updates, overreached>>
    BY <1>4 DEF ReadUser
  <2>5. r.write.active = "off" => r.email # r.by BY <2>1, <2>3, <2>4
  <2> HIDE DEF r
  <2>6. managing' \in [Managers -> UpdateRecord] /\ ManagersOK' BY <2>3, <2>4, <2>5, ManagerRecords
  <2> QED BY <2>4, <2>6, <1>1, CallerMoves
<1>5. ASSUME NEW u \in Managers, DropUpdate(u) PROVE AccountsInv'
  <2>1. Update(u, NoUpdate)
        /\ UNCHANGED <<schema, rows, starting, creating, drawn, handed, starts, forgotten, badges,
                       updates, overreached>>
    BY <1>5 DEF DropUpdate
  <2>2. NoUpdate \in UpdateRecord /\ NoUpdate.phase = "idle" BY DownTypes DEF NoUpdate
  <2>3. managing' \in [Managers -> UpdateRecord] /\ ManagersOK' BY <2>1, <2>2, ManagerRecords
  <2> QED BY <2>1, <2>3, <1>1, CallerMoves
<1> QED BY <1>2, <1>3, <1>4, <1>5

(* The commit of update_user keeps passwords and addresses.  An              *)
(* administrator is left: a caller who still administers takes nothing of    *)
(* what makes him one from himself, unless he overreaches.                   *)
LEMMA CommitUpdateStep ==
  ASSUME AccountsInv, NEW u \in Managers, CommitUpdate(u)
  PROVE  AccountsInv'
<1> DEFINE call == managing[u]
           now(row) == IF row.email = call.email THEN Updated(row, call.write) ELSE row
<1>1. call.phase = "commit" /\ rows' = {now(row) : row \in rows}
      /\ overreached' = (overreached \/ Overreaches(call)) /\ Update(u, NoUpdate)
      /\ UNCHANGED <<schema, starting, creating, drawn, handed, starts, forgotten, badges, updates>>
  BY DEF CommitUpdate
<1>2. call \in UpdateRecord /\ rows \subseteq UserRow
  BY DEF AccountsInv, AccountsTypeOK, UpdateRecord, UserRow
<1>3. ASSUME NEW row \in rows
      PROVE  /\ now(row) \in UserRow /\ now(row).email = row.email /\ now(row).password = row.password
             /\ row.email # call.email \/ call.write.role \in {"keep", "SUPER_ADMIN"} =>
                  (row.role = "SUPER_ADMIN" => now(row).role = "SUPER_ADMIN")
             /\ row.email # call.email \/ call.write.active \in {"keep", "on"} =>
                  (row.active => now(row).active)
  <2>1. row \in UserRow /\ call.write \in UserChanges BY <1>2, <1>3 DEF UpdateRecord
  <2> DEFINE role == IF call.write.role = "keep" THEN row.role ELSE call.write.role
             active == IF call.write.active = "keep" THEN row.active ELSE call.write.active = "on"
  <2>2. role \in UserRoles BY <2>1 DEF UserRow, UserChanges
  <2>3. active \in BOOLEAN BY <2>1 DEF UserRow
  <2>4. Updated(row, call.write) = [email |-> row.email, password |-> row.password,
                                    role |-> role, active |-> active]
    <3>1. Updated(row, call.write) = [row EXCEPT !.role = role, !.active = active]
      BY DEF Updated
    <3> HIDE DEF role, active
    <3> QED BY <2>1, <3>1 DEF UserRow
  <2>5. call.write.role \in {"keep", "SUPER_ADMIN"} => (row.role = "SUPER_ADMIN" => role = "SUPER_ADMIN")
    OBVIOUS
  <2>6. call.write.active \in {"keep", "on"} => (row.active => active)
    BY Zenon
  <2> HIDE DEF role, active
  <2>7. CASE row.email = call.email
    <3>1. now(row) = [email |-> row.email, password |-> row.password, role |-> role, active |-> active]
      BY <2>4, <2>7
    <3>2. now(row) \in UserRow BY <3>1, <2>1, <2>2, <2>3 DEF UserRow
    <3> QED BY <3>1, <3>2, <2>5, <2>6, <2>7
  <2>8. CASE row.email # call.email
    <3>1. now(row) = row BY <2>8
    <3> QED BY <3>1, <2>1
  <2> QED BY <2>7, <2>8
<1> HIDE DEF now
<1>4. rows' \subseteq UserRow BY <1>1, <1>3
<1>5. NoUpdate \in UpdateRecord /\ NoUpdate.phase = "idle" BY DownTypes DEF NoUpdate
<1>6. managing' \in [Managers -> UpdateRecord] /\ ManagersOK' BY <1>1, <1>5, ManagerRecords
<1>7. overreached' \in BOOLEAN BY <1>1, Zenon
<1>8. AccountsTypeOK'
  BY <1>1, <1>4, <1>6, <1>7 DEF AccountsInv, AccountsTypeOK, UserRow, UpdateRecord
<1>9. SchemaOK' BY <1>1, ProcessesRest
<1>10. DrawnOK' BY <1>1 DEF AccountsInv, DrawnOK
<1>11. OneRowEach' BY <1>1, <1>3 DEF AccountsInv, OneRowEach
<1>12. \A e, w : HasRow(e, w) => \E one \in rows' : one.email = e /\ one.password = w
  BY <1>1, <1>3 DEF HasRow
<1>13. ToldOK'
  <2>1. \A n \in handed' : \E one \in rows' : one.email = n[1] /\ one.password = n[2]
    BY <1>12, <1>1 DEF AccountsInv, ToldOK
  <2>2. \A q \in Servers : starting'[q].phase = "print" =>
          \E one \in rows' : one.email = FirstEmail /\ one.password = starting'[q].password
    BY <1>12, <1>1 DEF AccountsInv, ToldOK
  <2>3. \A d \in Creators : creating'[d].phase = "answer" =>
          \E one \in rows' : one.email = creating'[d].email /\ one.password = creating'[d].password
    BY <1>12, <1>1 DEF AccountsInv, ToldOK
  <2> QED BY <2>1, <2>2, <2>3 DEF ToldOK, HasRow
<1>14. AllTold'
  <2> SUFFICES ASSUME ~forgotten, NEW one \in rows' PROVE Telling(one.email, one.password)'
    BY <1>1 DEF AllTold
  <2>1. PICK other \in rows : other.email = one.email /\ other.password = one.password
    BY <1>1, <1>3
  <2>2. Telling(other.email, other.password) BY DEF AccountsInv, AllTold
  <2> QED BY <2>1, <2>2, <1>1 DEF Telling
<1>15. AdministratorOK'
  <2>1. CASE overreached \/ Overreaches(call)
    BY <2>1, <1>1 DEF AdministratorOK
  <2>2. CASE rows = {} /\ ~overreached
    <3>1. rows' = {} BY <2>2, <1>1
    <3>2. ~SomeAdministrator BY <2>2 DEF SomeAdministrator
    <3> QED BY <3>1, <3>2, <2>2, <1>1 DEF AccountsInv, AdministratorOK
  <2>3. CASE rows # {} /\ ~overreached /\ ~Overreaches(call)
    <3>1. PICK row \in rows : row.role = "SUPER_ADMIN" /\ row.active
      BY <2>3 DEF AccountsInv, AdministratorOK, SomeAdministrator
    <3>2. call.write.role \in {"keep", "SUPER_ADMIN", "STAFF"} /\ call.write.active \in {"keep", "on", "off"}
      BY <1>2 DEF UpdateRecord, UserChanges, UserRoles
    <3>3. CASE call.write.role = "STAFF" \/ call.write.active = "off"
      <4>1. Administers(call.by) BY <2>3, <3>3 DEF Overreaches
      <4>2. PICK mine \in rows : mine.email = call.by /\ mine.role = "SUPER_ADMIN" /\ mine.active
        BY <4>1 DEF Administers
      <4>3. call.write.active = "off" => call.email # call.by BY <1>1 DEF AccountsInv, ManagersOK
      <4>4. call.write.role = "STAFF" => call.email # call.by BY <2>3 DEF Overreaches
      <4>5. mine.email # call.email BY <3>3, <4>2, <4>3, <4>4
      <4>6. now(mine).role = "SUPER_ADMIN" /\ now(mine).active BY <4>2, <4>5, <1>3
      <4>7. now(mine) \in rows' BY <1>1
      <4>8. SomeAdministrator' BY <4>6, <4>7 DEF SomeAdministrator
      <4> QED BY <4>8 DEF AdministratorOK
    <3>4. CASE ~(call.write.role = "STAFF" \/ call.write.active = "off")
      <4>1. call.write.role \in {"keep", "SUPER_ADMIN"} /\ call.write.active \in {"keep", "on"}
        BY <3>2, <3>4
      <4>2. now(row).role = "SUPER_ADMIN" /\ now(row).active BY <3>1, <4>1, <1>3
      <4>3. now(row) \in rows' BY <1>1
      <4>4. SomeAdministrator' BY <4>2, <4>3 DEF SomeAdministrator
      <4> QED BY <4>4 DEF AdministratorOK
    <3> QED BY <3>3, <3>4
  <2> QED BY <2>1, <2>2, <2>3
<1> QED BY <1>6, <1>8, <1>9, <1>10, <1>11, <1>13, <1>14, <1>15 DEF AccountsInv

(* Every step of the accounts keeps the invariant. *)
LEMMA AccountsStep == AccountsInv /\ [AccountsNext]_accountVars => AccountsInv'
<1> SUFFICES ASSUME AccountsInv, [AccountsNext]_accountVars PROVE AccountsInv' OBVIOUS
<1>1. ASSUME NEW p \in Servers,
             \/ StartProcess(p) \/ LookAtSchema(p) \/ MakePiece(p) \/ SeedLook(p) \/ SeedInsert(p)
             \/ SeedPrint(p) \/ Boot(p) \/ KillProcess(p)
      PROVE  AccountsInv'
  BY <1>1, StartSteps, MakeStep, SeedInsertStep, SeedPrintStep
<1>2. ASSUME NEW c \in Creators, CommitAccount(c), Taken(creating[c].email) PROVE AccountsInv'
  <2>1. creating' = [creating EXCEPT ![c] = Rest] /\ creating[c].phase = "insert"
        /\ UNCHANGED <<schema, rows, starting, drawn, handed, starts, forgotten, managerVars>>
    BY <1>2 DEF CommitAccount
  <2>2. forgotten' \in BOOLEAN BY <2>1 DEF AccountsInv, AccountsTypeOK
  <2> QED BY <2>1, <2>2, CallEnds
<1>3. ASSUME NEW c \in Creators, AnswerAccount(c) PROVE AccountsInv'
  <2>1. creating' = [creating EXCEPT ![c] = Rest] /\ creating[c].phase = "answer"
        /\ handed' = handed \cup {<<creating[c].email, creating[c].password>>}
        /\ UNCHANGED <<schema, rows, starting, drawn, starts, forgotten, managerVars>>
    BY <1>3 DEF AnswerAccount
  <2>2. forgotten' \in BOOLEAN BY <2>1 DEF AccountsInv, AccountsTypeOK
  <2>3. <<creating[c].email, creating[c].password>> \in handed' BY <2>1
  <2> QED BY <2>1, <2>2, <2>3, CallEnds
<1>4. ASSUME NEW c \in Creators, DropCall(c) PROVE AccountsInv'
  <2>1. creating' = [creating EXCEPT ![c] = Rest] /\ creating[c].phase # "idle"
        /\ UNCHANGED <<schema, rows, starting, drawn, handed, starts, managerVars>>
    BY <1>4 DEF DropCall
  <2>2. forgotten' \in BOOLEAN /\ (forgotten => forgotten') /\ (creating[c].phase = "answer" => forgotten')
    BY <1>4, Zenon DEF DropCall
  <2> QED BY <2>1, <2>2, CallEnds
<1>5. ASSUME UNCHANGED accountVars PROVE AccountsInv'
  <2>1. UNCHANGED <<schema, rows, starting, creating, drawn, handed, starts, forgotten, managerVars>>
    BY <1>5 DEF accountVars
  <2>2. UNCHANGED <<badges, managing, updates, overreached>> BY <2>1 DEF managerVars
  <2>3. badges \subseteq Addresses /\ managing \in [Managers -> UpdateRecord]
        /\ updates \in 0 .. MaxAccountEvents
    BY DEF AccountsInv, AccountsTypeOK, UpdateRecord
  <2>4. ManagersOK' BY <2>2 DEF AccountsInv, ManagersOK
  <2> QED BY <2>1, <2>2, <2>3, <2>4, CallerMoves
<1> QED BY <1>1, <1>2, <1>3, <1>4, <1>5, BeginCreateStep, CommitAccountStep, ManagerSteps,
           CommitUpdateStep DEF AccountsNext

(* The invariant implies what is promised: passwords handed out open their   *)
(* accounts, and someone can administer.                                     *)
LEMMA AccountsMeans == AccountsInv => PasswordsTold /\ AdministratorTold
<1> SUFFICES ASSUME AccountsInv PROVE PasswordsTold /\ AdministratorTold OBVIOUS
<1>1. PasswordsTold
  <2> SUFFICES ASSUME NEW n \in handed
               PROVE  /\ \E row \in rows : <<row.email, row.password>> = n
                      /\ \A one, other \in rows : one.email = n[1] /\ other.email = n[1] => one = other
    BY DEF PasswordsTold
  <2>1. n = <<n[1], n[2]>> BY DEF AccountsInv, AccountsTypeOK
  <2>2. HasRow(n[1], n[2]) BY DEF AccountsInv, ToldOK
  <2> QED BY <2>1, <2>2 DEF AccountsInv, OneRowEach, HasRow
<1>2. AdministratorTold
  <2> SUFFICES ASSUME NEW p \in Servers, starting[p].phase = "up", ~forgotten, ~overreached
               PROVE  /\ schema = Whole
                      /\ \E row \in rows : row.role = "SUPER_ADMIN" /\ row.active /\
                            \/ <<row.email, row.password>> \in handed
                            \/ \E q \in Servers : starting[q].phase = "print" /\ starting[q].password = row.password
                            \/ \E c \in Creators : creating[c].phase = "answer" /\ creating[c].password = row.password
    <3>1. \A p \in Servers : starting[p].phase = "up" => schema = Whole BY DEF AccountsInv, SchemaOK, Seeded
    <3> QED BY <3>1 DEF AdministratorTold
  <2>1. schema = Whole BY DEF AccountsInv, SchemaOK, Seeded
  <2>2. PICK row \in rows : row.role = "SUPER_ADMIN" /\ row.active
    BY DEF AccountsInv, AdministratorOK, SomeAdministrator, Seeded
  <2>3. Telling(row.email, row.password) BY DEF AccountsInv, AllTold
  <2> QED BY <2>1, <2>2, <2>3 DEF Telling
<1> QED BY <1>1, <1>2

(* A password that was printed at the first start or returned by POST        *)
(* /api/v2/admin/users opens its account, for any number of processes that   *)
(* start at once, each seeding for itself, and any number of creators.       *)
THEOREM PasswordsOpen == AccountsSpec => []PasswordsTold
BY AccountsInitOK, AccountsStep, AccountsMeans, PTL DEF AccountsSpec

(* A process that is up has the whole schema, and there is an active         *)
(* administrator whose password was told or is about to be, whichever        *)
(* process seeds first and whoever disables or demotes whom by PATCH         *)
(* /api/v2/admin/users, unless a kill kept a password back, an administrator *)
(* gave up his own role, or a call took a role or an access away after its   *)
(* caller had lost his.                                                      *)
THEOREM SomeoneAdministers == AccountsSpec => []AdministratorTold
BY AccountsInitOK, AccountsStep, AccountsMeans, PTL DEF AccountsSpec

-----------------------------------------------------------------------------
(* The evidence routes. *)

(* Whether a call has its file open before a step of its list, has written   *)
(* it, or neither; a sealed backup has two files, one after the other.       *)
HandBefore(errand, step) ==
  LET opens ==
        CASE errand \in {"backup", "sealed", "version", "bundle", "branding", "schedule"} -> 1
          [] errand \in {"csv", "anchor"} -> 2
          [] errand \in {"report", "localRep", "demo", "pdf"} -> 3
          [] OTHER -> 9
      fills == IF errand \in {"backup", "sealed"} THEN 3 ELSE opens + 1
  IN CASE errand = "sealed" /\ step = 6 -> "none"
       [] errand = "sealed" /\ step = 7 -> "open"
       [] step <= opens -> "none"
       [] step > opens /\ step <= fills -> "open"
       [] OTHER -> "closed"

(* A step of a list: what is written was opened and what is digested was     *)
(* written; the last step, and no other, ends the call, with nothing half    *)
(* written; a file is found before it is looked at.                          *)
StepFits(errand, i, steps, file) ==
  LET before == HandBefore(errand, i)  after == HandBefore(errand, i + 1) IN
  /\ steps[i] = "open" => before = "none" /\ after = "open" /\ i < Len(steps) /\ file # "orders"
  /\ steps[i] = "write" => before = "open" /\ after = "closed" /\ i < Len(steps)
  /\ steps[i] = "seal" => errand = "sealed" /\ before = "closed" /\ after = "none" /\ i < Len(steps)
  /\ steps[i] \notin {"open", "write", "seal"} => i = Len(steps) \/ after = before
  /\ steps[i] = "digest" => before = "closed" /\ i < Len(steps)
  /\ steps[i] \in {"log", "note", "answer"} <=> i = Len(steps)
  /\ steps[i] \in {"log", "note", "answer"} => before # "open"
  /\ steps[i] = "append" => i = 1
  /\ steps[i] \in {"pick", "find"} => i = 1 /\ Len(steps) = 3
  /\ steps[i] = "pick" => file = "zip"
  /\ steps[i] = "post" => before = "none"
  /\ steps[i] \in {"test", "look"} <=> i = 2 /\ steps[1] \in {"pick", "find"}
  /\ before # "none" => file # "orders" /\ (file = "schedule" => errand = "schedule")

(* All steps of an errand's list. *)
StepsFit(errand) ==
  LET steps == Errands[errand].steps  file == Errands[errand].file IN
  /\ Len(steps) \in 1 .. 9 /\ HandBefore(errand, 1) = "none" /\ file # "enc"
  /\ \A i \in 1 .. Len(steps) : StepFits(errand, i, steps, file)

(* Every list of the routes is of this form. *)
LEMMA StepsAreFit == \A errand \in ErrandKinds : StepsFit(errand)
<1>1. ASSUME NEW errand \in {"backup"} PROVE StepsFit(errand)
  <2> DEFINE steps == <<"open", "read", "write", "digest", "log">>  file == Errands[errand].file
  <2>1. Errands[errand].steps = steps /\ file \in {"zip"}
    BY DEF Errands, Errand, BackupSteps
  <2> HIDE DEF file
  <2>2. Len(steps) = 5 OBVIOUS
  <2>3. ASSUME NEW i \in 1 .. 5 PROVE StepFits(errand, i, steps, file)
    BY <2>1, <2>2 DEF StepFits, HandBefore
  <2> QED BY <2>1, <2>2, <2>3 DEF StepsFit, HandBefore, file
<1>2. ASSUME NEW errand \in {"sealed"} PROVE StepsFit(errand)
  <2> DEFINE steps == <<"open", "read", "write", "digest", "seal", "open", "write", "digest", "log">>  file == Errands[errand].file
  <2>1. Errands[errand].steps = steps /\ file \in {"zip"}
    BY DEF Errands, Errand, SealedBackupSteps
  <2> HIDE DEF file
  <2>2. Len(steps) = 9 OBVIOUS
  <2>3. ASSUME NEW i \in 1 .. 9 PROVE StepFits(errand, i, steps, file)
    BY <2>1, <2>2 DEF StepFits, HandBefore
  <2> QED BY <2>1, <2>2, <2>3 DEF StepsFit, HandBefore, file
<1>3. ASSUME NEW errand \in {"report", "localRep", "demo"} PROVE StepsFit(errand)
  <2> DEFINE steps == <<"read", "totals", "open", "write", "log">>  file == Errands[errand].file
  <2>1. Errands[errand].steps = steps /\ file \in {"report"}
    BY DEF Errands, Errand, ReportSteps, LocalReportSteps, DemoSteps
  <2> HIDE DEF file
  <2>2. Len(steps) = 5 OBVIOUS
  <2>3. ASSUME NEW i \in 1 .. 5 PROVE StepFits(errand, i, steps, file)
    BY <2>1, <2>2 DEF StepFits, HandBefore
  <2> QED BY <2>1, <2>2, <2>3 DEF StepsFit, HandBefore, file
<1>4. ASSUME NEW errand \in {"csv", "anchor"} PROVE StepsFit(errand)
  <2> DEFINE steps == <<"read", "open", "write", "note">>  file == Errands[errand].file
  <2>1. Errands[errand].steps = steps /\ file \in {"csv", "anchor"}
    BY DEF Errands, Errand, CsvSteps, AnchorSteps
  <2> HIDE DEF file
  <2>2. Len(steps) = 4 OBVIOUS
  <2>3. ASSUME NEW i \in 1 .. 4 PROVE StepFits(errand, i, steps, file)
    BY <2>1, <2>2 DEF StepFits, HandBefore
  <2> QED BY <2>1, <2>2, <2>3 DEF StepsFit, HandBefore, file
<1>5. ASSUME NEW errand \in {"pdf"} PROVE StepsFit(errand)
  <2> DEFINE steps == <<"read", "totals", "open", "write", "note">>  file == Errands[errand].file
  <2>1. Errands[errand].steps = steps /\ file \in {"pdf"}
    BY DEF Errands, Errand, PdfSteps
  <2> HIDE DEF file
  <2>2. Len(steps) = 5 OBVIOUS
  <2>3. ASSUME NEW i \in 1 .. 5 PROVE StepFits(errand, i, steps, file)
    BY <2>1, <2>2 DEF StepFits, HandBefore
  <2> QED BY <2>1, <2>2, <2>3 DEF StepsFit, HandBefore, file
<1>6. ASSUME NEW errand \in {"version", "bundle", "branding"} PROVE StepsFit(errand)
  <2> DEFINE steps == <<"open", "write", "note">>  file == Errands[errand].file
  <2>1. Errands[errand].steps = steps /\ file \in {"version", "bundle", "branding"}
    BY DEF Errands, Errand, VersionSteps, BundleSteps, BrandingSteps
  <2> HIDE DEF file
  <2>2. Len(steps) = 3 OBVIOUS
  <2>3. ASSUME NEW i \in 1 .. 3 PROVE StepFits(errand, i, steps, file)
    BY <2>1, <2>2 DEF StepFits, HandBefore
  <2> QED BY <2>1, <2>2, <2>3 DEF StepsFit, HandBefore, file
<1>7. ASSUME NEW errand \in {"schedule"} PROVE StepsFit(errand)
  <2> DEFINE steps == <<"open", "write", "log">>  file == Errands[errand].file
  <2>1. Errands[errand].steps = steps /\ file \in {"schedule"}
    BY DEF Errands, Errand, ScheduleSteps
  <2> HIDE DEF file
  <2>2. Len(steps) = 3 OBVIOUS
  <2>3. ASSUME NEW i \in 1 .. 3 PROVE StepFits(errand, i, steps, file)
    BY <2>1, <2>2 DEF StepFits, HandBefore
  <2> QED BY <2>1, <2>2, <2>3 DEF StepsFit, HandBefore, file
<1>8. ASSUME NEW errand \in {"drill"} PROVE StepsFit(errand)
  <2> DEFINE steps == <<"pick", "test", "log">>  file == Errands[errand].file
  <2>1. Errands[errand].steps = steps /\ file \in {"zip"}
    BY DEF Errands, Errand, DrillSteps
  <2> HIDE DEF file
  <2>2. Len(steps) = 3 OBVIOUS
  <2>3. ASSUME NEW i \in 1 .. 3 PROVE StepFits(errand, i, steps, file)
    BY <2>1, <2>2 DEF StepFits, HandBefore
  <2> QED BY <2>1, <2>2, <2>3 DEF StepsFit, HandBefore, file
<1>9. ASSUME NEW errand \in {"scheduled", "tenant", "versions"} PROVE StepsFit(errand)
  <2> DEFINE steps == <<"find", "look", "answer">>  file == Errands[errand].file
  <2>1. Errands[errand].steps = steps /\ file \in {"schedule", "version"}
    BY DEF Errands, Errand, GetScheduleSteps, TenantExportSteps, VersionListSteps
  <2> HIDE DEF file
  <2>2. Len(steps) = 3 OBVIOUS
  <2>3. ASSUME NEW i \in 1 .. 3 PROVE StepFits(errand, i, steps, file)
    BY <2>1, <2>2 DEF StepFits, HandBefore
  <2> QED BY <2>1, <2>2, <2>3 DEF StepsFit, HandBefore, file
<1>10. ASSUME NEW errand \in {"order", "glass"} PROVE StepsFit(errand)
  <2> DEFINE steps == <<"append", "log">>  file == Errands[errand].file
  <2>1. Errands[errand].steps = steps /\ file \in {"orders"}
    BY DEF Errands, Errand, OrderSteps, BreakGlassSteps
  <2> HIDE DEF file
  <2>2. Len(steps) = 2 OBVIOUS
  <2>3. ASSUME NEW i \in 1 .. 2 PROVE StepFits(errand, i, steps, file)
    BY <2>1, <2>2 DEF StepFits, HandBefore
  <2> QED BY <2>1, <2>2, <2>3 DEF StepsFit, HandBefore, file
<1>11. ASSUME NEW errand \in {"alert", "pull"} PROVE StepsFit(errand)
  <2> DEFINE steps == <<"post", "log">>  file == Errands[errand].file
  <2>1. Errands[errand].steps = steps /\ file \in {"orders"}
    BY DEF Errands, Errand, AlertSteps, PullSteps
  <2> HIDE DEF file
  <2>2. Len(steps) = 2 OBVIOUS
  <2>3. ASSUME NEW i \in 1 .. 2 PROVE StepFits(errand, i, steps, file)
    BY <2>1, <2>2 DEF StepFits, HandBefore
  <2> QED BY <2>1, <2>2, <2>3 DEF StepsFit, HandBefore, file
<1>12. ASSUME NEW errand \in {"release", "review", "verify", "import"} PROVE StepsFit(errand)
  <2> DEFINE steps == <<"log">>  file == Errands[errand].file
  <2>1. Errands[errand].steps = steps /\ file \in {"orders"}
    BY DEF Errands, Errand, ReleaseSteps, ReviewSteps, VerifySteps, ImportSteps
  <2> HIDE DEF file
  <2>2. Len(steps) = 1 OBVIOUS
  <2>3. ASSUME NEW i \in 1 .. 1 PROVE StepFits(errand, i, steps, file)
    BY <2>1, <2>2 DEF StepFits, HandBefore
  <2> QED BY <2>1, <2>2, <2>3 DEF StepsFit, HandBefore, file
<1>13. ASSUME NEW errand \in {"proof"} PROVE StepsFit(errand)
  <2> DEFINE steps == <<"read", "log">>  file == Errands[errand].file
  <2>1. Errands[errand].steps = steps /\ file \in {"orders"}
    BY DEF Errands, Errand, ProofSteps
  <2> HIDE DEF file
  <2>2. Len(steps) = 2 OBVIOUS
  <2>3. ASSUME NEW i \in 1 .. 2 PROVE StepFits(errand, i, steps, file)
    BY <2>1, <2>2 DEF StepFits, HandBefore
  <2> QED BY <2>1, <2>2, <2>3 DEF StepsFit, HandBefore, file
<1> QED BY <1>1, <1>2, <1>3, <1>4, <1>5, <1>6, <1>7, <1>8, <1>9, <1>10, <1>11, <1>12, <1>13 DEF ErrandKinds, Errands

(* What a call notes of a file. *)
DeskNotes == [name : FileNames, state : FileStates, data : Contents]

(* A file. *)
FileRecord == [state : FileStates, data : Contents, at : 0 .. MaxSecond]

(* The call of a clerk. *)
DeskCall ==
  [errand : ErrandKinds, step : 0 .. 9, name : FileNames, hand : {"none", "open", "closed"},
   data : Contents, noted : SUBSET DeskNotes, verdict : {"none", "ready", "excused", "unready"}]

(* The step a call is at. *)
StepOf(call) == Errands[call.errand].steps[call.step]

(* A call has its file open just where its list says so, and a name of the   *)
(* kind its errand writes.                                                   *)
StepOK(call) ==
  /\ call.step = 0 => call.hand = "none" /\ call.noted = {}
  /\ call.step > 0 => /\ call.step <= Len(Errands[call.errand].steps)
                      /\ call.hand = HandBefore(call.errand, call.step)
  /\ \/ call.name.kind = Errands[call.errand].file
     \/ call.errand = "sealed" /\ call.name.kind = "enc"
  /\ call.verdict # "unready"

(* A file holds, whole, what a note says of it. *)
StillHolds(note, files) ==
  files[note.name].state = "whole" /\ note.state = "whole" /\ files[note.name].data = note.data

(* What a call has noted holds, of a name that is sure; of a file with one   *)
(* name, only while the call has it.                                         *)
NotedOK(call, files, doubtful) ==
  \A note \in call.noted : note.name \notin doubtful =>
    /\ StillHolds(note, files)
    /\ note.name.kind \in OneName => note.name = call.name /\ call.hand = "closed"

(* A file being written is open, one written is whole, one to be looked at   *)
(* is there.                                                                 *)
HandOK(call, files, doubtful) ==
  /\ call.hand = "open" /\ call.name \notin doubtful => files[call.name].state = "open"
  /\ call.hand = "closed" /\ call.name \notin doubtful => files[call.name].state = "whole"
  /\ call.step > 0 /\ StepOf(call) \in {"test", "look"} =>
       call.name.kind # "enc" /\ files[call.name].state # "absent"
  /\ NotedOK(call, files, doubtful)

(* Types, but for the number of orders. *)
DeskTypes ==
  /\ deskPlan \in DeskPlans
  /\ desk \in [Clerks -> DeskCall] /\ evidence \in [FileNames -> FileRecord]
  /\ trailSize \in 0 .. MaxTrail /\ second \in 0 .. MaxSecond
  /\ deskCalls \in 0 .. deskPlan.calls /\ deskKills \in 0 .. deskPlan.kills
  /\ issued \subseteq DeskNotes /\ unsure \subseteq FileNames

(* Two calls that have one name in hand make it unsure. *)
Alone ==
  \A c, d \in Clerks :
    c # d /\ desk[c].hand # "none" /\ desk[d].hand # "none" /\ desk[c].name = desk[d].name =>
      desk[c].name \in unsure

(* A file of a sure name is absent, whole, or open in the hands of a call. *)
FilesOK ==
  \A n \in FileNames \ unsure :
    \/ evidence[n].state \in {"absent", "whole"}
    \/ evidence[n].state = "open" /\ \E c \in Clerks : desk[c].name = n /\ desk[c].hand = "open"

(* What was said of a sure name holds; or it is a file with one name and a   *)
(* call has it in hand again.                                                *)
IssuedOK ==
  \A note \in issued : note.name \notin unsure =>
    \/ StillHolds(note, evidence)
    \/ note.name.kind \in OneName
       /\ \E c \in Clerks : desk[c].name = note.name /\ desk[c].hand # "none"

(* The clerks about to append an order. *)
Appending == {c \in Clerks : desk[c].step > 0 /\ StepOf(desk[c]) = "append"}

(* Every order has a call of its own. *)
OrdersOK == orders \in Nat /\ orders + Cardinality(Appending) <= deskCalls

(* Every clerk's call. *)
ClerksOK == \A c \in Clerks : StepOK(desk[c]) /\ HandOK(desk[c], evidence, unsure)

(* Inductive: what was said and what is noted of sure names holds, and every *)
(* call has in hand what its list says.                                      *)
DeskInv == DeskTypes /\ ClerksOK /\ Alone /\ FilesOK /\ IssuedOK /\ OrdersOK

(* The parts of a plan. *)
LEMMA PlansAre ==
  ASSUME DeskTypes
  PROVE  deskPlan.errands \subseteq ErrandKinds /\ deskPlan.calls \in Nat /\ deskPlan.kills \in Nat
BY DeskAssumption DEF DeskTypes

(* Those about to append can be counted. *)
LEMMA AppendingFinite ==
  IsFiniteSet(Appending) /\ Cardinality(Appending) \in Nat
BY DeskAssumption, FS_Subset, FS_CardinalityType DEF Appending

(* The invariant gives the types and the properties. *)
LEMMA DeskSays == DeskInv => EvidenceTypeOK /\ FilesStand /\ DrillsEarned
<1> SUFFICES ASSUME DeskInv PROVE EvidenceTypeOK /\ FilesStand /\ DrillsEarned OBVIOUS
<1>1. EvidenceTypeOK
  <2>1. orders \in 0 .. deskPlan.calls
    <3>1. Cardinality(Appending) \in Nat BY AppendingFinite
    <3> QED BY <3>1, PlansAre DEF DeskInv, DeskTypes, OrdersOK
  <2> QED BY <2>1 DEF DeskInv, DeskTypes, EvidenceTypeOK, DeskCall, DeskNotes, FileRecord
<1>2. FilesStand
  BY DEF DeskInv, IssuedOK, FilesStand, StillHolds, OpenedBy
<1>3. DrillsEarned BY DEF DeskInv, ClerksOK, StepOK, DrillsEarned
<1> QED BY <1>1, <1>2, <1>3

(* A clerk without a call. *)
LEMMA IdleIs ==
  /\ Idle \in DeskCall /\ Blank \in Contents /\ Idle.step = 0 /\ Idle.hand = "none"
  /\ StepOK(Idle) /\ \A files, doubtful : HandOK(Idle, files, doubtful)
<1>1. Errands["review"].file = "orders" /\ "review" \in ErrandKinds
  BY DEF Errands, Errand, ErrandKinds
<1>2. (CHOOSE c \in Clerks : TRUE) \in Clerks BY DeskAssumption
<1>3. MaxSecond \in Nat /\ MaxTrail \in Nat BY DeskAssumption
<1>4. Blank \in Contents BY <1>2, <1>3 DEF Blank, Contents
<1>5. "orders" \in FileKinds BY <1>1 DEF FileKinds
<1>6. Idle \in DeskCall BY <1>1, <1>3, <1>4, <1>5 DEF Idle, DeskCall, FileNames
<1>7. Idle.step = 0 /\ Idle.hand = "none" /\ Idle.noted = {} /\ Idle.verdict = "none"
      /\ Idle.name.kind = "orders" /\ Idle.errand = "review"
  BY DEF Idle
<1>8. StepOK(Idle) BY <1>1, <1>7 DEF StepOK
<1>9. \A files, doubtful : HandOK(Idle, files, doubtful) BY <1>7 DEF HandOK, NotedOK
<1> QED BY <1>4, <1>6, <1>7, <1>8, <1>9

(* It holds at the start. *)
LEMMA DeskStarts == EvidenceInit => DeskInv
<1> SUFFICES ASSUME EvidenceInit PROVE DeskInv OBVIOUS
<1>1. MaxSecond \in Nat /\ MaxTrail \in Nat BY DeskAssumption
<1>2. deskPlan.calls \in Nat /\ deskPlan.kills \in Nat BY DeskAssumption DEF EvidenceInit
<1>3. \A c \in Clerks : desk[c] = Idle BY DEF EvidenceInit
<1>4. DeskTypes
  <2>1. desk \in [Clerks -> DeskCall] BY IdleIs DEF EvidenceInit
  <2>2. evidence \in [FileNames -> FileRecord] BY <1>1, IdleIs DEF EvidenceInit, FileRecord, FileStates
  <2> QED BY <1>1, <1>2, <2>1, <2>2 DEF EvidenceInit, DeskTypes
<1>5. ClerksOK BY <1>3, IdleIs DEF ClerksOK
<1>6. Alone BY <1>3, IdleIs DEF Alone
<1>7. FilesOK BY DEF EvidenceInit, FilesOK
<1>8. IssuedOK BY DEF EvidenceInit, IssuedOK
<1>9. OrdersOK
  <2>1. Appending = {} BY <1>3, IdleIs DEF Appending
  <2> QED BY <2>1, FS_EmptySet DEF EvidenceInit, OrdersOK
<1> QED BY <1>4, <1>5, <1>6, <1>7, <1>8, <1>9 DEF DeskInv

(* One clerk's call changes, the others' do not. *)
LEMMA ChangedCall ==
  ASSUME DeskInv, NEW c \in Clerks, NEW call \in DeskCall, desk' = [desk EXCEPT ![c] = call]
  PROVE  /\ desk' \in [Clerks -> DeskCall] /\ desk'[c] = call
         /\ \A d \in Clerks \ {c} : desk'[d] = desk[d]
BY DEF DeskInv, DeskTypes

(* A call's step is one of its list, and fits. *)
LEMMA FitOf ==
  ASSUME NEW call \in DeskCall, StepOK(call), call.step > 0
  PROVE  /\ Len(Errands[call.errand].steps) \in 1 .. 9 /\ call.step \in 1 .. Len(Errands[call.errand].steps)
         /\ StepFits(call.errand, call.step, Errands[call.errand].steps, Errands[call.errand].file)
         /\ HandBefore(call.errand, 1) = "none" /\ Errands[call.errand].file # "enc"
<1>1. call.errand \in ErrandKinds /\ call.step \in 0 .. 9 BY DEF DeskCall
<1>2. StepsFit(call.errand) BY <1>1, StepsAreFit
<1> QED BY <1>1, <1>2 DEF StepsFit, StepOK

(* What follows a step that is not the last. *)
LEMMA OnwardIs ==
  ASSUME NEW call \in DeskCall, call.step > 0, NEW old \in DeskCall, StepOK(old),
         old.errand = call.errand, old.step = call.step,
         StepOf(old) \notin {"log", "note", "answer"}, call.verdict # "unready",
         \/ call.name.kind = Errands[call.errand].file
         \/ call.errand = "sealed" /\ call.name.kind = "enc",
         call.hand = HandBefore(call.errand, call.step + 1)
  PROVE  LET next == Onward(call) IN
         /\ next = [call EXCEPT !.step = call.step + 1]
         /\ next \in DeskCall /\ StepOK(next) /\ next.step = call.step + 1
         /\ next.hand = call.hand /\ next.name = call.name /\ next.noted = call.noted
         /\ next.errand = call.errand
         /\ StepOf(next) # "append"
         /\ StepOf(next) \in {"test", "look"} => StepOf(old) \in {"pick", "find"}
<1> DEFINE steps == Errands[call.errand].steps  file == Errands[call.errand].file
<1>1. /\ Len(steps) \in 1 .. 9 /\ call.step \in 1 .. Len(steps)
      /\ StepFits(call.errand, call.step, steps, file) /\ StepsFit(call.errand)
  BY FitOf, StepsAreFit DEF DeskCall
<1>2. call.step < Len(steps) BY <1>1 DEF StepFits, StepOf
<1>3. StepFits(call.errand, call.step + 1, steps, file) BY <1>1, <1>2 DEF StepsFit
<1>4. Onward(call) = [call EXCEPT !.step = call.step + 1] BY <1>1, <1>2 DEF Onward
<1>5. call.step + 1 \in 0 .. 9 /\ call.step + 1 \in 1 .. Len(steps)
  <2>1. PICK n \in 1 .. 9 : n = Len(steps) BY <1>1
  <2>2. PICK i \in 1 .. n : i = call.step /\ i < n BY <1>1, <1>2, <2>1
  <2>3. i + 1 \in 0 .. 9 /\ i + 1 \in 1 .. n BY <2>2
  <2> QED BY <2>1, <2>2, <2>3
<1> DEFINE next == Onward(call)
<1>6. next \in DeskCall /\ next.step = call.step + 1 /\ next.errand = call.errand
      /\ next.hand = call.hand /\ next.name = call.name /\ next.noted = call.noted
      /\ next.verdict = call.verdict
  BY <1>4, <1>5 DEF DeskCall
<1>7. /\ call.name.kind = file \/ (call.errand = "sealed" /\ call.name.kind = "enc")
      /\ call.verdict # "unready"
  OBVIOUS
<1>8. StepOK(next) BY <1>5, <1>6, <1>7 DEF StepOK
<1>9. StepOf(next) = steps[call.step + 1] BY <1>6 DEF StepOf
<1>10. StepOf(next) # "append" BY <1>1, <1>3, <1>9 DEF StepFits
<1>11. StepOf(next) \in {"test", "look"} => StepOf(old) \in {"pick", "find"}
  <2>1. steps[call.step + 1] \in {"test", "look"} => call.step + 1 = 2 /\ steps[1] \in {"pick", "find"}
    BY <1>3 DEF StepFits
  <2>2. call.step \in Nat BY <1>1
  <2> QED BY <1>9, <2>1, <2>2 DEF StepOf
<1> QED BY <1>4, <1>6, <1>8, <1>10, <1>11

(* What is noted stays so while the call keeps its file. *)
LEMMA NotedStays ==
  ASSUME NEW files, NEW doubtful, NEW call, NotedOK(call, files, doubtful), NEW next,
         next.noted = call.noted, next.hand = call.hand, next.hand = "none" \/ next.name = call.name
  PROVE  NotedOK(next, files, doubtful)
BY DEF NotedOK

(* A step that appends nothing keeps the orders. *)
LEMMA OrdersStay ==
  ASSUME DeskInv, NEW c \in Clerks, NEW call \in DeskCall, desk' = [desk EXCEPT ![c] = call],
         call.step > 0 => StepOf(call) # "append", orders' = orders, deskCalls' = deskCalls
  PROVE  OrdersOK'
<1>1. Appending' \subseteq Appending BY ChangedCall DEF Appending
<1>2. IsFiniteSet(Appending) /\ Cardinality(Appending) \in Nat BY AppendingFinite
<1>3. Cardinality(Appending') \in Nat /\ Cardinality(Appending') <= Cardinality(Appending)
  BY <1>1, <1>2, FS_Subset, FS_CardinalityType
<1>4. deskCalls \in Int
  <2>1. deskPlan.calls \in Nat BY PlansAre DEF DeskInv
  <2> QED BY <2>1 DEF DeskInv, DeskTypes
<1> QED BY <1>2, <1>3, <1>4 DEF OrdersOK, DeskInv

(* A step of a call that touches no file. *)
LEMMA QuietCall ==
  ASSUME DeskInv, NEW c \in Clerks, NEW call \in DeskCall, desk' = [desk EXCEPT ![c] = call],
         UNCHANGED <<deskPlan, evidence, issued, unsure, second, deskKills>>,
         trailSize' \in 0 .. MaxTrail, deskCalls' \in 0 .. deskPlan.calls, OrdersOK',
         StepOK(call), HandOK(call, evidence, unsure),
         call.hand = desk[c].hand, call.hand = "none" \/ call.name = desk[c].name
  PROVE  DeskInv'
<1>1. /\ desk' \in [Clerks -> DeskCall] /\ desk'[c] = call
      /\ \A d \in Clerks \ {c} : desk'[d] = desk[d]
  BY ChangedCall
<1>2. DeskTypes' BY <1>1 DEF DeskInv, DeskTypes
<1>3. ClerksOK' BY <1>1 DEF DeskInv, ClerksOK
<1>4. \A d \in Clerks : /\ desk'[d].hand = desk[d].hand
                        /\ desk[d].hand # "none" => desk'[d].name = desk[d].name
  BY <1>1
<1>5. Alone' BY <1>4 DEF DeskInv, Alone
<1>6. FilesOK' BY <1>4 DEF DeskInv, FilesOK
<1>7. IssuedOK' BY <1>4 DEF DeskInv, IssuedOK
<1> QED BY <1>2, <1>3, <1>5, <1>6, <1>7 DEF DeskInv

(* A call that ends, or whose process dies. *)
LEMMA CallGone ==
  ASSUME DeskInv, NEW c \in Clerks, desk' = [desk EXCEPT ![c] = Idle],
         UNCHANGED <<deskPlan, evidence, second, orders, deskCalls>>,
         trailSize' \in 0 .. MaxTrail, deskKills' \in 0 .. deskPlan.kills,
         unsure \subseteq unsure', unsure' \subseteq FileNames, issued' \subseteq DeskNotes,
         desk[c].hand = "open" => desk[c].name \in unsure',
         \A note \in issued' : note.name \notin unsure' =>
           \/ StillHolds(note, evidence)
           \/ /\ note \in issued /\ note.name.kind \in OneName
              /\ desk[c].hand # "none" => note.name # desk[c].name
  PROVE  DeskInv'
<1>1. /\ desk' \in [Clerks -> DeskCall] /\ desk'[c] = Idle
      /\ \A d \in Clerks \ {c} : desk'[d] = desk[d]
  BY ChangedCall, IdleIs
<1>2. DeskTypes' BY <1>1 DEF DeskInv, DeskTypes
<1>3. ClerksOK'
  <2>1. ASSUME NEW d \in Clerks \ {c} PROVE HandOK(desk[d], evidence, unsure')
    <3>1. HandOK(desk[d], evidence, unsure) BY DEF DeskInv, ClerksOK
    <3> QED BY <3>1 DEF HandOK, NotedOK
  <2> QED BY <1>1, <2>1, IdleIs DEF DeskInv, ClerksOK
<1>4. Alone' BY <1>1, IdleIs DEF DeskInv, Alone
<1>5. FilesOK'
  <2>1. \A n \in FileNames \ unsure', d \in Clerks :
          desk[d].name = n /\ desk[d].hand = "open" => desk'[d] = desk[d]
    BY <1>1
  <2> QED BY <2>1 DEF DeskInv, FilesOK
<1>6. IssuedOK'
  <2>1. \A n : \A d \in Clerks : desk[d].hand # "none" /\ (desk[c].hand # "none" => n # desk[c].name)
                              /\ desk[d].name = n => desk'[d] = desk[d]
    BY <1>1
  <2> QED BY <2>1 DEF DeskInv, IssuedOK
<1>7. OrdersOK'
  <2>1. ~(Idle.step > 0) BY IdleIs
  <2> QED BY <2>1, OrdersStay, IdleIs DEF DeskInv
<1> QED BY <1>2, <1>3, <1>4, <1>5, <1>6, <1>7 DEF DeskInv

(* A step that touches no file and is followed by another. *)
LEMMA QuietStep ==
  ASSUME DeskInv, NEW c \in Clerks, NEW call \in DeskCall, desk' = [desk EXCEPT ![c] = Onward(call)],
         UNCHANGED <<deskPlan, evidence, issued, unsure, second, deskCalls, deskKills, trailSize>>,
         desk[c].step > 0, call.step = desk[c].step, call.errand = desk[c].errand,
         StepOf(desk[c]) \notin {"open", "write", "seal", "log", "note", "answer"},
         orders' = IF StepOf(desk[c]) = "append" THEN orders + 1 ELSE orders,
         call.hand = desk[c].hand, call.hand = "none" \/ call.name = desk[c].name,
         call.verdict # "unready",
         \/ call.name.kind = Errands[call.errand].file
         \/ call.errand = "sealed" /\ call.name.kind = "enc",
         NotedOK(call, evidence, unsure),
         StepOf(desk[c]) \in {"pick", "find"} =>
           call.name.kind # "enc" /\ evidence[call.name].state # "absent"
  PROVE  DeskInv'
<1> DEFINE old == desk[c]  next == Onward(call)
<1>1. /\ old \in DeskCall /\ StepOK(old) /\ HandOK(old, evidence, unsure)
      /\ trailSize \in 0 .. MaxTrail /\ deskCalls \in 0 .. deskPlan.calls
  BY DEF DeskInv, DeskTypes, ClerksOK
<1>2. StepFits(old.errand, old.step, Errands[old.errand].steps, Errands[old.errand].file)
  BY <1>1, FitOf
<1>3. call.hand = HandBefore(call.errand, call.step + 1)
  BY <1>1, <1>2 DEF StepFits, StepOf, StepOK
<1>4. /\ next \in DeskCall /\ StepOK(next) /\ next.step = call.step + 1
      /\ next.hand = call.hand /\ next.name = call.name /\ next.noted = call.noted
      /\ StepOf(next) # "append"
      /\ StepOf(next) \in {"test", "look"} => StepOf(old) \in {"pick", "find"}
  BY <1>1, <1>3, OnwardIs
<1> HIDE DEF next
<1>5. NotedOK(next, evidence, unsure) BY <1>4, NotedStays
<1>6. HandOK(next, evidence, unsure)
  <2>1. /\ old.hand = "open" /\ old.name \notin unsure => evidence[old.name].state = "open"
        /\ old.hand = "closed" /\ old.name \notin unsure => evidence[old.name].state = "whole"
    BY <1>1 DEF HandOK
  <2> QED BY <1>4, <1>5, <2>1 DEF HandOK
<1>7. OrdersOK'
  <2>1. desk'[c] = next /\ \A d \in Clerks \ {c} : desk'[d] = desk[d]
    BY <1>4, ChangedCall DEF next
  <2>2. c \notin Appending' BY <1>4, <2>1 DEF Appending
  <2>3. Appending' \subseteq Appending \ {c} BY <2>1, <2>2 DEF Appending
  <2>4. StepOf(old) = "append" => c \in Appending BY DEF Appending
  <2>5. IsFiniteSet(Appending) /\ Cardinality(Appending) \in Nat BY AppendingFinite
  <2>6. /\ IsFiniteSet(Appending \ {c}) /\ Cardinality(Appending \ {c}) \in Nat
        /\ c \in Appending => Cardinality(Appending \ {c}) = Cardinality(Appending) - 1
        /\ c \notin Appending => Cardinality(Appending \ {c}) = Cardinality(Appending)
    BY <2>5, FS_RemoveElement, FS_Subset, FS_CardinalityType
  <2>7. Cardinality(Appending') \in Nat /\ Cardinality(Appending') <= Cardinality(Appending \ {c})
    BY <2>3, <2>6, FS_Subset, FS_CardinalityType
  <2>8. deskPlan.calls \in Nat BY PlansAre DEF DeskInv
  <2>9. orders \in Nat /\ orders + Cardinality(Appending) <= deskCalls BY DEF DeskInv, OrdersOK
  <2>10. orders' \in Nat /\ orders' + Cardinality(Appending') <= deskCalls
    BY <1>1, <2>4, <2>5, <2>6, <2>7, <2>8, <2>9
  <2> QED BY <2>10 DEF OrdersOK
<1> QED BY <1>1, <1>4, <1>6, <1>7, QuietCall DEF next

(* What the invariant says of one call. *)
LEMMA CallParts ==
  ASSUME DeskInv, NEW c \in Clerks
  PROVE  /\ desk[c] \in DeskCall /\ StepOK(desk[c]) /\ HandOK(desk[c], evidence, unsure)
         /\ NotedOK(desk[c], evidence, unsure)
         /\ trailSize \in 0 .. MaxTrail /\ second \in 0 .. MaxSecond
         /\ desk[c].verdict # "unready"
         /\ \/ desk[c].name.kind = Errands[desk[c].errand].file
            \/ desk[c].errand = "sealed" /\ desk[c].name.kind = "enc"
         /\ evidence \in [FileNames -> FileRecord] /\ desk \in [Clerks -> DeskCall]
         /\ MaxSecond \in Nat /\ MaxTrail \in Nat
BY DeskAssumption DEF DeskInv, DeskTypes, ClerksOK, StepOK, HandOK

(* The ledger's entries, or their totals, are read. *)
LEMMA ReadTrailStep == ASSUME DeskInv, NEW c \in Clerks, ReadTrail(c) PROVE DeskInv'
<1> DEFINE old == desk[c]
<1>1. /\ old \in DeskCall /\ NotedOK(old, evidence, unsure) /\ trailSize \in 0 .. MaxTrail
      /\ old.verdict # "unready"
      /\ \/ old.name.kind = Errands[old.errand].file
         \/ old.errand = "sealed" /\ old.name.kind = "enc"
  BY CallParts
<1>2. PICK data \in Contents : desk' = [desk EXCEPT ![c] = Onward([old EXCEPT !.data = data])]
  <2>1. CASE At(c, "read")
    <3>1. [old.data EXCEPT !.entries = trailSize] \in Contents BY <1>1 DEF DeskCall, Contents
    <3>2. desk' = [desk EXCEPT ![c] = Onward([old EXCEPT !.data.entries = trailSize])]
      BY <2>1, Zenon DEF ReadTrail
    <3>3. [old EXCEPT !.data.entries = trailSize] = [old EXCEPT !.data = [old.data EXCEPT !.entries = trailSize]]
      BY Zenon
    <3> QED BY <3>1, <3>2, <3>3
  <2>2. CASE ~At(c, "read")
    <3>1. [old.data EXCEPT !.totals = trailSize] \in Contents BY <1>1 DEF DeskCall, Contents
    <3>2. desk' = [desk EXCEPT ![c] = Onward([old EXCEPT !.data.totals = trailSize])]
      BY <2>2, Zenon DEF ReadTrail
    <3>3. [old EXCEPT !.data.totals = trailSize] = [old EXCEPT !.data = [old.data EXCEPT !.totals = trailSize]]
      BY Zenon
    <3> QED BY <3>1, <3>2, <3>3
  <2> QED BY <2>1, <2>2
<1>3. /\ old.step > 0 /\ StepOf(old) \in {"read", "totals"} /\ orders' = orders /\ orders \in Nat
      /\ UNCHANGED <<deskPlan, evidence, issued, unsure, second, deskCalls, deskKills, trailSize>>
  BY DEF ReadTrail, At, StepOf, Others, DeskInv, OrdersOK
<1> DEFINE call == [old EXCEPT !.data = data]
<1>4. call \in DeskCall /\ call.step = old.step /\ call.errand = old.errand /\ call.hand = old.hand
      /\ call.name = old.name /\ call.noted = old.noted /\ call.verdict = old.verdict
  BY <1>1, <1>2 DEF DeskCall
<1> HIDE DEF call
<1>5. NotedOK(call, evidence, unsure) BY <1>1, <1>4, NotedStays
<1> QED BY <1>1, <1>2, <1>3, <1>4, <1>5, QuietStep DEF call

(* The digest replaces what was noted of the file by what it holds, which is *)
(* the same.                                                                 *)
LEMMA DigestStep == ASSUME DeskInv, NEW c \in Clerks, Digest(c) PROVE DeskInv'
<1> DEFINE old == desk[c]
           note == [name |-> old.name, state |-> evidence[old.name].state, data |-> evidence[old.name].data]
           noted == {n \in old.noted : n.name # old.name} \cup {note}
           call == [old EXCEPT !.noted = noted]
<1>1. /\ old \in DeskCall /\ StepOK(old) /\ HandOK(old, evidence, unsure)
      /\ NotedOK(old, evidence, unsure) /\ old.verdict # "unready"
      /\ \/ old.name.kind = Errands[old.errand].file
         \/ old.errand = "sealed" /\ old.name.kind = "enc"
      /\ evidence \in [FileNames -> FileRecord]
  BY CallParts
<1>2. desk' = [desk EXCEPT ![c] = Onward(call)]
  <2>1. Redigested(old.noted, old.name) = noted BY DEF Redigested
  <2>2. desk' = [desk EXCEPT ![c] = Onward([old EXCEPT !.noted = Redigested(old.noted, old.name)])]
    BY DEF Digest
  <2> QED BY <2>1, <2>2
<1>3. /\ old.step > 0 /\ StepOf(old) = "digest" /\ orders' = orders /\ orders \in Nat
      /\ UNCHANGED <<deskPlan, evidence, issued, unsure, second, deskCalls, deskKills, trailSize>>
  BY DEF Digest, At, StepOf, Others, DeskInv, OrdersOK
<1>4. note \in DeskNotes BY <1>1 DEF DeskCall, DeskNotes, FileRecord
<1>5. noted \in SUBSET DeskNotes BY <1>1, <1>4 DEF DeskCall
<1>6. old.hand = "closed"
  BY <1>1, <1>3, FitOf DEF StepFits, StepOf, StepOK
<1>7. old.name \notin unsure => StillHolds(note, evidence)
  BY <1>1, <1>6 DEF HandOK, StillHolds
<1> HIDE DEF note
<1>8. note.name = old.name BY DEF note
<1>9. call \in DeskCall /\ call.step = old.step /\ call.errand = old.errand /\ call.hand = old.hand
      /\ call.name = old.name /\ call.noted = noted /\ call.verdict = old.verdict
  BY <1>1, <1>5 DEF DeskCall
<1> HIDE DEF call
<1>10. NotedOK(call, evidence, unsure) BY <1>1, <1>6, <1>7, <1>8, <1>9 DEF NotedOK
<1> QED BY <1>1, <1>2, <1>3, <1>9, <1>10, QuietStep

(* The kill switch and break glass append their line. *)
LEMMA AppendOrderStep == ASSUME DeskInv, NEW c \in Clerks, AppendOrder(c) PROVE DeskInv'
<1> DEFINE old == desk[c]
<1>1. /\ old \in DeskCall /\ NotedOK(old, evidence, unsure) /\ old.verdict # "unready"
      /\ \/ old.name.kind = Errands[old.errand].file
         \/ old.errand = "sealed" /\ old.name.kind = "enc"
  BY CallParts
<1>2. /\ old.step > 0 /\ StepOf(old) = "append" /\ orders' = orders + 1
      /\ UNCHANGED <<deskPlan, evidence, issued, unsure, second, deskCalls, deskKills, trailSize>>
      /\ desk' = [desk EXCEPT ![c] = Onward(old)]
  BY DEF AppendOrder, At, StepOf, Others
<1> QED BY <1>1, <1>2, QuietStep

(* Of a file that is there, and is not encrypted, the judgement is that it   *)
(* is ready or that there is a reason.                                       *)
LEMMA Unready ==
  ASSUME DeskInv, NEW n \in FileNames, n.kind # "enc", evidence[n].state # "absent"
  PROVE  Judged(n) \in {"ready", "excused"}
<1>1. CASE n \in unsure BY <1>1 DEF Judged
<1>2. CASE n \notin unsure
  <2>1. CASE evidence[n].state = "whole" BY <2>1 DEF Judged
  <2>2. CASE evidence[n].state # "whole"
    <3>1. WritingBy(n) # {} BY <1>2, <2>2 DEF DeskInv, FilesOK, WritingBy
    <3> QED BY <2>2, <3>1 DEF Judged
  <2> QED BY <2>1, <2>2
<1> QED BY <1>1, <1>2

(* A backup is tested, a file parsed. *)
LEMMA JudgeStep ==
  ASSUME DeskInv, NEW c \in Clerks, TestBackup(c) \/ LookAt(c)
  PROVE  DeskInv'
<1> DEFINE old == desk[c]  verdict == Judged(old.name)  call == [old EXCEPT !.verdict = verdict]
<1>1. /\ old \in DeskCall /\ HandOK(old, evidence, unsure) /\ NotedOK(old, evidence, unsure)
      /\ \/ old.name.kind = Errands[old.errand].file
         \/ old.errand = "sealed" /\ old.name.kind = "enc"
  BY CallParts
<1>2. /\ old.step > 0 /\ StepOf(old) \in {"test", "look"} /\ orders' = orders /\ orders \in Nat
      /\ UNCHANGED <<deskPlan, evidence, issued, unsure, second, deskCalls, deskKills, trailSize>>
      /\ desk' = [desk EXCEPT ![c] = Onward(call)]
  BY DEF TestBackup, LookAt, At, StepOf, Others, DeskInv, OrdersOK
<1>3. verdict \in {"ready", "excused"}
  <2>1. old.name \in FileNames BY <1>1 DEF DeskCall
  <2> QED BY <1>1, <1>2, <2>1, Unready DEF HandOK
<1> HIDE DEF verdict
<1>4. call \in DeskCall /\ call.step = old.step /\ call.errand = old.errand /\ call.hand = old.hand
      /\ call.name = old.name /\ call.noted = old.noted /\ call.verdict = verdict
  BY <1>1, <1>3 DEF DeskCall
<1> HIDE DEF call
<1>5. NotedOK(call, evidence, unsure) BY <1>1, <1>4, NotedStays
<1> QED BY <1>1, <1>2, <1>3, <1>4, <1>5, QuietStep

(* A sealed backup has nine steps and begins with an archive. *)
LEMMA SealedIs ==
  Len(Errands["sealed"].steps) = 9 /\ Errands["sealed"].file = "zip"
<1>1. Errands["sealed"].steps =
        <<"open", "read", "write", "digest", "seal", "open", "write", "digest", "log">>
      /\ Errands["sealed"].file = "zip"
  BY DEF Errands, Errand, SealedBackupSteps
<1> QED BY <1>1

(* A drill that finds no archive, or a reader that finds no file, is         *)
(* excused.                                                                  *)
LEMMA NothingFound ==
  ASSUME DeskInv, NEW c \in Clerks, desk[c].step > 0, StepOf(desk[c]) \in {"pick", "find"},
         desk' = [desk EXCEPT ![c] = [Onward(@) EXCEPT !.step = 3, !.verdict = "excused"]],
         UNCHANGED <<evidence, trailSize, orders, issued, unsure, Others>>
  PROVE  DeskInv'
<1> DEFINE old == desk[c]  call == [old EXCEPT !.step = 3, !.verdict = "excused"]
           steps == Errands[old.errand].steps  file == Errands[old.errand].file
<1>1. /\ old \in DeskCall /\ StepOK(old) /\ HandOK(old, evidence, unsure)
      /\ NotedOK(old, evidence, unsure) /\ old.verdict # "unready"
      /\ \/ old.name.kind = Errands[old.errand].file
         \/ old.errand = "sealed" /\ old.name.kind = "enc"
      /\ trailSize \in 0 .. MaxTrail
  BY CallParts
<1>2. /\ StepFits(old.errand, old.step, steps, file) /\ StepsFit(old.errand)
      /\ old.step = 1 /\ Len(steps) = 3
  BY <1>1, FitOf, StepsAreFit DEF StepFits, StepOf, DeskCall
<1>3. StepFits(old.errand, 1, steps, file) /\ StepFits(old.errand, 2, steps, file)
      /\ StepFits(old.errand, 3, steps, file)
  BY <1>2 DEF StepsFit
<1>4. HandBefore(old.errand, 3) = old.hand
  <2>1. steps[1] \in {"pick", "find"} BY <1>2 DEF StepOf
  <2>2. HandBefore(old.errand, 2) = HandBefore(old.errand, 1) BY <1>2, <1>3, <2>1 DEF StepFits
  <2>3. steps[2] \in {"test", "look"} BY <1>3, <2>1 DEF StepFits
  <2>4. HandBefore(old.errand, 3) = HandBefore(old.errand, 2) BY <1>2, <1>3, <2>3 DEF StepFits
  <2> QED BY <1>1, <1>2, <2>2, <2>4 DEF StepOK
<1>5. steps[3] \in {"log", "note", "answer"} BY <1>2, <1>3 DEF StepFits
<1>6. desk' = [desk EXCEPT ![c] = call]
  <2>1. Onward(old) = [old EXCEPT !.step = 2] BY <1>2 DEF Onward
  <2>2. [[old EXCEPT !.step = 2] EXCEPT !.step = 3, !.verdict = "excused"] = call
    BY <1>1 DEF DeskCall
  <2> QED BY <2>1, <2>2
<1>7. call \in DeskCall /\ call.step = 3 /\ call.errand = old.errand /\ call.hand = old.hand
      /\ call.name = old.name /\ call.noted = old.noted /\ call.verdict = "excused"
  <2>1. 3 \in 0 .. 9 /\ "excused" \in {"none", "ready", "excused", "unready"} OBVIOUS
  <2> HIDE DEF old
  <2> QED BY <1>1, <2>1 DEF DeskCall
<1> HIDE DEF call
<1>8. StepOf(call) = steps[3] BY <1>7 DEF StepOf
<1>9. StepOK(call)
  <2>1. call.step <= Len(Errands[call.errand].steps)
    <3>1. Len(Errands[old.errand].steps) = 3 BY <1>2
    <3>2. Len(Errands[call.errand].steps) = 3 BY <1>7, <3>1
    <3> QED BY <1>7, <3>2
  <2>2. call.hand = HandBefore(call.errand, call.step) BY <1>4, <1>7
  <2>3. call.step # 0 BY <1>7
  <2> QED BY <1>1, <1>7, <2>1, <2>2, <2>3 DEF StepOK
<1>10. NotedOK(call, evidence, unsure) BY <1>1, <1>7, NotedStays
<1>11. HandOK(call, evidence, unsure) BY <1>1, <1>5, <1>7, <1>8, <1>10 DEF HandOK
<1>12. OrdersOK' BY <1>5, <1>6, <1>7, <1>8, OrdersStay DEF Others
<1>13. deskCalls \in 0 .. deskPlan.calls BY DEF DeskInv, DeskTypes
<1> QED BY <1>1, <1>6, <1>7, <1>9, <1>11, <1>12, <1>13, QuietCall DEF Others

(* An archive, or a file of the kind, is found. *)
LEMMA SomethingFound ==
  ASSUME DeskInv, NEW c \in Clerks, desk[c].step > 0, StepOf(desk[c]) \in {"pick", "find"},
         NEW n \in FileNames, evidence[n].state # "absent",
         n.kind = Errands[desk[c].errand].file,
         desk' = [desk EXCEPT ![c] = Onward([@ EXCEPT !.name = n])],
         UNCHANGED <<evidence, trailSize, orders, issued, unsure, Others>>
  PROVE  DeskInv'
<1> DEFINE old == desk[c]  call == [old EXCEPT !.name = n]
           steps == Errands[old.errand].steps  file == Errands[old.errand].file
<1>1. /\ old \in DeskCall /\ StepOK(old) /\ NotedOK(old, evidence, unsure) /\ old.verdict # "unready"
      /\ orders \in Nat
  BY CallParts DEF DeskInv, OrdersOK
<1>2. /\ StepFits(old.errand, old.step, steps, file) /\ HandBefore(old.errand, 1) = "none"
      /\ old.step = 1 /\ file # "enc"
  BY <1>1, FitOf DEF StepFits, StepOf
<1>3. old.hand = "none" BY <1>1, <1>2 DEF StepOK
<1>4. desk' = [desk EXCEPT ![c] = Onward(call)] BY Zenon
<1>5. call \in DeskCall /\ call.step = old.step /\ call.errand = old.errand /\ call.hand = old.hand
      /\ call.name = n /\ call.noted = old.noted /\ call.verdict = old.verdict
  BY <1>1 DEF DeskCall
<1> HIDE DEF call
<1>6. NotedOK(call, evidence, unsure) BY <1>1, <1>3, <1>5, NotedStays
<1> QED BY <1>1, <1>2, <1>3, <1>4, <1>5, <1>6, QuietStep DEF Others

(* The drill picks a backup. *)
LEMMA PickStep == ASSUME DeskInv, NEW c \in Clerks, PickBackup(c) PROVE DeskInv'
<1>1. /\ desk[c].step > 0 /\ StepOf(desk[c]) = "pick"
      /\ UNCHANGED <<evidence, trailSize, orders, issued, unsure, Others>>
  BY DEF PickBackup, At, StepOf
<1>2. Errands[desk[c].errand].file = "zip"
  BY <1>1, CallParts, FitOf DEF StepFits, StepOf
<1>3. CASE desk' = [desk EXCEPT ![c] = [Onward(@) EXCEPT !.step = 3, !.verdict = "excused"]]
  BY <1>1, <1>3, NothingFound
<1>4. ASSUME NEW n \in Zips, desk' = [desk EXCEPT ![c] = Onward([@ EXCEPT !.name = n])]
      PROVE  DeskInv'
  BY <1>1, <1>2, <1>4, SomethingFound DEF Zips
<1> QED BY <1>3, <1>4 DEF PickBackup

(* A reader finds a file. *)
LEMMA FindStep == ASSUME DeskInv, NEW c \in Clerks, FindFile(c) PROVE DeskInv'
<1>1. /\ desk[c].step > 0 /\ StepOf(desk[c]) = "find"
      /\ UNCHANGED <<evidence, trailSize, orders, issued, unsure, Others>>
  BY DEF FindFile, At, StepOf
<1>2. desk[c].name.kind = Errands[desk[c].errand].file
  <2>1. Len(Errands[desk[c].errand].steps) = 3
    BY <1>1, CallParts, FitOf DEF StepFits, StepOf
  <2>2. desk[c].errand # "sealed" BY <2>1, SealedIs
  <2> QED BY <2>2, CallParts
<1>3. CASE desk' = [desk EXCEPT ![c] = [Onward(@) EXCEPT !.step = 3, !.verdict = "excused"]]
  BY <1>1, <1>3, NothingFound
<1>4. ASSUME NEW n \in FileNames, n.kind = desk[c].name.kind, evidence[n].state # "absent",
             desk' = [desk EXCEPT ![c] = Onward([@ EXCEPT !.name = n])]
      PROVE  DeskInv'
  BY <1>1, <1>2, <1>4, SomethingFound
<1> QED BY <1>3, <1>4 DEF FindFile

(* Alerts are posted, or the post fails. *)
LEMMA PostStep == ASSUME DeskInv, NEW c \in Clerks, PostAlerts(c) PROVE DeskInv'
<1> DEFINE old == desk[c]
<1>1. /\ old \in DeskCall /\ StepOK(old) /\ NotedOK(old, evidence, unsure) /\ old.verdict # "unready"
      /\ trailSize \in 0 .. MaxTrail
      /\ \/ old.name.kind = Errands[old.errand].file
         \/ old.errand = "sealed" /\ old.name.kind = "enc"
  BY CallParts
<1>2. /\ old.step > 0 /\ StepOf(old) = "post" /\ orders' = orders /\ orders \in Nat
      /\ UNCHANGED <<deskPlan, evidence, issued, unsure, second, deskCalls, deskKills, trailSize>>
      /\ desk' = [desk EXCEPT ![c] = Idle] \/ desk' = [desk EXCEPT ![c] = Onward(old)]
  BY DEF PostAlerts, At, StepOf, Others, DeskInv, OrdersOK
<1>3. old.hand = "none" BY <1>1, <1>2, FitOf DEF StepFits, StepOf, StepOK
<1>4. CASE desk' = [desk EXCEPT ![c] = Idle]
  <2>1. deskKills \in 0 .. deskPlan.kills /\ unsure \subseteq FileNames /\ issued \subseteq DeskNotes
    BY DEF DeskInv, DeskTypes
  <2>2. \A note \in issued : note.name \notin unsure =>
          \/ StillHolds(note, evidence)
          \/ /\ note \in issued /\ note.name.kind \in OneName
             /\ old.hand # "none" => note.name # old.name
    BY <1>3 DEF DeskInv, IssuedOK
  <2> QED BY <1>1, <1>2, <1>3, <1>4, <2>1, <2>2, CallGone
<1>5. CASE desk' = [desk EXCEPT ![c] = Onward(old)] BY <1>1, <1>2, <1>5, QuietStep
<1> QED BY <1>2, <1>4, <1>5

(* A call opens its file, or has written it: the name is unsure, or no other *)
(* call has it, nothing was said of it but of a file with one name, and it   *)
(* is in order.                                                              *)
LEMMA FileWritten ==
  ASSUME DeskInv, NEW c \in Clerks, NEW call \in DeskCall, desk' = [desk EXCEPT ![c] = call],
         NEW file \in FileRecord, evidence' = [evidence EXCEPT ![desk[c].name] = file],
         UNCHANGED <<deskPlan, trailSize, orders, issued, second, deskCalls, deskKills>>,
         unsure \subseteq unsure', unsure' \subseteq FileNames,
         StepOK(call), HandOK(call, evidence', unsure'),
         call.name = desk[c].name, call.hand # "none", StepOf(call) # "append", file.state # "absent",
         desk[c].name \notin unsure' =>
           /\ \A d \in Clerks \ {c} : desk[d].hand = "none" \/ desk[d].name # desk[c].name
           /\ evidence[desk[c].name].state # "whole" \/ desk[c].name.kind \in OneName
           /\ file.state = "whole" \/ (file.state = "open" /\ call.hand = "open")
  PROVE  DeskInv'
<1> DEFINE name == desk[c].name
<1>1. /\ desk' \in [Clerks -> DeskCall] /\ desk'[c] = call
      /\ \A d \in Clerks \ {c} : desk'[d] = desk[d]
  BY ChangedCall
<1>2. name \in FileNames /\ evidence \in [FileNames -> FileRecord] BY CallParts DEF DeskCall
<1>3. /\ evidence' \in [FileNames -> FileRecord] /\ evidence'[name] = file
      /\ \A n \in FileNames \ {name} : evidence'[n] = evidence[n]
  BY <1>2
<1>4. DeskTypes' BY <1>1, <1>3 DEF DeskInv, DeskTypes
<1>5. ASSUME NEW d \in Clerks \ {c} PROVE HandOK(desk[d], evidence', unsure')
  <2>1. HandOK(desk[d], evidence, unsure) /\ desk[d] \in DeskCall BY CallParts
  <2>2. desk[d].name \in FileNames /\ \A note \in desk[d].noted : note.name \in FileNames
    BY <2>1 DEF DeskCall, DeskNotes
  <2>3. desk[d].hand # "none" /\ desk[d].name \notin unsure' => evidence'[desk[d].name] = evidence[desk[d].name]
    BY <1>3, <2>2
  <2>4. NotedOK(desk[d], evidence', unsure')
    <3> SUFFICES ASSUME NEW note \in desk[d].noted, note.name \notin unsure'
                 PROVE  /\ StillHolds(note, evidence')
                        /\ note.name.kind \in OneName => note.name = desk[d].name /\ desk[d].hand = "closed"
      BY DEF NotedOK
    <3>1. /\ StillHolds(note, evidence)
          /\ note.name.kind \in OneName => note.name = desk[d].name /\ desk[d].hand = "closed"
      BY <2>1 DEF HandOK, NotedOK
    <3>2. note.name # name BY <3>1 DEF StillHolds
    <3> QED BY <1>3, <2>2, <3>1, <3>2 DEF StillHolds
  <2>5. evidence[desk[d].name].state # "absent" => evidence'[desk[d].name].state # "absent"
    BY <1>3, <2>2
  <2> QED BY <2>1, <2>3, <2>4, <2>5 DEF HandOK
<1>6. ClerksOK' BY <1>1, <1>5 DEF DeskInv, ClerksOK
<1>7. Alone' BY <1>1 DEF DeskInv, Alone
<1>8. FilesOK'
  <2> SUFFICES ASSUME NEW n \in FileNames \ unsure'
               PROVE  \/ evidence'[n].state \in {"absent", "whole"}
                      \/ evidence'[n].state = "open" /\ \E d \in Clerks : desk'[d].name = n /\ desk'[d].hand = "open"
    BY DEF FilesOK
  <2>1. CASE n = name BY <1>1, <1>3, <2>1
  <2>2. CASE n # name
    <3>1. \/ evidence[n].state \in {"absent", "whole"}
          \/ evidence[n].state = "open" /\ \E d \in Clerks : desk[d].name = n /\ desk[d].hand = "open"
      BY DEF DeskInv, FilesOK
    <3>2. \A d \in Clerks : desk[d].name = n => desk'[d] = desk[d] BY <1>1, <2>2
    <3> QED BY <1>3, <2>2, <3>1, <3>2
  <2> QED BY <2>1, <2>2
<1>9. IssuedOK'
  <2> SUFFICES ASSUME NEW note \in issued, note.name \notin unsure'
               PROVE  \/ StillHolds(note, evidence')
                      \/ note.name.kind \in OneName
                         /\ \E d \in Clerks : desk'[d].name = note.name /\ desk'[d].hand # "none"
    BY DEF IssuedOK
  <2>1. \/ StillHolds(note, evidence)
        \/ note.name.kind \in OneName
           /\ \E d \in Clerks : desk[d].name = note.name /\ desk[d].hand # "none"
    BY DEF DeskInv, IssuedOK
  <2>2. CASE note.name = name
    <3>1. note.name.kind \in OneName BY <2>1, <2>2 DEF StillHolds
    <3> QED BY <1>1, <2>2, <3>1
  <2>3. CASE note.name # name
    <3>1. note.name \in FileNames BY DEF DeskInv, DeskTypes, DeskNotes
    <3>2. \A d \in Clerks : desk[d].name = note.name => desk'[d] = desk[d] BY <1>1, <2>3
    <3> QED BY <1>3, <2>1, <2>3, <3>1, <3>2 DEF StillHolds
  <2> QED BY <2>2, <2>3
<1>10. OrdersOK' BY OrdersStay
<1> QED BY <1>4, <1>6, <1>7, <1>8, <1>9, <1>10 DEF DeskInv

(* A file is opened: of a name that stays sure no other call has anything to *)
(* say.                                                                      *)
LEMMA OpenStep == ASSUME DeskInv, NEW c \in Clerks, OpenFile(c) PROVE DeskInv'
<1> DEFINE old == desk[c]  name == old.name  call == [old EXCEPT !.hand = "open"]
           next == Onward(call)
           file == [evidence[name] EXCEPT !.state = "open", !.at = second]
<1>1. /\ old \in DeskCall /\ StepOK(old) /\ HandOK(old, evidence, unsure)
      /\ NotedOK(old, evidence, unsure) /\ old.verdict # "unready"
      /\ \/ old.name.kind = Errands[old.errand].file
         \/ old.errand = "sealed" /\ old.name.kind = "enc"
      /\ evidence \in [FileNames -> FileRecord] /\ second \in 0 .. MaxSecond
  BY CallParts
<1>2. /\ old.step > 0 /\ StepOf(old) = "open"
      /\ UNCHANGED <<deskPlan, trailSize, orders, issued, second, deskCalls, deskKills>>
      /\ desk' = [desk EXCEPT ![c] = next]
  BY DEF OpenFile, At, StepOf, Others
<1>3. /\ unsure' = IF OpenedBy(name) # {} \/ (name.kind \notin OneName /\ evidence[name].state # "absent")
                     THEN unsure \cup {name} ELSE unsure
      /\ evidence' = [evidence EXCEPT ![name] = file]
  BY DEF OpenFile
<1>4. name \in FileNames /\ unsure \subseteq FileNames BY <1>1 DEF DeskCall, DeskInv, DeskTypes
<1>5. file \in FileRecord /\ file.state = "open"
  <2>1. evidence[name] \in FileRecord BY <1>1, <1>4
  <2> HIDE DEF name
  <2> QED BY <1>1, <2>1 DEF FileRecord, FileStates
<1>6. old.hand = "none" /\ HandBefore(old.errand, old.step + 1) = "open"
  BY <1>1, <1>2, FitOf DEF StepFits, StepOf, StepOK
<1>7. call \in DeskCall /\ call.step = old.step /\ call.errand = old.errand /\ call.hand = "open"
      /\ call.name = name /\ call.noted = old.noted /\ call.verdict = old.verdict
  BY <1>1 DEF DeskCall
<1> HIDE DEF call
<1>8. /\ next \in DeskCall /\ StepOK(next) /\ next.hand = "open" /\ next.name = name
      /\ next.noted = old.noted /\ StepOf(next) # "append"
      /\ StepOf(next) \notin {"test", "look"}
  BY <1>1, <1>2, <1>6, <1>7, OnwardIs
<1> HIDE DEF next, file
<1>9. /\ evidence'[name] = file
      /\ \A n \in FileNames \ {name} : evidence'[n] = evidence[n]
  BY <1>1, <1>3, <1>4
<1>10. unsure \subseteq unsure' /\ unsure' \subseteq FileNames BY <1>3, <1>4
<1>11. name \notin unsure' =>
         /\ \A d \in Clerks \ {c} : desk[d].hand = "none" \/ desk[d].name # name
         /\ evidence[name].state # "whole" \/ name.kind \in OneName
  BY <1>3 DEF OpenedBy
<1>12. NotedOK(next, evidence', unsure')
  <2> SUFFICES ASSUME NEW note \in old.noted, note.name \notin unsure'
               PROVE  StillHolds(note, evidence') /\ note.name.kind \notin OneName
    BY <1>8 DEF NotedOK
  <2>1. StillHolds(note, evidence) /\ note.name.kind \notin OneName
    BY <1>1, <1>6, <1>10 DEF NotedOK
  <2>2. note.name # name BY <1>11, <2>1 DEF StillHolds
  <2>3. note.name \in FileNames BY <1>1 DEF DeskCall, DeskNotes
  <2> QED BY <1>9, <2>1, <2>2, <2>3 DEF StillHolds
<1>13. HandOK(next, evidence', unsure') BY <1>5, <1>8, <1>9, <1>12 DEF HandOK
<1> QED BY <1>2, <1>3, <1>5, <1>8, <1>10, <1>11, <1>13, FileWritten

(* A file is filled: of a sure name it was open in this call's hands alone,  *)
(* and is whole.                                                             *)
LEMMA FillStep == ASSUME DeskInv, NEW c \in Clerks, FillFile(c) PROVE DeskInv'
<1> DEFINE old == desk[c]  name == old.name
           note == [name |-> name, state |-> "whole", data |-> old.data]
           noted == old.noted \cup {note}
           call == [old EXCEPT !.hand = "closed", !.noted = noted]  next == Onward(call)
<1>1. /\ old \in DeskCall /\ StepOK(old) /\ HandOK(old, evidence, unsure)
      /\ NotedOK(old, evidence, unsure) /\ old.verdict # "unready"
      /\ \/ old.name.kind = Errands[old.errand].file
         \/ old.errand = "sealed" /\ old.name.kind = "enc"
      /\ evidence \in [FileNames -> FileRecord] /\ second \in 0 .. MaxSecond
  BY CallParts
<1>2. /\ old.step > 0 /\ StepOf(old) = "write"
      /\ UNCHANGED <<deskPlan, trailSize, orders, issued, second, deskCalls, deskKills, unsure>>
      /\ desk' = [desk EXCEPT ![c] = next]
  BY DEF FillFile, At, StepOf, Others
<1>3. PICK state \in {"whole", "mixed"} :
        /\ state = "mixed" => evidence[name].state # "open"
        /\ evidence' = [evidence EXCEPT ![name] = [state |-> state, data |-> old.data, at |-> second]]
  BY DEF FillFile
<1> DEFINE file == [state |-> state, data |-> old.data, at |-> second]
<1>4. name \in FileNames /\ unsure \subseteq FileNames /\ old.data \in Contents
  BY <1>1 DEF DeskCall, DeskInv, DeskTypes
<1>5. file \in FileRecord /\ file.state = state /\ file.data = old.data
  BY <1>1, <1>3, <1>4 DEF FileRecord, FileStates
<1>6. old.hand = "open" /\ HandBefore(old.errand, old.step + 1) = "closed"
  BY <1>1, <1>2, FitOf DEF StepFits, StepOf, StepOK
<1>7. note \in DeskNotes /\ note.name = name /\ note.state = "whole" /\ note.data = old.data
  BY <1>4 DEF DeskNotes, FileStates
<1> HIDE DEF note
<1>8. noted \in SUBSET DeskNotes BY <1>1, <1>7 DEF DeskCall
<1>9. call \in DeskCall /\ call.step = old.step /\ call.errand = old.errand /\ call.hand = "closed"
      /\ call.name = name /\ call.noted = noted /\ call.verdict = old.verdict
  BY <1>1, <1>8 DEF DeskCall
<1> HIDE DEF call
<1>10. /\ next \in DeskCall /\ StepOK(next) /\ next.hand = "closed" /\ next.name = name
       /\ next.noted = noted /\ StepOf(next) # "append"
       /\ StepOf(next) \notin {"test", "look"}
  BY <1>1, <1>2, <1>6, <1>9, OnwardIs
<1> HIDE DEF next, file
<1>11. /\ evidence'[name] = file
       /\ \A n \in FileNames \ {name} : evidence'[n] = evidence[n]
  BY <1>1, <1>3, <1>4 DEF file
<1>12. name \notin unsure =>
         /\ \A d \in Clerks \ {c} : desk[d].hand = "none" \/ desk[d].name # name
         /\ evidence[name].state = "open" /\ file.state = "whole"
  <2>1. name \notin unsure => evidence[name].state = "open" BY <1>1, <1>6 DEF HandOK
  <2>2. name \notin unsure => \A d \in Clerks \ {c} : desk[d].hand = "none" \/ desk[d].name # name
    BY <1>6 DEF DeskInv, Alone
  <2> QED BY <1>3, <1>5, <2>1, <2>2
<1>13. NotedOK(next, evidence', unsure)
  <2> SUFFICES ASSUME NEW n \in noted, n.name \notin unsure
               PROVE  /\ StillHolds(n, evidence')
                      /\ n.name.kind \in OneName => n.name = name
    BY <1>10 DEF NotedOK
  <2>1. CASE n = note BY <1>5, <1>7, <1>11, <1>12, <2>1 DEF StillHolds
  <2>2. CASE n # note
    <3>1. n \in old.noted BY <2>2
    <3>2. StillHolds(n, evidence) /\ n.name.kind \notin OneName
      BY <1>1, <1>6, <3>1 DEF NotedOK
    <3>3. n.name # name BY <1>12, <3>2 DEF StillHolds
    <3>4. n.name \in FileNames BY <1>1, <3>1 DEF DeskCall, DeskNotes
    <3> QED BY <1>11, <3>2, <3>3, <3>4 DEF StillHolds
  <2> QED BY <2>1, <2>2
<1>14. HandOK(next, evidence', unsure) BY <1>10, <1>11, <1>12, <1>13 DEF HandOK
<1>15. evidence' = [evidence EXCEPT ![name] = file] BY <1>3 DEF file
<1>16. file.state # "absent" BY <1>3, <1>5
<1> QED BY <1>2, <1>4, <1>5, <1>10, <1>12, <1>14, <1>15, <1>16, FileWritten

(* The archive is left whole, for the file beside it. *)
LEMMA SealStep == ASSUME DeskInv, NEW c \in Clerks, Seal(c) PROVE DeskInv'
<1> DEFINE old == desk[c]  name == [old.name EXCEPT !.kind = "enc"]  data == evidence[old.name].data
           call == [old EXCEPT !.data = data, !.name = name, !.hand = "none"]  next == Onward(call)
<1>1. /\ old \in DeskCall /\ StepOK(old) /\ HandOK(old, evidence, unsure)
      /\ NotedOK(old, evidence, unsure) /\ old.verdict # "unready"
      /\ \/ old.name.kind = Errands[old.errand].file
         \/ old.errand = "sealed" /\ old.name.kind = "enc"
      /\ evidence \in [FileNames -> FileRecord]
  BY CallParts
<1>2. /\ old.step > 0 /\ StepOf(old) = "seal"
      /\ UNCHANGED <<deskPlan, evidence, trailSize, orders, issued, unsure, second, deskCalls, deskKills>>
  BY DEF Seal, At, StepOf, Others
<1>3. desk' = [desk EXCEPT ![c] = next]
  <2>1. desk' = [desk EXCEPT ![c] = Onward([old EXCEPT !.data = data, !.name.kind = "enc", !.hand = "none"])]
    BY DEF Seal
  <2>2. [old EXCEPT !.data = data, !.name.kind = "enc", !.hand = "none"] = call
    BY <1>1 DEF DeskCall, FileNames
  <2> QED BY <2>1, <2>2
<1>4. /\ old.errand = "sealed" /\ old.hand = "closed" /\ HandBefore(old.errand, old.step + 1) = "none"
      /\ old.name.kind \notin OneName
  BY <1>1, <1>2, FitOf, SealedIs DEF StepFits, StepOf, StepOK, OneName
<1>5. old.name \in FileNames BY <1>1 DEF DeskCall
<1>6. name \in FileNames /\ data \in Contents /\ name.kind = "enc"
  BY <1>1, <1>5 DEF FileNames, FileKinds, FileRecord
<1> HIDE DEF name, data
<1>7. call \in DeskCall /\ call.step = old.step /\ call.errand = old.errand /\ call.hand = "none"
      /\ call.name = name /\ call.noted = old.noted /\ call.verdict = old.verdict
  BY <1>1, <1>6 DEF DeskCall
<1> HIDE DEF call
<1>8. /\ next \in DeskCall /\ StepOK(next) /\ next.hand = "none" /\ next.name = name
      /\ next.noted = old.noted /\ StepOf(next) # "append"
      /\ StepOf(next) \notin {"test", "look"}
  BY <1>1, <1>2, <1>4, <1>6, <1>7, OnwardIs
<1> HIDE DEF next
<1>9. HandOK(next, evidence, unsure)
  <2>1. NotedOK(next, evidence, unsure) BY <1>1, <1>4, <1>8 DEF NotedOK
  <2> QED BY <1>8, <2>1 DEF HandOK
<1>10. /\ desk' \in [Clerks -> DeskCall] /\ desk'[c] = next
       /\ \A d \in Clerks \ {c} : desk'[d] = desk[d]
  BY <1>3, <1>8, ChangedCall
<1>11. DeskTypes' BY <1>2, <1>10 DEF DeskInv, DeskTypes
<1>12. ClerksOK' BY <1>2, <1>8, <1>9, <1>10 DEF DeskInv, ClerksOK
<1>13. Alone' BY <1>2, <1>8, <1>10 DEF DeskInv, Alone
<1>14. \A d \in Clerks : desk[d].hand = "open" \/ desk[d].name.kind \in OneName => desk'[d] = desk[d]
  BY <1>4, <1>10
<1>15. FilesOK' BY <1>2, <1>14 DEF DeskInv, FilesOK
<1>16. IssuedOK'
  <2> SUFFICES ASSUME NEW n \in issued, n.name \notin unsure
               PROVE  \/ StillHolds(n, evidence)
                      \/ n.name.kind \in OneName
                         /\ \E d \in Clerks : desk'[d].name = n.name /\ desk'[d].hand # "none"
    BY <1>2 DEF IssuedOK
  <2>1. \/ StillHolds(n, evidence)
        \/ n.name.kind \in OneName
           /\ \E d \in Clerks : desk[d].name = n.name /\ desk[d].hand # "none"
    BY DEF DeskInv, IssuedOK
  <2> QED BY <1>14, <2>1
<1>17. OrdersOK' BY <1>2, <1>3, <1>8, OrdersStay
<1> QED BY <1>11, <1>12, <1>13, <1>15, <1>16, <1>17 DEF DeskInv

(* A call ends, and what it noted is said. *)
LEMMA EndStep == ASSUME DeskInv, NEW c \in Clerks, EndErrand(c) PROVE DeskInv'
<1> DEFINE old == desk[c]
<1>1. /\ old \in DeskCall /\ StepOK(old) /\ NotedOK(old, evidence, unsure)
      /\ \/ old.name.kind = Errands[old.errand].file
         \/ old.errand = "sealed" /\ old.name.kind = "enc"
      /\ trailSize \in 0 .. MaxTrail /\ MaxTrail \in Nat
  BY CallParts
<1>2. /\ old.step > 0 /\ StepOf(old) \in {"log", "note", "answer"}
      /\ UNCHANGED <<deskPlan, evidence, orders, unsure, second, deskCalls, deskKills>>
      /\ desk' = [desk EXCEPT ![c] = Idle]
      /\ issued' = {note \in issued : note.name.kind # "schedule" \/ old.errand # "schedule"}
                     \cup old.noted
  BY DEF EndErrand, At, StepOf, Others
<1>3. trailSize' \in 0 .. MaxTrail
  <2>1. trailSize' = trailSize \/ (trailSize < MaxTrail /\ trailSize' = trailSize + 1)
    BY DEF EndErrand
  <2> QED BY <1>1, <2>1
<1>4. /\ old.hand # "open"
      /\ old.hand # "none" => /\ Errands[old.errand].file # "orders"
                              /\ Errands[old.errand].file = "schedule" => old.errand = "schedule"
  <2>1. StepFits(old.errand, old.step, Errands[old.errand].steps, Errands[old.errand].file)
        /\ old.hand = HandBefore(old.errand, old.step)
    BY <1>1, <1>2, FitOf DEF StepOK
  <2>2. Errands[old.errand].steps[old.step] \in {"log", "note", "answer"} BY <1>2 DEF StepOf
  <2> QED BY <2>1, <2>2 DEF StepFits
<1>5. /\ issued' \subseteq DeskNotes /\ deskKills' \in 0 .. deskPlan.kills
      /\ unsure \subseteq unsure' /\ unsure' \subseteq FileNames
  BY <1>1, <1>2 DEF DeskInv, DeskTypes, DeskCall
<1>6. ASSUME NEW note \in issued', note.name \notin unsure
      PROVE  \/ StillHolds(note, evidence)
             \/ /\ note \in issued /\ note.name.kind \in OneName
                /\ old.hand # "none" => note.name # old.name
  <2>1. CASE note \in old.noted BY <1>1, <1>6, <2>1 DEF NotedOK
  <2>2. CASE note \notin old.noted
    <3>1. note \in issued /\ (note.name.kind # "schedule" \/ old.errand # "schedule")
      BY <1>2, <2>2
    <3>2. StillHolds(note, evidence) \/ note.name.kind \in OneName
      BY <1>6, <3>1 DEF DeskInv, IssuedOK
    <3>3. note.name.kind \in OneName /\ old.hand # "none" => note.name # old.name
      BY <1>1, <1>4, <3>1 DEF OneName
    <3> QED BY <3>1, <3>2, <3>3
  <2> QED BY <2>1, <2>2
<1> QED BY <1>2, <1>3, <1>4, <1>5, <1>6, CallGone

(* A process dies: the name of what it wrote is unsure. *)
LEMMA KillStep == ASSUME DeskInv, NEW c \in Clerks, KillClerk(c) PROVE DeskInv'
<1> DEFINE old == desk[c]
<1>1. /\ old \in DeskCall /\ trailSize \in 0 .. MaxTrail BY CallParts
<1>2. /\ deskKills < deskPlan.kills /\ deskKills' = deskKills + 1
      /\ unsure' = IF old.hand # "none" THEN unsure \cup {old.name} ELSE unsure
      /\ desk' = [desk EXCEPT ![c] = Idle]
      /\ UNCHANGED <<deskPlan, evidence, trailSize, orders, second, deskCalls, issued>>
  BY DEF KillClerk
<1>3. /\ deskKills' \in 0 .. deskPlan.kills /\ unsure \subseteq unsure' /\ unsure' \subseteq FileNames
      /\ issued' \subseteq DeskNotes
  <2>1. /\ deskPlan.kills \in Nat /\ deskKills \in 0 .. deskPlan.kills /\ unsure \subseteq FileNames
        /\ issued \subseteq DeskNotes
    BY PlansAre DEF DeskInv, DeskTypes
  <2> QED BY <1>1, <1>2, <2>1 DEF DeskCall
<1>4. \A note \in issued' : note.name \notin unsure' =>
        \/ StillHolds(note, evidence)
        \/ /\ note \in issued /\ note.name.kind \in OneName
           /\ old.hand # "none" => note.name # old.name
  BY <1>2, <1>3 DEF DeskInv, IssuedOK
<1> QED BY <1>1, <1>2, <1>3, <1>4, CallGone

(* A call begins. *)
LEMMA BeginErrandStep ==
  ASSUME DeskInv, NEW c \in Clerks, NEW role, NEW errand \in deskPlan.errands,
         BeginErrand(c, role, errand)
  PROVE  DeskInv'
<1> DEFINE old == desk[c]
           name == [kind |-> Errands[errand].file,
                    stamp |-> IF Errands[errand].file \in OneName THEN 0 ELSE second]
           data == [Blank EXCEPT !.by = c]
           call == [Idle EXCEPT !.errand = errand, !.step = 1, !.data = data, !.name = name]
<1>1. /\ old \in DeskCall /\ StepOK(old) /\ trailSize \in 0 .. MaxTrail
      /\ second \in 0 .. MaxSecond /\ MaxSecond \in Nat
  BY CallParts
<1>2. /\ old.step = 0 /\ deskCalls < deskPlan.calls /\ deskCalls' = deskCalls + 1
      /\ UNCHANGED <<deskPlan, evidence, trailSize, orders, second, deskKills, issued, unsure>>
  BY DEF BeginErrand
<1>3. errand \in ErrandKinds /\ deskPlan.calls \in Nat /\ deskCalls \in 0 .. deskPlan.calls
  BY PlansAre DEF DeskInv, DeskTypes
<1>4. deskCalls' \in 0 .. deskPlan.calls /\ deskCalls \in Nat BY <1>2, <1>3
<1>5. name \in FileNames /\ name.kind = Errands[errand].file
  BY <1>1, <1>3 DEF FileNames, FileKinds
<1>6. data \in Contents BY IdleIs DEF Contents
<1>7. desk' = [desk EXCEPT ![c] = call]
  <2>1. desk' = [desk EXCEPT ![c] = [Idle EXCEPT !.errand = errand, !.step = 1, !.data.by = c, !.name = name]]
    BY DEF BeginErrand
  <2>2. Idle.data = Blank BY DEF Idle
  <2>3. [Idle EXCEPT !.errand = errand, !.step = 1, !.data.by = c, !.name = name] = call
    BY <2>2, IdleIs DEF DeskCall
  <2> QED BY <2>1, <2>3
<1>8. Idle.noted = {} /\ Idle.hand = "none" /\ Idle.verdict = "none" BY DEF Idle
<1> HIDE DEF name, data
<1>9. call \in DeskCall /\ call.step = 1 /\ call.errand = errand /\ call.hand = "none"
      /\ call.name = name /\ call.noted = {} /\ call.verdict = "none"
  <2>1. 1 \in 0 .. 9 OBVIOUS
  <2>2. Idle \in DeskCall BY IdleIs
  <2>3. call \in DeskCall BY <1>3, <1>5, <1>6, <2>1, <2>2 DEF DeskCall
  <2>4. call.step = 1 /\ call.errand = errand /\ call.name = name BY <2>2 DEF DeskCall
  <2>5. call.hand = Idle.hand /\ call.noted = Idle.noted /\ call.verdict = Idle.verdict
    BY <2>2 DEF DeskCall
  <2> HIDE DEF call
  <2> QED BY <1>8, <2>3, <2>4, <2>5
<1> HIDE DEF call
<1>10. StepsFit(errand) BY <1>3, StepsAreFit
<1>11. StepOK(call)
  <2>1. Len(Errands[errand].steps) \in 1 .. 9 /\ HandBefore(errand, 1) = "none" BY <1>10 DEF StepsFit
  <2>2. 1 <= Len(Errands[errand].steps)
    <3>1. PICK n \in 1 .. 9 : n = Len(Errands[errand].steps) BY <2>1
    <3>2. 1 <= n OBVIOUS
    <3> QED BY <3>1, <3>2
  <2> QED BY <1>5, <1>9, <2>1, <2>2 DEF StepOK
<1>12. HandOK(call, evidence, unsure)
  <2>1. StepOf(call) \notin {"test", "look"}
    <3>1. 1 \in 1 .. Len(Errands[errand].steps) BY <1>10 DEF StepsFit
    <3>2. StepFits(errand, 1, Errands[errand].steps, Errands[errand].file) BY <1>10, <3>1 DEF StepsFit
    <3> QED BY <1>9, <3>2 DEF StepFits, StepOf
  <2> QED BY <1>9, <2>1 DEF HandOK, NotedOK
<1>13. OrdersOK'
  <2>1. /\ desk'[c] = call /\ \A d \in Clerks \ {c} : desk'[d] = desk[d]
    BY <1>7, <1>9, ChangedCall
  <2>2. Appending' \subseteq Appending \cup {c} BY <2>1 DEF Appending
  <2>3. c \notin Appending BY <1>2 DEF Appending
  <2>4. IsFiniteSet(Appending) /\ Cardinality(Appending) \in Nat BY AppendingFinite
  <2>5. /\ IsFiniteSet(Appending \cup {c})
        /\ Cardinality(Appending \cup {c}) = Cardinality(Appending) + 1
    BY <2>3, <2>4, FS_AddElement
  <2>6. Cardinality(Appending') \in Nat /\ Cardinality(Appending') <= Cardinality(Appending) + 1
    BY <2>2, <2>5, FS_Subset, FS_CardinalityType
  <2>7. orders \in Nat /\ orders + Cardinality(Appending) <= deskCalls BY DEF DeskInv, OrdersOK
  <2>8. orders' \in Nat /\ orders' + Cardinality(Appending') <= deskCalls'
    BY <1>2, <1>4, <2>4, <2>6, <2>7
  <2> QED BY <2>8 DEF OrdersOK
<1>14. old.hand = "none" BY <1>1, <1>2 DEF StepOK
<1> QED BY <1>1, <1>2, <1>4, <1>7, <1>9, <1>11, <1>12, <1>13, <1>14, QuietCall

(* Every step keeps the invariant. *)
LEMMA DeskStep == DeskInv /\ [EvidenceNext]_deskVars => DeskInv'
<1> SUFFICES ASSUME DeskInv, [EvidenceNext]_deskVars PROVE DeskInv' OBVIOUS
<1>1. ASSUME NEW c \in Clerks, NEW errand \in deskPlan.errands, NEW role \in Roles,
             BeginErrand(c, role, errand)
      PROVE  DeskInv'
  BY <1>1, BeginErrandStep
<1>2. ASSUME NEW c \in Clerks, ReadTrail(c) PROVE DeskInv' BY <1>2, ReadTrailStep
<1>3. ASSUME NEW c \in Clerks, OpenFile(c) PROVE DeskInv' BY <1>3, OpenStep
<1>4. ASSUME NEW c \in Clerks, FillFile(c) PROVE DeskInv' BY <1>4, FillStep
<1>5. ASSUME NEW c \in Clerks, Digest(c) PROVE DeskInv' BY <1>5, DigestStep
<1>6. ASSUME NEW c \in Clerks, Seal(c) PROVE DeskInv' BY <1>6, SealStep
<1>7. ASSUME NEW c \in Clerks, PickBackup(c) PROVE DeskInv' BY <1>7, PickStep
<1>8. ASSUME NEW c \in Clerks, TestBackup(c) \/ LookAt(c) PROVE DeskInv' BY <1>8, JudgeStep
<1>9. ASSUME NEW c \in Clerks, FindFile(c) PROVE DeskInv' BY <1>9, FindStep
<1>10. ASSUME NEW c \in Clerks, AppendOrder(c) PROVE DeskInv' BY <1>10, AppendOrderStep
<1>11. ASSUME NEW c \in Clerks, PostAlerts(c) PROVE DeskInv' BY <1>11, PostStep
<1>12. ASSUME NEW c \in Clerks, EndErrand(c) PROVE DeskInv' BY <1>12, EndStep
<1>13. ASSUME NEW c \in Clerks, KillClerk(c) PROVE DeskInv' BY <1>13, KillStep
<1>14. CASE NextSecond
  <2>1. second' \in 0 .. MaxSecond
    <3>1. second \in 0 .. MaxSecond /\ MaxSecond \in Nat BY DeskAssumption DEF DeskInv, DeskTypes
    <3> QED BY <1>14, <3>1 DEF NextSecond
  <2>2. UNCHANGED <<deskPlan, desk, evidence, trailSize, orders, deskCalls, deskKills, issued, unsure>>
    BY <1>14 DEF NextSecond
  <2> QED BY <2>1, <2>2 DEF DeskInv, DeskTypes, ClerksOK, Alone, FilesOK, IssuedOK, OrdersOK, Appending
<1>15. CASE UNCHANGED deskVars
  BY <1>15 DEF deskVars, DeskInv, DeskTypes, ClerksOK, Alone, FilesOK, IssuedOK, OrdersOK, Appending
<1> QED
  BY <1>1, <1>2, <1>3, <1>4, <1>5, <1>6, <1>7, <1>8, <1>9, <1>10, <1>11, <1>12, <1>13, <1>14, <1>15
  DEF EvidenceNext

(* The invariant holds of every behaviour. *)
LEMMA DeskInvariant == EvidenceSpec => []DeskInv
BY DeskStarts, DeskStep, PTL DEF EvidenceSpec

(* The evidence routes keep their types. *)
THEOREM EvidenceTypes == EvidenceSpec => []EvidenceTypeOK
BY DeskInvariant, DeskSays, PTL

(* Of every behaviour: a file that an answer or the ledger describes still   *)
(* holds what it says, unless two calls wrote under its name or a process    *)
(* was killed as it wrote (the backup, report and export routes of app.py).  *)
THEOREM FilesAreHeld == EvidenceSpec => []FilesStand
BY DeskInvariant, DeskSays, PTL

(* Of every behaviour: a restore drill that finds a backup unready, or a     *)
(* reader whom a file fails, met one that was being written or whose name    *)
(* was unsure (the restore drill and the readers of app.py).         *)
THEOREM DrillsAreEarned == EvidenceSpec => []DrillsEarned
BY DeskInvariant, DeskSays, PTL

-----------------------------------------------------------------------------
(* The compliance score. *)

(* round() stays between nothing and a hundred, and reaches ninety only from *)
(* eighty-nine and a half.                                                   *)
LEMMA RoundBounds ==
  \A n \in Nat : n <= 10000 =>
    RoundPercent(n) \in 0 .. 100 /\ (RoundPercent(n) >= 90 => n >= 8950)
BY DEF RoundPercent

(* A score is not below zero, and not above what it starts from. *)
LEMMA FloorBounds ==
  ASSUME NEW n \in Int, NEW m \in Nat, n <= m
  PROVE  Floor(n) \in 0 .. m
BY DEF Floor

(* The weights of the score: a weighted sum of four scores is at most the    *)
(* same sum of their bounds.                                                 *)
LEMMA WeightedBounds ==
  ASSUME NEW h \in Int, NEW g \in Int, NEW i \in Int, NEW d \in Int,
         NEW hm \in Int, NEW gm \in Int, NEW im \in Int, NEW dm \in Int,
         0 <= h, h <= hm, 0 <= g, g <= gm, 0 <= i, i <= im, 0 <= d, d <= dm
  PROVE  /\ 35 * h + 35 * g + 20 * i + 10 * d \in Nat
         /\ 35 * h + 35 * g + 20 * i + 10 * d <= 35 * hm + 35 * gm + 20 * im + 10 * dm
<1>1. 35 * h \in Int /\ 0 <= 35 * h /\ 35 * h <= 35 * hm /\ 35 * hm \in Int OBVIOUS
<1>2. 35 * g \in Int /\ 0 <= 35 * g /\ 35 * g <= 35 * gm /\ 35 * gm \in Int OBVIOUS
<1>3. 20 * i \in Int /\ 0 <= 20 * i /\ 20 * i <= 20 * im /\ 20 * im \in Int OBVIOUS
<1>4. 10 * d \in Int /\ 0 <= 10 * d /\ 10 * d <= 10 * dm /\ 10 * dm \in Int OBVIOUS
<1> QED BY <1>1, <1>2, <1>3, <1>4

(* The card of any four readings (compliance_scorer.py): a composite of 0 to *)
(* 100, a badge only with no incident open and the chain whole, and the best *)
(* grade only with the badge and a rule in force.                            *)
LEMMA CardBounds ==
  ASSUME NEW activity, NEW intact \in BOOLEAN, NEW open \in Nat, NEW rules \in Nat
  PROVE  LET card == Card(activity, intact, open, rules) IN
         /\ card.composite \in 0 .. 100 /\ card.grade \in {"A", "B", "C", "D", "F"}
         /\ card.open = open /\ (card.badge <=> open = 0 /\ intact)
         /\ card.grade = "A" => card.badge /\ rules > 0
         /\ card \in [composite : 0 .. 100, grade : {"A", "B", "C", "D", "F"}, open : {open}, badge : BOOLEAN]
<1> DEFINE h == Hipaa(activity, intact, open)
           g == Gdpr(intact, rules, open)
           i == Iso(intact, rules, open)
           d == DpdpScore(open)
           sum == 35 * h + 35 * g + 20 * i + 10 * d
<1>1. h \in 0 .. 90 /\ (open > 0 => h <= 80) /\ (~intact => h <= 50) BY DEF Hipaa, Floor, Off
<1>2. g \in 0 .. 100 /\ (open > 0 => g <= 92) /\ (~intact => g <= 65) /\ (rules < 1 => g <= 80)
  BY DEF Gdpr, Floor, Off
<1>3. i \in 0 .. 80 /\ (rules < 1 => i <= 65) BY DEF Iso, Floor, Off
<1>4. d \in 0 .. 100 /\ (open > 0 => d <= 85) BY DEF DpdpScore, Floor
<1> HIDE DEF h, g, i, d
<1>5. sum \in 0 .. 10000 /\ (open > 0 \/ ~intact \/ rules < 1 => sum < 8950)
  <2>1. /\ h \in Int /\ 0 <= h /\ h <= 90 /\ g \in Int /\ 0 <= g /\ g <= 100
        /\ i \in Int /\ 0 <= i /\ i <= 80 /\ d \in Int /\ 0 <= d /\ d <= 100
    BY <1>1, <1>2, <1>3, <1>4
  <2>2. sum \in Nat /\ sum <= 35 * 90 + 35 * 100 + 20 * 80 + 10 * 100 BY <2>1, WeightedBounds
  <2>3. ASSUME open > 0 PROVE sum <= 35 * 80 + 35 * 92 + 20 * 80 + 10 * 100
    BY <1>1, <1>2, <2>1, <2>3, WeightedBounds
  <2>4. ASSUME ~intact PROVE sum <= 35 * 50 + 35 * 65 + 20 * 80 + 10 * 100
    BY <1>1, <1>2, <2>1, <2>4, WeightedBounds
  <2>5. ASSUME rules < 1 PROVE sum <= 35 * 90 + 35 * 80 + 20 * 65 + 10 * 100
    BY <1>2, <1>3, <2>1, <2>5, WeightedBounds
  <2> HIDE DEF sum
  <2>6. sum \in 0 .. 10000 BY <2>2
  <2>7. ASSUME open > 0 PROVE sum < 8950 BY <2>2, <2>3, <2>7
  <2>8. ASSUME ~intact PROVE sum < 8950 BY <2>2, <2>4, <2>8
  <2>9. ASSUME rules < 1 PROVE sum < 8950 BY <2>2, <2>5, <2>9
  <2> QED BY <2>6, <2>7, <2>8, <2>9
<1> HIDE DEF sum
<1>6. PICK s \in Nat : s = sum /\ s <= 10000 BY <1>5
<1>7. RoundPercent(s) \in 0 .. 100 /\ (RoundPercent(s) >= 90 => s >= 8950) BY <1>6, RoundBounds
<1>8. Card(activity, intact, open, rules) =
        [composite |-> RoundPercent(s), grade |-> Grade(RoundPercent(s)), open |-> open,
         badge |-> open = 0 /\ intact]
  BY <1>6 DEF Card, sum, h, g, i, d
<1>9. /\ Grade(RoundPercent(s)) \in {"A", "B", "C", "D", "F"}
      /\ Grade(RoundPercent(s)) = "A" => RoundPercent(s) >= 90
  BY <1>7 DEF Grade
<1>10. Grade(RoundPercent(s)) = "A" => open = 0 /\ intact /\ rules > 0 BY <1>5, <1>6, <1>7, <1>9
<1>11. (open = 0 /\ intact) \in BOOLEAN OBVIOUS
<1> DEFINE badge == open = 0 /\ intact
<1>12. badge \in BOOLEAN /\ (badge <=> open = 0 /\ intact) BY Zenon
<1>13. Card(activity, intact, open, rules) =
         [composite |-> RoundPercent(s), grade |-> Grade(RoundPercent(s)), open |-> open,
          badge |-> badge]
  BY <1>8, Zenon
<1> HIDE DEF badge
<1> QED BY <1>7, <1>9, <1>10, <1>12, <1>13

(* A line more is one pending incident more, or none. *)
LEMMA PendingAppend ==
  ASSUME NEW lines \in Seq(Statuses), NEW status \in Statuses
  PROVE  /\ Append(lines, status) \in Seq(Statuses)
         /\ Pending(lines) \in Nat /\ Pending(lines) <= Len(lines)
         /\ Pending(Append(lines, status)) =
              Pending(lines) + (IF status = "PENDING_SUBMISSION" THEN 1 ELSE 0)
<1> DEFINE old == {n \in DOMAIN lines : lines[n] = "PENDING_SUBMISSION"}
           new == {n \in DOMAIN Append(lines, status) : Append(lines, status)[n] = "PENDING_SUBMISSION"}
<1>1. old \in SUBSET (1 .. Len(lines)) /\ Len(lines) \in Nat OBVIOUS
<1>2. IsFiniteSet(1 .. Len(lines)) /\ Cardinality(1 .. Len(lines)) = Len(lines) BY <1>1, FS_Interval
<1>3. IsFiniteSet(old) /\ Cardinality(old) \in Nat /\ Cardinality(old) <= Len(lines)
  BY <1>1, <1>2, FS_Subset, FS_CardinalityType
<1>4. Len(lines) + 1 \notin old BY <1>1
<1>5. new = IF status = "PENDING_SUBMISSION" THEN old \cup {Len(lines) + 1} ELSE old
  <2>1. Len(Append(lines, status)) = Len(lines) + 1 OBVIOUS
  <2>2. \A n \in 1 .. Len(lines) : Append(lines, status)[n] = lines[n] OBVIOUS
  <2>3. Append(lines, status)[Len(lines) + 1] = status OBVIOUS
  <2>4. DOMAIN Append(lines, status) = 1 .. Len(lines) + 1 /\ DOMAIN lines = 1 .. Len(lines) OBVIOUS
  <2> QED BY <2>2, <2>3, <2>4
<1>6. Cardinality(new) = Cardinality(old) + (IF status = "PENDING_SUBMISSION" THEN 1 ELSE 0)
  <2> HIDE DEF old, new
  <2>1. Cardinality(old \cup {Len(lines) + 1}) = Cardinality(old) + 1 BY <1>3, <1>4, FS_AddElement
  <2>2. CASE status = "PENDING_SUBMISSION" BY <1>5, <2>1, <2>2
  <2>3. CASE status # "PENDING_SUBMISSION" BY <1>3, <1>5, <2>3
  <2> QED BY <2>2, <2>3
<1>7. Pending(lines) = Cardinality(old) /\ Pending(Append(lines, status)) = Cardinality(new)
  BY DEF Pending
<1>8. Append(lines, status) \in Seq(Statuses) OBVIOUS
<1> HIDE DEF old, new
<1> QED BY <1>3, <1>6, <1>7, <1>8

(* The file of incidents. *)
IncidentRecord == [lines : Seq(Statuses), begun : BOOLEAN, garbled : BOOLEAN, count : 0 .. MaxIncidents]

(* What the ledger and the policy engine hold. *)
AffairsRecord == [activity : Activities, intact : BOOLEAN, rules : RuleCounts, count : 0 .. MaxAffairs]

(* What an answer says. *)
CardRecord == [composite : 0 .. 100, grade : {"A", "B", "C", "D", "F"},
               open : 0 .. MaxIncidents + 2, badge : BOOLEAN]

(* The call of an assessor. *)
ScoreCall ==
  [step : {"idle", "stats", "chain", "incidents", "rules", "answered", "failed"},
   activity : Activities, intact : BOOLEAN, open : 0 .. MaxIncidents + 2,
   toldBefore : 0 .. MaxIncidents + 2, everIntact : BOOLEAN, everRuled : BOOLEAN, card : CardRecord]

(* The officers that have half written a line. *)
Filers == {o \in Officers : filing[o] # "none"}

(* While no line is garbled, the file's pending incidents are the ones that  *)
(* were told; and each line begun leaves room for its end.                   *)
LogOK ==
  /\ incidentLog \in IncidentRecord /\ filing \in [Officers -> Statuses \cup {"none"}]
  /\ told \in Nat /\ told + Cardinality(Filers) <= incidentLog.count + 2
  /\ ~incidentLog.garbled => told = Pending(incidentLog.lines)

(* A call remembers what it met: what is so now, it has met, unless it is    *)
(* over; what it read was so when it read it.                                *)
CallOK(call, reported, now) ==
  /\ call \in ScoreCall
  /\ call.toldBefore <= reported
  /\ call.step \notin {"idle", "answered", "failed"} =>
       /\ now.intact => call.everIntact
       /\ now.rules > 0 => call.everRuled
  /\ call.step \in {"incidents", "rules"} /\ call.intact => call.everIntact
  /\ call.step = "rules" => call.open >= call.toldBefore
  /\ call.step = "answered" =>
       /\ call.card.open >= call.toldBefore
       /\ call.card.badge => call.toldBefore = 0 /\ call.everIntact
       /\ call.card.grade = "A" => call.card.badge /\ call.everRuled

(* Inductive: the file has what was told, and every call what it met. *)
ComplianceInv ==
  /\ LogOK
  /\ affairs \in AffairsRecord /\ scores \in 0 .. MaxScores
  /\ assessment \in [Assessors -> ScoreCall]
  /\ \A a \in Assessors : CallOK(assessment[a], told, affairs)

(* The parts of the invariant, one by one. *)
LEMMA ComplianceParts ==
  ASSUME LogOK
  PROVE  /\ incidentLog.lines \in Seq(Statuses) /\ incidentLog.begun \in BOOLEAN
         /\ incidentLog.garbled \in BOOLEAN /\ incidentLog.count \in 0 .. MaxIncidents
         /\ told \in 0 .. MaxIncidents + 2
         /\ IsFiniteSet(Filers) /\ Cardinality(Filers) \in Nat
<1>1. /\ incidentLog.lines \in Seq(Statuses) /\ incidentLog.begun \in BOOLEAN
      /\ incidentLog.garbled \in BOOLEAN /\ incidentLog.count \in 0 .. MaxIncidents
  BY DEF LogOK, IncidentRecord
<1>2. IsFiniteSet(Filers) /\ Cardinality(Filers) \in Nat
  BY ComplianceAssumption, FS_Subset, FS_CardinalityType DEF Filers
<1>3. MaxIncidents \in Nat BY ComplianceAssumption
<1>4. told \in 0 .. MaxIncidents + 2 BY <1>1, <1>2, <1>3 DEF LogOK
<1> QED BY <1>1, <1>2, <1>4

(* The invariant gives the types and the property. *)
LEMMA ComplianceSays == ComplianceInv => ComplianceTypeOK /\ GradesEarned
<1> SUFFICES ASSUME ComplianceInv PROVE ComplianceTypeOK /\ GradesEarned OBVIOUS
<1>1. ComplianceTypeOK
  BY ComplianceParts DEF ComplianceInv, ComplianceTypeOK, LogOK, AffairsRecord, ScoreCall, CardRecord
<1>2. GradesEarned BY DEF ComplianceInv, CallOK, GradesEarned
<1> QED BY <1>1, <1>2

(* The call of an assessor who serves none has its type. *)
LEMMA NoScoreIs == NoScore \in ScoreCall
<1>1. MaxIncidents \in Nat BY ComplianceAssumption
<1>2. NoCard \in CardRecord BY <1>1 DEF NoCard, CardRecord
<1> QED BY <1>1, <1>2 DEF NoScore, ScoreCall, Activities

(* It holds at the start, with incidents of an earlier day or none. *)
LEMMA ComplianceStarts == ComplianceInit => ComplianceInv
<1> SUFFICES ASSUME ComplianceInit PROVE ComplianceInv OBVIOUS
<1>1. {MaxIncidents, MaxAffairs, MaxScores} \subseteq Nat BY ComplianceAssumption
<1>2. PICK lines \in {<< >>, <<"PENDING_SUBMISSION", "PENDING_SUBMISSION">>} :
        /\ incidentLog = [lines |-> lines, begun |-> FALSE, garbled |-> FALSE, count |-> 0]
        /\ told = Len(lines)
  BY DEF ComplianceInit
<1>3. lines \in Seq(Statuses) /\ Len(lines) \in 0 .. 2
  <2>1. CASE lines = << >> BY <2>1
  <2>2. CASE lines = <<"PENDING_SUBMISSION", "PENDING_SUBMISSION">>
    <3>1. "PENDING_SUBMISSION" \in Statuses BY DEF Statuses
    <3>2. Len(lines) = 2 BY <2>2
    <3> QED BY <2>2, <3>1, <3>2
  <2> QED BY <2>1, <2>2
<1>4. Pending(lines) = Len(lines)
  <2>1. {n \in DOMAIN lines : lines[n] = "PENDING_SUBMISSION"} = 1 .. Len(lines)
    <3>1. CASE lines = << >> BY <3>1
    <3>2. CASE lines = <<"PENDING_SUBMISSION", "PENDING_SUBMISSION">>
      <4>1. Len(lines) = 2 /\ DOMAIN lines = 1 .. 2 BY <3>2
      <4>2. \A n \in 1 .. 2 : lines[n] = "PENDING_SUBMISSION" BY <3>2
      <4> QED BY <4>1, <4>2
    <3> QED BY <3>1, <3>2
  <2>2. Len(lines) = 0 \/ (Len(lines) \in Nat /\ Len(lines) >= 1) BY <1>3
  <2>3. Cardinality(1 .. Len(lines)) = Len(lines)
    <3>1. Len(lines) \in Int BY <1>3
    <3>2. Cardinality(1 .. Len(lines)) = IF 1 > Len(lines) THEN 0 ELSE Len(lines) - 1 + 1
      BY <3>1, FS_Interval
    <3> QED BY <1>3, <3>2
  <2> QED BY <2>1, <2>3 DEF Pending
<1>5. incidentLog \in IncidentRecord BY <1>1, <1>2, <1>3 DEF IncidentRecord
<1>6. filing \in [Officers -> Statuses \cup {"none"}] /\ Filers = {} BY DEF ComplianceInit, Filers
<1>7. Cardinality(Filers) = 0 BY <1>6, FS_EmptySet
<1>8. LogOK BY <1>2, <1>3, <1>4, <1>5, <1>6, <1>7 DEF LogOK
<1>9. affairs \in AffairsRecord BY <1>1 DEF ComplianceInit, AffairsRecord, Activities, RuleCounts
<1>10. assessment \in [Assessors -> ScoreCall] /\ \A a \in Assessors : assessment[a] = NoScore
  BY NoScoreIs DEF ComplianceInit
<1>11. CallOK(NoScore, told, affairs)
  <2>1. NoScore.step = "idle" /\ NoScore.toldBefore = 0 BY DEF NoScore
  <2>2. 0 <= told BY <1>2, <1>3
  <2> QED BY <2>1, <2>2, NoScoreIs DEF CallOK
<1>12. scores \in 0 .. MaxScores BY <1>1 DEF ComplianceInit
<1> QED BY <1>8, <1>9, <1>10, <1>11, <1>12 DEF ComplianceInv

(* An officer begins a line. *)
LEMMA FilersAdd ==
  ASSUME LogOK, NEW o \in Officers, NEW status \in Statuses, filing[o] = "none",
         filing' = [filing EXCEPT ![o] = status]
  PROVE  filing' \in [Officers -> Statuses \cup {"none"}]
         /\ Cardinality(Filers') = Cardinality(Filers) + 1
<1>1. filing \in [Officers -> Statuses \cup {"none"}] BY DEF LogOK
<1>2. status # "none" BY DEF Statuses
<1>3. Filers' = Filers \cup {o} /\ o \notin Filers BY <1>1, <1>2 DEF Filers
<1> QED BY <1>1, <1>3, ComplianceParts, FS_AddElement

(* An officer ends a line, or dies. *)
LEMMA FilersRemove ==
  ASSUME LogOK, NEW o \in Officers, filing[o] # "none", filing' = [filing EXCEPT ![o] = "none"]
  PROVE  filing' \in [Officers -> Statuses \cup {"none"}]
         /\ Cardinality(Filers') = Cardinality(Filers) - 1
<1>1. filing \in [Officers -> Statuses \cup {"none"}] BY DEF LogOK
<1>2. Filers' = Filers \ {o} /\ o \in Filers BY <1>1 DEF Filers
<1> QED BY <1>1, <1>2, ComplianceParts, FS_RemoveElement

(* A log that was changed, put together from its parts. *)
LEMMA LogWith ==
  ASSUME incidentLog \in IncidentRecord, incidentLog.count < MaxIncidents
  PROVE  /\ \A garbled \in BOOLEAN, begun \in BOOLEAN :
              LET log == [incidentLog EXCEPT !.garbled = garbled, !.begun = begun, !.count = @ + 1]
              IN  log \in IncidentRecord /\ log.garbled = garbled /\ log.lines = incidentLog.lines
                  /\ log.count = incidentLog.count + 1
         /\ LET log == [incidentLog EXCEPT !.garbled = TRUE, !.count = @ + 1]
            IN  log \in IncidentRecord /\ log.garbled /\ log.lines = incidentLog.lines
                /\ log.count = incidentLog.count + 1
         /\ \A lines \in Seq(Statuses) :
              LET log == [incidentLog EXCEPT !.lines = lines, !.count = @ + 1]
              IN  log \in IncidentRecord /\ log.garbled = incidentLog.garbled /\ log.lines = lines
                  /\ log.count = incidentLog.count + 1
<1>1. MaxIncidents \in Nat BY ComplianceAssumption
<1>2. PICK count \in 0 .. MaxIncidents : count = incidentLog.count + 1 BY <1>1 DEF IncidentRecord
<1>3. TRUE \in BOOLEAN OBVIOUS
<1> QED BY <1>2, <1>3 DEF IncidentRecord

(* Every step keeps the file and its officers. *)
LEMMA IncidentsStep ==
  ASSUME LogOK, [ComplianceNext]_complianceVars
  PROVE  LogOK' /\ told' >= told
<1>1. /\ incidentLog \in IncidentRecord
      /\ incidentLog.lines \in Seq(Statuses) /\ incidentLog.begun \in BOOLEAN
      /\ incidentLog.garbled \in BOOLEAN /\ incidentLog.count \in 0 .. MaxIncidents
      /\ filing \in [Officers -> Statuses \cup {"none"}]
      /\ told \in Nat /\ MaxIncidents \in Nat
      /\ IsFiniteSet(Filers) /\ Cardinality(Filers) \in Nat
      /\ told + Cardinality(Filers) <= incidentLog.count + 2
      /\ ~incidentLog.garbled => told = Pending(incidentLog.lines)
  BY ComplianceParts, ComplianceAssumption DEF LogOK
<1>2. CASE UNCHANGED <<incidentLog, filing, told>>
  BY <1>1, <1>2 DEF LogOK, Filers
<1>3. ASSUME NEW o \in Officers, NEW status \in Statuses, Report(o, status)
      PROVE  LogOK' /\ told' >= told
  <2>1. incidentLog.count < MaxIncidents /\ filing' = filing BY <1>3 DEF Report
  <2>2. told' = told + (IF status = "PENDING_SUBMISSION" THEN 1 ELSE 0)
    BY <1>1, <1>3 DEF Report, Told
  <2>3. CASE incidentLog.begun
    <3>1. incidentLog' = [incidentLog EXCEPT !.garbled = TRUE, !.count = @ + 1]
      BY <1>1, <1>3, <2>3 DEF Report, Appended, IncidentRecord
    <3>2. incidentLog' \in IncidentRecord /\ incidentLog'.garbled
          /\ incidentLog'.count = incidentLog.count + 1
      BY <1>1, <2>1, <3>1, LogWith
    <3>3. Filers' = Filers BY <2>1 DEF Filers
    <3> QED BY <1>1, <2>1, <2>2, <3>2, <3>3 DEF LogOK
  <2>4. CASE ~incidentLog.begun
    <3> DEFINE lines == Append(incidentLog.lines, status)
    <3>1. incidentLog' = [incidentLog EXCEPT !.lines = lines, !.count = @ + 1]
      BY <1>1, <1>3, <2>4 DEF Report, Appended, IncidentRecord
    <3>2. lines \in Seq(Statuses) /\ Pending(lines) =
            Pending(incidentLog.lines) + (IF status = "PENDING_SUBMISSION" THEN 1 ELSE 0)
      BY <1>1, PendingAppend
    <3> HIDE DEF lines
    <3>3. incidentLog' \in IncidentRecord /\ incidentLog'.garbled = incidentLog.garbled
          /\ incidentLog'.count = incidentLog.count + 1 /\ incidentLog'.lines = lines
      BY <1>1, <2>1, <3>1, <3>2, LogWith
    <3>4. Filers' = Filers BY <2>1 DEF Filers
    <3>5. ~incidentLog'.garbled => told' = Pending(lines) BY <1>1, <2>2, <3>2, <3>3
    <3>6. (~incidentLog.garbled => told = Pending(incidentLog.lines))' BY <3>3, <3>5 DEF Pending
    <3> QED BY <1>1, <2>1, <2>2, <3>3, <3>4, <3>6 DEF LogOK
  <2> QED BY <2>3, <2>4
<1>4. ASSUME NEW o \in Officers, NEW status \in Statuses, BeginReport(o, status)
      PROVE  LogOK' /\ told' >= told
  <2>1. incidentLog.count < MaxIncidents /\ filing[o] = "none" /\ told' = told
        /\ filing' = [filing EXCEPT ![o] = status]
    BY <1>4 DEF BeginReport
  <2>2. filing' \in [Officers -> Statuses \cup {"none"}]
        /\ Cardinality(Filers') = Cardinality(Filers) + 1
    BY <2>1, FilersAdd
  <2>3. incidentLog' = [incidentLog EXCEPT !.garbled = @ \/ incidentLog.begun, !.begun = TRUE,
                                           !.count = @ + 1]
    BY <1>4 DEF BeginReport
  <2>4. (incidentLog.garbled \/ incidentLog.begun) \in BOOLEAN OBVIOUS
  <2>5. incidentLog' \in IncidentRecord /\ incidentLog'.count = incidentLog.count + 1
        /\ incidentLog'.lines = incidentLog.lines
    BY <1>1, <2>1, <2>3, <2>4, LogWith
  <2>6. incidentLog.garbled => incidentLog'.garbled BY <1>1, <2>3 DEF IncidentRecord
  <2>7. (~incidentLog.garbled => told = Pending(incidentLog.lines))' BY <1>1, <2>1, <2>5, <2>6 DEF Pending
  <2> QED BY <1>1, <2>1, <2>2, <2>5, <2>7 DEF LogOK
<1>5. ASSUME NEW o \in Officers, EndReport(o) PROVE LogOK' /\ told' >= told
  <2>1. filing[o] # "none" /\ filing' = [filing EXCEPT ![o] = "none"] /\ filing[o] \in Statuses
    BY <1>1, <1>5 DEF EndReport
  <2>2. told' = told + (IF filing[o] = "PENDING_SUBMISSION" THEN 1 ELSE 0)
    BY <1>1, <1>5 DEF EndReport, Told
  <2>3. filing' \in [Officers -> Statuses \cup {"none"}]
        /\ Cardinality(Filers') = Cardinality(Filers) - 1
    BY <2>1, FilersRemove
  <2>4. CASE incidentLog.garbled
    <3>1. incidentLog' = incidentLog BY <1>5, <2>4 DEF EndReport
    <3> QED BY <1>1, <2>2, <2>3, <2>4, <3>1 DEF LogOK
  <2>5. CASE ~incidentLog.garbled
    <3> DEFINE lines == Append(incidentLog.lines, filing[o])
    <3>1. incidentLog' = [incidentLog EXCEPT !.begun = FALSE, !.lines = lines]
      BY <1>5, <2>5 DEF EndReport
    <3>2. lines \in Seq(Statuses) /\ Pending(lines) =
            Pending(incidentLog.lines) + (IF filing[o] = "PENDING_SUBMISSION" THEN 1 ELSE 0)
      BY <1>1, <2>1, PendingAppend
    <3> HIDE DEF lines
    <3>3. incidentLog' \in IncidentRecord /\ incidentLog'.garbled = incidentLog.garbled
          /\ incidentLog'.count = incidentLog.count /\ incidentLog'.lines = lines
      BY <1>1, <3>1, <3>2 DEF IncidentRecord
    <3>4. told' = Pending(lines) BY <1>1, <2>2, <2>5, <3>2
    <3>5. (~incidentLog.garbled => told = Pending(incidentLog.lines))' BY <3>3, <3>4 DEF Pending
    <3> QED BY <1>1, <2>2, <2>3, <3>3, <3>5 DEF LogOK
  <2> QED BY <2>4, <2>5
<1>6. ASSUME NEW o \in Officers, KillOfficer(o) PROVE LogOK' /\ told' >= told
  <2>1. filing[o] # "none" /\ filing' = [filing EXCEPT ![o] = "none"]
        /\ incidentLog' = incidentLog /\ told' = told
    BY <1>6 DEF KillOfficer
  <2>2. filing' \in [Officers -> Statuses \cup {"none"}]
        /\ Cardinality(Filers') = Cardinality(Filers) - 1
    BY <2>1, FilersRemove
  <2> QED BY <1>1, <2>1, <2>2 DEF LogOK
<1>7. CASE UNCHANGED complianceVars BY <1>2, <1>7 DEF complianceVars
<1> QED
  BY <1>2, <1>3, <1>4, <1>5, <1>6, <1>7
  DEF ComplianceNext, LedgerGrows, LedgerTurns, ReloadRules, Become, BeginScore, ReadStats, VerifyTrail,
      CountIncidents, CountRules, Assessed

(* Every step keeps the calls. *)
LEMMA CallsStep ==
  ASSUME ComplianceInv, [ComplianceNext]_complianceVars
  PROVE  /\ affairs' \in AffairsRecord /\ scores' \in 0 .. MaxScores
         /\ assessment' \in [Assessors -> ScoreCall]
         /\ \A a \in Assessors : CallOK(assessment'[a], told', affairs')
<1>1. /\ affairs \in AffairsRecord /\ scores \in 0 .. MaxScores
      /\ assessment \in [Assessors -> ScoreCall] /\ LogOK
      /\ {MaxIncidents, MaxAffairs, MaxScores} \subseteq Nat
      /\ \A a \in Assessors : CallOK(assessment[a], told, affairs)
  BY ComplianceAssumption DEF ComplianceInv
<1>2. told \in 0 .. MaxIncidents + 2 /\ told' \in Nat /\ told' >= told
  BY <1>1, ComplianceParts, IncidentsStep DEF LogOK
<1>3. ASSUME NEW call, CallOK(call, told, affairs)
      PROVE  CallOK(call, told', affairs)
  <2>1. call.toldBefore \in Nat BY <1>1, <1>3 DEF CallOK, ScoreCall
  <2>2. call.toldBefore <= told' BY <1>2, <1>3, <2>1 DEF CallOK
  <2> QED BY <1>3, <2>2 DEF CallOK
<1>4. CASE UNCHANGED <<affairs, assessment, scores>> BY <1>1, <1>3, <1>4
<1>5. ASSUME NEW now \in AffairsRecord, Become(now), now.count = affairs.count
      PROVE  /\ affairs' \in AffairsRecord /\ scores' \in 0 .. MaxScores
             /\ assessment' \in [Assessors -> ScoreCall]
             /\ \A a \in Assessors : CallOK(assessment'[a], told', affairs')
  <2>1. affairs.count < MaxAffairs /\ affairs' = [now EXCEPT !.count = @ + 1] /\ assessment' = Met(now)
        /\ told' = told /\ scores' = scores
    BY <1>5 DEF Become
  <2>2. now.count + 1 \in 0 .. MaxAffairs BY <1>1, <1>5, <2>1 DEF AffairsRecord
  <2>3. affairs' \in AffairsRecord /\ affairs'.intact = now.intact /\ affairs'.rules = now.rules
    BY <2>1, <2>2 DEF AffairsRecord
  <2>4. ASSUME NEW a \in Assessors
        PROVE  assessment'[a] \in ScoreCall /\ CallOK(assessment'[a], told', affairs')
    <3> DEFINE call == assessment[a]
               met == [call EXCEPT !.everIntact = @ \/ now.intact, !.everRuled = @ \/ now.rules > 0]
    <3>1. call \in ScoreCall /\ CallOK(call, told, affairs) BY <1>1
    <3>2. CASE call.step \in {"answered", "failed"}
      <4>1. assessment'[a] = call BY <2>1, <3>2 DEF Met
      <4> QED BY <2>1, <3>1, <3>2, <4>1 DEF CallOK
    <3>3. CASE call.step \notin {"answered", "failed"}
      <4>1. assessment'[a] = met BY <2>1, <3>3 DEF Met
      <4>2. PICK i \in BOOLEAN, r \in BOOLEAN :
              /\ met = [call EXCEPT !.everIntact = i, !.everRuled = r]
              /\ call.everIntact => i
              /\ now.intact => i
              /\ now.rules > 0 => r
        BY Zenon DEF ScoreCall
      <4> HIDE DEF met, call
      <4>3. met \in ScoreCall BY <3>1, <4>2 DEF ScoreCall
      <4>4. met.step = call.step /\ met.intact = call.intact /\ met.everIntact = i /\ met.everRuled = r
            /\ met.open = call.open /\ met.toldBefore = call.toldBefore
        BY <3>1, <4>2 DEF ScoreCall
      <4>5. CallOK(met, told', affairs')
        BY <2>1, <2>3, <3>1, <3>3, <4>2, <4>3, <4>4 DEF CallOK
      <4> QED BY <4>1, <4>3, <4>5
    <3> QED BY <3>2, <3>3
  <2>5. assessment' \in [Assessors -> ScoreCall] BY <2>1, <2>4 DEF Met
  <2> QED BY <1>1, <2>1, <2>3, <2>4, <2>5
<1>6. ASSUME NEW activity \in Activities, LedgerGrows(activity)
      PROVE  /\ affairs' \in AffairsRecord /\ scores' \in 0 .. MaxScores
             /\ assessment' \in [Assessors -> ScoreCall]
             /\ \A a \in Assessors : CallOK(assessment'[a], told', affairs')
  <2> DEFINE now == [affairs EXCEPT !.activity = activity]
  <2>1. now \in AffairsRecord /\ now.count = affairs.count BY <1>1 DEF AffairsRecord
  <2>2. Become(now) BY <1>6 DEF LedgerGrows
  <2> QED BY <1>5, <2>1, <2>2
<1>7. ASSUME LedgerTurns
      PROVE  /\ affairs' \in AffairsRecord /\ scores' \in 0 .. MaxScores
             /\ assessment' \in [Assessors -> ScoreCall]
             /\ \A a \in Assessors : CallOK(assessment'[a], told', affairs')
  <2> DEFINE now == [affairs EXCEPT !.intact = ~@]
  <2>1. now \in AffairsRecord /\ now.count = affairs.count BY <1>1 DEF AffairsRecord
  <2>2. Become(now) BY <1>7 DEF LedgerTurns
  <2> QED BY <1>5, <2>1, <2>2
<1>8. ASSUME NEW rules \in RuleCounts, ReloadRules(rules)
      PROVE  /\ affairs' \in AffairsRecord /\ scores' \in 0 .. MaxScores
             /\ assessment' \in [Assessors -> ScoreCall]
             /\ \A a \in Assessors : CallOK(assessment'[a], told', affairs')
  <2> DEFINE now == [affairs EXCEPT !.rules = rules]
  <2>1. now \in AffairsRecord /\ now.count = affairs.count BY <1>1 DEF AffairsRecord
  <2>2. Become(now) BY <1>8 DEF ReloadRules
  <2> QED BY <1>5, <2>1, <2>2
<1>9. ASSUME NEW a \in Assessors, NEW call, CallOK(call, told, affairs),
             assessment' = [assessment EXCEPT ![a] = call], scores' \in 0 .. MaxScores,
             UNCHANGED <<incidentLog, filing, told, affairs>>
      PROVE  /\ affairs' \in AffairsRecord /\ scores' \in 0 .. MaxScores
             /\ assessment' \in [Assessors -> ScoreCall]
             /\ \A b \in Assessors : CallOK(assessment'[b], told', affairs')
  <2>1. call \in ScoreCall BY <1>9 DEF CallOK
  <2>2. \A b \in Assessors : assessment'[b] = IF b = a THEN call ELSE assessment[b] BY <1>1, <1>9
  <2>3. assessment' \in [Assessors -> ScoreCall] BY <1>1, <1>9, <2>1
  <2> QED BY <1>1, <1>9, <2>2, <2>3
<1>10. ASSUME NEW a \in Assessors, BeginScore(a)
       PROVE  /\ affairs' \in AffairsRecord /\ scores' \in 0 .. MaxScores
              /\ assessment' \in [Assessors -> ScoreCall]
              /\ \A b \in Assessors : CallOK(assessment'[b], told', affairs')
  <2> DEFINE call == [NoScore EXCEPT !.step = "stats", !.toldBefore = told,
                        !.everIntact = affairs.intact, !.everRuled = affairs.rules > 0]
  <2>1. assessment' = [assessment EXCEPT ![a] = call] /\ scores' = scores + 1 /\ scores < MaxScores
        /\ UNCHANGED <<incidentLog, filing, told, affairs>>
    BY <1>10, Zenon DEF BeginScore
  <2>2. PICK r \in BOOLEAN : (affairs.rules > 0) = r /\ (affairs.rules > 0 => r)
    <3>1. affairs.rules \in Int BY <1>1 DEF AffairsRecord, RuleCounts
    <3>2. (affairs.rules > 0) \in BOOLEAN BY <3>1, SMT
    <3> QED BY <3>2, Zenon
  <2>3. call = [NoScore EXCEPT !.step = "stats", !.toldBefore = told, !.everIntact = affairs.intact,
                               !.everRuled = r]
    BY <2>2, Zenon
  <2> HIDE DEF call
  <2>4. call \in ScoreCall BY <1>1, <1>2, <2>3, NoScoreIs DEF ScoreCall, AffairsRecord
  <2>5. call.step = "stats" /\ call.toldBefore = told /\ call.everIntact = affairs.intact
        /\ call.everRuled = r
    BY <2>3, NoScoreIs DEF ScoreCall
  <2>6. CallOK(call, told, affairs) BY <1>2, <2>2, <2>4, <2>5 DEF CallOK
  <2>7. scores' \in 0 .. MaxScores BY <1>1, <2>1
  <2> QED BY <1>9, <2>1, <2>6, <2>7
<1>11. ASSUME NEW a \in Assessors, ReadStats(a)
       PROVE  /\ affairs' \in AffairsRecord /\ scores' \in 0 .. MaxScores
              /\ assessment' \in [Assessors -> ScoreCall]
              /\ \A b \in Assessors : CallOK(assessment'[b], told', affairs')
  <2> DEFINE old == assessment[a]
             call == [old EXCEPT !.step = "chain", !.activity = affairs.activity]
  <2>1. old.step = "stats" /\ assessment' = [assessment EXCEPT ![a] = call]
        /\ UNCHANGED <<incidentLog, filing, told, affairs, scores>>
    BY <1>11 DEF ReadStats, Assessed
  <2>2. old \in ScoreCall /\ CallOK(old, told, affairs) BY <1>1
  <2> HIDE DEF old
  <2>3. call \in ScoreCall /\ call.step = "chain" /\ call.toldBefore = old.toldBefore
        /\ call.everIntact = old.everIntact /\ call.everRuled = old.everRuled
    BY <1>1, <2>2 DEF ScoreCall, AffairsRecord
  <2> HIDE DEF call
  <2>4. CallOK(call, told, affairs) BY <2>1, <2>2, <2>3 DEF CallOK
  <2> QED BY <1>1, <1>9, <2>1, <2>4
<1>12. ASSUME NEW a \in Assessors, VerifyTrail(a)
       PROVE  /\ affairs' \in AffairsRecord /\ scores' \in 0 .. MaxScores
              /\ assessment' \in [Assessors -> ScoreCall]
              /\ \A b \in Assessors : CallOK(assessment'[b], told', affairs')
  <2> DEFINE old == assessment[a]
             call == [old EXCEPT !.step = "incidents", !.intact = affairs.intact]
  <2>1. old.step = "chain" /\ assessment' = [assessment EXCEPT ![a] = call]
        /\ UNCHANGED <<incidentLog, filing, told, affairs, scores>>
    BY <1>12 DEF VerifyTrail, Assessed
  <2>2. old \in ScoreCall /\ CallOK(old, told, affairs) BY <1>1
  <2> HIDE DEF old
  <2>3. call \in ScoreCall /\ call.step = "incidents" /\ call.toldBefore = old.toldBefore
        /\ call.everIntact = old.everIntact /\ call.everRuled = old.everRuled
        /\ call.intact = affairs.intact
    BY <1>1, <2>2 DEF ScoreCall, AffairsRecord
  <2> HIDE DEF call
  <2>4. CallOK(call, told, affairs) BY <2>1, <2>2, <2>3 DEF CallOK
  <2> QED BY <1>1, <1>9, <2>1, <2>4
<1>13. ASSUME NEW a \in Assessors, CountIncidents(a)
       PROVE  /\ affairs' \in AffairsRecord /\ scores' \in 0 .. MaxScores
              /\ assessment' \in [Assessors -> ScoreCall]
              /\ \A b \in Assessors : CallOK(assessment'[b], told', affairs')
  <2> DEFINE old == assessment[a]
             over == [old EXCEPT !.step = "failed"]
             onward == [old EXCEPT !.step = "rules", !.open = told]
  <2>1. old.step = "incidents" /\ UNCHANGED <<incidentLog, filing, told, affairs, scores>>
    BY <1>13 DEF CountIncidents, Assessed
  <2>2. old \in ScoreCall /\ CallOK(old, told, affairs) BY <1>1
  <2>3. CASE incidentLog.begun \/ incidentLog.garbled
    <3>1. assessment' = [assessment EXCEPT ![a] = over] BY <1>13, <2>3 DEF CountIncidents, Assessed
    <3> HIDE DEF old
    <3>2. over \in ScoreCall /\ over.step = "failed" /\ over.toldBefore = old.toldBefore
      BY <2>2 DEF ScoreCall
    <3> HIDE DEF over
    <3>3. CallOK(over, told, affairs) BY <2>2, <3>2 DEF CallOK
    <3> QED BY <1>1, <1>9, <2>1, <3>1, <3>3
  <2>4. CASE ~(incidentLog.begun \/ incidentLog.garbled)
    <3>1. told = Pending(incidentLog.lines) BY <1>1, <2>4 DEF LogOK
    <3>2. assessment' = [assessment EXCEPT ![a] = onward]
      BY <1>13, <2>4, <3>1 DEF CountIncidents, Assessed
    <3> HIDE DEF old
    <3>3. onward \in ScoreCall /\ onward.step = "rules" /\ onward.toldBefore = old.toldBefore
          /\ onward.everIntact = old.everIntact /\ onward.everRuled = old.everRuled
          /\ onward.intact = old.intact /\ onward.open = told
      BY <1>2, <2>2 DEF ScoreCall
    <3> HIDE DEF onward
    <3>4. old.toldBefore \in Nat /\ old.toldBefore <= told BY <1>1, <2>2 DEF CallOK, ScoreCall
    <3>5. CallOK(onward, told, affairs) BY <1>2, <2>1, <2>2, <3>3, <3>4 DEF CallOK
    <3> QED BY <1>1, <1>9, <2>1, <3>2, <3>5
  <2> QED BY <2>3, <2>4
<1>14. ASSUME NEW a \in Assessors, CountRules(a)
       PROVE  /\ affairs' \in AffairsRecord /\ scores' \in 0 .. MaxScores
              /\ assessment' \in [Assessors -> ScoreCall]
              /\ \A b \in Assessors : CallOK(assessment'[b], told', affairs')
  <2> DEFINE old == assessment[a]
             card == Card(old.activity, old.intact, old.open, affairs.rules)
             call == [old EXCEPT !.step = "answered", !.card = card]
  <2>1. old.step = "rules" /\ assessment' = [assessment EXCEPT ![a] = call]
        /\ UNCHANGED <<incidentLog, filing, told, affairs, scores>>
    BY <1>14 DEF CountRules, Assessed
  <2>2. old \in ScoreCall /\ CallOK(old, told, affairs) BY <1>1
  <2>3. old.intact \in BOOLEAN /\ old.open \in 0 .. MaxIncidents + 2 /\ old.open \in Nat
        /\ affairs.rules \in Nat
    BY <1>1, <2>2 DEF ScoreCall, AffairsRecord, RuleCounts
  <2>4. /\ card.composite \in 0 .. 100 /\ card.grade \in {"A", "B", "C", "D", "F"}
        /\ card.open = old.open /\ (card.badge <=> old.open = 0 /\ old.intact)
        /\ card.grade = "A" => card.badge /\ affairs.rules > 0
        /\ card \in [composite : 0 .. 100, grade : {"A", "B", "C", "D", "F"}, open : {old.open},
                     badge : BOOLEAN]
    BY <2>3, CardBounds
  <2> HIDE DEF card
  <2>5. card \in CardRecord BY <2>3, <2>4 DEF CardRecord
  <2> HIDE DEF old
  <2>6. call \in ScoreCall /\ call.step = "answered" /\ call.toldBefore = old.toldBefore
        /\ call.everIntact = old.everIntact /\ call.everRuled = old.everRuled /\ call.card = card
    BY <2>2, <2>5 DEF ScoreCall
  <2> HIDE DEF call
  <2>7. old.toldBefore \in Nat BY <1>1, <2>2 DEF ScoreCall
  <2>8. /\ old.open >= old.toldBefore
        /\ old.intact => old.everIntact
        /\ affairs.rules > 0 => old.everRuled
        /\ old.toldBefore <= told
    BY <2>1, <2>2 DEF CallOK
  <2>9. card.open = old.open /\ (card.badge => old.open = 0 /\ old.intact) BY <2>4, Zenon
  <2>10. call.card = card /\ call.toldBefore = old.toldBefore /\ call.everIntact = old.everIntact
    BY <2>6
  <2>11. call.card.open >= call.toldBefore BY <2>8, <2>9, <2>10
  <2>12. call.card.badge => call.toldBefore = 0 /\ call.everIntact BY <2>3, <2>7, <2>8, <2>9, <2>10
  <2>13. call.card.grade = "A" => call.card.badge /\ call.everRuled BY <2>4, <2>6, <2>8
  <2>14. CallOK(call, told, affairs) BY <2>6, <2>8, <2>11, <2>12, <2>13 DEF CallOK
  <2> QED BY <1>1, <1>9, <2>1, <2>14
<1>15. CASE UNCHANGED complianceVars BY <1>4, <1>15 DEF complianceVars
<1> QED
  BY <1>4, <1>6, <1>7, <1>8, <1>10, <1>11, <1>12, <1>13, <1>14, <1>15
  DEF ComplianceNext, Report, BeginReport, EndReport, KillOfficer

(* Every step keeps the invariant. *)
LEMMA ComplianceStep == ComplianceInv /\ [ComplianceNext]_complianceVars => ComplianceInv'
<1> SUFFICES ASSUME ComplianceInv, [ComplianceNext]_complianceVars PROVE ComplianceInv' OBVIOUS
<1>1. LogOK' BY IncidentsStep DEF ComplianceInv
<1> QED BY <1>1, CallsStep DEF ComplianceInv

(* The compliance score keeps its types. *)
LEMMA ComplianceTypes == ComplianceSpec => []ComplianceTypeOK
<1>1. ComplianceSpec => []ComplianceInv BY ComplianceStarts, ComplianceStep, PTL DEF ComplianceSpec
<1> QED BY <1>1, ComplianceSays, PTL

(* Of every behaviour: an answer of GET /compliance/score leaves out no      *)
(* incident reported before the call, and the best grade is given only where *)
(* the chain was whole and a rule in force at some moment of the call        *)
(* (compliance_scorer.py, app.py).                                           *)
THEOREM GradesAreEarned == ComplianceSpec => []GradesEarned
<1>1. ComplianceSpec => []ComplianceInv BY ComplianceStarts, ComplianceStep, PTL DEF ComplianceSpec
<1> QED BY <1>1, ComplianceSays, PTL

-----------------------------------------------------------------------------
(* The services together. *)

(* The shield of the services run by ShieldSpec. *)
LEMMA ShieldRuns == Spec => ShieldSpec
<1>1. Init => ShieldInit BY DEF Init
<1>2. [Next]_services => [ShieldNext]_shieldVars
  <2> SUFFICES ASSUME [Next]_services PROVE [ShieldNext]_shieldVars OBVIOUS
  <2>1. CASE UNCHANGED services BY <2>1 DEF services
  <2>2. CASE Next /\ part = "shield" BY <2>2 DEF Next
  <2>3. CASE Next /\ part # "shield" BY <2>3 DEF Next, StandStill
  <2> QED BY <2>1, <2>2, <2>3
<1> QED BY <1>1, <1>2, PTL DEF Spec, ShieldSpec

(* The license of the services run by LicenseSpec. *)
LEMMA LicenseRuns == Spec => LicenseSpec
<1>1. Init => LicenseInit BY DEF Init
<1>2. [Next]_services => [LicenseNext]_licenseVars
  <2> SUFFICES ASSUME [Next]_services PROVE [LicenseNext]_licenseVars OBVIOUS
  <2>1. CASE UNCHANGED services BY <2>1 DEF services
  <2>2. CASE Next /\ part = "license" BY <2>2 DEF Next
  <2>3. CASE Next /\ part # "license" BY <2>3 DEF Next, StandStill
  <2> QED BY <2>1, <2>2, <2>3
<1> QED BY <1>1, <1>2, PTL DEF Spec, LicenseSpec

(* The consent of the services run by ConsentSpec. *)
LEMMA ConsentRuns == Spec => ConsentSpec
<1>1. Init => ConsentInit BY DEF Init
<1>2. [Next]_services => [ConsentNext]_consentVars
  <2> SUFFICES ASSUME [Next]_services PROVE [ConsentNext]_consentVars OBVIOUS
  <2>1. CASE UNCHANGED services BY <2>1 DEF services
  <2>2. CASE Next /\ part = "consent" BY <2>2 DEF Next
  <2>3. CASE Next /\ part # "consent" BY <2>3 DEF Next, StandStill
  <2> QED BY <2>1, <2>2, <2>3
<1> QED BY <1>1, <1>2, PTL DEF Spec, ConsentSpec

(* The detector of the services run by DetectorSpec. *)
LEMMA DetectorRuns == Spec => DetectorSpec
<1>1. Init => DetectorInit BY DEF Init
<1>2. [Next]_services => [DetectorNext]_detectorVars
  <2> SUFFICES ASSUME [Next]_services PROVE [DetectorNext]_detectorVars OBVIOUS
  <2>1. CASE UNCHANGED services BY <2>1 DEF services
  <2>2. CASE Next /\ part = "detector" BY <2>2 DEF Next
  <2>3. CASE Next /\ part # "detector" BY <2>3 DEF Next, StandStill
  <2> QED BY <2>1, <2>2, <2>3
<1> QED BY <1>1, <1>2, PTL DEF Spec, DetectorSpec

(* The caches of the services run by CachesSpec. *)
LEMMA CachesRuns == Spec => CachesSpec
<1>1. Init => CachesInit BY DEF Init
<1>2. [Next]_services => [CachesNext]_cacheVars
  <2> SUFFICES ASSUME [Next]_services PROVE [CachesNext]_cacheVars OBVIOUS
  <2>1. CASE UNCHANGED services BY <2>1 DEF services
  <2>2. CASE Next /\ part = "caches" BY <2>2 DEF Next
  <2>3. CASE Next /\ part # "caches" BY <2>3 DEF Next, StandStill
  <2> QED BY <2>1, <2>2, <2>3
<1> QED BY <1>1, <1>2, PTL DEF Spec, CachesSpec

(* The keys of the services run by AccessKeysSpec. *)
LEMMA AccessKeysRuns == Spec => AccessKeysSpec
<1>1. Init => AccessKeysInit BY DEF Init
<1>2. [Next]_services => [AccessKeysNext]_keyVars
  <2> SUFFICES ASSUME [Next]_services PROVE [AccessKeysNext]_keyVars OBVIOUS
  <2>1. CASE UNCHANGED services BY <2>1 DEF services
  <2>2. CASE Next /\ part = "keys" BY <2>2 DEF Next
  <2>3. CASE Next /\ part # "keys" BY <2>3 DEF Next, StandStill
  <2> QED BY <2>1, <2>2, <2>3
<1> QED BY <1>1, <1>2, PTL DEF Spec, AccessKeysSpec

(* The accounts of the services run by AccountsSpec. *)
LEMMA AccountsRuns == Spec => AccountsSpec
<1>1. Init => AccountsInit BY DEF Init
<1>2. [Next]_services => [AccountsNext]_accountVars
  <2> SUFFICES ASSUME [Next]_services PROVE [AccountsNext]_accountVars OBVIOUS
  <2>1. CASE UNCHANGED services BY <2>1 DEF services
  <2>2. CASE Next /\ part = "accounts" BY <2>2 DEF Next
  <2>3. CASE Next /\ part # "accounts" BY <2>3 DEF Next, StandStill
  <2> QED BY <2>1, <2>2, <2>3
<1> QED BY <1>1, <1>2, PTL DEF Spec, AccountsSpec

(* The risk engine of the services run by RiskSpec. *)
LEMMA RiskRuns == Spec => RiskSpec
<1>1. Init => RiskInit BY DEF Init
<1>2. [Next]_services => [RiskNext]_riskVars
  <2> SUFFICES ASSUME [Next]_services PROVE [RiskNext]_riskVars OBVIOUS
  <2>1. CASE UNCHANGED services BY <2>1 DEF services
  <2>2. CASE Next /\ part = "risk" BY <2>2 DEF Next
  <2>3. CASE Next /\ part # "risk" BY <2>3 DEF Next, StandStill
  <2> QED BY <2>1, <2>2, <2>3
<1> QED BY <1>1, <1>2, PTL DEF Spec, RiskSpec

(* The compliance score of the services run by ComplianceSpec. *)
LEMMA ComplianceRuns == Spec => ComplianceSpec
<1>1. Init => ComplianceInit BY DEF Init
<1>2. [Next]_services => [ComplianceNext]_complianceVars
  <2> SUFFICES ASSUME [Next]_services PROVE [ComplianceNext]_complianceVars OBVIOUS
  <2>1. CASE UNCHANGED services BY <2>1 DEF services
  <2>2. CASE Next /\ part = "compliance" BY <2>2 DEF Next
  <2>3. CASE Next /\ part # "compliance" BY <2>3 DEF Next, StandStill
  <2> QED BY <2>1, <2>2, <2>3
<1> QED BY <1>1, <1>2, PTL DEF Spec, ComplianceSpec

(* The evidence routes of the services run by EvidenceSpec. *)
LEMMA DeskRuns == Spec => EvidenceSpec
<1>1. Init => EvidenceInit BY DEF Init
<1>2. [Next]_services => [EvidenceNext]_deskVars
  <2> SUFFICES ASSUME [Next]_services PROVE [EvidenceNext]_deskVars OBVIOUS
  <2>1. CASE UNCHANGED services BY <2>1 DEF services
  <2>2. CASE Next /\ part = "desk" BY <2>2 DEF Next
  <2>3. CASE Next /\ part # "desk" BY <2>3 DEF Next, StandStill
  <2> QED BY <2>1, <2>2, <2>3
<1> QED BY <1>1, <1>2, PTL DEF Spec, EvidenceSpec

(* The gateway of the services run by GatewaySpec. *)
LEMMA GatewayRuns == Spec => GatewaySpec
<1>1. Init => GatewayInit BY DEF Init
<1>2. [Next]_services => [GatewayNext]_gatewayVars
  <2> SUFFICES ASSUME [Next]_services PROVE [GatewayNext]_gatewayVars OBVIOUS
  <2>1. CASE UNCHANGED services BY <2>1 DEF services
  <2>2. CASE Next /\ part = "gateway" BY <2>2 DEF Next
  <2>3. CASE Next /\ part # "gateway" BY <2>3 DEF Next, StandStill
  <2> QED BY <2>1, <2>2, <2>3
<1> QED BY <1>1, <1>2, PTL DEF Spec, GatewaySpec

(* The webhooks of the services run by WebhooksSpec. *)
LEMMA WebhooksRuns == Spec => WebhooksSpec
<1>1. Init => WebhooksInit BY DEF Init
<1>2. [Next]_services => [WebhooksNext]_webhookVars
  <2> SUFFICES ASSUME [Next]_services PROVE [WebhooksNext]_webhookVars OBVIOUS
  <2>1. CASE UNCHANGED services BY <2>1 DEF services
  <2>2. CASE Next /\ part = "webhooks" BY <2>2 DEF Next
  <2>3. CASE Next /\ part # "webhooks" BY <2>3 DEF Next, StandStill
  <2> QED BY <2>1, <2>2, <2>3
<1> QED BY <1>1, <1>2, PTL DEF Spec, WebhooksSpec

(* The vault monitor of the services run by MonitorSpec. *)
LEMMA MonitorRuns == Spec => MonitorSpec
<1>1. Init => MonitorInit BY DEF Init
<1>2. [Next]_services => [MonitorNext]_monitorVars
  <2> SUFFICES ASSUME [Next]_services PROVE [MonitorNext]_monitorVars OBVIOUS
  <2>1. CASE UNCHANGED services BY <2>1 DEF services
  <2>2. CASE Next /\ part = "monitor" BY <2>2 DEF Next
  <2>3. CASE Next /\ part # "monitor" BY <2>3 DEF Next, StandStill
  <2> QED BY <2>1, <2>2, <2>3
<1> QED BY <1>1, <1>2, PTL DEF Spec, MonitorSpec

(* What was withdrawn of a key stays withdrawn, no request is served on a key *)
(* that was withdrawn or expired when it was presented, a password that was   *)
(* handed out opens its account and someone can administer, in the services   *)
(* together.                                                                  *)
THEOREM AccessIsHeld == Spec => []AccessHolds
<1>1. WithdrawalsHold /\ KeysOpen /\ PasswordsTold /\ AdministratorTold => AccessHolds BY DEF AccessHolds
<1> QED
  BY <1>1, AccessKeysRuns, AccountsRuns, WithdrawalsStay, SpentKeysOpenNothing, PasswordsOpen,
     SomeoneAdministers, PTL

(* What an answer or the ledger says of a file is true of it, what is read *)
(* back is whole and a grade is earned, in the services together.           *)
THEOREM EvidenceIsHeld == Spec => []EvidenceStands
<1>1. FilesStand /\ DrillsEarned /\ GradesEarned => EvidenceStands BY DEF EvidenceStands
<1> QED
  BY <1>1, DeskRuns, ComplianceRuns, FilesAreHeld, DrillsAreEarned, GradesAreEarned, PTL

(* The shapes of the license server's state give its types. *)
LEMMA LicenseTyped == LicenseInv => LicenseTypeOK
<1> SUFFICES ASSUME LicenseInv PROVE LicenseTypeOK OBVIOUS
<1>1. LicenseShape BY DEF LicenseInv
<1>2. ASSUME NEW f \in Registers PROVE IsRegister(f) BY DEF Registers, IsRegister
<1>3. licenseFile.whole \in BOOLEAN /\ IsRegister(licenseFile.records) BY <1>1, <1>2 DEF LicenseShape
<1>4. \A c \in LicenseCalls :
        /\ licenseCall[c].op \in {"none", "issue", "activate", "revoke"}
        /\ licenseCall[c].step \in {"idle", "load", "truncate", "write"}
        /\ licenseCall[c].record \in Records /\ IsRegister(licenseCall[c].all)
        /\ licenseCall[c].stale \in BOOLEAN
  BY <1>1, <1>2 DEF LicenseShape, CallRecord
<1> QED BY <1>1, <1>3, <1>4 DEF LicenseShape, LicenseTypeOK, PromiseRecord

(* So do those of the consent register. *)
LEMMA ConsentTyped == ConsentInv => ConsentTypeOK
<1> SUFFICES ASSUME ConsentInv PROVE ConsentTypeOK OBVIOUS
<1>1. ConsentShape BY DEF ConsentInv
<1>2. \A v \in Revokers :
        /\ revoking[v].id \in 0 .. MaxDecisions /\ revoking[v].lines \in Seq(Decisions)
        /\ revoking[v].step \in {"idle", "truncate", "write"}
  BY <1>1 DEF ConsentShape, Revocation
<1> QED BY <1>1, <1>2 DEF ConsentShape, ConsentTypeOK

(* One service runs, and always the same. *)
LEMMA PartStays == Spec => [](part \in Parts)
<1>1. Init => part \in Parts BY DEF Init
<1>2. part \in Parts /\ [Next]_services => (part \in Parts)' BY DEF Next, services
<1> QED BY <1>1, <1>2, PTL DEF Spec

(* The files, the registers and the caches have their types. *)
LEMMA RecordsTyped ==
  Spec => [](ShieldTypeOK /\ LicenseTypeOK /\ ConsentTypeOK /\ DetectorTypeOK /\ CachesTypeOK /\ RiskTypeOK)
<1>1. ShieldSpec => []ShieldTypeOK
  <2>1. ShieldInv => ShieldTypeOK BY DEF ShieldInv
  <2> QED BY <2>1, ShieldInitOK, ShieldStep, PTL DEF ShieldSpec
<1>2. LicenseSpec => []LicenseTypeOK
  BY LicenseTyped, LicenseInitOK, LicenseStep, PTL DEF LicenseSpec
<1>3. ConsentSpec => []ConsentTypeOK
  BY ConsentTyped, ConsentInitOK, ConsentStep, PTL DEF ConsentSpec
<1>4. DetectorSpec => []DetectorTypeOK
  <2>1. DetectorInv => DetectorTypeOK BY DEF DetectorInv
  <2> QED BY <2>1, DetectorInitOK, DetectorStep, PTL DEF DetectorSpec
<1>5. CachesSpec => []CachesTypeOK
  <2>1. CachesInv => CachesTypeOK BY DEF CachesInv
  <2> QED BY <2>1, CachesInitOK, CachesStep, PTL DEF CachesSpec
<1> QED
  BY <1>1, <1>2, <1>3, <1>4, <1>5, RiskTypes, ShieldRuns, LicenseRuns, ConsentRuns, DetectorRuns,
     CachesRuns, RiskRuns, PTL

(* So have keys and accounts. *)
LEMMA AccessTyped == Spec => [](AccessKeysTypeOK /\ AccountsTypeOK)
<1>1. AccessKeysSpec => []AccessKeysTypeOK
  <2>1. KeysInv => AccessKeysTypeOK BY DEF KeysInv
  <2> QED BY <2>1, KeysInit, KeysStep, PTL DEF AccessKeysSpec
<1>2. AccountsSpec => []AccountsTypeOK
  <2>1. AccountsInv => AccountsTypeOK BY DEF AccountsInv
  <2> QED BY <2>1, AccountsInitOK, AccountsStep, PTL DEF AccountsSpec
<1> QED BY <1>1, <1>2, AccessKeysRuns, AccountsRuns, PTL

(* So have the hooks and the vault monitor. *)
LEMMA FilesTyped == Spec => [](WebhooksTypeOK /\ MonitorTypeOK)
<1>1. MonitorInv => MonitorTypeOK BY DEF MonitorInv
<1> QED
  BY <1>1, WebhooksTyped, DeliveryInvariant, MonitorInvariant, WebhooksRuns, MonitorRuns, PTL

(* Whichever service runs, its state has its types, for all values of the    *)
(* constants of every service.                                               *)
THEOREM ServicesAreTyped == Spec => []ServicesTypeOK
<1>1. /\ part \in Parts
      /\ ShieldTypeOK /\ LicenseTypeOK /\ ConsentTypeOK /\ DetectorTypeOK /\ CachesTypeOK /\ RiskTypeOK
      /\ AccessKeysTypeOK /\ AccountsTypeOK /\ WebhooksTypeOK /\ MonitorTypeOK
      /\ GatewayTypeOK /\ EvidenceTypeOK /\ ComplianceTypeOK
      => ServicesTypeOK
  BY DEF ServicesTypeOK
<1> QED
  BY <1>1, PartStays, RecordsTyped, AccessTyped, FilesTyped, GatewayTypes, GatewayRuns, EvidenceTypes,
     DeskRuns, ComplianceTypes, ComplianceRuns, PTL

(* What is proved of each service holds of all of them in one backend: the   *)
(* gateway's routes, the engines and registers, the files, the evidence and  *)
(* the access that the modules above are about.                              *)
THEOREM ServicesHold ==
  Spec => [](/\ BlockedStaysUnsent /\ AskedHotStaysLocal /\ SentIsRecorded /\ ReviewsEarned
             /\ ReviewsExact /\ LimitsExact /\ LicensesTrue /\ RevocationSticks /\ LoopsBounded
             /\ CachesFresh /\ RegistryKept /\ DeliveriesKept
             /\ ArchiveSealed /\ NoneForgotten /\ MailsBounded /\ AccessHolds /\ EvidenceStands)
<1>1. Spec => [](BlockedStaysUnsent /\ AskedHotStaysLocal /\ SentIsRecorded /\ ReviewsEarned)
  BY GatewayRuns, BlockedStays, HotStaysLocal, AnswersAreRecorded, ReviewsAreEarned, PTL
<1>2. Spec => [](ReviewsExact /\ LimitsExact /\ LicensesTrue /\ RevocationSticks)
  BY RiskRuns, ReviewsAreExact, ShieldRuns, LimitsAreExact, LicenseRuns, LicensesAreTrue, ConsentRuns,
     RevocationsStick, PTL
<1>3. Spec => [](LoopsBounded /\ CachesFresh)
  BY DetectorRuns, LoopsAreBounded, CachesRuns, CachesStayFresh, PTL
<1>4. Spec => [](RegistryKept /\ DeliveriesKept)
  BY WebhooksRuns, RegistryIsKept, DeliveriesAreKept, PTL
<1>5. Spec => [](ArchiveSealed /\ NoneForgotten /\ MailsBounded)
  BY MonitorRuns, ArchiveIsSealed, NoneIsForgotten, MailsAreBounded, PTL
<1> QED BY <1>1, <1>2, <1>3, <1>4, <1>5, AccessIsHeld, EvidenceIsHeld, PTL
=============================================================================
