----------------------------- MODULE AccessKeys -----------------------------
(***************************************************************************)
(* The API keys of backend/app.py: administrators create, change and       *)
(* revoke them, applications present them to the proxy.  A request reads   *)
(* the key's row, and commits later: the session writes the columns whose  *)
(* value differs from the one it read, and no others.                      *)
(***************************************************************************)
EXTENDS Naturals, Access

CONSTANTS
  ApiKeys, KeyAdmins, Apps,
  DefaultDays,                      \* 365 days, in ticks
  MaxKeyTime, MaxKeyChanges, MaxInspections  \* bounds

ASSUME KeysAssumption ==
  ApiKeys # {} /\ DefaultDays \in Nat \ {0} /\ {MaxKeyTime, MaxKeyChanges, MaxInspections} \subseteq Nat

VARIABLES
  keyRow,       \* the table api_keys
  keyAdmin,     \* the change each administrator has under way
  app,          \* the inspection each application has under way, and whether its key was
                \* spent, withdrawn or expired, before it was presented
  keyTime,      \* the clock
  keyChanges, inspections,  \* changes and inspections begun so far
  revoked     \* the columns of each key that were answered to be off, with nothing
                \* asked since, or at the same time, that would put them on again

keyVars == <<keyRow, keyAdmin, app, keyTime, keyChanges, inspections, revoked>>

-----------------------------------------------------------------------------
(* Whether the key is active, and whether its scopes let the proxy be used. *)
Columns == {"active", "scope"}

(* The changes of the routes: PATCH leaves out what it does not change, DELETE *)
(* only takes the key out of use.                                          *)
KeyChanges == [Columns -> {"keep", "on", "off"}] \ {[c \in Columns |-> "keep"]}
NoChange == [c \in Columns |-> "keep"]

NoKey == [issued |-> FALSE, active |-> FALSE, scope |-> FALSE, expires |-> 0]
NoKeyChange == [busy |-> FALSE, key |-> CHOOSE k \in ApiKeys : TRUE, change |-> NoChange,
              read |-> NoKey, alone |-> {}]

NoCaller == [phase |-> "idle", spent |-> FALSE]

AccessKeysTypeOK ==
  /\ keyRow \in [ApiKeys -> [issued : BOOLEAN, active : BOOLEAN, scope : BOOLEAN,
                             expires : 0 .. MaxKeyTime + DefaultDays]]
  /\ keyAdmin \in [KeyAdmins -> [busy : BOOLEAN, key : ApiKeys,
                                 change : KeyChanges \cup {NoChange},
                                 read : [issued : BOOLEAN, active : BOOLEAN, scope : BOOLEAN,
                                         expires : 0 .. MaxKeyTime + DefaultDays],
                                 alone : SUBSET Columns]]
  /\ app \in [Apps -> [phase : {"idle", "admitted", "inspecting"}, spent : BOOLEAN]]
  /\ keyTime \in 0 .. MaxKeyTime
  /\ keyChanges \in 0 .. MaxKeyChanges /\ inspections \in 0 .. MaxInspections
  /\ revoked \in [ApiKeys -> SUBSET Columns]

AccessKeysInit ==
  /\ keyRow = [k \in ApiKeys |-> NoKey]
  /\ keyAdmin = [a \in KeyAdmins |-> NoKeyChange]
  /\ app = [p \in Apps |-> NoCaller]
  /\ keyTime = 0 /\ keyChanges = 0 /\ inspections = 0
  /\ revoked = [k \in ApiKeys |-> {}]

(* A lifetime of zero days is taken for none: the key lasts the default.   *)
CreateKey(k, role, days, scope) ==
  /\ ~keyRow[k].issued /\ Allowed(role, "manage_users")
  /\ keyRow' = [keyRow EXCEPT ![k] =
       [issued |-> TRUE, active |-> TRUE, scope |-> scope,
        expires |-> keyTime + (IF days = 0 THEN DefaultDays ELSE days)]]
  /\ UNCHANGED <<keyAdmin, app, keyTime, keyChanges, inspections, revoked>>

PuttingOn(k, c) == {a \in KeyAdmins : keyAdmin[a].busy /\ keyAdmin[a].key = k /\ keyAdmin[a].change[c] = "on"}

(* The row is read; a key that is not there is a 404.                      *)
BeginChange(a, role, k, change) ==
  /\ ~keyAdmin[a].busy /\ keyRow[k].issued /\ Allowed(role, "manage_users")
  /\ keyChanges < MaxKeyChanges /\ keyChanges' = keyChanges + 1
  /\ LET on == {c \in Columns : change[c] = "on"} IN
     /\ keyAdmin' = [b \in KeyAdmins |->
          IF b = a
            THEN [busy |-> TRUE, key |-> k, change |-> change, read |-> keyRow[k],
                  alone |-> {c \in Columns : change[c] = "off" /\ PuttingOn(k, c) = {}}]
            ELSE IF keyAdmin[b].busy /\ keyAdmin[b].key = k
                   THEN [keyAdmin[b] EXCEPT !.alone = @ \ on]
                   ELSE keyAdmin[b]]
     /\ revoked' = [revoked EXCEPT ![k] = @ \ on]
  /\ UNCHANGED <<keyRow, app, keyTime, inspections>>

Asked(call, c) == IF call.change[c] = "keep" THEN call.read[c] ELSE call.change[c] = "on"

(* Faulty variant: every column that was read is written back.             *)
WriteAll(call, c) == Asked(call, c)

(* A column is written when its value is not the one that was read.        *)
Written(call, c) ==
  IF Asked(call, c) # call.read[c] THEN Asked(call, c) ELSE keyRow[call.key][c]

(* The commit, the audit record and the answer.                            *)
CommitKeyChange(a) ==
  LET call == keyAdmin[a] IN
  /\ call.busy
  /\ keyRow' = [keyRow EXCEPT ![call.key].active = Written(call, "active"),
                              ![call.key].scope = Written(call, "scope")]
  /\ revoked' = [revoked EXCEPT ![call.key] = @ \cup call.alone]
  /\ keyAdmin' = [keyAdmin EXCEPT ![a] = NoKeyChange]
  /\ UNCHANGED <<app, keyTime, keyChanges, inspections>>

(* A key of which a column was answered to be off, or whose time is over.  *)
Spent(k) == revoked[k] # {} \/ keyTime > keyRow[k].expires

(* get_jwt_or_api_key_actor, with a key: an unknown, inactive or expired key, *)
(* or one without the scope, is refused.                                   *)
PresentKey(p, k) ==
  /\ app[p].phase = "idle" /\ inspections < MaxInspections
  /\ inspections' = inspections + 1
  /\ app' = [app EXCEPT ![p] =
       IF keyRow[k].issued /\ keyRow[k].active /\ keyRow[k].scope /\ keyRow[k].expires >= keyTime
         THEN [phase |-> "admitted", spent |-> Spent(k)] ELSE NoCaller]
  /\ UNCHANGED <<keyRow, keyAdmin, keyTime, keyChanges, revoked>>

(* last_used_at alone is written; the actor is of the role STAFF.          *)
StampUse(p) ==
  /\ app[p].phase = "admitted"
  /\ app' = [app EXCEPT ![p].phase = "inspecting"]
  /\ UNCHANGED <<keyRow, keyAdmin, keyTime, keyChanges, inspections, revoked>>

(* The text is masked and the inspection recorded.                         *)
Inspect(p) ==
  /\ app[p].phase = "inspecting" /\ Allowed("STAFF", "run_ai_query")
  /\ app' = [app EXCEPT ![p] = NoCaller]
  /\ UNCHANGED <<keyRow, keyAdmin, keyTime, keyChanges, inspections, revoked>>

KeyTick ==
  /\ keyTime < MaxKeyTime /\ keyTime' = keyTime + 1
  /\ UNCHANGED <<keyRow, keyAdmin, app, keyChanges, inspections, revoked>>

AccessKeysNext ==
  \/ \E k \in ApiKeys, role \in Roles, days \in 0 .. 1, scope \in BOOLEAN : CreateKey(k, role, days, scope)
  \/ \E a \in KeyAdmins, role \in Roles, k \in ApiKeys, change \in KeyChanges : BeginChange(a, role, k, change)
  \/ \E a \in KeyAdmins : CommitKeyChange(a)
  \/ \E p \in Apps, k \in ApiKeys : PresentKey(p, k)
  \/ \E p \in Apps : StampUse(p) \/ Inspect(p)
  \/ KeyTick

AccessKeysSpec == AccessKeysInit /\ [][AccessKeysNext]_keyVars

-----------------------------------------------------------------------------
(* A key that was answered to be revoked, or to have lost the proxy's scope, *)
(* stays so whatever other changes of the key were under way, as long as   *)
(* none of them asks for the contrary.                                     *)
WithdrawalsHold == \A k \in ApiKeys : \A c \in revoked[k] : ~keyRow[k][c]

(* No request is served on a key that was presented after its withdrawal   *)
(* was answered, whatever changes read before were committed since, or     *)
(* after its time was over, whatever was switched on again.                *)
KeysOpen == \A p \in Apps : app[p].phase # "idle" => ~app[p].spent
=============================================================================
