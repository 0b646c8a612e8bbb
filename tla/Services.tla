------------------------------ MODULE Services ------------------------------
(***************************************************************************)
(* The services of the backend that keep state of their own beside the     *)
(* ledger, the job queue and the sessions.  They share the process and the *)
(* disk but no variable: their steps commute, and so a behaviour lets one  *)
(* of them run and the others rest.                                        *)
(***************************************************************************)
EXTENDS Gateway, RiskEngine, ApiShield, LicenseRegister, ConsentRegister, Webhooks,
        VaultMonitor, ShadowDetector, Caches, AccessKeys, EvidenceDesk,
        Compliance, Accounts

VARIABLE part   \* the service that runs

services == <<part, gatewayVars, riskVars, shieldVars, licenseVars, consentVars, webhookVars,
              monitorVars, detectorVars, cacheVars, keyVars, deskVars, complianceVars, accountVars>>

Parts == {"gateway", "risk", "shield", "license", "consent", "webhooks", "monitor", "detector",
          "caches", "keys", "desk", "compliance", "accounts"}

ServicesTypeOK ==
  /\ part \in Parts
  /\ part = "gateway" => GatewayTypeOK
  /\ part = "risk" => RiskTypeOK
  /\ part = "shield" => ShieldTypeOK
  /\ part = "license" => LicenseTypeOK
  /\ part = "consent" => ConsentTypeOK
  /\ part = "webhooks" => WebhooksTypeOK
  /\ part = "monitor" => MonitorTypeOK
  /\ part = "detector" => DetectorTypeOK
  /\ part = "caches" => CachesTypeOK
  /\ part = "keys" => AccessKeysTypeOK
  /\ part = "desk" => EvidenceTypeOK
  /\ part = "compliance" => ComplianceTypeOK
  /\ part = "accounts" => AccountsTypeOK

(* A service that rests does so in one of its initial states.              *)
Init ==
  /\ part \in Parts
  /\ GatewayInit /\ (part # "gateway" => plan = CHOOSE p \in Plans : TRUE)
  /\ RiskInit /\ (part # "risk" => serving = Servers /\ ~riskRedis.used)
  /\ ShieldInit /\ (part # "shield" => ~enforceMtls)
  /\ WebhooksInit /\ (part # "webhooks" => hookBudget = CHOOSE b \in HookBudgets : TRUE)
  /\ MonitorInit /\ (part # "monitor" => monPlan = CHOOSE p \in MonitorPlans : TRUE)
  /\ CachesInit /\ (part # "caches" => cacheKind = "digest")
  /\ EvidenceInit /\ (part # "desk" => deskPlan = CHOOSE p \in DeskPlans : TRUE)
  /\ ComplianceInit /\ (part # "compliance" => told = 0)
  /\ AccountsInit /\ (part # "accounts" => schema = {})
  /\ LicenseInit /\ ConsentInit /\ DetectorInit /\ AccessKeysInit

(* Every service but one stands still.                                     *)
StandStill(but) ==
  /\ but # "gateway" => UNCHANGED gatewayVars
  /\ but # "risk" => UNCHANGED riskVars
  /\ but # "shield" => UNCHANGED shieldVars
  /\ but # "license" => UNCHANGED licenseVars
  /\ but # "consent" => UNCHANGED consentVars
  /\ but # "webhooks" => UNCHANGED webhookVars
  /\ but # "monitor" => UNCHANGED monitorVars
  /\ but # "detector" => UNCHANGED detectorVars
  /\ but # "caches" => UNCHANGED cacheVars
  /\ but # "keys" => UNCHANGED keyVars
  /\ but # "desk" => UNCHANGED deskVars
  /\ but # "compliance" => UNCHANGED complianceVars
  /\ but # "accounts" => UNCHANGED accountVars

Next ==
  /\ \/ part = "gateway" /\ GatewayNext
     \/ part = "risk" /\ RiskNext
     \/ part = "shield" /\ ShieldNext
     \/ part = "license" /\ LicenseNext
     \/ part = "consent" /\ ConsentNext
     \/ part = "webhooks" /\ WebhooksNext
     \/ part = "monitor" /\ MonitorNext
     \/ part = "detector" /\ DetectorNext
     \/ part = "caches" /\ CachesNext
     \/ part = "keys" /\ AccessKeysNext
     \/ part = "desk" /\ EvidenceNext
     \/ part = "compliance" /\ ComplianceNext
     \/ part = "accounts" /\ AccountsNext
  /\ StandStill(part)
  /\ UNCHANGED part

Spec == Init /\ [][Next]_services

-----------------------------------------------------------------------------
(* Evidence stands: what an answer or the ledger says of a file is true of *)
(* it, what is read back is whole, and a grade is earned, although files   *)
(* are written in place and every answer is put together of several reads. *)
EvidenceStands == FilesStand /\ DrillsEarned /\ GradesEarned

(* Access holds: what was withdrawn of a key stays withdrawn, no request is *)
(* served on a key that was withdrawn or expired when it was presented, a  *)
(* password that was handed out opens its account, and someone can         *)
(* administer.                                                             *)
AccessHolds == WithdrawalsHold /\ KeysOpen /\ PasswordsTold /\ AdministratorTold
=============================================================================
