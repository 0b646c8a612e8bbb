------------------------------- MODULE Access -------------------------------
(***************************************************************************)
(* What each role may do: backend/auth/rbac_engine.py.                     *)
(***************************************************************************)

Roles == {"SUPER_ADMIN", "DEPARTMENT_HEAD", "STAFF", "AUDITOR"}

Permissions ==
  {"manage_users", "view_all_users", "edit_global_policy", "edit_dept_policy", "view_policy",
   "run_ai_query", "ingest_documents", "view_vault_status", "export_audit_csv",
   "export_audit_pdf", "view_audit_log", "view_all_sessions", "view_own_sessions",
   "manage_licenses", "view_license_status", "generate_board_report"}

RolePermissions ==
  [SUPER_ADMIN |-> Permissions,
   DEPARTMENT_HEAD |-> Permissions \ {"manage_users", "view_all_users", "edit_global_policy",
                                      "manage_licenses"},
   STAFF |-> {"run_ai_query", "ingest_documents", "view_vault_status", "view_own_sessions",
              "view_policy"},
   AUDITOR |-> {"view_audit_log", "view_all_sessions", "export_audit_csv", "export_audit_pdf",
                "view_vault_status", "generate_board_report", "view_policy",
                "view_license_status"}]

(* A role the table does not know has no permission.                       *)
Allowed(role, permission) == role \in Roles /\ permission \in RolePermissions[role]
=============================================================================
