----------------------------- MODULE Deployment -----------------------------
(***************************************************************************)
(* The server processes of one host: Dockerfile.backend starts two uvicorn *)
(* workers over one file system.                                           *)
(***************************************************************************)
EXTENDS FiniteSets

CONSTANT Servers

ASSUME DeploymentAssumption == IsFiniteSet(Servers) /\ Servers # {}
=============================================================================
