---------------------------- MODULE MCPersistence ----------------------------
(* The instance of Persistence that TLC checks.                            *)
EXTENDS Persistence

MCCalls == AllCalls
=============================================================================
