---------------------------- MODULE MCProcedures ----------------------------
(* A small instance of Procedures: a plan of two units. *)
EXTENDS Procedures

CONSTANTS u1, u2

MCPlan == <<u1, u2>>
=============================================================================
