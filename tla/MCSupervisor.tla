---------------------------- MODULE MCSupervisor ----------------------------
(* The instance of the supervisor that TLC checks. *)
EXTENDS Supervisor

CONSTANTS dispatcher, m1, m2

TwoModules == <<m1, m2>>
==============================================================================
