---------------------------- MODULE MCDispatcher ----------------------------
(* The instance of the dispatcher that TLC checks: two modules that answer  *)
(* one another.                                                             *)
EXTENDS Dispatcher

CONSTANTS a, b, x, y

Order == <<a, b>>
Subscribed == a :> {x} @@ b :> {x, y}
==============================================================================
