------------------------------- MODULE MCSdioBus -------------------------------
(* The three tasks and the one that starts the component.                  *)
EXTENDS SdioBus

CONSTANTS wifi, bt, starter

MCSenders == {wifi, bt, starter}
MCFnOf == [t \in MCSenders |-> IF t = bt THEN 2 ELSE 1]
=============================================================================
