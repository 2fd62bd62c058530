----------------------------- MODULE MCCrdStore -----------------------------
(* The instance of CrdStore that TLC checks: two objects in an allowed      *)
(* namespace that can share a value, and one in a filtered namespace.       *)
EXTENDS CrdStore

CONSTANTS app1, app2, other
MCObjects == {app1, app2, other}
MCAllowed == {app1, app2}
=============================================================================
