-------------------------- MODULE MCBaseCollector --------------------------
(* The instance of BaseCollector that TLC checks.  Scrapes read the shared  *)
(* state and never write it, so one of them sees everything any of them     *)
(* can see; three cycles let a late hook, a late rollback and a late        *)
(* SetReady come from three different Start calls.                          *)
EXTENDS BaseCollector

CONSTANT w1
MCScrapes == {w1}
=============================================================================
