----------------------------- MODULE LeaderSlot -----------------------------
(***************************************************************************)
(* What leader election promises about one collector, with nothing said    *)
(* about how: a slot that an elector takes only when it is free, and       *)
(* leaves before anybody takes it again.  Leadership is never handed over  *)
(* from one elector to another in one step.                                *)
(***************************************************************************)
CONSTANTS
  Candidates,     \* the electors of all pods
  Free            \* nobody leads

VARIABLE slot     \* the elector that leads

Init == slot = Free

Take(c) == slot = Free /\ slot' = c

Leave == slot # Free /\ slot' = Free

Next == Leave \/ \E c \in Candidates : Take(c)

Spec == Init /\ [][Next]_slot
=============================================================================
