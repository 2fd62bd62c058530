-------------------------- MODULE MCLeaderElection --------------------------
(* The instances of LeaderElection that TLC checks: two pods, one of them   *)
(* taking the Lease over from the other.                                    *)
EXTENDS LeaderElection

CONSTANTS p1, p2
MCPods == {p1, p2}
=============================================================================
