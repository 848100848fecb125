---------------------------- MODULE MCHostUpdates ----------------------------
(* Small instances of HostUpdates: two requests to any of the three        *)
(* programs of a host.                                                     *)
EXTENDS HostUpdates, TLC

LimitsOf(l) == [k \in FaultKinds |-> IF k \in DOMAIN l THEN l[k] ELSE 0]

(* Two failing file operations, so that a rollback fails as well; a killed *)
(* helper, a lost session and a restart of either service.                 *)
SafetyLimits == LimitsOf([disk |-> 2, crash |-> 1, session |-> 1, agent |-> 1, master |-> 1])

(* No fault at all.                                                        *)
NoFaults == LimitsOf(<< >>)

(* Two requests around one fault, or one request around two.               *)
Around(r, f) == [requests |-> r, faults |-> f]
SafetyBounds == {Around(2, 1), Around(1, 2)}
TwoRequests == {Around(2, 0)}

=============================================================================
