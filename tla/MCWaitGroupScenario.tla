------------------------- MODULE MCWaitGroupScenario -------------------------
(* Model-checking instance of WaitGroupScenario: the two test processes, *)
(* both ends of channels A and B, and the two wait groups.               *)
EXTENDS WaitGroupScenario

MCUserData == {11, 22}

=============================================================================
