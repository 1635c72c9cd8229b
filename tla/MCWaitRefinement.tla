-------------------------- MODULE MCWaitRefinement --------------------------
(* Model-checking instance of WaitRefinement, with the user_data values of *)
(* the wait_group test.                                                    *)
EXTENDS WaitRefinement

MCUserData == {11, 22}

=============================================================================
