--------------------------- MODULE MCKernelObjects ---------------------------
(* Model-checking instance of KernelObjects: actors, objects and signal     *)
(* bits are model values; user_data values are those of the wait_group      *)
(* test (11 and 22).                                                        *)
EXTENDS KernelObjects

MCUserData == {11, 22}

\* Two groups only where the wrong-group paths are exercised.
=============================================================================
