------------------------------- MODULE MCSyscall -------------------------------
(* Model-checking instance of Syscall.                                       *)
EXTENDS Syscall

\* 32-bit usize scaled to 24 bits (still above every char value), i64 to 30
\* bits: arguments at the word and char boundaries.
MCArgs24 == {0, 1, 65, 55295, 55296, 57343, 57344, 1114111, 1114112,
             8388608, 16777214, 16777215}

\* A 64-bit usize in an i64, scaled to 8 bits in 8 bits: every argument.
MCArgs8 == 0..255

MCIds == {"DebugNoOp", "DebugAdd", "DebugPutc", "Unassigned"}
=============================================================================
