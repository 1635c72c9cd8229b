------------------------------ MODULE Syscall ------------------------------
(***************************************************************************)
(* The system-call dispatcher of pw_kernel (src/pw_kernel/kernel/syscall.rs)*)
(* and the packing of its Result<u64> into the signed return register.     *)
(*                                                                         *)
(* handle_syscall decodes the 16-bit id and runs DebugNoOp, DebugAdd or    *)
(* DebugPutc on the first two machine-word arguments; raw_handle_syscall   *)
(* packs the result.  Widths are parameters: UsizeBits for usize and       *)
(* RetBits for the signed return value, scaled down from 32/64 so that TLC *)
(* can enumerate every argument.                                           *)
(***************************************************************************)
EXTENDS Integers, FiniteSets

CONSTANTS
    UsizeBits,      \* width of usize (machine word)
    RetBits,        \* width of the signed return value (i64)
    Args,           \* argument values tried, all in 0..2^UsizeBits-1
    Ids             \* raw 16-bit ids tried, as SysCallId names or others

ASSUME Args \subseteq 0..(2^UsizeBits - 1)

UsizeMax == 2^UsizeBits - 1

\* The SysCallId values handle_syscall matches on; any other id fails the
\* try_into (syscall_defs, not in src/: unknown ids are InvalidArgument).
KnownIds == {"DebugNoOp", "DebugAdd", "DebugPutc"}

\* pw_status error codes (Status codes of pw_status, shared with absl).
ErrorCode == [Unknown |-> 2, InvalidArgument |-> 3, NotFound |-> 5,
              ResourceExhausted |-> 8, OutOfRange |-> 11, Unimplemented |-> 12,
              Internal |-> 13]

Ok(v)  == [ok |-> TRUE, val |-> v]
Err(e) == [ok |-> FALSE, val |-> e]

\* Equality of two results (payloads are numbers, errors are names).
SameResult(r1, r2) == r1.ok = r2.ok /\ r1.val = r2.val

\* Fault models of checked_add: a plain add that never reports overflow,
\* and an overflow test that is off by one at the top of the word.
checked_add_unchecked(a, b) == Ok(a + b)
checked_add_off_by_one(a, b) == IF a + b < UsizeMax THEN Ok(a + b) ELSE Err("OutOfRange")

\* usize::checked_add.
checked_add(a, b) == IF a + b <= UsizeMax THEN Ok(a + b) ELSE Err("OutOfRange")

\* u32::try_from(usize).ok(): fails only above u32::MAX.
u32_try_from(x) == x \div 65536 < 65536

\* Fault model: a char conversion that forgets the surrogate range.
char_from_u32_no_surrogate_check(c) == c <= 1114111

\* char::from_u32: a Unicode scalar value, i.e. not above 0x10FFFF and not
\* a surrogate.
char_from_u32(c) == c <= 1114111 /\ ~(c >= 55296 /\ c <= 57343)

\* handle_syscall.  DebugAdd and DebugPutc first sleep one second, which
\* changes no state of the dispatcher.
handle_syscall(id, arg0, arg1) ==
    CASE id \notin KnownIds -> Err("InvalidArgument")
      [] id = "DebugNoOp"   -> Ok(0)
      [] id = "DebugAdd"    -> checked_add(arg0, arg1)
      [] id = "DebugPutc"   -> IF u32_try_from(arg0) /\ char_from_u32(arg0)
                               THEN Ok(arg0)
                               ELSE Err("InvalidArgument")

\* SysCallReturnValue from Result<u64> (syscall_defs, not in src/): the
\* payload of Ok as a two's-complement RetBits value, an error as the
\* negated code.  Its fault model packs the code without negating it.
SysCallReturnValue_no_negate(r) ==
    IF r.ok
    THEN IF r.val < 2^(RetBits - 1) THEN r.val ELSE r.val - 2^RetBits
    ELSE ErrorCode[r.val]

SysCallReturnValue(r) ==
    IF r.ok
    THEN IF r.val < 2^(RetBits - 1) THEN r.val ELSE r.val - 2^RetBits
    ELSE -ErrorCode[r.val]

\* raw_handle_syscall.
raw_handle_syscall(id, arg0, arg1) == SysCallReturnValue(handle_syscall(id, arg0, arg1))

\* How userspace reads the return register: non-negative is a payload,
\* negative is an error code.
Decode(raw) ==
    IF raw >= 0 THEN Ok(raw)
    ELSE IF \E e \in DOMAIN ErrorCode : ErrorCode[e] = -raw
         THEN Err(CHOOSE e \in DOMAIN ErrorCode : ErrorCode[e] = -raw)
         ELSE Err("NotAnErrorCode")

-----------------------------------------------------------------------------

VARIABLES call, result, raw

vars == <<call, result, raw>>

Init ==
    /\ call = <<"DebugNoOp", 0, 0>>
    /\ result = Ok(0)
    /\ raw = 0

\* One trap into the kernel with id and the first two arguments.
Syscall(id, a0, a1) ==
    /\ call' = <<id, a0, a1>>
    /\ result' = handle_syscall(id, a0, a1)
    /\ raw' = raw_handle_syscall(id, a0, a1)

Next == \E id \in Ids, a0 \in Args, a1 \in Args : Syscall(id, a0, a1)

Spec == Init /\ [][Next]_vars

TypeOK ==
    /\ call \in Ids \X Args \X Args \cup {<<"DebugNoOp", 0, 0>>}
    /\ result.ok \in BOOLEAN
    /\ result.ok => result.val \in 0..UsizeMax
    /\ ~result.ok => result.val \in DOMAIN ErrorCode
    /\ raw >= -(2^(RetBits - 1)) /\ raw < 2^(RetBits - 1)

-----------------------------------------------------------------------------
(* Reference definitions *)

\* Ripple-carry addition of the low n bits of a and b with carry c: the
\* carry out of bit n - 1.
RECURSIVE CarryOut(_, _, _, _)
CarryOut(a, b, c, n) ==
    IF n = 0 THEN c
    ELSE CarryOut(a \div 2, b \div 2, IF (a % 2) + (b % 2) + c >= 2 THEN 1 ELSE 0, n - 1)

\* The Unicode scalar values: U+0000..U+D7FF and U+E000..U+10FFFF.
IsScalarValue(c) == c \in 0..55295 \/ c \in 57344..1114111

-----------------------------------------------------------------------------
(* Properties *)

\* DebugAdd fails with OutOfRange exactly when the machine-word addition
\* carries out of the top bit, and otherwise returns the sum.
DebugAddMatchesAdder ==
    call[1] = "DebugAdd" =>
        LET a == call[2]  b == call[3] IN
        IF CarryOut(a, b, 0, UsizeBits) = 1
        THEN SameResult(result, Err("OutOfRange"))
        ELSE SameResult(result, Ok(a + b))

\* DebugPutc accepts exactly the arguments that are Unicode scalar values
\* and echoes them back.
DebugPutcAcceptsScalarValues ==
    call[1] = "DebugPutc" =>
        (SameResult(result, Ok(call[2])) <=> IsScalarValue(call[2]))

\* The signed return register tells a success payload from an error and
\* both round-trip: userspace decodes exactly what handle_syscall returned.
ReturnRoundTrip == SameResult(Decode(raw), result)

=============================================================================
