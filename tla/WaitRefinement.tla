---------------------------- MODULE WaitRefinement ----------------------------
(***************************************************************************)
(* KernelObjects implements WaitAbstract: the waits on objects made        *)
(* through ObjectBase::wait_until, seen through a mapping that hides the   *)
(* spinlocks, the waiters lists, the events and the wait groups.           *)
(*                                                                         *)
(* A thread is blocked while it sleeps in wait_on_object on an object,     *)
(* woken or expired between Event::wait_until and its unlink, as           *)
(* Event::wait_until returned.  Waits on wait groups, and calls that       *)
(* return at once, are idle to the abstract specification.                 *)
(*                                                                         *)
(* signal() on an object with a wait-group member changes active_signals   *)
(* in one step and wakes the object's own waiters in the next, under the   *)
(* same object lock.  The mapping hands the waiters their result already   *)
(* in the first step: while that signaler holds the lock nothing else can  *)
(* change the object's waiters, their masks or its signals.                *)
(***************************************************************************)
EXTENDS KernelObjects

\* Thread t is inside wait_on_object on an object (not a wait group).
BaseWait(t) == pc[t] \in {"sleep", "relock"} /\ obj[t] \in Bases

\* A signaler has set b's signals and still owes b's waiters their wake.
PendingLocalWake(b) == \E a \in Signalers : pc[a] = "sig_group" /\ obj[a] = b

\* The wait_result t will hold once any pending wake of its object is done.
resultOf(t) ==
    LET b == obj[t] IN
    IF PendingLocalWake(b) /\ Intersects(active_signals[b], mask[t])
    THEN Ok(0, active_signals[b])
    ELSE wait_result[t]

stateBar == [t \in Threads |->
                IF ~BaseWait(t) THEN "idle"
                ELSE IF pc[t] = "sleep" THEN "blocked"
                ELSE IF outcome[t] = "Ok" THEN "woken"
                ELSE "expired"]

AbsWait == INSTANCE WaitAbstract WITH
    signals    <- active_signals,
    state      <- stateBar,
    waiting_on <- [t \in Threads |-> IF BaseWait(t) THEN obj[t] ELSE None],
    want       <- [t \in Threads |-> IF BaseWait(t) THEN mask[t] ELSE {}],
    finite     <- [t \in Threads |-> BaseWait(t) /\ deadline[t] = "Finite"],
    result     <- [t \in Threads |-> IF BaseWait(t) THEN resultOf(t) ELSE Err("Unknown")]

\* Waits on objects keep the promise of KernelObject::object_wait: a wait
\* blocks only when none of its signals is active, is handed the signals
\* of every later matching signal() until it unlinks, wakes only after
\* one, and - with the scheduler's fairness - a handed result wakes the
\* thread and a woken or expired wait returns.
ImplementsWaitAbstract == AbsWait!FairSpec

=============================================================================
