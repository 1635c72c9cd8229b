----------------------------- MODULE WaitAbstract -----------------------------
(***************************************************************************)
(* What a wait on a kernel object promises its caller, with no locks,      *)
(* lists or events (KernelObject::object_wait in                           *)
(* src/pw_kernel/kernel/object.rs: "Blocks until any of the signals in     *)
(* signal_mask are active on the object or deadline has expired").         *)
(*                                                                         *)
(* A wait either returns at once because a wanted signal is active (no     *)
(* state changes), or blocks.  A blocked wait is handed a result by every  *)
(* change of the object's signals that meets its mask, the last one        *)
(* standing; it wakes only once it holds a result, or expires if its       *)
(* deadline is finite, and then returns.                                   *)
(***************************************************************************)
CONSTANTS Threads, Bases, SignalBits, None

VARIABLES
    signals,    \* the active signals of every object
    state,      \* per thread: "idle", "blocked", "woken" or "expired"
    waiting_on, \* the object a thread waits on, or None
    want,       \* its signal mask
    finite,     \* whether its deadline can expire
    result      \* the result handed to it, or NotWritten

vars == <<signals, state, waiting_on, want, finite, result>>

\* The WaitReturn of a signal that set the active signals to s.
Written(s) == [status |-> "Ok", user_data |-> 0, pending |-> s]
NotWritten == [status |-> "Unknown", user_data |-> 0, pending |-> {}]

Meets(s, m) == s \cap m # {}

TypeOK ==
    /\ signals \in [Bases -> SUBSET SignalBits]
    /\ state \in [Threads -> {"idle", "blocked", "woken", "expired"}]
    /\ waiting_on \in [Threads -> Bases \cup {None}]
    /\ want \in [Threads -> SUBSET SignalBits]
    /\ finite \in [Threads -> BOOLEAN]
    /\ result \in [Threads -> {NotWritten} \cup {Written(s) : s \in SUBSET SignalBits}]

Init ==
    /\ signals = [b \in Bases |-> {}]
    /\ state = [t \in Threads |-> "idle"]
    /\ waiting_on = [t \in Threads |-> None]
    /\ want = [t \in Threads |-> {}]
    /\ finite = [t \in Threads |-> FALSE]
    /\ result = [t \in Threads |-> NotWritten]

\* A wait that finds none of its signals active blocks.
Block(t, b, m, f) ==
    /\ state[t] = "idle"
    /\ ~Meets(signals[b], m)
    /\ state' = [state EXCEPT ![t] = "blocked"]
    /\ waiting_on' = [waiting_on EXCEPT ![t] = b]
    /\ want' = [want EXCEPT ![t] = m]
    /\ finite' = [finite EXCEPT ![t] = f]
    /\ result' = [result EXCEPT ![t] = NotWritten]
    /\ UNCHANGED signals

\* The object's signals become s; every wait on it that has not returned
\* and wants one of s is handed s, whether it is still blocked or not.
Signal(b, s) ==
    /\ signals' = [signals EXCEPT ![b] = s]
    /\ result' = [t \in Threads |->
                    IF state[t] # "idle" /\ waiting_on[t] = b /\ Meets(s, want[t])
                    THEN Written(s) ELSE result[t]]
    /\ UNCHANGED <<state, waiting_on, want, finite>>

\* A blocked wait wakes only once it has been handed a result.
Wake(t) ==
    /\ state[t] = "blocked"
    /\ result[t] # NotWritten
    /\ state' = [state EXCEPT ![t] = "woken"]
    /\ UNCHANGED <<signals, waiting_on, want, finite, result>>

\* A blocked wait with a finite deadline may expire at any time.
Expire(t) ==
    /\ state[t] = "blocked"
    /\ finite[t]
    /\ state' = [state EXCEPT ![t] = "expired"]
    /\ UNCHANGED <<signals, waiting_on, want, finite, result>>

\* A woken wait returns its result, an expired one DeadlineExceeded.
Return(t) ==
    /\ state[t] \in {"woken", "expired"}
    /\ state' = [state EXCEPT ![t] = "idle"]
    /\ waiting_on' = [waiting_on EXCEPT ![t] = None]
    /\ want' = [want EXCEPT ![t] = {}]
    /\ finite' = [finite EXCEPT ![t] = FALSE]
    /\ result' = [result EXCEPT ![t] = NotWritten]
    /\ UNCHANGED signals

Next ==
    \/ \E t \in Threads, b \in Bases, m \in SUBSET SignalBits, f \in BOOLEAN : Block(t, b, m, f)
    \/ \E b \in Bases, s \in SUBSET SignalBits : Signal(b, s)
    \/ \E t \in Threads : Wake(t) \/ Expire(t) \/ Return(t)

Spec == Init /\ [][Next]_vars

\* A wait that holds a result wakes, and a woken or expired wait returns.
FairSpec == Spec /\ \A t \in Threads : WF_vars(Wake(t)) /\ WF_vars(Return(t))

=============================================================================
