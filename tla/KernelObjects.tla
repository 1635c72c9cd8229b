---------------------------- MODULE KernelObjects ----------------------------
(***************************************************************************)
(* The kernel object wait subsystem of pw_kernel:                          *)
(*   - ObjectBase (src/pw_kernel/kernel/object.rs): the active-signal      *)
(*     mask, the waiters list and the optional wait-group member record    *)
(*     of a waitable object, guarded by the object's spinlock;             *)
(*   - wait_on_object / signal_all_matching_waiters: the park-and-wake     *)
(*     protocol shared by objects and wait groups;                         *)
(*   - WaitGroupObject and WaitGroupMember                                 *)
(*     (src/pw_kernel/kernel/object/wait_group.rs): the signaled and       *)
(*     unsignaled member lists and the group's own waiters list, guarded   *)
(*     by the group's spinlock.                                            *)
(*                                                                         *)
(* Every spinlock is a variable holding its owner.  An action is one       *)
(* stretch of code between two lock acquisitions: it is enabled only when  *)
(* the lock it acquires is free, so a thread spinning on a lock is a       *)
(* thread whose next action is disabled.  With SMP = FALSE a thread that   *)
(* holds a spinlock cannot be preempted (the uniprocessor spinlock masks   *)
(* interrupts), so only the holder may step.                               *)
(*                                                                         *)
(* Actors are Threads, which issue the wait and wait-group system calls,   *)
(* and Signalers (interrupt handlers and channel peers), which call        *)
(* ObjectBase::signal.                                                     *)
(***************************************************************************)
EXTENDS Integers, Sequences, SequencesExt, FiniteSets, TLC

CONSTANTS
    Threads,        \* user threads trapping into object syscalls
    Signalers,      \* interrupt handlers / channel peers calling signal()
    Bases,          \* objects that have an ObjectBase (channels, interrupts)
    Groups,         \* WaitGroupObjects (they have no ObjectBase)
    SignalBits,     \* the bits of Signals
    READABLE,       \* Signals::READABLE
    UserData,       \* user_data values passed to wait_group_add
    SMP,            \* TRUE: spinlocks do not mask preemption
    ObserveReturns, \* TRUE: keep each actor's last returned value in ret
    None            \* Option::None / a free lock

ASSUME READABLE \in SignalBits
ASSUME 0 \notin UserData

Actors  == Threads \cup Signalers
Objects == Bases \cup Groups

\* Deadline of a wait: Instant::MAX, or one that may expire.
Deadlines == {"Forever", "Finite"}

\* WaitReturn in Ok, or an error code.
Ok(ud, sigs) == [status |-> "Ok", user_data |-> ud, pending |-> sigs]
Err(e)       == [status |-> e, user_data |-> 0, pending |-> {}]
Results == {Ok(u, s) : u \in {0} \cup UserData, s \in SUBSET SignalBits}
           \cup {Err(e) : e \in {"Unknown", "InvalidArgument",
                                 "ResourceExhausted", "NotFound",
                                 "DeadlineExceeded"}}

\* WaitGroupMember.
Members == [group : Groups, signal_mask : SUBSET SignalBits,
            user_data : UserData, is_signaled : BOOLEAN]

VARIABLES
    baseLock,           \* ObjectBase.state spinlock: holder or None
    groupLock,          \* WaitGroupObject.state spinlock: holder or None
    active_signals,     \* ObjectBaseState.active_signals
    wait_group,         \* ObjectBaseState.wait_group: a Member or None
    signaled_objects,   \* WaitGroupState.signaled_objects (head first)
    unsignaled_objects, \* WaitGroupState.unsignaled_objects (head first)
    waiters,            \* waiters list of every object (FIFO of threads)
    pc,                 \* where each actor is in its current call
    obj,                \* the object whose method the actor is in (self)
    member,             \* the member object argument / peeked member
    mask,               \* signal_mask argument (ObjectWaiter.signal_mask)
    udata,              \* user_data argument of wait_group_add
    deadline,           \* deadline argument of object_wait
    is_sig,             \* is_signaled computed by wait_group_add
    event,              \* the waiter's Event: TRUE once signaled
    outcome,            \* what Event::wait_until returned
    wait_result,        \* ObjectWaiter.wait_result
    ret                 \* the value the actor's last call returned

vars == <<baseLock, groupLock, active_signals, wait_group, signaled_objects,
          unsignaled_objects, waiters, pc, obj, member, mask, udata,
          deadline, is_sig, event, outcome, wait_result, ret>>

locals == <<obj, member, mask, udata, deadline, is_sig, ret>>

PCs == {"idle", "sleep", "relock", "gw_peek", "sig_group", "add_link",
        "remove_unlink"}

TypeOK ==
    /\ baseLock \in [Bases -> Actors \cup {None}]
    /\ groupLock \in [Groups -> Actors \cup {None}]
    /\ active_signals \in [Bases -> SUBSET SignalBits]
    /\ wait_group \in [Bases -> Members \cup {None}]
    /\ signaled_objects \in [Groups -> Seq(Bases)]
    /\ unsignaled_objects \in [Groups -> Seq(Bases)]
    /\ waiters \in [Objects -> Seq(Threads)]
    /\ pc \in [Actors -> PCs]
    /\ obj \in [Actors -> Objects \cup {None}]
    /\ member \in [Actors -> Objects \cup {None}]
    /\ mask \in [Actors -> SUBSET SignalBits]
    /\ udata \in [Actors -> {0} \cup UserData]
    /\ deadline \in [Actors -> Deadlines]
    /\ is_sig \in [Actors -> BOOLEAN]
    /\ event \in [Threads -> BOOLEAN]
    /\ outcome \in [Threads -> {"Ok", "DeadlineExceeded", None}]
    /\ wait_result \in [Threads -> Results]
    /\ ret \in [Actors -> Results \cup {None}]

-----------------------------------------------------------------------------
(* Helpers *)

\* A thread holding a spinlock masks preemption on a uniprocessor.
HoldsLock(a) == (\E b \in Bases : baseLock[b] = a) \/ (\E g \in Groups : groupLock[g] = a)
CanRun(a) == SMP \/ \A o \in Actors \ {a} : ~HoldsLock(o)

Intersects(s1, s2) == s1 \cap s2 # {}

\* The group whose WaitGroupMember record object b holds, or None.
GroupOf(b) == IF wait_group[b] = None THEN None ELSE wait_group[b].group

\* Fault model: the fan-out wakes every waiter, whatever its mask.
signal_all_matching_waiters_any_mask(ws, active, ud) ==
    [t \in ToSet(ws) |-> Ok(ud, active)]

\* signal_all_matching_waiters: the result written into the wait_result of
\* every waiter of ws whose signal_mask intersects active.  The iteration
\* neither unlinks the waiters nor stops early.
signal_all_matching_waiters(ws, active, ud) ==
    [t \in {w \in ToSet(ws) : Intersects(mask[w], active)} |-> Ok(ud, active)]

\* Writing the results R and firing each of their waiters' signaler.
Deliver(R) ==
    /\ wait_result' = [t \in Threads |-> IF t \in DOMAIN R THEN R[t] ELSE wait_result[t]]
    /\ event' = [t \in Threads |-> event[t] \/ t \in DOMAIN R]

NoDelivery == UNCHANGED <<wait_result, event>>

\* A call returning r: the actor's locals are dropped.  The value r is
\* kept in ret only with ObserveReturns, so that the other instances do
\* not tell states apart by it; there, properties of returned values are
\* stated on the returning step.
Return(a, r) ==
    /\ pc' = [pc EXCEPT ![a] = "idle"]
    /\ obj' = [obj EXCEPT ![a] = None]
    /\ member' = [member EXCEPT ![a] = None]
    /\ mask' = [mask EXCEPT ![a] = {}]
    /\ udata' = [udata EXCEPT ![a] = 0]
    /\ deadline' = [deadline EXCEPT ![a] = "Forever"]
    /\ is_sig' = [is_sig EXCEPT ![a] = FALSE]
    /\ ret' = [ret EXCEPT ![a] = IF ObserveReturns THEN r ELSE None]

\* wait_on_object, up to the release of the state lock: push an
\* ObjectWaiter with a fresh manual-reset event on the waiters list of o.
wait_on_object(t, o, m, d) ==
    /\ waiters' = [waiters EXCEPT ![o] = Append(@, t)]
    /\ pc' = [pc EXCEPT ![t] = "sleep"]
    /\ obj' = [obj EXCEPT ![t] = o]
    /\ mask' = [mask EXCEPT ![t] = m]
    /\ deadline' = [deadline EXCEPT ![t] = d]
    /\ event' = [event EXCEPT ![t] = FALSE]
    /\ outcome' = [outcome EXCEPT ![t] = None]
    /\ wait_result' = [wait_result EXCEPT ![t] = Err("Unknown")]
    /\ UNCHANGED <<member, udata, is_sig, ret>>

-----------------------------------------------------------------------------
(* ObjectBase *)

\* ObjectBase::wait_until: under the object's lock, return at once when a
\* wanted signal is active, else park with wait_on_object.
wait_until(t, b, m, d) ==
    /\ pc[t] = "idle"
    /\ baseLock[b] = None
    /\ IF Intersects(active_signals[b], m)
       THEN /\ Return(t, Ok(0, active_signals[b]))
            /\ UNCHANGED <<waiters, event, outcome, wait_result>>
       ELSE wait_on_object(t, b, m, d)
    /\ UNCHANGED <<baseLock, groupLock, active_signals, wait_group,
                   signaled_objects, unsignaled_objects>>

\* The early return of WaitGroupMember::signal: a member record whose
\* state neither is nor becomes signaled needs no group lock.
NeedsMemberSignal(b, s) ==
    /\ wait_group[b] # None
    /\ Intersects(s, wait_group[b].signal_mask) \/ wait_group[b].is_signaled

\* ObjectBase::signal and signal_impl, up to the wait-group member: set
\* active_signals to update_fn(active_signals) = s.  With toGroup the
\* member's signal needs the group lock next (sig_group); otherwise the
\* local waiters are woken by the results localWake and the lock released.
signal_step(a, b, s, toGroup, localWake) ==
    /\ pc[a] = "idle"
    /\ baseLock[b] = None
    /\ active_signals' = [active_signals EXCEPT ![b] = s]
    /\ IF toGroup
       THEN /\ baseLock' = [baseLock EXCEPT ![b] = a]
            /\ pc' = [pc EXCEPT ![a] = "sig_group"]
            /\ obj' = [obj EXCEPT ![a] = b]
            /\ NoDelivery
            /\ UNCHANGED <<member, mask, udata, deadline, is_sig, ret>>
       ELSE /\ Deliver(localWake)
            /\ UNCHANGED <<baseLock, pc, locals>>
    /\ UNCHANGED <<groupLock, wait_group, signaled_objects,
                   unsignaled_objects, waiters, outcome>>

\* Fault models of signal(): the early return of WaitGroupMember::signal
\* tested on `!signaled` alone, so a member never goes back to
\* unsignaled; and the local fan-out of signal_impl left out.
signal_early_return_on_unsignaled(a, b, s) ==
    signal_step(a, b, s, wait_group[b] # None /\ Intersects(s, wait_group[b].signal_mask),
                signal_all_matching_waiters(waiters[b], s, 0))

signal_no_local_wake(a, b, s) ==
    signal_step(a, b, s, NeedsMemberSignal(b, s), <<>>)

signal(a, b, s) ==
    signal_step(a, b, s, NeedsMemberSignal(b, s), signal_all_matching_waiters(waiters[b], s, 0))

\* WaitGroupMember::move_member_between_lists.
move_member_between_lists(from, to, b) == <<Remove(from, b), Cons(b, to)>>

\* WaitGroupMember::signal's update of the group lists of member b:
\* <<unsignaled_objects', signaled_objects'>>.
member_lists(b) ==
    LET wg == wait_group[b]
        g  == wg.group
        signaled == Intersects(active_signals[b], wg.signal_mask)
    IN  CASE signaled /\ ~wg.is_signaled ->
               move_member_between_lists(unsignaled_objects[g], signaled_objects[g], b)
          [] ~signaled /\ wg.is_signaled ->
               LET m == move_member_between_lists(signaled_objects[g], unsignaled_objects[g], b)
               IN  <<m[2], m[1]>>
          [] OTHER -> <<unsignaled_objects[g], signaled_objects[g]>>

\* Fault model: the group's waiters woken with user_data 0, as the
\* object fan-out does ("these waiters are never a wait group").
member_wake_user_data_zero(b) ==
    IF Intersects(active_signals[b], wait_group[b].signal_mask)
    THEN signal_all_matching_waiters(waiters[wait_group[b].group], {READABLE}, 0)
    ELSE <<>>

\* WaitGroupMember::signal's fan-out: when signaled, the group's waiters
\* for READABLE get READABLE and the member's user_data.
member_wake(b) ==
    IF Intersects(active_signals[b], wait_group[b].signal_mask)
    THEN signal_all_matching_waiters(waiters[wait_group[b].group], {READABLE},
                                     wait_group[b].user_data)
    ELSE <<>>

\* signal_impl's fan-out to the object's own waiters, with user_data 0.
local_wake(b) == signal_all_matching_waiters(waiters[b], active_signals[b], 0)

\* WaitGroupMember::signal under the group lock, then the rest of
\* signal_impl: move the member to the list its new state belongs in,
\* record is_signaled, deliver the results R, release both locks.
member_signal_step(a, R) ==
    LET b == obj[a]  g == wait_group[obj[a]].group IN
    /\ pc[a] = "sig_group"
    /\ groupLock[g] = None
    /\ unsignaled_objects' = [unsignaled_objects EXCEPT ![g] = member_lists(b)[1]]
    /\ signaled_objects' = [signaled_objects EXCEPT ![g] = member_lists(b)[2]]
    /\ wait_group' = [wait_group EXCEPT ![b].is_signaled =
                        Intersects(active_signals[b], wait_group[b].signal_mask)]
    /\ Deliver(R)
    /\ baseLock' = [baseLock EXCEPT ![b] = None]
    /\ Return(a, None)
    /\ UNCHANGED <<groupLock, active_signals, waiters, outcome>>

\* Fault models: the object's own waiters not woken after the member is
\* handled, or the group's waiters not woken.
WaitGroupMember_signal_no_local_wake(a) == member_signal_step(a, member_wake(obj[a]))
WaitGroupMember_signal_no_group_wake(a) == member_signal_step(a, local_wake(obj[a]))

\* The member's signal and then the local fan-out, both under the locks.
WaitGroupMember_signal(a) ==
    member_signal_step(a, member_wake(obj[a]) @@ local_wake(obj[a]))

-----------------------------------------------------------------------------
(* wait_on_object after the lock is dropped *)

\* Fault model: Event::wait_until returning Ok before the event is set
\* (an auto-reset event, or a wake on a stale event of an earlier wait).
event_signaled_spurious(t) ==
    /\ pc[t] = "sleep"
    /\ pc' = [pc EXCEPT ![t] = "relock"]
    /\ outcome' = [outcome EXCEPT ![t] = "Ok"]
    /\ UNCHANGED <<baseLock, groupLock, active_signals, wait_group,
                   signaled_objects, unsignaled_objects, waiters, locals,
                   event, wait_result>>

\* Event::wait_until returns Ok: the event was signaled.
event_signaled(t) ==
    /\ pc[t] = "sleep"
    /\ event[t]
    /\ pc' = [pc EXCEPT ![t] = "relock"]
    /\ outcome' = [outcome EXCEPT ![t] = "Ok"]
    /\ UNCHANGED <<baseLock, groupLock, active_signals, wait_group,
                   signaled_objects, unsignaled_objects, waiters, locals,
                   event, wait_result>>

\* Event::wait_until returns an error: the deadline expired.  Whether a
\* signal that raced the expiry wins is up to the scheduler, so the
\* deadline may fire whether or not the event is set.
event_timeout(t) ==
    /\ pc[t] = "sleep"
    /\ deadline[t] = "Finite"
    /\ pc' = [pc EXCEPT ![t] = "relock"]
    /\ outcome' = [outcome EXCEPT ![t] = "DeadlineExceeded"]
    /\ UNCHANGED <<baseLock, groupLock, active_signals, wait_group,
                   signaled_objects, unsignaled_objects, waiters, locals,
                   event, wait_result>>

LockFree(o) == IF o \in Bases THEN baseLock[o] = None ELSE groupLock[o] = None

\* Fault model: an error from Event::wait_until returned before the
\* waiter is unlinked.
wait_on_object_remove_skip_on_error(t) ==
    LET o == obj[t] IN
    /\ pc[t] = "relock"
    /\ LockFree(o)
    /\ IF outcome[t] = "Ok"
       THEN waiters' = [waiters EXCEPT ![o] = Remove(@, t)]
       ELSE UNCHANGED waiters
    /\ Return(t, IF outcome[t] = "Ok" THEN wait_result[t] ELSE Err(outcome[t]))
    /\ outcome' = [outcome EXCEPT ![t] = None]
    /\ UNCHANGED <<baseLock, groupLock, active_signals, wait_group,
                   signaled_objects, unsignaled_objects, event, wait_result>>

\* wait_on_object after the wait: retake the object's lock, unlink the
\* waiter by its key, and return the error or the written wait_result.
wait_on_object_remove(t) ==
    LET o == obj[t] IN
    /\ pc[t] = "relock"
    /\ LockFree(o)
    /\ waiters' = [waiters EXCEPT ![o] = Remove(@, t)]
    /\ Return(t, IF outcome[t] = "Ok" THEN wait_result[t] ELSE Err(outcome[t]))
    /\ outcome' = [outcome EXCEPT ![t] = None]
    /\ UNCHANGED <<baseLock, groupLock, active_signals, wait_group,
                   signaled_objects, unsignaled_objects, event, wait_result>>

-----------------------------------------------------------------------------
(* WaitGroupObject *)

\* WaitGroupObject::object_wait under the group lock: no members is an
\* error; a signaled member means the head of signaled_objects is read
\* (gw_peek, which takes that member's lock); else park.
WaitGroup_object_wait(t, g, m, d) ==
    /\ pc[t] = "idle"
    /\ groupLock[g] = None
    /\ \/ /\ signaled_objects[g] = <<>> /\ unsignaled_objects[g] = <<>>
          /\ Return(t, Err("InvalidArgument"))
          /\ UNCHANGED <<groupLock, waiters, event, outcome, wait_result>>
       \/ /\ signaled_objects[g] # <<>>
          /\ groupLock' = [groupLock EXCEPT ![g] = t]
          /\ pc' = [pc EXCEPT ![t] = "gw_peek"]
          /\ obj' = [obj EXCEPT ![t] = g]
          /\ member' = [member EXCEPT ![t] = Head(signaled_objects[g])]
          /\ mask' = [mask EXCEPT ![t] = m]
          /\ UNCHANGED <<waiters, event, outcome, wait_result,
                         udata, deadline, is_sig, ret>>
       \/ /\ signaled_objects[g] = <<>> /\ unsignaled_objects[g] # <<>>
          /\ wait_on_object(t, g, m, d)
          /\ UNCHANGED groupLock
    /\ UNCHANGED <<baseLock, active_signals, wait_group, signaled_objects,
                   unsignaled_objects>>

\* object_wait, already-signaled path: with the group lock held, lock the
\* head member and return its user_data and active signals.
WaitGroup_object_wait_peek(t) ==
    LET b == member[t] IN
    /\ pc[t] = "gw_peek"
    /\ baseLock[b] = None
    /\ wait_group[b] # None
    /\ groupLock' = [groupLock EXCEPT ![obj[t]] = None]
    /\ Return(t, Ok(wait_group[b].user_data, active_signals[b]))
    /\ UNCHANGED <<baseLock, active_signals, wait_group, signaled_objects,
                   unsignaled_objects, waiters, event, outcome, wait_result>>

\* wait_group_add up to the group lock: a wait group as member is
\* InvalidArgument; under the member's lock, an existing membership is
\* ResourceExhausted; else is_signaled is computed and the group lock is
\* taken next.
wait_group_add(t, g, x, m, u) ==
    /\ pc[t] = "idle"
    /\ \/ /\ x \in Groups
          /\ Return(t, Err("InvalidArgument"))
          /\ UNCHANGED baseLock
       \/ /\ x \in Bases
          /\ baseLock[x] = None
          /\ wait_group[x] # None
          /\ Return(t, Err("ResourceExhausted"))
          /\ UNCHANGED baseLock
       \/ /\ x \in Bases
          /\ baseLock[x] = None
          /\ wait_group[x] = None
          /\ baseLock' = [baseLock EXCEPT ![x] = t]
          /\ pc' = [pc EXCEPT ![t] = "add_link"]
          /\ obj' = [obj EXCEPT ![t] = g]
          /\ member' = [member EXCEPT ![t] = x]
          /\ mask' = [mask EXCEPT ![t] = m]
          /\ udata' = [udata EXCEPT ![t] = u]
          /\ is_sig' = [is_sig EXCEPT ![t] = Intersects(active_signals[x], m)]
          /\ UNCHANGED <<deadline, ret>>
    /\ UNCHANGED <<groupLock, active_signals, wait_group, signaled_objects,
                   unsignaled_objects, waiters, event, outcome, wait_result>>

\* Fault model: the member record given the member's own handle where the
\* wait group's reference belongs.
wait_group_add_link_member_as_group(t) ==
    LET g == obj[t]  x == member[t] IN
    /\ pc[t] = "add_link"
    /\ groupLock[g] = None
    /\ wait_group' = [wait_group EXCEPT ![x] =
                        [group |-> x, signal_mask |-> mask[t],
                         user_data |-> udata[t], is_signaled |-> is_sig[t]]]
    /\ IF is_sig[t]
       THEN /\ signaled_objects' = [signaled_objects EXCEPT ![g] = Cons(x, @)]
            /\ UNCHANGED unsignaled_objects
       ELSE /\ unsignaled_objects' = [unsignaled_objects EXCEPT ![g] = Cons(x, @)]
            /\ UNCHANGED signaled_objects
    /\ baseLock' = [baseLock EXCEPT ![x] = None]
    /\ Return(t, Ok(0, {}))
    /\ UNCHANGED <<groupLock, active_signals, waiters, event, outcome,
                   wait_result>>

\* wait_group_add under both locks: install the WaitGroupMember and push
\* the member at the front of the list its state belongs in.
wait_group_add_link(t) ==
    LET g == obj[t]  x == member[t] IN
    /\ pc[t] = "add_link"
    /\ groupLock[g] = None
    /\ wait_group' = [wait_group EXCEPT ![x] =
                        [group |-> g, signal_mask |-> mask[t],
                         user_data |-> udata[t], is_signaled |-> is_sig[t]]]
    /\ IF is_sig[t]
       THEN /\ signaled_objects' = [signaled_objects EXCEPT ![g] = Cons(x, @)]
            /\ UNCHANGED unsignaled_objects
       ELSE /\ unsignaled_objects' = [unsignaled_objects EXCEPT ![g] = Cons(x, @)]
            /\ UNCHANGED signaled_objects
    /\ baseLock' = [baseLock EXCEPT ![x] = None]
    /\ Return(t, Ok(0, {}))
    /\ UNCHANGED <<groupLock, active_signals, waiters, event, outcome,
                   wait_result>>

\* wait_group_remove up to the group lock: a wait group is
\* InvalidArgument; under the member's lock, a member that `found` does
\* not hold of is NotFound; else the group lock is taken next.
wait_group_remove_step(t, g, x, found) ==
    /\ pc[t] = "idle"
    /\ \/ /\ x \in Groups
          /\ Return(t, Err("InvalidArgument"))
          /\ UNCHANGED baseLock
       \/ /\ x \in Bases
          /\ baseLock[x] = None
          /\ ~found
          /\ Return(t, Err("NotFound"))
          /\ UNCHANGED baseLock
       \/ /\ x \in Bases
          /\ baseLock[x] = None
          /\ found
          /\ baseLock' = [baseLock EXCEPT ![x] = t]
          /\ pc' = [pc EXCEPT ![t] = "remove_unlink"]
          /\ obj' = [obj EXCEPT ![t] = g]
          /\ member' = [member EXCEPT ![t] = x]
          /\ UNCHANGED <<mask, udata, deadline, is_sig, ret>>
    /\ UNCHANGED <<groupLock, active_signals, wait_group, signaled_objects,
                   unsignaled_objects, waiters, event, outcome, wait_result>>

\* Fault model: the ptr::eq check that the member is in this wait group
\* left out.
wait_group_remove_no_group_check(t, g, x) ==
    wait_group_remove_step(t, g, x, x \in Bases /\ GroupOf(x) # None)

\* No wait_group record, or one naming another group, is NotFound.
wait_group_remove(t, g, x) ==
    wait_group_remove_step(t, g, x, x \in Bases /\ GroupOf(x) = g)

\* Fault model: the member always unlinked from unsignaled_objects.
wait_group_remove_unlink_unsignaled_only(t) ==
    LET g == obj[t]  x == member[t] IN
    /\ pc[t] = "remove_unlink"
    /\ groupLock[g] = None
    /\ unsignaled_objects' = [unsignaled_objects EXCEPT ![g] = Remove(@, x)]
    /\ UNCHANGED signaled_objects
    /\ wait_group' = [wait_group EXCEPT ![x] = None]
    /\ baseLock' = [baseLock EXCEPT ![x] = None]
    /\ Return(t, Ok(0, {}))
    /\ UNCHANGED <<groupLock, active_signals, waiters, event, outcome,
                   wait_result>>

\* wait_group_remove under both locks: unlink the member from the list its
\* is_signaled names and clear its wait_group.
wait_group_remove_unlink(t) ==
    LET g == obj[t]  x == member[t] IN
    /\ pc[t] = "remove_unlink"
    /\ groupLock[g] = None
    /\ IF wait_group[x].is_signaled
       THEN /\ signaled_objects' = [signaled_objects EXCEPT ![g] = Remove(@, x)]
            /\ UNCHANGED unsignaled_objects
       ELSE /\ unsignaled_objects' = [unsignaled_objects EXCEPT ![g] = Remove(@, x)]
            /\ UNCHANGED signaled_objects
    /\ wait_group' = [wait_group EXCEPT ![x] = None]
    /\ baseLock' = [baseLock EXCEPT ![x] = None]
    /\ Return(t, Ok(0, {}))
    /\ UNCHANGED <<groupLock, active_signals, waiters, event, outcome,
                   wait_result>>

-----------------------------------------------------------------------------

Init ==
    /\ baseLock = [b \in Bases |-> None]
    /\ groupLock = [g \in Groups |-> None]
    /\ active_signals = [b \in Bases |-> {}]
    /\ wait_group = [b \in Bases |-> None]
    /\ signaled_objects = [g \in Groups |-> <<>>]
    /\ unsignaled_objects = [g \in Groups |-> <<>>]
    /\ waiters = [o \in Objects |-> <<>>]
    /\ pc = [a \in Actors |-> "idle"]
    /\ obj = [a \in Actors |-> None]
    /\ member = [a \in Actors |-> None]
    /\ mask = [a \in Actors |-> {}]
    /\ udata = [a \in Actors |-> 0]
    /\ deadline = [a \in Actors |-> "Forever"]
    /\ is_sig = [a \in Actors |-> FALSE]
    /\ event = [t \in Threads |-> FALSE]
    /\ outcome = [t \in Threads |-> None]
    /\ wait_result = [t \in Threads |-> Err("Unknown")]
    /\ ret = [a \in Actors |-> None]

\* The system calls a thread may make.
ThreadCall(t) ==
    \/ \E b \in Bases, m \in SUBSET SignalBits, d \in Deadlines : wait_until(t, b, m, d)
    \/ \E g \in Groups, m \in SUBSET SignalBits, d \in Deadlines : WaitGroup_object_wait(t, g, m, d)
    \/ \E g \in Groups, x \in Objects, m \in SUBSET SignalBits, u \in UserData :
          wait_group_add(t, g, x, m, u)
    \/ \E g \in Groups, x \in Objects : wait_group_remove(t, g, x)

\* The steps a thread takes inside a call.
ThreadStep(t) ==
    \/ event_signaled(t)
    \/ event_timeout(t)
    \/ wait_on_object_remove(t)
    \/ WaitGroup_object_wait_peek(t)
    \/ wait_group_add_link(t)
    \/ wait_group_remove_unlink(t)

SignalerCall(s) == \E b \in Bases, sigs \in SUBSET SignalBits : signal(s, b, sigs)

Next ==
    \/ \E t \in Threads : CanRun(t) /\ (ThreadCall(t) \/ ThreadStep(t))
    \/ \E s \in Signalers : CanRun(s) /\ (SignalerCall(s) \/ WaitGroupMember_signal(s))

\* The scheduler runs every ready thread eventually, and spinlocks are
\* held only by running code, so a woken thread that must retake its
\* object's lock (enabled whenever no other actor holds a spinlock) is
\* strongly fair.  The second half of a two-lock section is weakly fair:
\* once its first lock is held nothing else runs on a uniprocessor.
\* Calls themselves are not fair: a thread may stop making calls and a
\* signal source may stop signaling.
Fairness ==
    /\ \A t \in Threads :
          /\ SF_vars(CanRun(t) /\ (event_signaled(t) \/ wait_on_object_remove(t)))
          /\ WF_vars(CanRun(t) /\ (WaitGroup_object_wait_peek(t) \/ wait_group_add_link(t)
                                   \/ wait_group_remove_unlink(t)))
    /\ \A s \in Signalers : WF_vars(CanRun(s) /\ WaitGroupMember_signal(s))

Spec == Init /\ [][Next]_vars
FairSpec == Spec /\ Fairness

-----------------------------------------------------------------------------
(* Properties *)

InList(s, x) == \E i \in 1..Len(s) : s[i] = x
Count(s, x) == Cardinality({i \in 1..Len(s) : s[i] = x})

\* WaitGroupState's list invariants (wait_group.rs, the Safety comments of
\* signaled_objects and unsignaled_objects): an object is linked in a
\* group's lists exactly when its wait_group record names that group, it is
\* linked exactly once, and the list it is in is the one its is_signaled
\* names.  Broken by an unlink from the wrong list or a move that does not
\* unlink first.
MembershipConsistent ==
    \A b \in Bases :
        /\ \A g \in Groups :
              (InList(signaled_objects[g], b) \/ InList(unsignaled_objects[g], b))
                  <=> GroupOf(b) = g
        /\ GroupOf(b) # None =>
              LET g == GroupOf(b) IN
              /\ Count(signaled_objects[g], b) + Count(unsignaled_objects[g], b) = 1
              /\ InList(signaled_objects[g], b) <=> wait_group[b].is_signaled

\* A member's is_signaled, and so the list it is in, agrees with its active
\* signals whenever no signal() on it is in progress: wait_group_add
\* computes it from the signals seen under the member's lock, and
\* WaitGroupMember::signal moves it on every edge, its early return
\* skipping only when nothing changes.
SignaledMatchesActive ==
    \A b \in Bases :
        (wait_group[b] # None /\ baseLock[b] = None) =>
            (wait_group[b].is_signaled <=> Intersects(active_signals[b], wait_group[b].signal_mask))

\* No lost wake-up on an object (spec 8: "after signal(f) returns, every
\* waiter whose mask intersects the new active signals has been signaled
\* or removed"): with the object's lock free, a waiter still linked whose
\* mask intersects the active signals has had its event signaled.  Both
\* the check-then-park of wait_until and the two fan-outs of signal_impl
\* are needed.
NoLostWakeup ==
    \A b \in Bases : baseLock[b] = None =>
        \A i \in 1..Len(waiters[b]) :
            LET t == waiters[b][i] IN
            Intersects(active_signals[b], mask[t]) => event[t]

\* A waiter is linked in exactly one waiters list, once, for exactly as
\* long as its thread is inside wait_on_object (push_back before the lock
\* is dropped, remove_element after it is retaken, timeout or not); only
\* then may the thread read wait_result unsynchronised.
WaiterOwnership ==
    \A t \in Threads :
        LET n == Count(waiters[obj[t]], t) IN
        /\ \A o \in Objects \ {obj[t]} : ~InList(waiters[o], t)
        /\ (pc[t] \in {"sleep", "relock"}) => n = 1
        /\ (pc[t] \notin {"sleep", "relock"} /\ obj[t] # None) => n = 0

\* A wait that wakes with Ok returns what a matching signal wrote: on an
\* object, its active signals intersecting the waiter's mask and
\* user_data 0 ("these waiters are never a wait group"); on a group,
\* READABLE and the user_data of a member.
WokenWaitResult ==
    [][\A t \in Threads :
         (pc[t] = "relock" /\ pc'[t] = "idle" /\ outcome[t] = "Ok") =>
            LET r == wait_result[t] IN
            /\ r.status = "Ok"
            /\ obj[t] \in Bases => r.user_data = 0 /\ Intersects(r.pending, mask[t])
            /\ obj[t] \in Groups => r.user_data \in UserData /\ READABLE \in r.pending
      ]_vars

\* A member becoming signaled through signal() wakes every waiter of its
\* group that waits for READABLE, in the same critical section
\* (WaitGroupMember::signal fans out under the group lock).
MemberSignalWakesGroup ==
    [][\A b \in Bases, g \in Groups :
         (GroupOf(b) = g /\ ~InList(signaled_objects[g], b) /\ InList(signaled_objects'[g], b)) =>
            \A i \in 1..Len(waiters[g]) :
               READABLE \in mask[waiters[g][i]] => event'[waiters[g][i]]
      ]_vars

\* A thread that waits forever on an object whose active signals meet its
\* mask returns from the wait.
BaseWaiterWakes ==
    \A t \in Threads :
        (pc[t] = "sleep" /\ obj[t] \in Bases /\ deadline[t] = "Forever"
           /\ Intersects(active_signals[obj[t]], mask[t]))
        ~> pc[t] = "idle"

\* A thread that waits forever for READABLE on a wait group that has a
\* signaled member returns from the wait: "when any member object is
\* signaled, the WaitGroupObject itself becomes READABLE" and object_wait
\* "blocks until any of the signals in signal_mask are active".
GroupWaiterWakes ==
    \A t \in Threads :
        (pc[t] = "sleep" /\ obj[t] \in Groups /\ deadline[t] = "Forever"
           /\ READABLE \in mask[t] /\ signaled_objects[obj[t]] # <<>>)
        ~> pc[t] = "idle"

\* object_wait on a wait group succeeds only for a signal_mask that
\* includes READABLE, the one signal a wait group has.
GroupWaitHonoursMask ==
    [][\A t \in Threads :
         (obj[t] \in Groups /\ pc[t] \in {"gw_peek", "relock"} /\ pc'[t] = "idle"
            /\ outcome[t] # "DeadlineExceeded")
            => READABLE \in mask[t]
      ]_vars

\* The lock the actor's next step spins on, or None.
LockHolder(o) == IF o \in Bases THEN baseLock[o] ELSE groupLock[o]
Wants(a) ==
    CASE pc[a] = "gw_peek"                        -> member[a]
      [] pc[a] = "sig_group"                      -> GroupOf(obj[a])
      [] pc[a] \in {"add_link", "remove_unlink"}  -> obj[a]
      [] OTHER                                    -> None

\* Lock order "member base lock before group state lock" (spec 4.2): no two
\* actors each spin on a lock the other holds.
NoLockCycle ==
    ~\E a1, a2 \in Actors :
        /\ a1 # a2
        /\ Wants(a1) # None /\ LockHolder(Wants(a1)) = a2
        /\ Wants(a2) # None /\ LockHolder(Wants(a2)) = a1

=============================================================================
