--------------------------- MODULE WaitGroupScenario ---------------------------
(***************************************************************************)
(* The wait_group user test (src/pw_kernel/tests/wait_group/user) run on   *)
(* KernelObjects: the initiator sends 'a' on channel A, 'b' on B and 'c'   *)
(* on A, each with channel_transact, and checks that the handler answers   *)
(* 0, 1, 2; the handler enrols both channels in WAIT_GROUP_1 with user     *)
(* data 11 and 22, waits on the group three times expecting 11, 22, 11,    *)
(* reads and answers each request, then checks the error paths of          *)
(* wait_group_add, wait_group_remove and object_wait.                      *)
(*                                                                         *)
(* Each process is a thread of KernelObjects that steps through its        *)
(* program; a call is one of KernelObjects' actions and the program moves  *)
(* on when the kernel has returned (pc = "idle"), reading ret.  Channels   *)
(* are not in src/: channel_transact, channel_read and channel_respond     *)
(* follow the spec (a request makes the handler end READABLE, a response   *)
(* clears it and makes the initiator end READABLE), with their signals     *)
(* raised through ObjectBase::signal.                                      *)
(***************************************************************************)
EXTENDS KernelObjects

CONSTANTS
    Initiator, Handler,     \* the two test processes' threads
    IniA, HdlA, IniB, HdlB, \* initiator and handler ends of channels A, B
    WG1, WG2                \* WAIT_GROUP_1, WAIT_GROUP_2

ASSUME Threads = {Initiator, Handler} /\ Signalers = {}

Channels == {"A", "B"}
IniEnd == [c \in Channels |-> IF c = "A" THEN IniA ELSE IniB]
HdlEnd == [c \in Channels |-> IF c = "A" THEN HdlA ELSE HdlB]

\* The handler's object table (app_handler::handle) and ObjectTable's
\* get_object on an array table: the entry at the handle, or None past it.
HandlerTable == <<WG1, WG2, HdlA, HdlB>>
WAIT_GROUP_1 == 0
WAIT_GROUP_2 == 1
IPC_A == 2
IPC_B == 3
get_object(table, h) == IF h < Len(table) THEN table[h + 1] ELSE None

\* What each iteration sends (initiator) and expects (handler).
Sends == <<[ch |-> "A", c |-> "a"], [ch |-> "B", c |-> "b"], [ch |-> "A", c |-> "c"]>>
Expected == <<[ud |-> 11, h |-> IPC_A, c |-> "a"], [ud |-> 22, h |-> IPC_B, c |-> "b"],
              [ud |-> 11, h |-> IPC_A, c |-> "c"]>>
Iterations == 3

VARIABLES
    step,       \* where each test process is in its program
    iter,       \* its loop counter i / iteration
    status,     \* "running", "passed", or the error it returned
    request,    \* the character a channel's initiator has posted, or None
    response,   \* the number its handler has answered, or None
    reply,      \* what the initiator's last channel_transact received
    shutdown    \* the status passed to debug_shutdown, or None

scenario == <<step, iter, status, request, response, reply, shutdown>>

allvars == <<baseLock, groupLock, active_signals, wait_group, signaled_objects,
             unsignaled_objects, waiters, pc, obj, member, mask, udata,
             deadline, is_sig, event, outcome, wait_result, ret,
             step, iter, status, request, response, reply, shutdown>>

ScenarioInit ==
    /\ Init
    /\ step = [t \in Threads |-> IF t = Handler THEN "add1" ELSE "send"]
    /\ iter = [t \in Threads |-> 0]
    /\ status = [t \in Threads |-> "running"]
    /\ request = [c \in Channels |-> None]
    /\ response = [c \in Channels |-> None]
    /\ reply = None
    /\ shutdown = None

\* Process t, back from the kernel at step s, goes on at step next.
At(t, s) == step[t] = s /\ status[t] = "running" /\ pc[t] = "idle" /\ shutdown = None
Goto(t, next) == step' = [step EXCEPT ![t] = next]

\* The function returns e: the process stops at exit with that status.
Exit(t, e) ==
    /\ step' = [step EXCEPT ![t] = "exit"]
    /\ status' = [status EXCEPT ![t] = e]

\* A system call the program makes at step s; the kernel actions of
\* KernelObjects carry it out.
Call(t, s, call, next) ==
    /\ At(t, s)
    /\ call
    /\ Goto(t, next)
    /\ UNCHANGED <<iter, status, request, response, reply, shutdown>>

\* The `?` after a call: an error is returned from the function.
Try(t, s, next) ==
    /\ At(t, s)
    /\ IF ret[t].status = "Ok" THEN Goto(t, next) /\ UNCHANGED status
                               ELSE Exit(t, ret[t].status)
    /\ UNCHANGED <<vars, iter, request, response, reply, shutdown>>

\* A call that must fail with e, else the test returns Internal; after the
\* last check the function returns Ok.
ExpectErr(t, s, e, next) ==
    /\ At(t, s)
    /\ CASE ret[t] # Err(e) -> Exit(t, "Internal")
          [] next = "exit"   -> Exit(t, "passed")
          [] OTHER           -> Goto(t, next) /\ UNCHANGED status
    /\ UNCHANGED <<vars, iter, request, response, reply, shutdown>>

-----------------------------------------------------------------------------
(* The handler (handler.rs wait_group) *)

H == Handler
Obj(h) == get_object(HandlerTable, h)
ChannelOf(o) == CHOOSE c \in Channels : HdlEnd[c] = o

\* The wait_return of iteration i must carry the expected user_data and
\* READABLE, else Internal.
CheckWaitReturn ==
    /\ At(H, "check")
    /\ LET e == Expected[iter[H] + 1] IN
       IF ret[H].user_data = e.ud /\ READABLE \in ret[H].pending
       THEN Goto(H, "read") /\ UNCHANGED status
       ELSE Exit(H, "Internal")
    /\ UNCHANGED <<vars, iter, request, response, reply, shutdown>>

\* channel_read of the request, the length check and the character check:
\* no posted request reads no bytes (OutOfRange), another character is
\* InvalidArgument.
ChannelRead ==
    /\ At(H, "read")
    /\ LET e == Expected[iter[H] + 1]  ch == ChannelOf(Obj(e.h)) IN
       CASE request[ch] = None -> Exit(H, "OutOfRange")
         [] request[ch] # e.c  -> Exit(H, "InvalidArgument")
         [] OTHER              -> Goto(H, "respond") /\ UNCHANGED status
    /\ UNCHANGED <<vars, iter, request, response, reply, shutdown>>

\* channel_respond with the iteration number: the response is posted, the
\* request consumed, and the handler end stops being READABLE ...
ChannelRespond ==
    /\ At(H, "respond")
    /\ LET ch == ChannelOf(Obj(Expected[iter[H] + 1].h)) IN
       /\ response' = [response EXCEPT ![ch] = iter[H]]
       /\ request' = [request EXCEPT ![ch] = None]
       /\ signal(H, HdlEnd[ch], {})
    /\ Goto(H, "respond_wake")
    /\ UNCHANGED <<iter, status, reply, shutdown>>

\* ... then the initiator end becomes READABLE; the loop goes on.
RespondWake ==
    /\ At(H, "respond_wake")
    /\ LET ch == ChannelOf(Obj(Expected[iter[H] + 1].h)) IN
       signal(H, IniEnd[ch], {READABLE})
    /\ iter' = [iter EXCEPT ![H] = @ + 1]
    /\ Goto(H, IF iter[H] + 1 = Iterations THEN "dup_add" ELSE "wait")
    /\ UNCHANGED <<status, request, response, reply, shutdown>>

HandlerProgram ==
    \/ Call(H, "add1", wait_group_add(H, Obj(WAIT_GROUP_1), Obj(IPC_A), {READABLE}, 11), "add1_try")
    \/ Try(H, "add1_try", "add2")
    \/ Call(H, "add2", wait_group_add(H, Obj(WAIT_GROUP_1), Obj(IPC_B), {READABLE}, 22), "add2_try")
    \/ Try(H, "add2_try", "wait")
    \/ Call(H, "wait", WaitGroup_object_wait(H, Obj(WAIT_GROUP_1), {READABLE}, "Forever"), "wait_try")
    \/ Try(H, "wait_try", "check")
    \/ CheckWaitReturn
    \/ ChannelRead
    \/ ChannelRespond
    \/ RespondWake
    \/ Call(H, "dup_add", wait_group_add(H, Obj(WAIT_GROUP_2), Obj(IPC_A), {READABLE}, 3), "dup_add_ret")
    \/ ExpectErr(H, "dup_add_ret", "ResourceExhausted", "wrong_remove")
    \/ Call(H, "wrong_remove", wait_group_remove(H, Obj(WAIT_GROUP_2), Obj(IPC_A)), "wrong_remove_ret")
    \/ ExpectErr(H, "wrong_remove_ret", "NotFound", "remove_B")
    \/ Call(H, "remove_B", wait_group_remove(H, Obj(WAIT_GROUP_1), Obj(IPC_B)), "remove_B_try")
    \/ Try(H, "remove_B_try", "remove_A")
    \/ Call(H, "remove_A", wait_group_remove(H, Obj(WAIT_GROUP_1), Obj(IPC_A)), "remove_A_try")
    \/ Try(H, "remove_A_try", "remove_again")
    \/ Call(H, "remove_again", wait_group_remove(H, Obj(WAIT_GROUP_1), Obj(IPC_A)), "remove_again_ret")
    \/ ExpectErr(H, "remove_again_ret", "NotFound", "empty_wait")
    \/ Call(H, "empty_wait", WaitGroup_object_wait(H, Obj(WAIT_GROUP_1), {READABLE}, "Forever"), "empty_wait_ret")
    \/ ExpectErr(H, "empty_wait_ret", "InvalidArgument", "nested_add")
    \/ Call(H, "nested_add", wait_group_add(H, Obj(WAIT_GROUP_1), Obj(WAIT_GROUP_2), {READABLE}, 3), "nested_add_ret")
    \/ ExpectErr(H, "nested_add_ret", "InvalidArgument", "exit")

-----------------------------------------------------------------------------
(* The initiator (initiator.rs send_char, test_wait_group) *)

I == Initiator
Sent == Sends[iter[I] + 1]

\* channel_transact, first half: post the character and make the handler
\* end READABLE through its ObjectBase::signal.
TransactSend ==
    /\ At(I, "send")
    /\ request' = [request EXCEPT ![Sent.ch] = Sent.c]
    /\ signal(I, HdlEnd[Sent.ch], {READABLE})
    /\ Goto(I, "await")
    /\ UNCHANGED <<iter, status, response, reply, shutdown>>

\* channel_transact, after the wait on the initiator end: take the
\* response and clear the initiator end's READABLE.
TransactReceive ==
    /\ At(I, "recv")
    /\ reply' = response[Sent.ch]
    /\ response' = [response EXCEPT ![Sent.ch] = None]
    /\ signal(I, IniEnd[Sent.ch], {})
    /\ Goto(I, "recv_check")
    /\ UNCHANGED <<iter, status, request, shutdown>>

\* send_char's checks: a missing response is a short read (OutOfRange), a
\* wrong number InvalidArgument; after the third character
\* test_wait_group returns Ok.
CheckReply ==
    /\ At(I, "recv_check")
    /\ CASE reply = None        -> Exit(I, "OutOfRange") /\ UNCHANGED iter
         [] reply # iter[I]      -> Exit(I, "InvalidArgument") /\ UNCHANGED iter
         [] iter[I] + 1 = Iterations -> Exit(I, "passed") /\ iter' = [iter EXCEPT ![I] = @ + 1]
         [] OTHER -> Goto(I, "send") /\ iter' = [iter EXCEPT ![I] = @ + 1] /\ UNCHANGED status
    /\ UNCHANGED <<vars, request, response, reply, shutdown>>

InitiatorProgram ==
    \/ TransactSend
    \/ Call(I, "await", wait_until(I, IniEnd[Sent.ch], {READABLE}, "Forever"), "await_try")
    \/ Try(I, "await_try", "recv")
    \/ TransactReceive
    \/ CheckReply

\* debug_shutdown: the initiator shuts the system down with its result;
\* the handler only on an error (on success it loops forever).
debug_shutdown(t) ==
    /\ shutdown = None
    /\ step[t] = "exit"
    /\ t = Initiator \/ status[t] # "passed"
    /\ shutdown' = status[t]
    /\ UNCHANGED <<vars, step, iter, status, request, response, reply>>

-----------------------------------------------------------------------------

\* A kernel step of a thread inside a call: the wait protocol's later
\* steps, the second lock of a wait-group call, and the member half of a
\* signal() the channel code made.
KernelStep(t) ==
    /\ shutdown = None
    /\ ThreadStep(t) \/ WaitGroupMember_signal(t)
    /\ UNCHANGED scenario

\* Nothing happens any more: the system has shut down, or every thread
\* is asleep on an event nobody has set or is the handler in the `loop {}`
\* of its entry after returning Ok, so the CPU runs the idle thread or
\* that loop.
Quiescent ==
    /\ \/ shutdown # None
       \/ \A t \in Threads :
             \/ pc[t] = "sleep" /\ ~event[t] /\ deadline[t] = "Forever"
             \/ t = Handler /\ step[t] = "exit" /\ status[t] = "passed"
    /\ UNCHANGED allvars

ScenarioNext ==
    \/ \E t \in Threads : CanRun(t) /\ (KernelStep(t) \/ debug_shutdown(t))
    \/ CanRun(H) /\ HandlerProgram
    \/ CanRun(I) /\ InitiatorProgram
    \/ Quiescent

\* Both processes are ready whenever they are not asleep in the kernel, so
\* the scheduler runs their programs (weak fairness); a woken thread and
\* the second half of a two-lock section as in KernelObjects.
ScenarioFairness ==
    /\ \A t \in Threads :
          /\ SF_allvars(/\ CanRun(t) /\ shutdown = None
                      /\ (event_signaled(t) \/ wait_on_object_remove(t))
                      /\ UNCHANGED scenario)
          /\ WF_allvars(CanRun(t) /\ KernelStep(t))
          /\ WF_allvars(CanRun(t) /\ debug_shutdown(t))
    /\ WF_allvars(CanRun(H) /\ HandlerProgram)
    /\ WF_allvars(CanRun(I) /\ InitiatorProgram)

ScenarioSpec == ScenarioInit /\ [][ScenarioNext]_allvars /\ ScenarioFairness

-----------------------------------------------------------------------------
(* Properties *)

\* In every interleaving of the two processes neither test function
\* returns an error: the handler's waits on WAIT_GROUP_1 return 11, 22,
\* 11 with READABLE, each read finds the character sent, every reply is
\* the iteration number, and the error paths return ResourceExhausted,
\* NotFound, NotFound, InvalidArgument, InvalidArgument.
TestNeverFails == \A t \in Threads : status[t] \in {"running", "passed"}

\* The test ends: the system is eventually shut down with the initiator's
\* PASSED.
TestPasses == <>(shutdown = "passed")

\* The handler's checks of the error paths (handler.rs 94-152) run before
\* the initiator's debug_shutdown ends the test.
HandlerChecksRun == <>(step[H] = "exit")

=============================================================================
