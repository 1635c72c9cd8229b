# TLA+ models of the pw_kernel object and wait subsystem

This directory holds TLA+ models of the kernel object layer of `pw_kernel`
(`src/pw_kernel/kernel/object.rs`, `src/pw_kernel/kernel/object/wait_group.rs`)
of its system-call dispatcher (`src/pw_kernel/kernel/syscall.rs`) and of
the wait-group user test (`src/pw_kernel/tests/wait_group/user`), and the TLC configurations that check them. `PROJECT.json` lists every
component, run, fault model ("mutant"), the source lines each definition
translates, the findings and the hazards.

## 1. Inventory

### Components and their state

| Component | Source | State | Operations |
|---|---|---|---|
| Object base | `object.rs` 218-341 | `ObjectBaseState`: `active_signals`, `wait_group: Option<WaitGroupMember>`, `waiters` list, all under the object's `SpinLock` | `wait_until`, `signal(update_fn)` → `signal_impl` |
| Wait protocol | `object.rs` 120-216 | one `ObjectWaiter` per waiting call, on the caller's stack: `signal_mask`, `signaler`, `wait_result` cell | `wait_on_object` (park, drop lock, `Event::wait_until`, relock, unlink, read result), `signal_all_matching_waiters` |
| Wait group | `wait_group.rs` | `WaitGroupState`: `signaled_objects`, `unsignaled_objects`, `waiters`, under the group's `SpinLock`; per member `WaitGroupMember {signal_mask, user_data, wait_group, is_signaled}` stored in the member's `ObjectBaseState` | `object_wait`, `wait_group_add`, `wait_group_remove`, `WaitGroupMember::signal`, `move_member_between_lists` |
| KernelObject trait | `object.rs` 43-112 | none | default `Unimplemented` methods |
| Object table | `object.rs` 243-287 | array of object references | `get_object(handle)` |
| Syscall dispatcher | `syscall.rs` | none | `handle_syscall` (DebugNoOp, DebugAdd with `checked_add`, DebugPutc with char validation), `raw_handle_syscall` |
| Wait-group user test | `tests/wait_group/user/{initiator,handler}.rs` | per-process loop counter | initiator: three `channel_transact`; handler: two `wait_group_add`, three `object_wait`/`channel_read`/`channel_respond`, then the error-path checks |
| Console backend | `target/qemu/virt/console_riscv.rs` | UART behind a spinlock | `console_backend_write`, `console_backend_flush` |
| Format macro tests | `pw_format/rust/...printf_test.rs` | none | compile-time macro expansion tests |

Not in `src/` (named by the spec only): the spinlock and `Event`
(scheduler layer), `Signals`/`WaitReturn` (`syscall_defs`), channel,
interrupt and buffer objects, the intrusive lists and foreign boxes.

### How they interact

A user thread traps into the kernel and calls a `KernelObject` method of an
object. `wait_until` / `object_wait` take the object's spinlock; if the
wanted signal is already there they return at once, otherwise
`wait_on_object` links an `ObjectWaiter` into the object's waiters list,
drops the lock and sleeps on a manual-reset `Event`. Signal sources
(interrupt handlers, channel peers) call `ObjectBase::signal`, which under
the object's lock replaces `active_signals` and runs `signal_impl`: first
the object's `WaitGroupMember` (if any) takes the **group** lock, moves the
object between `unsignaled_objects` and `signaled_objects` and wakes the
group's READABLE waiters with the member's `user_data`; then the object's
own matching waiters are woken with `user_data` 0. Waking writes the
waiter's `wait_result` and fires its event but leaves it linked; the woken
thread retakes the lock, unlinks itself, then reads `wait_result`.

### What is hard

* Interleaving: the lock is dropped between parking and waking; signals,
  enrolments, removals and other waits run in between.
* Lock order: `signal`, `wait_group_add` and `wait_group_remove` take the
  member lock, then the group lock; `WaitGroupObject::object_wait` takes
  the group lock, then a member lock.
* Timeouts: the deadline can fire after a signal already wrote the result.
* Level vs edge: group waiters are woken only on a member's signal, but a
  member can enter `signaled_objects` through `wait_group_add` too.
* List invariants that `unsafe` relies on: a member is in exactly one of
  its group's lists, the one `is_signaled` names; a waiter is in exactly
  one waiters list while its thread waits.

### Properties that make each component correct

* Object base: no lost wake-up (a linked waiter whose mask meets the active
  signals has been signaled once the lock is free); a woken wait returns a
  result written by a matching signal; a forever-waiter on an active object
  returns.
* Wait protocol: waiter ownership (linked exactly while waiting, unlinked
  before return, timeout or not).
* Wait group: membership consistency (lists vs `wait_group` records vs
  `is_signaled`), `is_signaled` matches the member's active signals, a
  member's signal edge wakes the group's waiters, a group waiter is woken
  whenever the group has a signaled member, lock order.
* Dispatcher: overflow of `checked_add` is `OutOfRange`; invalid chars are
  `InvalidArgument`; unknown ids are errors.

## 2. Plan

1. **KernelObjects** (done): object bases + wait groups + wait protocol in
   one module, since `signal_impl` nests the group's critical section inside
   the object's. MC module `MCKernelObjects` with one cfg per question.
2. **WaitAbstract** (done): the abstract promise of a wait - a wait returns
   Ok only while (or after) a matching signal was active, or times out - as
   an atomic specification, and `KernelObjects` shown to refine it with
   `INSTANCE ... WITH` under a mapping that hides locks and waiter lists.
3. **Syscall** (done): `handle_syscall` and `raw_handle_syscall` with
   scaled machine-word widths, `checked_add`, `char::from_u32` validity,
   checked against reference definitions over boundary inputs.
4. **WaitGroupScenario** (done): the `tests/wait_group/user` initiator and handler
   composed with `KernelObjects` and a channel model (channel code is not in
   `src/`: modelled from the spec) to check the 11, 22, 11 sequence and the
   ResourceExhausted / NotFound / InvalidArgument paths, including under
   preemption between the two processes; the object table resolves the
   handler's handles.
5. **ConsoleBackend** (done): `console_backend_write` and `console_backend_flush` with concurrent writers
   and QEMU's 16550 as the environment. The format macros stay unmodelled
   (compile-time).

## 3. The module KernelObjects

State (VARIABLES) ↔ code:

| Variable | Code |
|---|---|
| `baseLock[b]`, `groupLock[g]` | `ObjectBase.state` / `WaitGroupObject.state` spinlocks (holder or `None`) |
| `active_signals[b]` | `ObjectBaseState.active_signals` |
| `wait_group[b]` | `ObjectBaseState.wait_group` (a `WaitGroupMember` record or `None`) |
| `signaled_objects[g]`, `unsignaled_objects[g]` | `WaitGroupState` lists, head first (`push_front`) |
| `waiters[o]` | the `waiters` list of an object or group (FIFO, `push_back`) |
| `mask[t]`, `event[t]`, `wait_result[t]` | the thread's `ObjectWaiter`: `signal_mask`, its event's state, `wait_result` |
| `outcome[t]` | what `Event::wait_until` returned |
| `pc`, `obj`, `member`, `udata`, `deadline`, `is_sig` | the calling actor's position and locals |
| `ret[t]` | the `Result` the actor's last call returned to its caller; recorded only when the constant `ObserveReturns` is TRUE (the scenario), otherwise always `None` |

Each action is one stretch of code between two spinlock acquisitions, and is
enabled only when the lock it takes is free:

| Action | Code |
|---|---|
| `wait_until` | `ObjectBase::wait_until` + `wait_on_object` up to `drop(object_state)` |
| `signal` | `ObjectBase::signal`, `signal_impl` when the member's early return applies (or there is no member) |
| `WaitGroupMember_signal` | `WaitGroupMember::signal` under the group lock, then the local fan-out of `signal_impl` |
| `event_signaled`, `event_timeout` | `Event::wait_until` returning Ok / deadline exceeded |
| `wait_on_object_remove` | `wait_on_object` after the wait: relock, `remove_element`, read result |
| `WaitGroup_object_wait`, `WaitGroup_object_wait_peek` | `WaitGroupObject::object_wait` (empty error / park / immediate path with the member's lock) |
| `wait_group_add`, `wait_group_add_link` | `wait_group_add` before and after taking the group lock |
| `wait_group_remove`, `wait_group_remove_unlink` | `wait_group_remove` before and after taking the group lock |

Actors are `Threads` (which make the calls) and `Signalers` (interrupt
handlers and channel peers, which call `signal` with any new signal set).
`SMP = FALSE` models the kernel's target: a uniprocessor whose spinlock
masks preemption, so while an actor holds a spinlock no other actor steps.
`SMP = TRUE` lets actors interleave inside critical sections.

Abstractions: signals are a set of model-value bits; user data is `{11, 22}`
(the values of the wait-group test); a deadline is `Forever` or `Finite`,
and a finite deadline may expire at any time while the thread sleeps,
whether or not the event was already signaled (the scheduler's tie-break is
not in `src/`). Handles, the object table and foreign references are not
modelled here.

### Fairness

`FairSpec` adds: strong fairness for a woken thread's wake-up and relock
(a ready thread is eventually scheduled, and the lock it needs is free
whenever nobody runs a critical section - it may be only intermittently
enabled because signal sources keep taking the lock), weak fairness for the
second half of a two-lock section (on a uniprocessor nothing else runs once
the first lock is held). Calls themselves are not fair: threads may stop
calling and signal sources may stop signaling.

## 4. Runs

| Run | cfg | Bounds | Shows |
|---|---|---|---|
| objects_up | `MCKernelObjects.cfg` | 2 threads, 1 signaler, 2 objects, 1 group, 1 bit | TypeOK, MembershipConsistent, SignaledMatchesActive, NoLostWakeup, WaiterOwnership, WokenWaitResult, MemberSignalWakesGroup hold (609k states, 25 s) |
| objects_wide | `MCKernelObjects_wide.cfg` | 1 thread, 2 objects, 2 groups, bits {R, W} (2.0M states, 1 min) | SignaledMatchesActive, NoLostWakeup, MembershipConsistent, WokenWaitResult with member and waiter masks other than READABLE; duplicate enrolment, removal via the wrong group (waiter-list ownership does not depend on masks or groups and is checked in objects_up only) |
| group_waiter_stranded | `MCKernelObjects_stranded.cfg` | 2 threads, 2 objects, 1 group | **violation** of GroupWaiterWakes |
| group_wait_mask | `MCKernelObjects_mask.cfg` | 1 thread, bits {R, W} | **violation** of GroupWaitHonoursMask |
| smp_lock_order | `MCKernelObjects_smp.cfg` | `SMP = TRUE` | **violation** of NoLockCycle |

Why the bounds are enough: two threads plus a signaler is the least that
lets one thread park while another enrolls or removes and a third signals;
two objects let a group hold a signaled and an unsignaled member at once
(list moves, push_front order); two groups are needed only for the
wrong-group paths and get their own run; two bits separate member masks,
waiter masks and READABLE.

### Findings

1. **Lost wake-up on enrolment (code bug).** `wait_group_add`
   (`wait_group.rs:222`) puts an already-signaled object straight into
   `signaled_objects` but does not wake the group's waiters. A thread parked
   on the group with `Instant::MAX` stays asleep while the group has a
   signaled member, until that member is signaled again. Trace: a
   signaler raises b1; t2 adds the unsignaled b2 to g1; t1 waits on g1 and
   parks; t2 adds the already-signaled b1 to g1, which goes to
   `signaled_objects`; t1 never wakes.
2. **Group wait ignores its mask (divergence).** `object_wait` on a group
   returns the head of `signaled_objects` whatever `signal_mask` is
   (`wait_group.rs:167`), while a parked group waiter is only woken when its
   mask includes READABLE.
3. **wait_result written more than once (divergence from the spec).**
   Waking does not unlink the waiter, so every matching signal before the
   relock overwrites `wait_result`; harmless (last writer wins) but not the
   "exactly once" the spec states. `WaitAbstract.Signal` (section 6) states
   the promise the code does keep: every matching signal until the waiter
   returns hands it a result, and the last one is what it returns. The
   liveness property `BaseWaiterWakes` (a thread waiting forever on an
   object whose signals meet its mask returns) is checked in the
   wait_refinement run, which has the same instance.
4. **Lock-order inversion (divergence from the spec).** `object_wait` on a
   group takes a member's lock under the group lock (`wait_group.rs:173`),
   the opposite order from `signal`. Safe only because the target's
   spinlocks mask preemption on a uniprocessor; on SMP the two spin on each
   other.

## 5. The module Syscall

`Syscall.tla` has no concurrency: the dispatcher is a pure function of the
id and the argument registers, so the module keeps the last call, its
`Result` (`result`) and the packed register (`raw`), and one action
`Syscall(id, a0, a1)` per trap. `handle_syscall` is a `CASE` over the id
(unknown ids fail `try_into` with `InvalidArgument`), `checked_add` is
bounded by `UsizeMax = 2^UsizeBits - 1`, `DebugPutc` applies `u32::try_from`
and `char::from_u32`. `SysCallReturnValue` (in `syscall_defs`, not in
`src/`, so modelled from the spec) packs an `Ok` payload as a
two's-complement `RetBits` value and an error as its negated `pw_status`
code; `Decode` is userspace's reading of the register. The one-second
`sleep_until` in DebugAdd and DebugPutc changes no dispatcher state and is
left out.

Reference definitions: `CarryOut`, a RECURSIVE ripple-carry adder over the
bits of the operands (overflow iff a carry leaves the top bit), and
`IsScalarValue`, the two ranges of Unicode scalar values.

| Run | cfg | Bounds | Shows |
|---|---|---|---|
| syscall_dispatch | `MCSyscall.cfg` | `UsizeBits = 24`, `RetBits = 30`; ids: the three known and one unassigned; 12 arguments at every boundary (0, 1, surrogate edges 0xD7FF/0xD800/0xDFFF/0xE000, 0x10FFFF/0x110000, 2^23, `UsizeMax - 1`, `UsizeMax`) | DebugAddMatchesAdder, DebugPutcAcceptsScalarValues, ReturnRoundTrip, TypeOK hold for all 4 × 12 × 12 calls |
| syscall_wide_word | `MCSyscall_wide.cfg` | `UsizeBits = RetBits = 8`, all 256 arguments | **violation** of ReturnRoundTrip |

The widths are scaled from 32/64 because TLC integers are 32-bit; the
relation that matters is kept: on the 32-bit target usize is narrower than
the i64 return (24 < 30), on a 64-bit target they are equal (8 = 8). 24
bits still hold every Unicode boundary.

5. **Ok payloads can look like errors (spec gap).** DebugAdd returns the
   usize sum as `Ok(u64)` (`syscall.rs:53`); packed into the signed return
   register a sum of 2^63 or more is negative on a 64-bit target, the
   encoding of an error (TLC: `DebugAdd(128, 0)` gives `raw = -128`). The
   spec states that negative returns are errors but bounds no payload.

## 6. The modules WaitAbstract and WaitRefinement

`WaitAbstract.tla` states what a wait on an object promises its caller
(`KernelObject::object_wait`, object.rs 47-50), without locks, lists or
events. Per thread: `state` (`idle`, `blocked`, `woken`, `expired`), the
object, mask and deadline kind, and the `result` it has been handed.
`Block` only when no wanted signal is active; `Signal(b, s)` sets the
signals and hands `s` to every wait on `b` that has not returned and wants
one of `s`, last writer winning (what `signal_all_matching_waiters` does to
linked waiters); `Wake` only with a result; `Expire` only with a finite
deadline; `Return`. `FairSpec` adds weak fairness on `Wake` and `Return`.

`WaitRefinement.tla` maps `KernelObjects` onto it (`AbsWait == INSTANCE
WaitAbstract WITH ...`): a thread in `wait_on_object` on an object is
`blocked` at `sleep` and `woken`/`expired` at `relock`, as `Event::wait_until`
returned; waits on groups and immediate returns are `idle` (they are
stuttering steps). One step needs care: `signal()` on an object with a
wait-group member changes `active_signals` in one step and writes the
object's own waiters in the next, under the same object lock. The mapping
(`resultOf`) hands those waiters their result already at the first step;
nothing can change the object's waiters, masks or signals while the
signaler holds the lock, so the second step is a stutter.

| Run | cfg | Bounds | Shows |
|---|---|---|---|
| wait_refinement | `MCWaitRefinement.cfg` | 2 threads, 1 signaler, 1 object, 1 group, `FairSpec` | `ImplementsWaitAbstract` (`AbsWait!FairSpec`), liveness included, and `BaseWaiterWakes` (17.5k states); the member's two-step signal happens because the object is in the group. With `Bases = {b1, b2}` the same cfg passes in 3 min 50 s (609k states), too close to the time limit to be a run |

## 7. The module WaitGroupScenario

`WaitGroupScenario.tla` runs the two processes of the wait_group test as the
two threads of `KernelObjects` (`ObserveReturns = TRUE`, so `ret` holds each
call's return). Each process has a program counter `step` over its code:
`Call` starts a syscall (a `KernelObjects` action with the test's
arguments), the kernel steps run, and the program goes on when `pc` is
back at `idle`; `Try` is Rust's `?`, `ExpectErr` the error-path checks,
`Exit` the function's return and `debug_shutdown` the shutdown both
entries call (the handler only on an error; on success it spins in
`loop {}`). Handles go through `get_object` on the handler's array table.
Channels are not in `src/`: `channel_transact` posts the character and
signals the handler end READABLE, waits on the initiator end, then takes
the reply and clears it; `channel_respond` posts the reply and clears the
handler end, then signals the initiator end (spec 4.3). Logging and byte
encodings are left out (characters are values).

Fairness: both programs are weakly fair (a process not asleep in the
kernel is ready), plus the kernel fairness of `KernelObjects`. `Quiescent`
is the stutter when the system has shut down, or every thread sleeps on an
unset event or spins in `loop {}` (the CPU runs the idle thread), so a hang
shows as a liveness violation and not as a deadlock.

| Run | cfg | Bounds | Shows |
|---|---|---|---|
| wait_group_test | `MCWaitGroupScenario.cfg` | the test itself: 2 processes, 4 channel ends, 2 groups | `TestNeverFails` (no check fails in any interleaving), `TestPasses` (the system shuts down with PASSED), 1004 states |
| wait_group_test_shutdown | `MCWaitGroupScenario_shutdown.cfg` | same | **violation** of `HandlerChecksRun` |

6. **The test can pass without its error-path checks (code bug in the
   test).** After the third reply the initiator calls `debug_shutdown`
   with PASSED (`initiator.rs:81`). If it runs before the handler finishes
   its checks (`handler.rs` 94-152: duplicate enrolment, wrong-group and
   repeated removal, empty-group wait, nested group), those checks never
   run, and a failure among them would never be reported. TLC trace: the
   handler responds to 'c', starts `dup_add`, the initiator wakes, checks
   reply 2 and shuts down while the handler is at `wrong_remove`.

## 8. The module ConsoleBackend

`ConsoleBackend.tla` models `console_riscv.rs`. Writers are the callers of
`console_backend_write` (log output of threads; with `SMP` other CPUs).
A buffer is `MsgLen` bytes, byte i of writer w's k-th call is `<<w, k, i>>`.

| Variable | Code |
|---|---|
| `lock` | `static UART: SpinLock<Uart>` (holder or `None`) |
| `pc[w]`, `idx[w]`, `calls[w]`, `ret[w]` | the caller: idle, in `UART.lock()` or in the byte loop, `c`'s index in `buf.iter()`, calls made (bounded by `Calls`), what the last call returned: `Ok(n)` of a write, or `Unit` for the `Ok(())` of a flush (a model value) |
| `thr`, `tsr`, `wire` | the 16550 (environment): holding register, shift register, bytes sent |
| `stores` | history: every `write_volatile` to the data register, in order |

Actions: `console_backend_write` (the call is entered; the caller is now
committed to `UART.lock()`), `UART_lock` (the lock is taken when free),
`Spin` (another CPU holds it), `Uart_write` (one `ptr::write_volatile`, with no check of
the line status register), `write_return` (`Ok(buf.len())`, guard dropped),
`console_backend_flush` (returns `Ok(())` at once, without the lock and
without looking at the UART; a call counts against `Calls`).
The device: the code never programs FCR, and QEMU's 16550 resets with the
FIFO off. A store to an idle transmitter goes to the shift register and is
sent when the character backend accepts it. Otherwise it goes to the
one-byte holding register (`HoldingRegs = 1`) and replaces what is there
(QEMU's `serial_ioport_write` sets `thr` and does not transmit while a retry
is pending). `Transmit` sends the shift register's byte and loads the next
one. Fairness: writers are weakly fair, and so is `Transmit` (the backend
eventually accepts). On a uniprocessor (`SMP = FALSE`) the lock holder
runs with interrupts masked, so no other writer runs (`CanRun`).

| Run | cfg | Bounds | Shows |
|---|---|---|---|
| console_writers | `MCConsoleBackend.cfg` | 2 writers on 2 CPUs, 2 calls of 2 bytes each | `StoresWhole` (the bytes stored are whole buffers one after another), `AllCallsReturn` (no writer spins forever), 7.3k states |
| console_overrun | `MCConsoleBackend_overrun.cfg` | same | **violation** of `ConsoleReportsDelivery`: a write's `Ok(n)` means n of its bytes are sent or still in the device, and a flush's `Ok(())` means every byte the caller stored has been sent |

Two writers with two calls each are the least that let a call start while
another writer's bytes are in flight, and let one writer's later call
overwrite its own earlier output. Two-byte buffers are the least with an
inside of a buffer that another writer could break into.

7. **`console_backend_write` reports bytes the UART never sent
   (divergence).** `Uart::write` returns `Ok(buf.len())` after storing
   every byte (`console_riscv.rs:37`), and never waits for room. The
   comment at lines 31-34 assumes the FIFO never backs up. While the
   character backend is not accepting output, the first byte waits in
   the shift register and the second in the holding register. The next
   store replaces that second byte. `console_backend_flush`
   (`console_riscv.rs:54`) returns `Ok(())` without waiting for the
   transmitter to drain, so output flushed before `debug_shutdown` can
   still be in the device. `ConsoleReportsDelivery` states both promises.
   TLC's shortest trace is the flush one (7 states): w1 writes two bytes,
   is told 2, calls flush and is told `Ok(())` with both bytes still in the
   shift and holding registers. Without flush in the model, the next
   counterexample is the overrun: w2's first store replaces w1's second
   byte before any byte has left the device.

## 9. Not modelled

Interrupt and buffer objects and the channel code itself (not in `src/`;
interrupts are `Signalers` calling `signal`, channels are modelled from the
spec in the scenario only), the `Unimplemented` defaults of the channel and
interrupt methods on other object kinds (no state), the callers of
`console_backend_flush` (the logger is not in `src/`; the model checks what
flush's `Ok(())` promises, not what a caller does next) and the format macro
tests (compile-time expansion tests: no runtime state).
