---------------------------- MODULE ConsoleBackend ----------------------------
(***************************************************************************)
(* The QEMU RISC-V console backend (src/pw_kernel/target/qemu/virt/        *)
(* console_riscv.rs): console_backend_write takes the UART spinlock and    *)
(* stores the buffer byte by byte into the 16550's transmit holding        *)
(* register, without reading the line status register, then returns        *)
(* Ok(buf.len()); console_backend_flush returns Ok(()) at once.           *)
(*                                                                         *)
(* Callers are the kernel's log writers (threads, and on SMP other CPUs).  *)
(* A buffer is a sequence of MsgLen bytes; byte i of writer w's k-th call  *)
(* is the triple <<w, k, i>>, so the bytes tell who wrote them.            *)
(*                                                                         *)
(* The device is the environment: QEMU's 16550 emulation, whose FIFO is    *)
(* disabled after reset (the code never programs FCR).  A store to an idle *)
(* transmitter goes straight to the transmit shift register; otherwise it  *)
(* goes to the holding register (HoldingRegs deep), replacing its oldest   *)
(* byte when it is full.  The shift register's byte reaches the wire when  *)
(* the character backend accepts it, which may take arbitrarily long, and  *)
(* the next held byte is loaded at once.                                   *)
(***************************************************************************)
EXTENDS Naturals, Sequences, SequencesExt

CONSTANTS
    Writers,      \* callers of console_backend_write
    MsgLen,       \* bytes per buffer
    Calls,        \* calls per writer (bound)
    HoldingRegs,  \* depth of the transmit holding register (1: FIFO disabled)
    SMP,          \* FALSE: the spinlock masks interrupts on the one CPU
    Unit,         \* the Ok(()) of console_backend_flush
    None

ASSUME MsgLen \in Nat \ {0} /\ Calls \in Nat /\ HoldingRegs \in Nat \ {0}

VARIABLES
    lock,    \* holder of the UART spinlock, or None
    pc,      \* per writer: "idle", "lock" (in UART.lock()) or "write" (byte loop)
    idx,     \* per writer: index of the next byte of buf to store
    calls,   \* per writer: calls made so far
    ret,     \* per writer: what its last call returned (Unit: Ok(())), or None
    thr,     \* device: transmit holding register contents, oldest first
    tsr,     \* device: byte in the transmit shift register, or None
    wire,    \* device output: bytes shifted out, in order
    stores   \* history: every byte stored to the register, in order

vars == <<lock, pc, idx, calls, ret, thr, tsr, wire, stores>>

\* Byte i of writer w's k-th buffer.
Byte(w, k, i) == <<w, k, i>>
Message(w, k) == [i \in 1..MsgLen |-> Byte(w, k, i)]
Bytes == {Byte(w, k, i) : w \in Writers, k \in 1..Calls, i \in 1..MsgLen}

\* On a uniprocessor the lock holder runs with interrupts masked, so no
\* other writer runs until it releases the lock.
CanRun(w) == SMP \/ lock \in {None, w}

TypeOK ==
    /\ lock \in Writers \cup {None}
    /\ pc \in [Writers -> {"idle", "lock", "write"}]
    /\ idx \in [Writers -> 1..MsgLen + 1]
    /\ calls \in [Writers -> 0..Calls]
    /\ ret \in [Writers -> (0..MsgLen) \cup {Unit, None}]
    /\ thr \in BoundedSeq(Bytes, HoldingRegs)
    /\ tsr \in Bytes \cup {None}
    /\ wire \in Seq(Bytes)
    /\ stores \in Seq(Bytes)

\* static UART: SpinLock<Uart> = SpinLock::new(Uart { base_addr })
Init ==
    /\ lock = None
    /\ pc = [w \in Writers |-> "idle"]
    /\ idx = [w \in Writers |-> 1]
    /\ calls = [w \in Writers |-> 0]
    /\ ret = [w \in Writers |-> None]
    /\ thr = <<>>
    /\ tsr = None
    /\ wire = <<>>
    /\ stores = <<>>

\* console_backend_write(buf) is called: the caller goes on to UART.lock().
console_backend_write(w) ==
    /\ pc[w] = "idle"
    /\ CanRun(w)
    /\ calls[w] < Calls
    /\ pc' = [pc EXCEPT ![w] = "lock"]
    /\ calls' = [calls EXCEPT ![w] = @ + 1]
    /\ ret' = [ret EXCEPT ![w] = None]
    /\ UNCHANGED <<lock, idx, thr, tsr, wire, stores>>

\* Mutant: the byte loop runs without taking the UART lock.
UART_lock_unlocked(w) ==
    /\ pc[w] = "lock"
    /\ CanRun(w)
    /\ pc' = [pc EXCEPT ![w] = "write"]
    /\ idx' = [idx EXCEPT ![w] = 1]
    /\ UNCHANGED <<lock, calls, ret, thr, tsr, wire, stores>>

\* UART.lock() succeeds when the lock is free.
UART_lock(w) ==
    /\ pc[w] = "lock"
    /\ CanRun(w)
    /\ lock = None
    /\ lock' = w
    /\ pc' = [pc EXCEPT ![w] = "write"]
    /\ idx' = [idx EXCEPT ![w] = 1]
    /\ UNCHANGED <<calls, ret, thr, tsr, wire, stores>>

\* Another CPU holds the lock: UART.lock() spins.
Spin(w) ==
    /\ SMP
    /\ pc[w] = "lock"
    /\ lock \notin {None, w}
    /\ UNCHANGED vars

\* A store to the holding register: appended, or replacing its oldest
\* byte when it is full.
StoreTHR(q, b) == IF Len(q) < HoldingRegs THEN Append(q, b) ELSE Append(Tail(q), b)

\* The device takes a stored byte: an idle transmitter starts shifting it.
Store(b) ==
    IF tsr = None THEN tsr' = b /\ UNCHANGED thr
                  ELSE thr' = StoreTHR(thr, b) /\ UNCHANGED tsr

\* Mutant: the loop runs one byte past the end of buf.
Uart_write_off_by_one(w) ==
    /\ pc[w] = "write"
    /\ CanRun(w)
    /\ idx[w] <= MsgLen + 1
    /\ LET b == Byte(w, calls[w], idx[w])
       IN /\ Store(b)
          /\ stores' = Append(stores, b)
    /\ idx' = [idx EXCEPT ![w] = @ + 1]
    /\ UNCHANGED <<lock, pc, calls, ret, wire>>

\* One iteration of Uart::write: ptr::write_volatile(base_addr, *c), with
\* no wait for the line status register to report room.
Uart_write(w) ==
    /\ pc[w] = "write"
    /\ CanRun(w)
    /\ idx[w] <= MsgLen
    /\ LET b == Byte(w, calls[w], idx[w])
       IN /\ Store(b)
          /\ stores' = Append(stores, b)
    /\ idx' = [idx EXCEPT ![w] = @ + 1]
    /\ UNCHANGED <<lock, pc, calls, ret, wire>>

\* Mutant: the lock guard is leaked (never dropped) on return.
write_return_keep_lock(w) ==
    /\ pc[w] = "write"
    /\ CanRun(w)
    /\ idx[w] = MsgLen + 1
    /\ ret' = [ret EXCEPT ![w] = MsgLen]
    /\ pc' = [pc EXCEPT ![w] = "idle"]
    /\ UNCHANGED <<lock, idx, calls, thr, tsr, wire, stores>>

\* The loop ends: Uart::write returns Ok(buf.len()) and the lock guard is
\* dropped as console_backend_write returns.
write_return(w) ==
    /\ pc[w] = "write"
    /\ CanRun(w)
    /\ idx[w] = MsgLen + 1
    /\ ret' = [ret EXCEPT ![w] = MsgLen]
    /\ pc' = [pc EXCEPT ![w] = "idle"]
    /\ lock' = None
    /\ UNCHANGED <<idx, calls, thr, tsr, wire, stores>>

\* console_backend_flush: returns Ok(()) without touching the UART or
\* its lock.
console_backend_flush(w) ==
    /\ pc[w] = "idle"
    /\ CanRun(w)
    /\ calls[w] < Calls
    /\ calls' = [calls EXCEPT ![w] = @ + 1]
    /\ ret' = [ret EXCEPT ![w] = Unit]
    /\ UNCHANGED <<lock, pc, idx, thr, tsr, wire, stores>>

\* Device: the character backend accepts the shifted byte, and the shift
\* register takes the oldest held byte, if any.
Transmit ==
    /\ tsr # None
    /\ wire' = Append(wire, tsr)
    /\ tsr' = IF thr = <<>> THEN None ELSE Head(thr)
    /\ thr' = IF thr = <<>> THEN <<>> ELSE Tail(thr)
    /\ UNCHANGED <<lock, pc, idx, calls, ret, stores>>

\* Every writer has made all its calls and the device is idle.
Finished ==
    /\ \A w \in Writers : pc[w] = "idle" /\ calls[w] = Calls
    /\ tsr = None
    /\ UNCHANGED vars

Writer(w) ==
    \/ console_backend_write(w) \/ UART_lock(w) \/ Spin(w) \/ Uart_write(w)
    \/ write_return(w) \/ console_backend_flush(w)

Next ==
    \/ \E w \in Writers : Writer(w)
    \/ Transmit
    \/ Finished

Spec == Init /\ [][Next]_vars

\* Writers are threads the scheduler runs, and QEMU's character backend
\* eventually takes every byte.
FairSpec ==
    /\ Spec
    /\ \A w \in Writers : WF_vars(Writer(w) /\ ~Spin(w))
    /\ WF_vars(Transmit)

-----------------------------------------------------------------------------
(* Properties *)

\* The call that byte b belongs to.
CallOf(b) == <<b[1], b[2]>>

\* The bytes stored to the UART are whole buffers one after another: the
\* spinlock taken in console_backend_write is held across the whole
\* byte loop of Uart::write, so two writers' bytes never interleave.
StoresWhole ==
    \A j \in 1..Len(stores) :
        IF stores[j][3] = 1
        THEN j = 1 \/ stores[j - 1][3] = MsgLen
        ELSE j > 1 /\ stores[j - 1] = Byte(stores[j][1], stores[j][2], stores[j][3] - 1)

\* Every call to console_backend_write returns, and every writer makes
\* all its calls: no writer is left spinning on the UART lock.
AllCallsReturn == <>[](\A w \in Writers : pc[w] = "idle" /\ calls[w] = Calls)

\* The bytes still in the device, oldest first.
InDevice == (IF tsr = None THEN <<>> ELSE <<tsr>>) \o thr

\* What the console returns is what reached the UART:
\* console_backend_write returns the number of bytes written, so when it
\* returns n, n bytes of that buffer have been sent or are still in the
\* device; and when console_backend_flush returns, every byte the caller
\* stored has been sent.
ConsoleReportsDelivery ==
    \A w \in Writers :
        /\ ret[w] \in 0..MsgLen =>
              Len(SelectSeq(wire \o InDevice, LAMBDA b : CallOf(b) = <<w, calls[w]>>)) = ret[w]
        /\ ret[w] = Unit =>
              \A j \in 1..Len(stores) : stores[j][1] = w => Contains(wire, stores[j])

=============================================================================
