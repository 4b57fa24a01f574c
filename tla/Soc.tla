-------------------------------- MODULE Soc --------------------------------
(***************************************************************************)
(* The example SoC, src/src/soc/riscv_example_soc.c: the loop rv_soc_run   *)
(* around the hart, the simple UART, the PLIC and the CLINT, and the RX    *)
(* thread of main.c.                                                       *)
(*                                                                         *)
(* A cycle has two steps.  In phase "bus" rv_core_run executes an          *)
(* instruction of the guest with at most one device access, which the bus  *)
(* hands to the device of its address; in phase "update" the rest of the   *)
(* loop's body runs: UART, PLIC, CLINT, then the hart takes an interrupt   *)
(* or does not.  The RX thread adds a character between any two steps.     *)
(*                                                                         *)
(* The guest is external: a machine-mode program with the drivers these    *)
(* devices are made for.  It boots (PLIC priority and enable bit, UART),   *)
(* then runs with all three interrupts enabled; its handlers claim, serve  *)
(* the UART and complete; clear msip; or set a new timer deadline by the   *)
(* three writes that a 32-bit hart needs.  mode is where the guest is, and *)
(* stands for the hart's pc and mstatus.MIE, which is set in "main" only;  *)
(* Trap.tla has the trap unit in full.                                     *)
(*                                                                         *)
(* A definition X_Word right before X is a faulty variant of X.            *)
(***************************************************************************)
EXTENDS SimpleUart, Clint

CONSTANTS
    MaxTyped,   \* bound: key presses
    MaxSent     \* bound: characters the guest writes

VARIABLES
    phase, priority, pending, enable, claimed, threshold, claim, irq, level,
    inService,  \* the PLIC, as in Plic.tla
    mode,       \* where the guest is
    sent,       \* number of characters the guest has written
    typed,      \* number of key presses
    dropped,    \* history: key presses that found the buffer full
    got,        \* history: the last character the guest has read
    deadlines   \* history: the deadline in force and the one being written

plicVars == <<phase, priority, pending, enable, claimed, threshold, claim, irq,
              level, inService>>
vars == <<uartVars, regs, plicVars, mode, sent, typed, dropped, got, deadlines>>

UartId == 10
P == INSTANCE Plic WITH Ids <- {UartId}, Driven <- {UartId},
                        Prios <- {1}, Thresholds <- {0}

ASSUME BoundsAssumption == MaxTyped \in Nat /\ MaxSent \in Nat

Boot == {"prio", "enable", "rxien"}
MeiHandler == {"mei", "serve", "rx", "tx", "complete"}
MtiHandler == {"mti", "hi", "lo"}
Modes == Boot \cup MeiHandler \cup MtiHandler \cup {"main", "msi", "mret"}
Deadlines == 0..(WordBase * WordBase - 1)

-----------------------------------------------------------------------------
(* The guest's instructions, by the device they access (rv_soc_bus_access).*)

Goes(from, to) == mode = from /\ mode' = to

NoDevice ==
    /\ P!NoAccess
    /\ UNCHANGED <<uartVars, regs, sent, typed, dropped, got, deadlines>>

PlicAccess(access) ==
    /\ access
    /\ UNCHANGED <<uartVars, regs, sent, typed, dropped, got, deadlines>>

UartWrites(access) ==
    /\ access
    /\ P!NoAccess
    /\ UNCHANGED <<regs, typed, dropped, got, deadlines>>

ClintAccess(r, half, v) ==
    /\ ClintWrite(r, half, v)
    /\ P!NoAccess
    /\ UNCHANGED <<uartVars, sent, typed, dropped, got>>

WriteChar ==
    /\ sent < MaxSent
    /\ sent' = sent + 1
    /\ UartWrites(UartWriteTx(sent + 1))

WriteStatus(tx) == UNCHANGED sent /\ UartWrites(UartWriteStatus(TRUE, tx))

ReadChar ==
    /\ UartReadRx
    /\ got' = IF UartRxEmpty THEN got ELSE FifoHead(rxFifo)
    /\ P!NoAccess
    /\ UNCHANGED <<regs, sent, typed, dropped, deadlines>>

BootStep ==
    \/ Goes("prio", "enable") /\ PlicAccess(P!WritePriority(UartId, 1))
    \/ Goes("enable", "rxien") /\ PlicAccess(P!WriteEnable(0, {UartId}))
    \/ Goes("rxien", "main") /\ WriteStatus(FALSE)

Main ==
    /\ Goes("main", "main")
    /\ \/ NoDevice
       \/ WriteChar
       \/ \E tx \in BOOLEAN : WriteStatus(tx)
       \/ ReadChar
       \/ ClintAccess(Msip, Low, 1) /\ UNCHANGED deadlines

(* The handler of the external interrupt: claim, look at the status        *)
(* register, receive or else transmit, complete.                           *)
ServeUart ==
    \/ Goes("mei", "serve") /\ PlicAccess(P!Claim)
    \/ Goes("serve", "rx") /\ ~UartRxEmpty /\ NoDevice
    \/ Goes("serve", "tx") /\ UartRxEmpty /\ NoDevice
    \/ Goes("rx", "complete") /\ ReadChar
    \/ Goes("tx", "complete") /\ (WriteChar \/ WriteStatus(FALSE))
    \/ Goes("complete", "mret") /\ PlicAccess(P!Complete(UartId))

(* The handler of the timer: the low word to its maximum, then the high    *)
(* word, then the low word of the new deadline.                            *)
NewDeadline == CHOOSE d \in deadlines : \A o \in deadlines : o[1] <= d[1]

ServeTimer ==
    \/ /\ Goes("mti", "hi")
       /\ \E d \in Deadlines : deadlines' = deadlines \cup {<<1, d>>}
       /\ ClintAccess(Mtimecmp, Low, MaxWord)
    \/ /\ Goes("hi", "lo")
       /\ ClintAccess(Mtimecmp, High, NewDeadline[2] \div WordBase)
       /\ UNCHANGED deadlines
    \/ /\ Goes("lo", "mret")
       /\ ClintAccess(Mtimecmp, Low, NewDeadline[2] % WordBase)
       /\ deadlines' = {<<0, NewDeadline[2]>>}

ServeSoftware ==
    /\ Goes("msi", "mret")
    /\ ClintAccess(Msip, Low, 0)
    /\ UNCHANGED deadlines

Mret == Goes("mret", "main") /\ NoDevice

Instruction ==
    BootStep \/ Main \/ ServeUart \/ ServeTimer \/ ServeSoftware \/ Mret

-----------------------------------------------------------------------------
(* The rest of the loop's body.                                            *)

(* rv_core_process_interrupts of a hart with MIE set: external before      *)
(* timer before software.                                                  *)
TakeInterrupt_TimerFirst(mei, mti, msi) ==
    IF mti THEN "mti" ELSE IF mei THEN "mei" ELSE IF msi THEN "msi" ELSE "main"
TakeInterrupt(mei, mti, msi) ==
    IF mei THEN "mei" ELSE IF mti THEN "mti" ELSE IF msi THEN "msi" ELSE "main"

Devices ==
    /\ UartUpdate
    /\ level' = IF UartIrq(rxFifo, txFifo') THEN {UartId} ELSE {}
    /\ P!Update
    /\ ClintUpdate
    /\ mode' = IF mode = "main"
               THEN TakeInterrupt(irq', Mti(regs'), Msi(regs'))
               ELSE mode
    /\ UNCHANGED <<sent, typed, dropped, got, deadlines>>

(* uart_rx_thread of main.c.                                               *)
RxThread ==
    /\ typed < MaxTyped
    /\ typed' = typed + 1
    /\ UartAddRxChar(typed')
    /\ dropped' = IF IsFull(rxFifo) THEN dropped \cup {typed'} ELSE dropped
    /\ UNCHANGED <<regs, plicVars, mode, sent, got, deadlines>>

Init ==
    /\ UartInit
    /\ ClintInit
    /\ P!Init
    /\ mode = "prio"
    /\ sent = 0
    /\ typed = 0
    /\ dropped = {}
    /\ got = 0
    /\ deadlines = {<<0, 0>>}

Cycle == Instruction \/ Devices

Next == Cycle \/ RxThread

(* The loop runs on; nobody has to press a key.                            *)
Spec == Init /\ [][Next]_vars /\ WF_vars(Cycle)

-----------------------------------------------------------------------------
(* Properties                                                              *)

(* Type correctness; the FIFOs keep to their size.                         *)
TypeOK ==
    /\ P!TypeOK
    /\ rxFifo \in Seq(1..MaxTyped) /\ Len(rxFifo) <= UartFifoSize
    /\ txFifo \in Seq(1..MaxSent) /\ Len(txFifo) <= UartFifoSize
    /\ rxIrqEnabled \in BOOLEAN /\ txIrqEnabled \in BOOLEAN
    /\ needsFlush \in BOOLEAN
    /\ out \in Seq(1..MaxSent)
    /\ regs \in [0..5 -> ClintWord]
    /\ mode \in Modes
    /\ typed \in 0..MaxTyped /\ sent \in 0..MaxSent /\ got \in 0..MaxTyped
    /\ dropped \subseteq 1..MaxTyped
    /\ deadlines \subseteq {0, 1} \X Deadlines

(* Output: when an instruction starts, everything the guest wrote before   *)
(* has been printed, in order and once (the flush of simple_uart_update).  *)
OutputComplete == phase = "bus" => out = [i \in 1..sent |-> i]

(* Input: a character that found room in the buffer waits there until the  *)
(* guest reads it, once and in order; simple_uart_add_rx_char loses only   *)
(* characters that come while the buffer is full.                          *)
InputAccounted ==
    \A c \in (1..typed) \ dropped : c > got <=> \E i \in DOMAIN rxFifo : rxFifo[i] = c

(* The guest reads the characters in the order they were typed, none twice.*)
ReadInOrder == [][ReadChar /\ ~UartRxEmpty => got' > got /\ got' \notin dropped]_vars

(* Handlers find what they were called for: the external handler is        *)
(* entered only with the UART's request up and its id in the claim         *)
(* register, the timer's only when the deadline has passed, the software   *)
(* handler only with msip set.                                             *)
EntryJustified ==
    [][ mode' # mode /\ phase = "update" =>
          /\ mode' = "mei" => /\ rxFifo' # <<>> \/ (txIrqEnabled' /\ txFifo' = <<>>)
                              /\ claim' = UartId
          /\ mode' = "mti" => RegValue(regs', Mtime) >= NewDeadline[2]
          /\ mode' = "msi" => regs'[Index(Msip, Low)] = 1 ]_vars

(* The external handler is never called in vain: from its read of the      *)
(* claim register on it holds the UART's id, until it completes it, and    *)
(* nobody else ever holds one (plic_bus_access against plic_update, which  *)
(* lowers the pending bit and the line meanwhile).                         *)
ClaimHeld ==
    claimed = IF mode \in {"serve", "rx", "tx", "complete"} THEN {UartId} ELSE {}

(* The timer line is exact although mtimecmp is written in pieces: while   *)
(* no write is under way it is up just when the deadline has passed, and   *)
(* between the writes only if the old or the new deadline has passed.      *)
TimerExact ==
    phase = "bus" =>
        IF mode \in {"hi", "lo"}
        THEN Mti(regs) => \E d \in deadlines : RegValue(regs, Mtime) >= d[2]
        ELSE Mti(regs) <=> RegValue(regs, Mtime) >= NewDeadline[2]

(* A character in the buffer is eventually read once the guest is up, even *)
(* if timer, software and transmit interrupts keep coming.                 *)
InputServed == \A c \in 1..MaxTyped : (rxFifo = <<c>> /\ mode \notin Boot) ~> (got = c)
=============================================================================
