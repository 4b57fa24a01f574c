------------------------------ MODULE Uart8250 ------------------------------
(***************************************************************************)
(* The 8250 UART, src/src/peripherals/uart/uart_8250.c, in the loop of the *)
(* SoC: one register access of an instruction (phase "bus"), then          *)
(* uart_update (phase "update"); the RX thread adds characters between any *)
(* two steps.  Every function runs under the UART's mutex.                 *)
(*                                                                         *)
(* Of the characters only what the UART does with them is kept: received   *)
(* ones are counted, a transmitted one is "now" if it must be printed at   *)
(* once (a newline, or the FIFOs are off) and "later" if it may wait.  The *)
(* enable bits of interrupts that never occur, LCR but for DLAB, MCR, MSR  *)
(* and the divisor latch have no effect on anything else.  Accesses that   *)
(* end in die_msg have no action.                                          *)
(*                                                                         *)
(* The guest is external.  Its main program uses the registers in any      *)
(* order, polling LSR, IIR and the receive buffer included; its interrupt  *)
(* handler reads IIR, then characters as long as LSR shows one, and leaves.*)
(* A definition X_Word right before X is a faulty variant of X.            *)
(***************************************************************************)
EXTENDS Integers, Sequences

CONSTANTS
    FifoSize,    \* UART_NS8250_FIFO_SIZE
    RxLevels     \* the receive levels FCR selects from, 1 among them

VARIABLES
    phase,       \* "bus" or "update"
    mode,        \* where the guest is: "main" or a step of its handler
    dlab,        \* uart->dlab
    enabled,     \* the interrupts IER enables, of "rx", "tx" and "lsr"
    fifoEnabled, \* uart->fifo_enabled
    rxLevel,     \* uart->rx_irq_fifo_level
    rxLen,       \* number of characters in uart->rx_fifo
    lsrChange,   \* uart->lsr_change
    unseen,      \* history: a character has come since LSR was last read
    txFifo,      \* uart->tx_fifo
    needsFlush,  \* uart->tx_needs_flush
    txStop,      \* uart->tx_stop_triggering
    currId,      \* uart->curr_iir_id
    iir,         \* uart->regs[REG_IIR]
    irq          \* what the last uart_update returned

rxVars == <<rxLevel, rxLen, lsrChange, unseen>>
txVars == <<txFifo, needsFlush, txStop>>
vars == <<phase, mode, dlab, enabled, fifoEnabled, rxVars, txVars, currId, iir, irq>>

ASSUME FifoSizeAssumption == FifoSize \in Nat \ {0}
ASSUME RxLevelsAssumption == RxLevels \subseteq 1..FifoSize /\ 1 \in RxLevels

NoIrqPending == 1
ThrEmpty == 2
DataAvailable == 4
CharTimeout == 12
Ids == {0, NoIrqPending, ThrEmpty, DataAvailable, CharTimeout}
Handler == {"irq", "lsr", "rx", "leave"}

-----------------------------------------------------------------------------
(* uart_bus_access, write                                                  *)

Access == phase = "bus" /\ phase' = "update" /\ UNCHANGED irq

Goes(from, to) == mode = from /\ mode' = to

(* A byte for the transmitter.  The transmit interrupt is triggered again  *)
(* only if IIR still shows it.                                             *)
StillStopped_Never == FALSE
StillStopped == txStop /\ iir # ThrEmpty

WriteThr(newline) ==
    /\ Access
    /\ ~dlab
    /\ LET now == newline \/ ~fifoEnabled
       IN  /\ txFifo' = IF Len(txFifo) = FifoSize THEN txFifo
                        ELSE Append(txFifo, IF now THEN "now" ELSE "later")
           /\ needsFlush' = (needsFlush \/ now)
    /\ txStop' = StillStopped
    /\ UNCHANGED <<dlab, enabled, fifoEnabled, rxVars, currId, iir>>

WriteIer(en) ==
    /\ Access
    /\ ~dlab
    /\ enabled' = en
    /\ UNCHANGED <<dlab, fifoEnabled, rxVars, txVars, currId, iir>>

WriteFcr(on, resetRx, resetTx, l) ==
    /\ Access
    /\ fifoEnabled' = on
    /\ rxLen' = IF resetRx THEN 0 ELSE rxLen
    /\ txFifo' = IF resetTx THEN <<>> ELSE txFifo
    /\ rxLevel' = l
    /\ UNCHANGED <<dlab, enabled, lsrChange, unseen, needsFlush, txStop, currId, iir>>

WriteLcr(d) ==
    /\ Access
    /\ dlab' = d
    /\ UNCHANGED <<enabled, fifoEnabled, rxVars, txVars, currId, iir>>

(* MCR, the divisor latch, or an instruction without access to the UART.   *)
NoEffect ==
    /\ Access
    /\ UNCHANGED <<dlab, enabled, fifoEnabled, rxVars, txVars, currId, iir>>

-----------------------------------------------------------------------------
(* uart_bus_access, read                                                   *)

(* Reading IIR acknowledges a transmit interrupt.                          *)
ReadIir ==
    /\ Access
    /\ IF iir = ThrEmpty
       THEN currId' = NoIrqPending /\ txStop' = TRUE
       ELSE UNCHANGED <<currId, txStop>>
    /\ UNCHANGED <<dlab, enabled, fifoEnabled, rxVars, txFifo, needsFlush, iir>>

(* Reading LSR tells whether a character is there and drops lsr_change.    *)
ReadLsr ==
    /\ Access
    /\ lsrChange' = FALSE
    /\ unseen' = FALSE
    /\ UNCHANGED <<dlab, enabled, fifoEnabled, rxLevel, rxLen, txVars, currId, iir>>

ReadRbr ==
    /\ Access
    /\ rxLen' = IF rxLen = 0 \/ dlab THEN rxLen ELSE rxLen - 1
    /\ UNCHANGED <<dlab, enabled, fifoEnabled, rxLevel, lsrChange, unseen, txVars,
                   currId, iir>>

-----------------------------------------------------------------------------
(* uart_update: print, then at most one interrupt, by priority.  needsFlush*)
(* is never reset.                                                         *)
MustFlush_NotFull == needsFlush
MustFlush == Len(txFifo) = FifoSize \/ needsFlush

LineChanged == lsrChange /\ enabled \cap {"lsr", "rx"} # {}
LevelReached == "rx" \in enabled /\ rxLen >= rxLevel
TransmitterIdle(tx) == "tx" \in enabled /\ tx = <<>> /\ ~txStop

IdOf(tx) ==
    CASE LineChanged -> CharTimeout
      [] ~LineChanged /\ LevelReached -> DataAvailable
      [] ~LineChanged /\ ~LevelReached /\ TransmitterIdle(tx) -> ThrEmpty
      [] OTHER -> currId

KeptLsrChange_Pulse == FALSE
KeptLsrChange == lsrChange

Update ==
    /\ phase = "update" /\ phase' = "bus"
    /\ txFifo' = IF MustFlush THEN <<>> ELSE txFifo
    /\ irq' = (LineChanged \/ LevelReached \/ TransmitterIdle(txFifo'))
    /\ currId' = IdOf(txFifo')
    /\ iir' = currId'
    /\ lsrChange' = KeptLsrChange
    /\ mode' = IF irq' /\ mode = "main" THEN "irq" ELSE mode
    /\ UNCHANGED <<dlab, enabled, fifoEnabled, rxLevel, rxLen, unseen, needsFlush, txStop>>

(* uart_add_rx_char                                                        *)
RxIn_Unbounded(n) == n + 1
RxIn(n) == IF n = FifoSize THEN n ELSE n + 1

AddRxChar ==
    /\ rxLen' = RxIn(rxLen)
    /\ lsrChange' = TRUE
    /\ unseen' = TRUE
    /\ UNCHANGED <<phase, mode, dlab, enabled, fifoEnabled, rxLevel, txVars,
                   currId, iir, irq>>

-----------------------------------------------------------------------------
(* uart_init: IIR itself is 0 until the first uart_update.                 *)
Init ==
    /\ phase = "bus"
    /\ mode = "main"
    /\ dlab = FALSE
    /\ enabled = {}
    /\ fifoEnabled = FALSE
    /\ rxLevel = 1
    /\ rxLen = 0
    /\ lsrChange = FALSE
    /\ unseen = FALSE
    /\ txFifo = <<>>
    /\ needsFlush = FALSE
    /\ txStop = FALSE
    /\ currId = NoIrqPending
    /\ iir = 0
    /\ irq = FALSE

Main ==
    /\ Goes("main", "main")
    /\ \/ \E newline \in BOOLEAN : WriteThr(newline)
       \/ \E en \in SUBSET {"rx", "tx", "lsr"} : WriteIer(en)
       \/ \E on, resetRx, resetTx \in BOOLEAN, l \in RxLevels :
             WriteFcr(on, resetRx, resetTx, l)
       \/ \E d \in BOOLEAN : WriteLcr(d)
       \/ NoEffect
       \/ ReadIir \/ ReadLsr \/ ReadRbr

(* The handler clears DLAB first and leaves in a step of its own.          *)
Handle ==
    \/ mode = "irq" /\ dlab /\ mode' = "irq" /\ WriteLcr(FALSE)
    \/ Goes("irq", "lsr") /\ ~dlab /\ ReadIir
    \/ Goes("lsr", "rx") /\ rxLen > 0 /\ ReadLsr
    \/ Goes("lsr", "leave") /\ rxLen = 0 /\ ReadLsr
    \/ Goes("rx", "lsr") /\ ReadRbr
    \/ Goes("leave", "main") /\ \/ NoEffect
                                \/ \E newline \in BOOLEAN : WriteThr(newline)

Cycle == Main \/ Handle \/ Update

Next == Cycle \/ AddRxChar

Spec == Init /\ [][Next]_vars /\ WF_vars(Cycle)

-----------------------------------------------------------------------------
(* Properties                                                              *)

(* Type correctness.                                                       *)
TypeOK ==
    /\ phase \in {"bus", "update"} /\ mode \in {"main"} \cup Handler
    /\ dlab \in BOOLEAN /\ fifoEnabled \in BOOLEAN
    /\ enabled \subseteq {"rx", "tx", "lsr"}
    /\ rxLevel \in RxLevels /\ rxLen \in 0..FifoSize
    /\ lsrChange \in BOOLEAN /\ unseen \in BOOLEAN
    /\ txFifo \in Seq({"now", "later"}) /\ Len(txFifo) <= FifoSize
    /\ needsFlush \in BOOLEAN /\ txStop \in BOOLEAN
    /\ currId \in Ids /\ iir \in Ids /\ irq \in BOOLEAN

(* Output: whenever an instruction starts there is room for its byte, so   *)
(* fifo_in never drops one, and what must be printed at once has been.     *)
OutputPrompt ==
    phase = "bus" => /\ Len(txFifo) < FifoSize
                     /\ \A i \in DOMAIN txFifo : txFifo[i] = "later"

(* What the UART interrupts for: its receive interrupt is enabled, a       *)
(* character is in the FIFO, and either one has come that no read of LSR   *)
(* has shown yet or the level is reached.                                  *)
InputDue == rxLen > 0 /\ "rx" \in enabled /\ (unseen \/ rxLen >= rxLevel)

(* Input that is due stays due until the guest comes to read it, however   *)
(* characters fall between the handler's reads, unless the main program    *)
(* itself takes the reason away: it reads or resets the FIFO, disables the *)
(* interrupt, raises the level, or polls LSR below the level.  After such  *)
(* a poll nothing calls for the characters until another one arrives.      *)
InputServed == InputDue ~> (mode = "rx" \/ ~InputDue)

(* Once the guest has acknowledged a transmit interrupt by reading IIR, no *)
(* later byte triggers it again: IIR never shows 2 while tx_stop_triggering*)
(* is set, so the test that would clear it (line 83) fails for ever.       *)
TransmitInterruptIsFinal == [][txStop => txStop' /\ (Update => iir' # ThrEmpty)]_vars
=============================================================================
