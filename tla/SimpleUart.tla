----------------------------- MODULE SimpleUart -----------------------------
(***************************************************************************)
(* The simple UART, src/src/peripherals/uart/simple_uart.c: two FIFOs, the *)
(* interrupt enable bits, and the flush of the output in the loop of the   *)
(* SoC.  Every function runs under the UART's mutex, so each is one        *)
(* action; its two FIFOs are the bounded queues that Fifo.tla is shown to  *)
(* implement.  rx_triggered and tx_triggered are never read.               *)
(*                                                                         *)
(* A character is the number of the key press, or of the guest's write, it *)
(* comes from; Empty is the 0 that a read of an empty FIFO returns.        *)
(*                                                                         *)
(* A definition X_Word right before X is a faulty variant of X.            *)
(***************************************************************************)
EXTENDS Integers, Sequences

CONSTANTS
    UartFifoSize,   \* SIMPLE_UART_FIFO_SIZE
    NewLines        \* the characters that stand for '\n'

VARIABLES
    rxFifo,         \* uart->rx_fifo
    txFifo,         \* uart->tx_fifo
    rxIrqEnabled,   \* uart->rx_irq_enabled
    txIrqEnabled,   \* uart->tx_irq_enabled
    needsFlush,     \* uart->tx_needs_flush
    out             \* what putchar has printed

uartVars == <<rxFifo, txFifo, rxIrqEnabled, txIrqEnabled, needsFlush, out>>

ASSUME UartAssumption == UartFifoSize \in Nat \ {0} /\ NewLines \subseteq Nat

Empty == 0

IsFull(f) == Len(f) = UartFifoSize

(* fifo_in and fifo_out of one byte: a full FIFO takes nothing.            *)
FifoIn_Overwrite(f, c) == IF IsFull(f) THEN <<c>> ELSE Append(f, c)
FifoIn(f, c) == IF IsFull(f) THEN f ELSE Append(f, c)
FifoOut_Keep(f) == f
FifoOut(f) == IF f = <<>> THEN f ELSE Tail(f)
FifoHead(f) == IF f = <<>> THEN Empty ELSE Head(f)

UartInit ==
    /\ rxFifo = <<>>
    /\ txFifo = <<>>
    /\ rxIrqEnabled = FALSE
    /\ txIrqEnabled = FALSE
    /\ needsFlush = FALSE
    /\ out = <<>>

(* simple_uart_bus_access, by access and register.                         *)
UartWriteTx(c) ==
    /\ txFifo' = FifoIn(txFifo, c)
    /\ needsFlush' = (needsFlush \/ c \in NewLines)
    /\ UNCHANGED <<rxFifo, rxIrqEnabled, txIrqEnabled, out>>

UartWriteStatus(rx, tx) ==
    /\ rxIrqEnabled' = rx
    /\ txIrqEnabled' = tx
    /\ UNCHANGED <<rxFifo, txFifo, needsFlush, out>>

UartReadRx ==
    /\ rxFifo' = FifoOut(rxFifo)
    /\ UNCHANGED <<txFifo, rxIrqEnabled, txIrqEnabled, needsFlush, out>>

UartRxEmpty == rxFifo = <<>>

(* simple_uart_update: print what must be printed, then the level of the   *)
(* interrupt line, the receiver's reason first.                            *)
MustFlush_NewLineOnly == needsFlush
MustFlush == IsFull(txFifo) \/ needsFlush

UartIrq(rx, tx) ==
    \/ rxIrqEnabled /\ IsFull(rx)
    \/ txIrqEnabled /\ tx = <<>>

UartUpdate ==
    /\ txFifo' = IF MustFlush THEN <<>> ELSE txFifo
    /\ out' = IF MustFlush THEN out \o txFifo ELSE out
    /\ needsFlush' = (needsFlush /\ ~MustFlush)
    /\ UNCHANGED <<rxFifo, rxIrqEnabled, txIrqEnabled>>

(* simple_uart_add_rx_char, called by the RX thread.                       *)
UartAddRxChar(c) ==
    /\ rxFifo' = FifoIn(rxFifo, c)
    /\ UNCHANGED <<txFifo, rxIrqEnabled, txIrqEnabled, needsFlush, out>>
=============================================================================
