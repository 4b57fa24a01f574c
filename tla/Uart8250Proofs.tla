--------------------------- MODULE Uart8250Proofs ---------------------------
(***************************************************************************)
(* Theorems about the 8250 UART of Uart8250.tla, for every FIFO size and   *)
(* every set of receive levels.                                            *)
(*                                                                         *)
(* OutputPrompt speaks of the moments at which an instruction starts.      *)
(* Between the instruction and uart_update the transmit FIFO may be full   *)
(* and may hold a character that must be printed at once; what makes the   *)
(* update print it is that tx_needs_flush has been set with it (FlushDue). *)
(* TransmitInterruptIsFinal rests on the two copies of the interrupt id:   *)
(* once the transmit interrupt is acknowledged curr_iir_id is not          *)
(* THR-empty, and IIR, which shows the id of the last update, is not       *)
(* either when the next instruction starts (StopIsSeen).                   *)
(* That input which is due raises the interrupt rests on lsr_change being  *)
(* set as long as a character has come that LSR has not shown (CallHeld).  *)
(***************************************************************************)
EXTENDS Uart8250, TLAPS

(* What must be printed at once is printed by the coming update.           *)
FlushDue ==
    phase = "update" => \A i \in DOMAIN txFifo : txFifo[i] = "now" => needsFlush

(* While tx_stop_triggering is set neither copy of the id is THR-empty     *)
(* when software can look at it.                                           *)
StopIsSeen ==
    txStop => /\ currId # ThrEmpty
              /\ phase = "bus" => iir # ThrEmpty

(* lsr_change outlives everything but a read of LSR.                       *)
CallHeld == unseen => lsrChange

(* The inductive invariant.                                                *)
IInv == TypeOK /\ OutputPrompt /\ FlushDue /\ StopIsSeen /\ CallHeld

-----------------------------------------------------------------------------
(* The parts of a step                                                     *)

(* The interrupt id that an update writes to IIR is one of the ids, and    *)
(* with tx_stop_triggering set it is THR-empty only if curr_iir_id was.    *)
LEMMA IdOfUpdate ==
    ASSUME TypeOK, NEW tx
    PROVE  /\ IdOf(tx) \in Ids
           /\ txStop /\ currId # ThrEmpty => IdOf(tx) # ThrEmpty
<1> USE DEF NoIrqPending, ThrEmpty, DataAvailable, CharTimeout, Ids
<1>1. CASE LineChanged
  BY <1>1 DEF IdOf
<1>2. CASE ~LineChanged /\ LevelReached
  BY <1>2 DEF IdOf
<1>3. CASE ~LineChanged /\ ~LevelReached /\ TransmitterIdle(tx)
  <2>1. ~txStop
    BY <1>3 DEF TransmitterIdle
  <2>2. IdOf(tx) = ThrEmpty
    BY <1>3 DEF IdOf
  <2> QED
    BY <2>1, <2>2
<1>4. CASE ~LineChanged /\ ~LevelReached /\ ~TransmitterIdle(tx)
  <2>1. IdOf(tx) = currId
    BY <1>4 DEF IdOf
  <2> QED
    BY <2>1 DEF TypeOK
<1> QED
  BY <1>1, <1>2, <1>3, <1>4

(* A transmitted byte finds room, is printed in time, and does not clear   *)
(* tx_stop_triggering.                                                     *)
LEMMA WriteThrStep ==
    ASSUME IInv, NEW newline \in BOOLEAN, WriteThr(newline),
           mode' \in {"main"} \cup Handler
    PROVE  IInv' /\ (txStop => txStop')
<1> DEFINE c == IF newline \/ ~fifoEnabled THEN "now" ELSE "later"
<1>1. /\ phase = "bus" /\ phase' = "update"
      /\ Len(txFifo) < FifoSize
      /\ \A i \in DOMAIN txFifo : txFifo[i] = "later"
  BY DEF IInv, OutputPrompt, WriteThr, Access
<1>2. c \in {"now", "later"}
  OBVIOUS
<1>3. txFifo \in Seq({"now", "later"}) /\ Len(txFifo) \in Nat
  BY DEF IInv, TypeOK
<1>4. txFifo' = Append(txFifo, c)
  BY <1>1, <1>3, FifoSizeAssumption DEF WriteThr
<1> HIDE DEF c
<1>5. /\ txFifo' \in Seq({"now", "later"})
      /\ Len(txFifo') = Len(txFifo) + 1
      /\ \A i \in DOMAIN txFifo' : txFifo'[i] \in {"later", c}
  <2>1. DOMAIN txFifo' = 1..(Len(txFifo) + 1)
    BY <1>2, <1>3, <1>4
  <2>2. \A i \in 1..Len(txFifo) : txFifo'[i] = txFifo[i]
    BY <1>2, <1>3, <1>4
  <2>3. txFifo'[Len(txFifo) + 1] = c
    BY <1>2, <1>3, <1>4
  <2>4. DOMAIN txFifo = 1..Len(txFifo)
    BY <1>3
  <2>5. \A i \in 1..(Len(txFifo) + 1) : i \in 1..Len(txFifo) \/ i = Len(txFifo) + 1
    BY <1>3
  <2> QED
    BY <1>1, <1>2, <1>3, <1>4, <2>1, <2>2, <2>3, <2>4, <2>5
<1>6. Len(txFifo') <= FifoSize
  BY <1>1, <1>3, <1>5, FifoSizeAssumption
<1>7. c = "now" => needsFlush'
  BY DEF c, WriteThr
<1>8. needsFlush' \in BOOLEAN /\ txStop' \in BOOLEAN
  BY Zenon DEF IInv, TypeOK, WriteThr, StillStopped
<1>9. TypeOK'
  BY <1>1, <1>5, <1>6, <1>8, Zenon DEF IInv, TypeOK, WriteThr, rxVars, Access
<1>10. FlushDue'
  BY <1>5, <1>7 DEF FlushDue
<1>11. (txStop => txStop') /\ (txStop' => txStop)
  BY <1>1 DEF IInv, StopIsSeen, WriteThr, StillStopped
<1>12. StopIsSeen'
  BY <1>1, <1>11 DEF IInv, StopIsSeen, WriteThr
<1>13. CallHeld'
  BY Zenon DEF IInv, CallHeld, WriteThr, rxVars
<1> QED
  BY <1>1, <1>9, <1>10, <1>11, <1>12, <1>13 DEF IInv, OutputPrompt

(* The other writes and the reads leave the transmit FIFO alone or empty   *)
(* it, and only a read of IIR sets tx_stop_triggering.                     *)
LEMMA OtherAccessStep ==
    ASSUME IInv, mode' \in {"main"} \cup Handler,
           \/ \E en \in SUBSET {"rx", "tx", "lsr"} : WriteIer(en)
           \/ \E on, resetRx, resetTx \in BOOLEAN, l \in RxLevels :
                 WriteFcr(on, resetRx, resetTx, l)
           \/ \E d \in BOOLEAN : WriteLcr(d)
           \/ NoEffect \/ ReadIir \/ ReadLsr \/ ReadRbr
    PROVE  IInv' /\ (txStop => txStop')
<1>1. phase = "bus" /\ phase' = "update" /\ irq' = irq
  BY DEF WriteIer, WriteFcr, WriteLcr, NoEffect, ReadIir, ReadLsr, ReadRbr, Access
<1>2. txFifo' \in {txFifo, <<>>} /\ needsFlush' = needsFlush /\ iir' = iir
  BY DEF WriteIer, WriteFcr, WriteLcr, NoEffect, ReadIir, ReadLsr, ReadRbr, txVars
<1>3. \/ currId' = currId /\ txStop' = txStop
      \/ iir = ThrEmpty /\ currId' = NoIrqPending /\ txStop' = TRUE
  BY DEF WriteIer, WriteFcr, WriteLcr, NoEffect, ReadIir, ReadLsr, ReadRbr, txVars
<1>4. rxLen' \in 0..FifoSize
  <2>1. rxLen' \in {rxLen, 0} \/ (rxLen # 0 /\ rxLen' = rxLen - 1)
    BY DEF WriteIer, WriteFcr, WriteLcr, NoEffect, ReadIir, ReadLsr, ReadRbr, rxVars
  <2>2. rxLen \in 0..FifoSize
    BY DEF IInv, TypeOK
  <2> QED
    BY <2>1, <2>2, FifoSizeAssumption
<1>5. /\ dlab' \in BOOLEAN /\ fifoEnabled' \in BOOLEAN
      /\ lsrChange' \in BOOLEAN /\ unseen' \in BOOLEAN
      /\ enabled' \subseteq {"rx", "tx", "lsr"} /\ rxLevel' \in RxLevels
  BY Zenon DEF WriteIer, WriteFcr, WriteLcr, NoEffect, ReadIir, ReadLsr, ReadRbr,
               rxVars, IInv, TypeOK
<1>6. /\ txFifo' \in Seq({"now", "later"}) /\ Len(txFifo') <= FifoSize
      /\ \A i \in DOMAIN txFifo' : txFifo'[i] = "later"
  <2>1. CASE txFifo' = txFifo
    BY <1>1, <2>1 DEF IInv, TypeOK, OutputPrompt
  <2>2. CASE txFifo' = <<>>
    BY <2>2, FifoSizeAssumption
  <2> QED
    BY <1>2, <2>1, <2>2
<1>7. currId' \in Ids
  BY <1>3 DEF IInv, TypeOK, Ids, NoIrqPending
<1>8. txStop' \in BOOLEAN
  BY <1>3 DEF IInv, TypeOK
<1>9. TypeOK'
  BY <1>1, <1>2, <1>4, <1>5, <1>6, <1>7, <1>8, Zenon DEF IInv, TypeOK
<1>10. StopIsSeen'
  <2>1. NoIrqPending # ThrEmpty /\ phase' # "bus"
    BY <1>1 DEF NoIrqPending, ThrEmpty
  <2> QED
    BY <1>3, <2>1, Zenon DEF IInv, StopIsSeen
<1>11. FlushDue' /\ OutputPrompt'
  BY <1>1, <1>6 DEF FlushDue, OutputPrompt
<1>12. CallHeld'
  <2>1. (lsrChange' = lsrChange /\ unseen' = unseen) \/ ~unseen'
    BY Zenon DEF WriteIer, WriteFcr, WriteLcr, NoEffect, ReadIir, ReadLsr, ReadRbr, rxVars
  <2> QED
    BY <2>1, Zenon DEF IInv, CallHeld
<1> QED
  BY <1>3, <1>9, <1>10, <1>11, <1>12 DEF IInv

(* uart_update leaves room in the transmit FIFO and prints what must be    *)
(* printed; the id it shows is not THR-empty while triggering is stopped.  *)
LEMMA UpdateStep ==
    ASSUME IInv, Update
    PROVE  /\ IInv' /\ (txStop => txStop' /\ iir' # ThrEmpty)
           /\ InputDue => irq'
<1>1. /\ phase = "update" /\ phase' = "bus"
      /\ currId' = IdOf(txFifo') /\ iir' = currId'
      /\ needsFlush' = needsFlush /\ txStop' = txStop
  BY DEF Update
<1>2. TypeOK
  BY DEF IInv
<1>3. txFifo \in Seq({"now", "later"}) /\ Len(txFifo) <= FifoSize /\ Len(txFifo) \in Nat
  BY <1>2 DEF TypeOK
<1>4. /\ txFifo' \in Seq({"now", "later"})
      /\ Len(txFifo') < FifoSize
      /\ \A i \in DOMAIN txFifo' : txFifo'[i] = "later"
  <2>1. CASE MustFlush
    BY <2>1, FifoSizeAssumption DEF Update
  <2>2. CASE ~MustFlush
    <3>1. txFifo' = txFifo /\ ~needsFlush /\ Len(txFifo) # FifoSize
      BY <2>2 DEF Update, MustFlush
    <3>2. \A i \in DOMAIN txFifo : txFifo[i] \in {"now", "later"}
      BY <1>3
    <3> QED
      BY <1>1, <1>3, <3>1, <3>2, FifoSizeAssumption DEF IInv, FlushDue
  <2> QED
    BY <2>1, <2>2
<1>5. iir' \in Ids /\ (txStop /\ currId # ThrEmpty => iir' # ThrEmpty)
  BY <1>1, <1>2, IdOfUpdate
<1>6. irq' \in BOOLEAN /\ lsrChange' \in BOOLEAN
  BY <1>2, Zenon DEF Update, KeptLsrChange, TypeOK
<1>7. mode' \in {"main"} \cup Handler
  BY <1>2 DEF Update, TypeOK, Handler
<1>8. Len(txFifo') <= FifoSize
  BY <1>4, FifoSizeAssumption
<1>9. TypeOK'
  BY <1>1, <1>2, <1>4, <1>5, <1>6, <1>7, <1>8 DEF Update, TypeOK
<1>10. CallHeld'
  BY Zenon DEF IInv, CallHeld, Update, KeptLsrChange
<1>11. InputDue => LineChanged \/ LevelReached
  <2>1. "rx" \in enabled => enabled \cap {"lsr", "rx"} # {}
    OBVIOUS
  <2> QED
    BY <2>1, Zenon DEF IInv, CallHeld, InputDue, LineChanged, LevelReached
<1>12. InputDue => irq'
  BY <1>11, Zenon DEF Update
<1> QED
  BY <1>1, <1>4, <1>5, <1>9, <1>10, <1>12 DEF IInv, OutputPrompt, FlushDue, StopIsSeen

(* A received character never overfills the FIFO and touches nothing of    *)
(* the transmitter.                                                        *)
LEMMA AddRxCharStep ==
    ASSUME IInv, AddRxChar
    PROVE  IInv' /\ txStop' = txStop
<1>1. rxLen' \in 0..FifoSize
  BY FifoSizeAssumption DEF IInv, TypeOK, AddRxChar, RxIn
<1>2. TypeOK'
  BY <1>1 DEF IInv, TypeOK, AddRxChar, txVars
<1> QED
  BY <1>2 DEF IInv, OutputPrompt, FlushDue, StopIsSeen, CallHeld, AddRxChar, txVars

-----------------------------------------------------------------------------
(* Every step                                                              *)

(* A step of the loop or of the RX thread preserves the invariant, keeps   *)
(* tx_stop_triggering set, and does not show THR-empty while it is.        *)
LEMMA NextStep ==
    ASSUME IInv, [Next]_vars
    PROVE  /\ IInv' /\ (txStop => txStop' /\ (Update => iir' # ThrEmpty))
           /\ Update /\ InputDue => irq'
<1>1. CASE Main
  <2>1. phase = "bus" /\ mode' = "main" /\ ~Update
    BY <1>1 DEF Main, Goes, WriteThr, WriteIer, WriteFcr, WriteLcr, NoEffect,
                ReadIir, ReadLsr, ReadRbr, Access, Update
  <2>2. CASE \E newline \in BOOLEAN : WriteThr(newline)
    BY <2>1, <2>2, WriteThrStep
  <2>3. CASE ~\E newline \in BOOLEAN : WriteThr(newline)
    BY <1>1, <2>1, <2>3, OtherAccessStep DEF Main
  <2> QED
    BY <2>2, <2>3
<1>2. CASE Handle
  <2>1. phase = "bus" /\ mode' \in {"main"} \cup Handler /\ ~Update
    BY <1>2 DEF Handle, Goes, WriteThr, WriteLcr, NoEffect, ReadIir, ReadLsr,
                ReadRbr, Access, Update, Handler
  <2>2. CASE \E newline \in BOOLEAN : WriteThr(newline)
    BY <2>1, <2>2, WriteThrStep
  <2>3. CASE ~\E newline \in BOOLEAN : WriteThr(newline)
    <3>1. WriteLcr(FALSE) \/ NoEffect \/ ReadIir \/ ReadLsr \/ ReadRbr
      BY <1>2, <2>3 DEF Handle
    <3> QED
      BY <2>1, <3>1, OtherAccessStep
  <2> QED
    BY <2>2, <2>3
<1>3. CASE Update
  BY <1>3, UpdateStep
<1>4. CASE AddRxChar
  <2>1. ~Update
    BY <1>4 DEF AddRxChar, Update
  <2>2. IInv' /\ txStop' = txStop
    BY <1>4, AddRxCharStep
  <2> QED
    BY <2>1, <2>2, Zenon
<1>5. CASE UNCHANGED vars
  <2>1. IInv' /\ txStop' = txStop /\ ~Update
    BY <1>5 DEF IInv, TypeOK, OutputPrompt, FlushDue, StopIsSeen, CallHeld, Update,
                vars, rxVars, txVars
  <2> QED
    BY <2>1
<1> QED
  BY <1>1, <1>2, <1>3, <1>4, <1>5 DEF Next, Cycle

(* uart_init establishes the invariant.                                    *)
LEMMA InitStep == Init => IInv
<1> SUFFICES ASSUME Init PROVE IInv
  OBVIOUS
<1>1. /\ txFifo \in Seq({"now", "later"}) /\ Len(txFifo) <= FifoSize
      /\ rxLevel \in RxLevels /\ rxLen \in 0..FifoSize
  BY FifoSizeAssumption, RxLevelsAssumption DEF Init
<1>2. currId \in Ids /\ iir \in Ids
  BY DEF Init, Ids, NoIrqPending
<1>3. TypeOK
  BY <1>1, <1>2, Zenon DEF Init, TypeOK
<1> QED
  BY <1>3, FifoSizeAssumption DEF Init, IInv, OutputPrompt, FlushDue, StopIsSeen,
                                  CallHeld

(* The invariant holds in every reachable state.                           *)
LEMMA Invariant == Spec => []IInv
BY InitStep, NextStep, PTL DEF Spec

-----------------------------------------------------------------------------
(* The theorems                                                            *)

(* Type correctness: both FIFOs keep to their size, IIR shows one of the   *)
(* ids the code assigns, however the RX thread and the guest interleave.   *)
THEOREM TypeCorrect == Spec => []TypeOK
<1>1. IInv => TypeOK
  BY DEF IInv
<1> QED
  BY <1>1, Invariant, PTL

(* Whenever an instruction starts the transmit FIFO has room for its byte, *)
(* and no newline, or byte written with the FIFOs off, is still in it.     *)
THEOREM OutputIsPrompt == Spec => []OutputPrompt
<1>1. IInv => OutputPrompt
  BY DEF IInv
<1> QED
  BY <1>1, Invariant, PTL

(* After the first acknowledged transmit interrupt there is never another  *)
(* one: tx_stop_triggering stays set and IIR never shows THR-empty again.  *)
THEOREM TransmitInterruptComesOnce == Spec => TransmitInterruptIsFinal
<1>1. ASSUME IInv, [Next]_vars
      PROVE  [txStop => txStop' /\ (Update => iir' # ThrEmpty)]_vars
  BY <1>1, NextStep
<1> QED
  BY <1>1, Invariant, PTL DEF Spec, TransmitInterruptIsFinal

(* uart_update raises the interrupt whenever input is due.                 *)
CallsForInput == [][Update /\ InputDue => irq']_vars

(* The safety half of InputServed: as long as LSR has not been read since  *)
(* a character came, or the level is reached, every update calls for the   *)
(* characters in the FIFO, whatever the guest and the RX thread did before.*)
THEOREM InputIsCalledFor == Spec => CallsForInput
<1>1. ASSUME IInv, [Next]_vars PROVE [Update /\ InputDue => irq']_vars
  BY <1>1, NextStep
<1> QED
  BY <1>1, Invariant, PTL DEF Spec, CallsForInput
=============================================================================
