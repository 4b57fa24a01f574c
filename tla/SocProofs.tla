----------------------------- MODULE SocProofs -----------------------------
(***************************************************************************)
(* Theorems about the SoC of Soc.tla, for every size of the UART's buffers,*)
(* every word width, and any number of characters typed and written.       *)
(*                                                                         *)
(* The proofs follow the components.  The PLIC inside the SoC behaves as   *)
(* Plic.tla says (PlicRefined), so the theorems of PlicProofs hold here    *)
(* for its one source.  The UART's input, its output, the timer and the    *)
(* external handler each have an invariant over the few variables they     *)
(* touch; IInv is their conjunction.                                       *)
(***************************************************************************)
EXTENDS Soc, TLAPS

PP == INSTANCE PlicProofs WITH Ids <- {UartId}, Driven <- {UartId},
                               Prios <- {1}, Thresholds <- {0}

-----------------------------------------------------------------------------
(* The PLIC in the SoC                                                     *)

(* The only source, id 10, satisfies what PlicProofs assumes of the ids.   *)
LEMMA UartIdFits ==
    PP!OneWord /\ PP!IdsAssumption /\ PP!DrivenAssumption /\ PP!PriosAssumption
BY DEF PP!OneWord, PP!IdsAssumption, PP!DrivenAssumption, PP!PriosAssumption,
       PP!AllIds, PP!WordBits, PP!NrRegs, UartId

(* An instruction makes at most one access to the PLIC, one that its       *)
(* specification allows.                                                   *)
LEMMA InstructionAccess ==
    ASSUME Instruction
    PROVE  P!Next /\ phase = "bus" /\ phase' = "update"
<1> USE DEF PlicAccess, UartWrites, ClintAccess, NoDevice, WriteChar, WriteStatus,
            ReadChar
<1>1. ASSUME P!NoAccess PROVE P!Next /\ phase = "bus" /\ phase' = "update"
  BY <1>1 DEF P!Next, P!NoAccess, P!Access
<1>2. CASE BootStep
  <2>1. ASSUME P!WritePriority(UartId, 1)
        PROVE  P!Next /\ phase = "bus" /\ phase' = "update"
    BY <2>1 DEF P!Next, P!Configure, P!WritePriority, P!Access
  <2>2. ASSUME P!WriteEnable(0, {UartId})
        PROVE  P!Next /\ phase = "bus" /\ phase' = "update"
    <3>1. P!Word(0) = {UartId} /\ 0 \in 0..(P!NrRegs - 1)
      BY DEF P!Word, P!WordOf, P!WordBits, P!NrRegs, UartId
    <3>2. P!Configure
      BY <2>2, <3>1 DEF P!Configure
    <3> QED
      BY <2>2, <3>2 DEF P!Next, P!WriteEnable, P!Access
  <2> QED
    BY <1>1, <1>2, <2>1, <2>2 DEF BootStep
<1>3. CASE ServeUart
  <2>1. ASSUME P!Claim PROVE P!Next /\ phase = "bus" /\ phase' = "update"
    BY <2>1 DEF P!Next, P!Claim, P!Access
  <2>2. ASSUME P!Complete(UartId) PROVE P!Next /\ phase = "bus" /\ phase' = "update"
    BY <2>2 DEF P!Next, P!Complete, P!Access
  <2> QED
    BY <1>1, <1>3, <2>1, <2>2 DEF ServeUart
<1>4. CASE Main \/ ServeTimer \/ ServeSoftware \/ Mret
  BY <1>1, <1>4 DEF Main, ServeTimer, ServeSoftware, Mret
<1> QED
  BY <1>2, <1>3, <1>4 DEF Instruction

(* Every step of the SoC is a step of the PLIC or leaves it alone.         *)
LEMMA PlicStep ==
    ASSUME [Next]_vars
    PROVE  [P!Next]_(P!vars)
<1>1. CASE Instruction
  BY <1>1, InstructionAccess
<1>2. CASE Devices
  BY <1>2 DEF Devices, P!Next
<1>3. CASE RxThread
  BY <1>3 DEF RxThread, plicVars, P!vars
<1>4. CASE UNCHANGED vars
  BY <1>4 DEF vars, plicVars, P!vars
<1> QED
  BY <1>1, <1>2, <1>3, <1>4 DEF Next, Cycle

(* The PLIC of Soc.tla and the one of PlicProofs are the same.             *)
LEMMA SamePlic ==
    /\ P!Init <=> PP!Init
    /\ P!Next <=> PP!Next
    /\ P!vars = PP!vars
<1> USE DEF P!WordBits, PP!WordBits, P!NrRegs, PP!NrRegs, P!MaxPrio, PP!MaxPrio,
            P!WordOf, PP!WordOf, P!Word, PP!Word
<1>1. P!Init <=> PP!Init
  BY Zenon DEF P!Init, PP!Init
<1>2. P!vars = PP!vars
  BY Zenon DEF P!vars, PP!vars
<1>3. P!NoAccess <=> PP!NoAccess
  BY Zenon DEF P!NoAccess, PP!NoAccess, P!Access, PP!Access
<1>4. P!Configure <=> PP!Configure
  BY Zenon DEF P!Configure, PP!Configure, P!Access, PP!Access, P!Sane, PP!Sane,
         P!WritePriority, PP!WritePriority, P!WriteThreshold, PP!WriteThreshold,
         P!WriteEnable, PP!WriteEnable, P!WritePending, PP!WritePending
<1>5. P!Claim <=> PP!Claim
  BY Zenon DEF P!Claim, PP!Claim, P!Access, PP!Access, P!MarkClaimed, PP!MarkClaimed
<1>6. ASSUME NEW id PROVE P!Complete(id) <=> PP!Complete(id)
  BY Zenon DEF P!Complete, PP!Complete, P!Access, PP!Access, P!Unclaim, PP!Unclaim
<1>7. P!Update <=> PP!Update
  BY Zenon DEF P!Update, PP!Update, P!FollowLevels, PP!FollowLevels,
         P!Selected, PP!Selected, P!Candidates, PP!Candidates, P!Wins, PP!Wins,
         P!Count, PP!Count, P!Priority, PP!Priority, P!Scanned, PP!Scanned,
         P!Cardinality, PP!Cardinality
<1> QED
  BY <1>1, <1>2, <1>3, <1>4, <1>5, <1>6, <1>7, Zenon DEF P!Next, PP!Next

(* Whatever the guest's drivers, the UART and the RX thread do, the PLIC   *)
(* sees only what Plic.tla specifies: the loop of the SoC alternates one   *)
(* access at most with an update, and no device writes its registers.      *)
THEOREM PlicRefined == Spec => P!Spec
<1>1. Init => P!Init
  BY DEF Init
<1> QED
  BY <1>1, PlicStep, PTL DEF Spec, P!Spec

(* Hence the invariant of PlicProofs.                                      *)
LEMMA PlicInvariant == Spec => []PP!Inv
<1>1. Init => PP!Init
  BY SamePlic DEF Init
<1>2. ASSUME [Next]_vars PROVE [PP!Next]_(PP!vars)
  BY <1>2, PlicStep, SamePlic DEF P!vars, PP!vars
<1>3. PP!Spec => []PP!Inv
  BY UartIdFits, PP!Invariance, PTL
     DEF PP!IdsAssumption, PP!DrivenAssumption, PP!PriosAssumption
<1> QED
  BY <1>1, <1>2, <1>3, PTL DEF Spec, PP!Spec

-----------------------------------------------------------------------------
(* The UART's input                                                        *)

(* The buffer holds, in the order they were typed, exactly the characters  *)
(* that were typed after the last one read and were not dropped.           *)
InputOrder ==
    /\ typed \in 0..MaxTyped /\ got \in 0..typed /\ dropped \subseteq 1..typed
    /\ rxFifo \in Seq(1..MaxTyped) /\ Len(rxFifo) <= UartFifoSize
    /\ \A i, j \in DOMAIN rxFifo : i < j => rxFifo[i] < rxFifo[j]
    /\ \A i \in DOMAIN rxFifo :
          rxFifo[i] > got /\ rxFifo[i] <= typed /\ rxFifo[i] \notin dropped
    /\ \A c \in 1..typed :
          c > got /\ c \notin dropped => \E i \in DOMAIN rxFifo : rxFifo[i] = c

(* The size of the UART's buffers.                                         *)
LEMMA SizeFacts == UartFifoSize \in Nat /\ UartFifoSize > 0
BY UartAssumption

(* What the provers need of a sequence.                                    *)
LEMMA SeqFacts ==
    ASSUME NEW S, NEW s \in Seq(S)
    PROVE  /\ Len(s) \in Nat /\ DOMAIN s = 1..Len(s)
           /\ \A i \in DOMAIN s : s[i] \in S
OBVIOUS

(* A step that is no read of the receive register and no key press leaves  *)
(* the input alone.                                                        *)
LEMMA InputFrame ==
    ASSUME [Next]_vars, ~ReadChar, ~RxThread
    PROVE  UNCHANGED <<rxFifo, got, typed, dropped>>
<1> USE DEF PlicAccess, UartWrites, ClintAccess, NoDevice, WriteChar, WriteStatus,
            UartWriteTx, UartWriteStatus, uartVars
<1>1. CASE BootStep
  BY <1>1 DEF BootStep
<1>2. CASE Main
  BY <1>2 DEF Main
<1>3. CASE ServeUart
  BY <1>3 DEF ServeUart
<1>4. CASE ServeTimer \/ ServeSoftware \/ Mret
  BY <1>4 DEF ServeTimer, ServeSoftware, Mret
<1>5. CASE Devices
  BY <1>5 DEF Devices, UartUpdate
<1>6. CASE UNCHANGED vars
  BY <1>6 DEF vars
<1> QED
  BY <1>1, <1>2, <1>3, <1>4, <1>5, <1>6 DEF Next, Cycle, Instruction

(* A read takes the oldest character, which is later than the last one     *)
(* read and was not dropped.                                               *)
LEMMA ReadCharStep ==
    ASSUME InputOrder, ReadChar
    PROVE  /\ InputOrder'
           /\ ~UartRxEmpty => got' > got /\ got' \notin dropped
<1>1. typed' = typed /\ dropped' = dropped
  BY DEF ReadChar
<1>2. CASE rxFifo = <<>>
  <2>1. rxFifo' = rxFifo /\ got' = got
    BY <1>2 DEF ReadChar, UartReadRx, FifoOut, UartRxEmpty
  <2> QED
    BY <1>1, <1>2, <2>1 DEF InputOrder, UartRxEmpty
<1>3. CASE rxFifo # <<>>
  <2>1. rxFifo' = Tail(rxFifo) /\ got' = rxFifo[1]
    BY <1>3 DEF ReadChar, UartReadRx, FifoOut, UartRxEmpty, FifoHead, InputOrder
  <2>2. /\ rxFifo \in Seq(1..MaxTyped) /\ Len(rxFifo) \in Nat /\ Len(rxFifo) > 0
        /\ DOMAIN rxFifo = 1..Len(rxFifo) /\ Len(rxFifo) <= UartFifoSize
        /\ \A i \in DOMAIN rxFifo : rxFifo[i] \in 1..MaxTyped
    <3>1. rxFifo \in Seq(1..MaxTyped) /\ Len(rxFifo) <= UartFifoSize
      BY DEF InputOrder
    <3>2. Len(rxFifo) > 0
      BY <1>3, <3>1
    <3> QED
      BY <3>1, <3>2, SeqFacts
  <2>3. /\ rxFifo' \in Seq(1..MaxTyped) /\ Len(rxFifo') = Len(rxFifo) - 1
        /\ DOMAIN rxFifo' = 1..(Len(rxFifo) - 1)
        /\ \A i \in 1..(Len(rxFifo) - 1) : rxFifo'[i] = rxFifo[i + 1]
    BY <1>3, <2>1, <2>2
  <2>4. /\ 1 \in DOMAIN rxFifo
        /\ \A i \in 1..(Len(rxFifo) - 1) : i + 1 \in DOMAIN rxFifo /\ 1 < i + 1
    BY <2>2
  <2>5. /\ got' \in 1..typed /\ got' > got /\ got' \notin dropped
        /\ typed \in 0..MaxTyped /\ got \in 0..typed /\ dropped \subseteq 1..typed
    <3>1. /\ rxFifo[1] > got /\ rxFifo[1] <= typed /\ rxFifo[1] \notin dropped
          /\ rxFifo[1] \in 1..MaxTyped
          /\ typed \in 0..MaxTyped /\ got \in 0..typed /\ dropped \subseteq 1..typed
      BY <2>2, <2>4 DEF InputOrder
    <3> QED
      BY <2>1, <3>1, BoundsAssumption
  <2>6. \A i, j \in DOMAIN rxFifo' : i < j => rxFifo'[i] < rxFifo'[j]
    <3> SUFFICES ASSUME NEW i \in DOMAIN rxFifo', NEW j \in DOMAIN rxFifo', i < j
                 PROVE  rxFifo'[i] < rxFifo'[j]
      OBVIOUS
    <3>1. i + 1 \in DOMAIN rxFifo /\ j + 1 \in DOMAIN rxFifo /\ i + 1 < j + 1
      BY <2>2, <2>3
    <3>2. rxFifo[i + 1] < rxFifo[j + 1]
      BY <3>1 DEF InputOrder
    <3> QED
      BY <2>3, <3>2
  <2>7. \A i \in DOMAIN rxFifo' :
          rxFifo'[i] > got' /\ rxFifo'[i] <= typed /\ rxFifo'[i] \notin dropped
    BY <2>1, <2>2, <2>3, <2>4 DEF InputOrder
  <2>8. ASSUME NEW c \in 1..typed, c > got', c \notin dropped
        PROVE  \E i \in DOMAIN rxFifo' : rxFifo'[i] = c
    <3>1. c > got
      BY <2>5, <2>8
    <3>2. PICK k \in DOMAIN rxFifo : rxFifo[k] = c
      BY <2>8, <3>1 DEF InputOrder
    <3>3. k # 1
      BY <2>1, <2>5, <2>8, <3>2
    <3>4. k - 1 \in DOMAIN rxFifo' /\ rxFifo'[k - 1] = rxFifo[k]
      BY <2>2, <2>3, <3>2, <3>3
    <3> QED
      BY <3>2, <3>4
  <2>9. got' \in 0..typed' /\ Len(rxFifo') <= UartFifoSize
    BY <1>1, <2>2, <2>3, <2>5, SizeFacts
  <2> QED
    BY <1>1, <2>3, <2>5, <2>6, <2>7, <2>8, <2>9 DEF InputOrder
<1> QED
  BY <1>2, <1>3

(* A key press finds room or is dropped; it is later than all before it.   *)
LEMMA RxThreadStep ==
    ASSUME InputOrder, RxThread
    PROVE  InputOrder'
<1>1. /\ typed \in 0..MaxTyped /\ typed < MaxTyped /\ typed' = typed + 1 /\ got' = got
      /\ got \in 0..typed /\ dropped \subseteq 1..typed
  BY DEF RxThread, InputOrder
<1>2. /\ rxFifo \in Seq(1..MaxTyped) /\ Len(rxFifo) \in Nat
      /\ DOMAIN rxFifo = 1..Len(rxFifo) /\ Len(rxFifo) <= UartFifoSize
      /\ \A i \in DOMAIN rxFifo : /\ rxFifo[i] \in 1..MaxTyped /\ rxFifo[i] <= typed
                                 /\ rxFifo[i] > got /\ rxFifo[i] \notin dropped
  <2>1. rxFifo \in Seq(1..MaxTyped)
    BY DEF InputOrder
  <2> QED
    BY <2>1, SeqFacts DEF InputOrder
<1>3. typed' \in 1..MaxTyped /\ typed' \notin dropped /\ got \in 0..typed'
  BY <1>1, BoundsAssumption
<1>4. \A c \in 1..typed' : c \in 1..typed \/ c = typed'
  BY <1>1
<1>5. CASE IsFull(rxFifo)
  <2>1. rxFifo' = rxFifo /\ dropped' = dropped \cup {typed'}
    BY <1>5 DEF RxThread, UartAddRxChar, FifoIn
  <2>2. \A i \in DOMAIN rxFifo : rxFifo[i] <= typed' /\ rxFifo[i] # typed'
    BY <1>1, <1>2, BoundsAssumption
  <2>3. dropped' \subseteq 1..typed'
    BY <1>1, <2>1
  <2> QED
    BY <1>1, <1>3, <1>4, <2>1, <2>2, <2>3 DEF InputOrder
<1>6. CASE ~IsFull(rxFifo)
  <2>1. rxFifo' = Append(rxFifo, typed') /\ dropped' = dropped
    BY <1>6 DEF RxThread, UartAddRxChar, FifoIn
  <2>2. /\ rxFifo' \in Seq(1..MaxTyped) /\ Len(rxFifo') = Len(rxFifo) + 1
        /\ DOMAIN rxFifo' = 1..(Len(rxFifo) + 1)
        /\ \A i \in DOMAIN rxFifo : rxFifo'[i] = rxFifo[i]
        /\ rxFifo'[Len(rxFifo) + 1] = typed'
    BY <1>2, <1>3, <2>1
  <2>3. Len(rxFifo') <= UartFifoSize
    <3>1. Len(rxFifo) # UartFifoSize
      BY <1>6 DEF IsFull
    <3>2. Len(rxFifo) \in Nat /\ Len(rxFifo) <= UartFifoSize /\ UartFifoSize \in Nat
      BY <1>2, SizeFacts
    <3> QED
      BY <2>2, <3>1, <3>2
  <2>4. \A i \in DOMAIN rxFifo' : i \in DOMAIN rxFifo \/ i = Len(rxFifo) + 1
    BY <1>2, <2>2
  <2>5. \A i \in DOMAIN rxFifo : rxFifo'[i] < typed' /\ rxFifo'[i] > got
                               /\ rxFifo'[i] \notin dropped
    BY <1>1, <1>2, <2>2, BoundsAssumption
  <2>6. \A i, j \in DOMAIN rxFifo' : i < j => rxFifo'[i] < rxFifo'[j]
    <3> SUFFICES ASSUME NEW i \in DOMAIN rxFifo', NEW j \in DOMAIN rxFifo', i < j
                 PROVE  rxFifo'[i] < rxFifo'[j]
      OBVIOUS
    <3>1. i \in DOMAIN rxFifo
      BY <1>2, <2>2
    <3>2. CASE j \in DOMAIN rxFifo
      BY <2>2, <3>1, <3>2 DEF InputOrder
    <3>3. CASE j = Len(rxFifo) + 1
      BY <2>2, <2>5, <3>1, <3>3
    <3> QED
      BY <2>4, <3>2, <3>3
  <2>7. \A i \in DOMAIN rxFifo' : /\ rxFifo'[i] > got /\ rxFifo'[i] <= typed'
                                /\ rxFifo'[i] \notin dropped
    <3>1. typed' > got
      BY <1>1
    <3>2. typed' \in Int /\ \A i \in DOMAIN rxFifo' : rxFifo'[i] \in Int
      BY <1>1, <1>2, <2>2, <2>4, BoundsAssumption
    <3> QED
      BY <1>3, <2>2, <2>4, <2>5, <3>1, <3>2
  <2>8. ASSUME NEW c \in 1..typed', c > got, c \notin dropped
        PROVE  \E i \in DOMAIN rxFifo' : rxFifo'[i] = c
    <3>1. CASE c = typed'
      <4>1. Len(rxFifo) + 1 \in DOMAIN rxFifo'
        BY <1>2, <2>2
      <4> QED
        BY <2>2, <3>1, <4>1
    <3>2. CASE c \in 1..typed
      <4>1. PICK k \in DOMAIN rxFifo : rxFifo[k] = c
        BY <2>8, <3>2 DEF InputOrder
      <4>2. k \in DOMAIN rxFifo' /\ rxFifo'[k] = c
        BY <1>2, <2>2, <4>1
      <4> QED
        BY <4>2
    <3> QED
      BY <1>4, <3>1, <3>2
  <2>9. dropped' \subseteq 1..typed' /\ typed' \in 0..MaxTyped
    BY <1>1, <2>1, BoundsAssumption
  <2> QED
    BY <1>1, <1>3, <2>1, <2>2, <2>3, <2>6, <2>7, <2>8, <2>9 DEF InputOrder
<1> QED
  BY <1>5, <1>6

(* Every step keeps the input in order.                                    *)
LEMMA InputStep ==
    ASSUME InputOrder, [Next]_vars
    PROVE  InputOrder'
<1>1. CASE ReadChar
  BY <1>1, ReadCharStep
<1>2. CASE RxThread
  BY <1>2, RxThreadStep
<1>3. CASE ~ReadChar /\ ~RxThread
  BY <1>3, InputFrame DEF InputOrder
<1> QED
  BY <1>1, <1>2, <1>3

-----------------------------------------------------------------------------
(* The UART's output                                                       *)

(* What has been printed, followed by what waits in the buffer, is what    *)
(* the guest has written; an instruction starts with room in the buffer.   *)
OutputOrder ==
    /\ sent \in 0..MaxSent
    /\ txFifo \in Seq(1..MaxSent) /\ Len(txFifo) <= UartFifoSize
    /\ out \in Seq(1..MaxSent)
    /\ Len(out) + Len(txFifo) = sent
    /\ \A i \in DOMAIN out : out[i] = i
    /\ \A i \in DOMAIN txFifo : txFifo[i] = Len(out) + i
    /\ phase = "bus" => Len(txFifo) < UartFifoSize

(* Only a write of the transmit register and the update touch the output.  *)
LEMMA OutputFrame ==
    ASSUME [Next]_vars, ~WriteChar, ~Devices
    PROVE  UNCHANGED <<txFifo, out, sent>> /\ (phase' = "bus" => phase = "bus")
<1>1. CASE Instruction
  <2> USE DEF PlicAccess, UartWrites, ClintAccess, NoDevice, WriteStatus, ReadChar,
              UartReadRx, UartWriteStatus, uartVars
  <2>1. phase' # "bus"
    BY <1>1, InstructionAccess
  <2>2. CASE BootStep
    BY <2>1, <2>2 DEF BootStep
  <2>3. CASE Main
    BY <2>1, <2>3 DEF Main
  <2>4. CASE ServeUart
    BY <2>1, <2>4 DEF ServeUart
  <2>5. CASE ServeTimer \/ ServeSoftware \/ Mret
    BY <2>1, <2>5 DEF ServeTimer, ServeSoftware, Mret
  <2> QED
    BY <1>1, <2>2, <2>3, <2>4, <2>5 DEF Instruction
<1>2. CASE RxThread
  BY <1>2 DEF RxThread, plicVars, UartAddRxChar
<1>3. CASE UNCHANGED vars
  BY <1>3 DEF vars, plicVars, uartVars
<1> QED
  BY <1>1, <1>2, <1>3 DEF Next, Cycle

(* The byte the guest writes finds room: fifo_in does not refuse it.       *)
LEMMA WriteCharStep ==
    ASSUME OutputOrder, WriteChar
    PROVE  OutputOrder'
<1>1. /\ phase = "bus" /\ phase' = "update" /\ sent' = sent + 1 /\ out' = out
      /\ sent \in 0..MaxSent /\ sent < MaxSent
  BY DEF OutputOrder, WriteChar, UartWrites, UartWriteTx, P!NoAccess, P!Access
<1>2. /\ txFifo \in Seq(1..MaxSent) /\ out \in Seq(1..MaxSent)
      /\ Len(txFifo) \in Nat /\ DOMAIN txFifo = 1..Len(txFifo)
      /\ Len(out) \in Nat
  <2>1. txFifo \in Seq(1..MaxSent) /\ out \in Seq(1..MaxSent)
    BY DEF OutputOrder
  <2> QED
    BY <2>1, SeqFacts
<1>3. Len(txFifo) < UartFifoSize
  BY <1>1 DEF OutputOrder
<1>4. sent' \in 1..MaxSent
  BY <1>1, BoundsAssumption
<1>5. txFifo' = Append(txFifo, sent')
  <2>1. ~IsFull(txFifo)
    <3>1. Len(txFifo) \in Nat
      BY <1>2
    <3> QED
      BY <1>3, <3>1, SizeFacts DEF IsFull
  <2> QED
    BY <1>1, <2>1 DEF WriteChar, UartWrites, UartWriteTx, FifoIn
<1>6. /\ txFifo' \in Seq(1..MaxSent) /\ Len(txFifo') = Len(txFifo) + 1
      /\ DOMAIN txFifo' = 1..(Len(txFifo) + 1)
      /\ \A i \in 1..Len(txFifo) : txFifo'[i] = txFifo[i]
      /\ txFifo'[Len(txFifo) + 1] = sent'
  BY <1>2, <1>4, <1>5
<1>7. Len(out) + Len(txFifo) = sent
  BY DEF OutputOrder
<1>8. \A i \in DOMAIN txFifo' : txFifo'[i] = Len(out) + i
  <2> SUFFICES ASSUME NEW i \in DOMAIN txFifo' PROVE txFifo'[i] = Len(out) + i
    OBVIOUS
  <2>1. CASE i \in DOMAIN txFifo
    BY <1>2, <1>6, <2>1 DEF OutputOrder
  <2>2. CASE i = Len(txFifo) + 1
    BY <1>1, <1>2, <1>6, <1>7, <2>2
  <2> QED
    BY <1>2, <1>6, <2>1, <2>2
<1>9. Len(txFifo') <= UartFifoSize /\ Len(out') + Len(txFifo') = sent'
  BY <1>1, <1>2, <1>3, <1>6, <1>7, SizeFacts
<1>10. sent' \in 0..MaxSent
  BY <1>4, BoundsAssumption
<1> QED
  BY <1>1, <1>2, <1>6, <1>8, <1>9, <1>10 DEF OutputOrder

(* simple_uart_update prints the buffer in order, or leaves room in it.    *)
LEMMA FlushStep ==
    ASSUME OutputOrder, UartUpdate, UNCHANGED sent, phase' = "bus"
    PROVE  OutputOrder'
<1>1. /\ txFifo \in Seq(1..MaxSent) /\ out \in Seq(1..MaxSent)
      /\ Len(txFifo) \in Nat /\ DOMAIN txFifo = 1..Len(txFifo)
      /\ Len(out) \in Nat /\ DOMAIN out = 1..Len(out)
  <2>1. txFifo \in Seq(1..MaxSent) /\ out \in Seq(1..MaxSent)
    BY DEF OutputOrder
  <2> QED
    BY <2>1, SeqFacts
<1>2. Len(out) + Len(txFifo) = sent /\ sent \in 0..MaxSent /\ Len(txFifo) <= UartFifoSize
  BY DEF OutputOrder
<1>3. CASE MustFlush
  <2>1. txFifo' = <<>> /\ out' = out \o txFifo
    BY <1>3 DEF UartUpdate
  <2>2. /\ out' \in Seq(1..MaxSent) /\ Len(out') = Len(out) + Len(txFifo)
        /\ DOMAIN out' = 1..(Len(out) + Len(txFifo))
    BY <1>1, <2>1
  <2>3. \A i \in 1..(Len(out) + Len(txFifo)) :
          out'[i] = IF i <= Len(out) THEN out[i] ELSE txFifo[i - Len(out)]
    BY <1>1, <2>1
  <2>4. \A i \in DOMAIN out' : out'[i] = i
    <3> SUFFICES ASSUME NEW i \in DOMAIN out' PROVE out'[i] = i
      OBVIOUS
    <3>1. CASE i <= Len(out)
      BY <1>1, <2>2, <2>3, <3>1 DEF OutputOrder
    <3>2. CASE i > Len(out)
      <4>1. i - Len(out) \in DOMAIN txFifo /\ out'[i] = txFifo[i - Len(out)]
        BY <1>1, <2>2, <2>3, <3>2
      <4>2. txFifo[i - Len(out)] = Len(out) + (i - Len(out))
        BY <4>1 DEF OutputOrder
      <4> QED
        BY <1>1, <2>2, <4>1, <4>2
    <3> QED
      BY <1>1, <2>2, <3>1, <3>2
  <2>5. /\ txFifo' \in Seq(1..MaxSent) /\ Len(txFifo') = 0 /\ DOMAIN txFifo' = {}
    BY <2>1
  <2>6. Len(txFifo') < UartFifoSize /\ Len(txFifo') <= UartFifoSize
    BY <2>5, SizeFacts
  <2>7. Len(out') + Len(txFifo') = sent
    BY <1>1, <1>2, <2>2, <2>5
  <2> QED
    BY <1>2, <2>2, <2>4, <2>5, <2>6, <2>7 DEF OutputOrder
<1>4. CASE ~MustFlush
  <2>1. txFifo' = txFifo /\ out' = out /\ Len(txFifo) # UartFifoSize
    BY <1>4 DEF UartUpdate, MustFlush, IsFull
  <2>2. Len(txFifo) < UartFifoSize
    <3>1. Len(txFifo) \in Nat
      BY <1>1
    <3> QED
      BY <1>2, <2>1, <3>1, SizeFacts
  <2> QED
    BY <2>1, <2>2 DEF OutputOrder
<1> QED
  BY <1>3, <1>4

(* Every step keeps the output in order.                                   *)
LEMMA OutputStep ==
    ASSUME OutputOrder, [Next]_vars
    PROVE  OutputOrder'
<1>1. CASE WriteChar
  BY <1>1, WriteCharStep
<1>2. CASE Devices
  BY <1>2, FlushStep DEF Devices, P!Update
<1>3. CASE ~WriteChar /\ ~Devices
  BY <1>3, OutputFrame DEF OutputOrder
<1> QED
  BY <1>1, <1>2, <1>3

-----------------------------------------------------------------------------
(* The timer                                                               *)

(* mtimecmp is the deadline in force; while the handler writes a new one   *)
(* its low word is at its maximum and its high word that of one of the     *)
(* two.  msip is 0 or 1.                                                   *)
TimerWritten ==
    /\ regs \in [0..5 -> ClintWord]
    /\ regs[Index(Msip, Low)] \in {0, 1}
    /\ IF mode \in {"hi", "lo"}
       THEN \E d, e \in Deadlines :
              /\ deadlines = {<<0, d>>, <<1, e>>}
              /\ regs[Index(Mtimecmp, Low)] = MaxWord
              /\ regs[Index(Mtimecmp, High)] = (IF mode = "hi" THEN d ELSE e) \div WordBase
       ELSE \E d \in Deadlines : deadlines = {<<0, d>>} /\ RegValue(regs, Mtimecmp) = d

(* The places of the registers' words in the array.                        *)
LEMMA IndexFacts ==
    /\ Index(Msip, Low) = 0 /\ Index(Mtimecmp, Low) = 2 /\ Index(Mtimecmp, High) = 3
    /\ Index(Mtime, Low) = 4 /\ Index(Mtime, High) = 5
BY DEF Index, Msip, Mtimecmp, Mtime, Low, High, RegWords

(* Two words make a value, from which they can be got back.                *)
LEMMA WordsToValue ==
    ASSUME NEW lo \in ClintWord, NEW hi \in ClintWord
    PROVE  /\ lo + WordBase * hi \in Deadlines
           /\ (lo + WordBase * hi) \div WordBase = hi
           /\ (lo + WordBase * hi) % WordBase = lo
<1> DEFINE W == WordBase
           d == lo + WordBase * hi
<1>1. W \in Nat \ {0} /\ lo \in 0..(W - 1) /\ hi \in 0..(W - 1) /\ hi \in Int
  BY WordBaseAssumption DEF ClintWord
<1>2. d = hi * W + lo
  BY <1>1, SMTT(30)
<1>3. d \div W = hi /\ d % W = lo
  <2> HIDE DEF W, d
  <2> QED
    BY <1>1, <1>2, SMTT(30)
<1>4. d \in 0..(W * W - 1)
  <2>1. hi * W <= (W - 1) * W /\ hi * W \in Nat
    BY <1>1, SMTT(30)
  <2>2. (W - 1) * W = W * W - W /\ W * W \in Nat
    BY <1>1, SMTT(30)
  <2> HIDE DEF W, d
  <2> QED
    BY <1>1, <1>2, <2>1, <2>2, SMTT(30)
<1> QED
  BY <1>3, <1>4 DEF Deadlines

(* A deadline is the value of its two words, and not later than its high   *)
(* word with the greatest low word.                                        *)
LEMMA ValueToWords ==
    ASSUME NEW d \in Deadlines
    PROVE  /\ d \div WordBase \in ClintWord /\ d % WordBase \in ClintWord
           /\ (d % WordBase) + WordBase * (d \div WordBase) = d
           /\ d <= MaxWord + WordBase * (d \div WordBase)
<1> DEFINE W == WordBase
           q == d \div WordBase
           r == d % WordBase
<1>1. W \in Nat \ {0} /\ d \in Nat /\ d < W * W
  <2>1. W \in Nat \ {0} /\ W * W \in Nat
    BY WordBaseAssumption, SMTT(30)
  <2> QED
    BY <2>1 DEF Deadlines
<1>2. q \in Int /\ r \in 0..(W - 1) /\ d = q * W + r
  BY <1>1, SMTT(30)
<1> HIDE DEF W, q, r
<1>3. q >= 0
  <2>1. q < 0 => q * W <= -W
    BY <1>1, <1>2, SMTT(30)
  <2> QED
    BY <1>1, <1>2, <2>1, SMTT(30)
<1>4. q < W
  <2>1. q >= W => q * W >= W * W
    BY <1>1, <1>2, SMTT(30)
  <2> QED
    BY <1>1, <1>2, <2>1, SMTT(30)
<1>5. q \in 0..(W - 1) /\ r + W * q = d /\ d <= (W - 1) + W * q
  BY <1>1, <1>2, <1>3, <1>4, SMTT(30)
<1> QED
  BY <1>2, <1>5 DEF W, q, r, ClintWord, MaxWord

(* NewDeadline is the deadline being written, if there is one.             *)
LEMMA NewDeadlineFacts ==
    ASSUME NEW d, NEW e
    PROVE  /\ deadlines = {<<0, d>>} => NewDeadline = <<0, d>>
           /\ deadlines = {<<0, d>>, <<1, e>>} => NewDeadline = <<1, e>>
<1>1. ASSUME deadlines = {<<0, d>>} PROVE NewDeadline = <<0, d>>
  BY <1>1 DEF NewDeadline
<1>2. ASSUME deadlines = {<<0, d>>, <<1, e>>} PROVE NewDeadline = <<1, e>>
  <2>1. <<1, e>> \in deadlines /\ \A o \in deadlines : o[1] <= <<1, e>>[1]
    BY <1>2
  <2>2. NewDeadline \in deadlines /\ \A o \in deadlines : o[1] <= NewDeadline[1]
    BY <2>1 DEF NewDeadline
  <2>3. NewDeadline # <<0, d>>
    BY <1>2, <2>1, <2>2
  <2> QED
    BY <1>2, <2>2, <2>3
<1> QED
  BY <1>1, <1>2

(* A step that keeps mtimecmp and the deadlines keeps the invariant.       *)
LEMMA CompareFrame ==
    ASSUME TimerWritten, regs' \in [0..5 -> ClintWord], UNCHANGED deadlines,
           regs'[2] = regs[2], regs'[3] = regs[3], regs'[0] \in {0, 1},
           mode' = mode \/ (mode \notin {"hi", "lo"} /\ mode' \notin {"hi", "lo"})
    PROVE  TimerWritten'
<1>1. RegValue(regs', Mtimecmp) = RegValue(regs, Mtimecmp)
  BY IndexFacts DEF RegValue
<1>2. /\ regs'[Index(Mtimecmp, Low)] = regs[Index(Mtimecmp, Low)]
      /\ regs'[Index(Mtimecmp, High)] = regs[Index(Mtimecmp, High)]
      /\ regs'[Index(Msip, Low)] \in {0, 1}
  BY IndexFacts
<1>3. CASE mode' \in {"hi", "lo"}
  BY <1>2, <1>3 DEF TimerWritten
<1>4. CASE mode' \notin {"hi", "lo"}
  BY <1>1, <1>2, <1>4 DEF TimerWritten
<1> QED
  BY <1>3, <1>4

(* The handler's three writes keep the invariant: the new deadline is in   *)
(* force when the third is done.                                           *)
LEMMA ServeTimerStep ==
    ASSUME TimerWritten, ServeTimer
    PROVE  TimerWritten'
<1> USE DEF Goes, ClintAccess, ClintWrite
<1>1. /\ regs \in [0..5 -> ClintWord] /\ regs[0] \in {0, 1}
      /\ regs[2] \in ClintWord /\ regs[3] \in ClintWord
      /\ MaxWord \in ClintWord
  BY IndexFacts, WordBaseAssumption DEF TimerWritten, MaxWord, ClintWord
<1>2. CASE /\ Goes("mti", "hi")
           /\ \E d \in Deadlines : deadlines' = deadlines \cup {<<1, d>>}
           /\ ClintAccess(Mtimecmp, Low, MaxWord)
  <2>1. PICK d \in Deadlines : deadlines = {<<0, d>>} /\ RegValue(regs, Mtimecmp) = d
    BY <1>2 DEF TimerWritten
  <2>2. PICK e \in Deadlines : deadlines' = deadlines \cup {<<1, e>>}
    BY <1>2
  <2>3. deadlines' = {<<0, d>>, <<1, e>>}
    BY <2>1, <2>2
  <2>4. regs' = [regs EXCEPT ![2] = MaxWord] /\ mode' = "hi"
    BY <1>2, IndexFacts
  <2>5. /\ regs' \in [0..5 -> ClintWord] /\ regs'[0] = regs[0]
        /\ regs'[2] = MaxWord /\ regs'[3] = regs[3]
    BY <1>1, <2>4
  <2>6. regs[3] = d \div WordBase
    <3>1. d = regs[2] + WordBase * regs[3]
      BY <2>1, IndexFacts DEF RegValue
    <3> QED
      BY <1>1, <3>1, WordsToValue
  <2>7. /\ regs'[Index(Msip, Low)] \in {0, 1} /\ regs'[Index(Mtimecmp, Low)] = MaxWord
        /\ regs'[Index(Mtimecmp, High)] = d \div WordBase
    BY <1>1, <2>5, <2>6, IndexFacts
  <2> QED
    BY <2>3, <2>4, <2>5, <2>7 DEF TimerWritten
<1>3. CASE /\ Goes("hi", "lo")
           /\ ClintAccess(Mtimecmp, High, NewDeadline[2] \div WordBase)
           /\ UNCHANGED deadlines
  <2>1. PICK d, e \in Deadlines : /\ deadlines = {<<0, d>>, <<1, e>>}
                                 /\ regs[Index(Mtimecmp, Low)] = MaxWord
    BY <1>3 DEF TimerWritten
  <2>2. NewDeadline[2] = e
    <3>1. NewDeadline = <<1, e>>
      BY <2>1, NewDeadlineFacts
    <3> QED
      BY <3>1
  <2>3. e \div WordBase \in ClintWord
    BY ValueToWords
  <2>4. regs' = [regs EXCEPT ![3] = e \div WordBase] /\ mode' = "lo"
    BY <1>3, <2>2, IndexFacts
  <2>5. /\ regs' \in [0..5 -> ClintWord] /\ regs'[0] = regs[0]
        /\ regs'[2] = regs[2] /\ regs'[3] = e \div WordBase
    BY <1>1, <2>3, <2>4
  <2>6. /\ regs'[Index(Msip, Low)] \in {0, 1} /\ regs'[Index(Mtimecmp, Low)] = MaxWord
        /\ regs'[Index(Mtimecmp, High)] = e \div WordBase
    BY <1>1, <2>1, <2>5, IndexFacts
  <2> QED
    BY <1>3, <2>1, <2>4, <2>5, <2>6 DEF TimerWritten
<1>4. CASE /\ Goes("lo", "mret")
           /\ ClintAccess(Mtimecmp, Low, NewDeadline[2] % WordBase)
           /\ deadlines' = {<<0, NewDeadline[2]>>}
  <2>1. PICK d, e \in Deadlines :
          /\ deadlines = {<<0, d>>, <<1, e>>}
          /\ regs[Index(Mtimecmp, High)] = e \div WordBase
    BY <1>4 DEF TimerWritten
  <2>2. NewDeadline[2] = e
    <3>1. NewDeadline = <<1, e>>
      BY <2>1, NewDeadlineFacts
    <3> QED
      BY <3>1
  <2>3. e % WordBase \in ClintWord /\ (e % WordBase) + WordBase * (e \div WordBase) = e
    BY ValueToWords
  <2>4. /\ regs' = [regs EXCEPT ![2] = e % WordBase] /\ mode' = "mret"
        /\ deadlines' = {<<0, e>>}
    BY <1>4, <2>2, IndexFacts
  <2>5. /\ regs' \in [0..5 -> ClintWord] /\ regs'[0] = regs[0]
        /\ regs'[2] = e % WordBase /\ regs'[3] = regs[3]
    BY <1>1, <2>3, <2>4
  <2>6. RegValue(regs', Mtimecmp) = e
    BY <2>1, <2>3, <2>5, IndexFacts DEF RegValue
  <2>7. regs'[Index(Msip, Low)] \in {0, 1}
    BY <1>1, <2>5, IndexFacts
  <2> QED
    BY <2>4, <2>5, <2>6, <2>7 DEF TimerWritten
<1> QED
  BY <1>2, <1>3, <1>4 DEF ServeTimer

(* clint_update moves mtime only, and its words stay words.                *)
LEMMA TickFacts ==
    ASSUME regs \in [0..5 -> ClintWord]
    PROVE  /\ Ticked \in [0..5 -> ClintWord]
           /\ Ticked[0] = regs[0] /\ Ticked[2] = regs[2] /\ Ticked[3] = regs[3]
<1> DEFINE t == RegValue(regs, Mtime) + 1
           lo == t % WordBase
           hi == (t \div WordBase) % WordBase
<1>1. WordBase \in Nat \ {0} /\ regs[4] \in 0..(WordBase - 1) /\ regs[5] \in 0..(WordBase - 1)
  BY WordBaseAssumption DEF ClintWord
<1>2. t \in Int
  BY <1>1, IndexFacts, SMTT(30) DEF RegValue
<1> HIDE DEF t
<1>3. t % WordBase \in 0..(WordBase - 1) /\ t \div WordBase \in Int
  BY <1>1, <1>2, SMTT(30)
<1>4. \A n \in Int : n % WordBase \in 0..(WordBase - 1)
  BY <1>1, SMTT(30)
<1>5. lo \in ClintWord /\ hi \in ClintWord
  BY <1>3, <1>4 DEF ClintWord
<1>6. Ticked = [regs EXCEPT ![4] = lo, ![5] = hi]
  BY IndexFacts DEF Ticked, t
<1> HIDE DEF lo, hi
<1> QED
  BY <1>5, <1>6

(* Every step keeps mtimecmp and the deadlines together.                   *)
LEMMA TimerStep ==
    ASSUME TimerWritten, [Next]_vars
    PROVE  TimerWritten'
<1>1. /\ regs \in [0..5 -> ClintWord] /\ regs[0] \in {0, 1} /\ {0, 1} \subseteq ClintWord
  BY IndexFacts, WordBaseAssumption DEF TimerWritten, ClintWord
<1>2. CASE ServeTimer
  BY <1>2, ServeTimerStep
<1>3. CASE BootStep \/ ServeUart \/ Mret
  <2>1. UNCHANGED <<regs, deadlines>>
    BY <1>3 DEF BootStep, ServeUart, Mret, PlicAccess, UartWrites, NoDevice, WriteChar,
                WriteStatus, ReadChar
  <2>2. mode \notin {"hi", "lo"} /\ mode' \notin {"hi", "lo"}
    BY <1>3 DEF BootStep, ServeUart, Mret, Goes
  <2> QED
    BY <1>1, <2>1, <2>2, CompareFrame
<1>4. CASE Main \/ ServeSoftware
  <2>1. UNCHANGED deadlines
    BY <1>4 DEF Main, ServeSoftware, UartWrites, NoDevice, WriteChar, WriteStatus, ReadChar
  <2>2. regs' = regs \/ regs' = [regs EXCEPT ![0] = 1] \/ regs' = [regs EXCEPT ![0] = 0]
    BY <1>4, IndexFacts DEF Main, ServeSoftware, UartWrites, NoDevice, WriteChar,
                            WriteStatus, ReadChar, ClintAccess, ClintWrite
  <2>3. /\ regs' \in [0..5 -> ClintWord] /\ regs'[0] \in {0, 1}
        /\ regs'[2] = regs[2] /\ regs'[3] = regs[3]
    BY <1>1, <2>2
  <2>4. mode \notin {"hi", "lo"} /\ mode' \notin {"hi", "lo"}
    BY <1>4 DEF Main, ServeSoftware, Goes
  <2> QED
    BY <2>1, <2>3, <2>4, CompareFrame
<1>5. CASE Devices
  <2>1. regs' = Ticked /\ UNCHANGED deadlines
    BY <1>5 DEF Devices, ClintUpdate
  <2>2. mode' = mode \/ (mode \notin {"hi", "lo"} /\ mode' \notin {"hi", "lo"})
    BY <1>5 DEF Devices, TakeInterrupt
  <2>3. /\ regs' \in [0..5 -> ClintWord] /\ regs'[0] \in {0, 1}
        /\ regs'[2] = regs[2] /\ regs'[3] = regs[3]
    BY <1>1, <2>1, TickFacts
  <2> QED
    BY <2>1, <2>2, <2>3, CompareFrame
<1>6. CASE RxThread \/ UNCHANGED vars
  BY <1>6 DEF RxThread, vars, TimerWritten
<1> QED
  BY <1>2, <1>3, <1>4, <1>5, <1>6 DEF Next, Cycle, Instruction

(* In a state that satisfies the invariant the line is exact.              *)
LEMMA LineIsExact == TimerWritten => TimerExact
<1> SUFFICES ASSUME TimerWritten PROVE TimerExact
  OBVIOUS
<1>1. CASE mode \in {"hi", "lo"}
  <2>1. PICK d, e \in Deadlines :
          /\ deadlines = {<<0, d>>, <<1, e>>}
          /\ regs[Index(Mtimecmp, Low)] = MaxWord
          /\ regs[Index(Mtimecmp, High)] = (IF mode = "hi" THEN d ELSE e) \div WordBase
    BY <1>1 DEF TimerWritten
  <2>2. PICK f \in deadlines : /\ f[2] \in Deadlines
                             /\ regs[Index(Mtimecmp, High)] = f[2] \div WordBase
    <3>1. CASE mode = "hi"
      BY <2>1, <3>1
    <3>2. CASE mode # "hi"
      BY <2>1, <3>2
    <3> QED
      BY <3>1, <3>2
  <2>3. f[2] <= RegValue(regs, Mtimecmp)
    BY <2>1, <2>2, ValueToWords DEF RegValue
  <2>4. /\ f[2] \in Int /\ RegValue(regs, Mtimecmp) \in Int
        /\ RegValue(regs, Mtime) \in Int
    <3>1. \A i \in 0..5 : regs[i] \in 0..(WordBase - 1)
      BY DEF TimerWritten, ClintWord
    <3>2. RegValue(regs, Mtimecmp) \in Int /\ RegValue(regs, Mtime) \in Int
      BY <3>1, IndexFacts, WordBaseAssumption, SMTT(30) DEF RegValue
    <3> QED
      BY <2>2, <3>2 DEF Deadlines
  <2>5. Mti(regs) => RegValue(regs, Mtime) >= f[2]
    BY <2>3, <2>4 DEF Mti
  <2> QED
    BY <1>1, <2>2, <2>5 DEF TimerExact
<1>2. CASE mode \notin {"hi", "lo"}
  <2>1. PICK d \in Deadlines : deadlines = {<<0, d>>} /\ RegValue(regs, Mtimecmp) = d
    BY <1>2 DEF TimerWritten
  <2>2. NewDeadline[2] = d
    BY <2>1, NewDeadlineFacts
  <2> QED
    BY <1>2, <2>1, <2>2 DEF TimerExact, Mti
<1> QED
  BY <1>1, <1>2

-----------------------------------------------------------------------------
(* The external handler                                                    *)

(* The handler's first instruction, the read of the claim register, comes  *)
(* right after the update that raised the line.                            *)
HandlerState ==
    /\ mode \in Modes
    /\ mode = "mei" => phase = "bus" /\ irq
    /\ ClaimHeld

Holding == {"serve", "rx", "tx", "complete"}

(* What the invariant of the PLIC says with the line up: the UART's id is  *)
(* in the claim register, and its pending bit is set.                      *)
LEMMA OfferedIsUart ==
    ASSUME PP!Inv, phase = "bus", irq
    PROVE  claim = UartId /\ UartId \in pending
<1>1. PP!OfferedIsHighest /\ PP!TypeOK
  BY DEF PP!Inv
<1>2. claim # 0 /\ claim \in PP!Servable
  BY <1>1 DEF PP!OfferedIsHighest
<1>3. claim \in pending /\ pending \subseteq {UartId}
  BY <1>1, <1>2 DEF PP!Servable, PP!TypeOK
<1> QED
  BY <1>3

(* The claim of the handler gets the id, its completion gives it back.     *)
LEMMA InstructionHolds ==
    ASSUME HandlerState, PP!Inv, Instruction
    PROVE  HandlerState'
<1> USE DEF HandlerState, ClaimHeld, Goes
<1>1. ASSUME P!NoAccess PROVE claimed' = claimed
  BY <1>1 DEF P!NoAccess
<1>2. CASE BootStep
  <2>1. claimed' = claimed
    BY <1>2 DEF BootStep, PlicAccess, WriteStatus, UartWrites, P!NoAccess,
                P!WritePriority, P!WriteEnable
  <2> QED
    BY <1>2, <2>1 DEF BootStep, Modes, Boot, MeiHandler, MtiHandler
<1>3. CASE Main \/ ServeTimer \/ ServeSoftware \/ Mret
  <2>1. claimed' = claimed
    BY <1>1, <1>3 DEF Main, ServeTimer, ServeSoftware, Mret, NoDevice, WriteChar,
                      WriteStatus, UartWrites, ReadChar, ClintAccess
  <2> QED
    BY <1>3, <2>1 DEF Main, ServeTimer, ServeSoftware, Mret, Modes, Boot, MeiHandler,
                      MtiHandler
<1>4. CASE ServeUart
  <2>1. CASE Goes("mei", "serve") /\ PlicAccess(P!Claim)
    <3>1. claim = UartId /\ UartId \in pending
      BY <2>1, OfferedIsUart
    <3>2. claimed' = claimed \cup {UartId} /\ claimed = {}
      BY <2>1, <3>1 DEF PlicAccess, P!Claim, P!MarkClaimed
    <3> QED
      BY <2>1, <3>2 DEF Modes, MeiHandler
  <2>2. CASE Goes("complete", "mret") /\ PlicAccess(P!Complete(UartId))
    <3>1. claimed' = claimed \ {UartId} /\ claimed = {UartId}
      BY <2>2 DEF PlicAccess, P!Complete, P!Unclaim
    <3> QED
      BY <2>2, <3>1 DEF Modes
  <2>3. CASE /\ mode \in Holding /\ mode' \in Holding
             /\ NoDevice \/ ReadChar \/ WriteChar \/ WriteStatus(FALSE)
    <3>1. claimed' = claimed
      BY <1>1, <2>3 DEF NoDevice, WriteChar, WriteStatus, UartWrites, ReadChar
    <3> QED
      BY <2>3, <3>1 DEF Holding, Modes, MeiHandler
  <2> QED
    BY <1>4, <2>1, <2>2, <2>3 DEF ServeUart, Holding
<1> QED
  BY <1>2, <1>3, <1>4 DEF Instruction

(* Every step keeps the claim with the handler.                            *)
LEMMA HandlerStep ==
    ASSUME HandlerState, PP!Inv, [Next]_vars
    PROVE  HandlerState'
<1>1. CASE Instruction
  BY <1>1, InstructionHolds
<1>2. CASE Devices
  <2>1. phase = "update" /\ phase' = "bus" /\ claimed' = claimed
    BY <1>2 DEF Devices, P!Update
  <2>2. CASE mode = "main"
    <3>1. mode' \in {"mei", "mti", "msi", "main"} /\ (mode' = "mei" => irq')
      BY <1>2, <2>2 DEF Devices, TakeInterrupt
    <3> QED
      BY <2>1, <2>2, <3>1 DEF HandlerState, ClaimHeld, Modes, MeiHandler, MtiHandler
  <2>3. CASE mode # "main"
    <3>1. mode' = mode /\ mode # "mei"
      BY <1>2, <2>1, <2>3 DEF Devices, HandlerState
    <3> QED
      BY <2>1, <3>1 DEF HandlerState, ClaimHeld
  <2> QED
    BY <2>2, <2>3
<1>3. CASE RxThread \/ UNCHANGED vars
  <2>1. UNCHANGED <<mode, phase, irq, claimed>>
    BY <1>3 DEF RxThread, vars, plicVars
  <2> QED
    BY <2>1 DEF HandlerState, ClaimHeld
<1> QED
  BY <1>1, <1>2, <1>3 DEF Next, Cycle

-----------------------------------------------------------------------------
(* The invariant of the SoC                                                *)

(* The UART's three flags.                                                 *)
FlagsTyped == rxIrqEnabled \in BOOLEAN /\ txIrqEnabled \in BOOLEAN /\ needsFlush \in BOOLEAN

(* The inductive invariant, relative to that of the PLIC.                  *)
IInv == InputOrder /\ OutputOrder /\ TimerWritten /\ HandlerState /\ FlagsTyped

(* Every access and every update leaves the flags Boolean.                 *)
LEMMA FlagsStep ==
    ASSUME FlagsTyped, [Next]_vars
    PROVE  FlagsTyped'
<1> USE DEF FlagsTyped, PlicAccess, UartWrites, ClintAccess, NoDevice, WriteChar,
            WriteStatus, ReadChar, UartReadRx, UartWriteTx, UartWriteStatus, uartVars
<1>1. CASE BootStep
  BY <1>1, Zenon DEF BootStep
<1>2. CASE Main
  BY <1>2, Zenon DEF Main
<1>3. CASE ServeUart
  BY <1>3, Zenon DEF ServeUart
<1>4. CASE ServeTimer \/ ServeSoftware \/ Mret
  BY <1>4, Zenon DEF ServeTimer, ServeSoftware, Mret
<1>5. CASE Devices
  BY <1>5, Zenon DEF Devices, UartUpdate
<1>6. CASE RxThread
  BY <1>6, Zenon DEF RxThread, UartAddRxChar
<1>7. CASE UNCHANGED vars
  BY <1>7 DEF vars
<1> QED
  BY <1>1, <1>2, <1>3, <1>4, <1>5, <1>6, <1>7 DEF Next, Cycle, Instruction

(* The zeroed devices and the booting guest satisfy the invariant.         *)
LEMMA InitStep == Init => IInv
<1> SUFFICES ASSUME Init PROVE IInv
  OBVIOUS
<1>1. InputOrder
  BY BoundsAssumption, SizeFacts DEF Init, UartInit, InputOrder
<1>2. OutputOrder
  BY BoundsAssumption, SizeFacts DEF Init, UartInit, OutputOrder
<1>3. TimerWritten
  <2>1. 0 \in ClintWord
    BY WordBaseAssumption DEF ClintWord
  <2>2. regs \in [0..5 -> ClintWord] /\ \A i \in 0..5 : regs[i] = 0
    BY <2>1 DEF Init, ClintInit
  <2>3. RegValue(regs, Mtimecmp) = 0 /\ regs[Index(Msip, Low)] = 0
    <3>1. regs[2] = 0 /\ regs[3] = 0 /\ regs[0] = 0
      BY <2>2
    <3> QED
      BY <3>1, IndexFacts, WordBaseAssumption DEF RegValue
  <2>4. 0 \in Deadlines
    <3>1. 0 + WordBase * 0 \in Deadlines
      BY <2>1, WordsToValue
    <3> QED
      BY <3>1, WordBaseAssumption
  <2> QED
    BY <2>2, <2>3, <2>4 DEF Init, TimerWritten
<1>4. HandlerState
  BY DEF Init, P!Init, HandlerState, ClaimHeld, Modes, Boot
<1>5. FlagsTyped
  BY DEF Init, UartInit, FlagsTyped
<1> QED
  BY <1>1, <1>2, <1>3, <1>4, <1>5 DEF IInv

(* Every reachable state satisfies the invariant.                          *)
LEMMA Invariant == Spec => []IInv
<1>1. ASSUME IInv, PP!Inv, [Next]_vars PROVE IInv'
  BY <1>1, InputStep, OutputStep, TimerStep, HandlerStep, FlagsStep DEF IInv
<1> QED
  BY <1>1, InitStep, PlicInvariant, PTL DEF Spec

-----------------------------------------------------------------------------
(* The theorems                                                            *)

(* Type correctness: buffers within their size, registers of the width of  *)
(* a word also after mtime has wrapped around.                             *)
THEOREM TypeCorrect == Spec => []TypeOK
<1>1. ASSUME IInv, PP!Inv PROVE TypeOK
  <2>1. P!TypeOK
    BY <1>1 DEF PP!Inv, PP!TypeOK, P!TypeOK, P!AllIds, PP!AllIds, P!WordBits, PP!WordBits,
                P!NrRegs, PP!NrRegs, P!MaxPrio, PP!MaxPrio
  <2>2. got \in 0..MaxTyped /\ dropped \subseteq 1..MaxTyped
    <3>1. typed \in 0..MaxTyped /\ got \in 0..typed /\ dropped \subseteq 1..typed
      BY <1>1 DEF IInv, InputOrder
    <3> QED
      BY <3>1, BoundsAssumption
  <2>3. deadlines \subseteq {0, 1} \X Deadlines
    <3>1. CASE mode \in {"hi", "lo"}
      BY <1>1, <3>1 DEF IInv, TimerWritten
    <3>2. CASE mode \notin {"hi", "lo"}
      BY <1>1, <3>2 DEF IInv, TimerWritten
    <3> QED
      BY <3>1, <3>2
  <2>4. FlagsTyped
    BY <1>1 DEF IInv
  <2>5. /\ rxFifo \in Seq(1..MaxTyped) /\ Len(rxFifo) <= UartFifoSize
        /\ txFifo \in Seq(1..MaxSent) /\ Len(txFifo) <= UartFifoSize
        /\ out \in Seq(1..MaxSent) /\ regs \in [0..5 -> ClintWord] /\ mode \in Modes
        /\ typed \in 0..MaxTyped /\ sent \in 0..MaxSent
    BY <1>1 DEF IInv, InputOrder, OutputOrder, TimerWritten, HandlerState
  <2> QED
    BY <2>1, <2>2, <2>3, <2>4, <2>5, Zenon DEF TypeOK, FlagsTyped
<1> QED
  BY <1>1, Invariant, PlicInvariant, PTL

(* For every size of the buffer: what is printed, followed by what waits,  *)
(* is what the guest wrote, in order and once; no byte is refused.         *)
THEOREM OutputInOrder == Spec => []OutputOrder
<1>1. IInv => OutputOrder
  BY DEF IInv
<1> QED
  BY <1>1, Invariant, PTL

(* With the buffer of one byte that simple_uart.h defines, everything is   *)
(* printed before the next instruction.                                    *)
THEOREM OutputIsComplete ==
    ASSUME UartFifoSize = 1
    PROVE  Spec => []OutputComplete
<1>1. OutputOrder => OutputComplete
  <2> SUFFICES ASSUME OutputOrder, phase = "bus" PROVE out = [i \in 1..sent |-> i]
    BY DEF OutputComplete
  <2>1. /\ out \in Seq(1..MaxSent) /\ txFifo \in Seq(1..MaxSent)
        /\ Len(txFifo) < 1 /\ Len(out) + Len(txFifo) = sent
        /\ \A i \in DOMAIN out : out[i] = i
    BY DEF OutputOrder
  <2>2. Len(txFifo) \in Nat /\ Len(out) \in Nat /\ DOMAIN out = 1..Len(out)
    BY <2>1, SeqFacts
  <2>3. Len(out) = sent
    <3>1. Len(txFifo) = 0
      BY <2>1, <2>2
    <3> QED
      BY <2>1, <2>2, <3>1
  <2>4. out = [i \in 1..Len(out) |-> out[i]]
    BY <2>1
  <2> QED
    BY <2>1, <2>2, <2>3, <2>4
<1> QED
  BY <1>1, OutputInOrder, PTL

(* For every size of the buffer: a character that found room waits there   *)
(* until it is read; none is lost, none comes twice.                       *)
THEOREM InputIsAccounted == Spec => []InputAccounted
<1>1. IInv => InputAccounted
  <2> SUFFICES ASSUME InputOrder, NEW c \in (1..typed) \ dropped
               PROVE  c > got <=> \E i \in DOMAIN rxFifo : rxFifo[i] = c
    BY DEF IInv, InputAccounted
  <2> QED
    BY DEF InputOrder
<1> QED
  BY <1>1, Invariant, PTL

(* The guest reads the characters in the order they were typed.            *)
THEOREM InputReadInOrder == Spec => ReadInOrder
<1>1. ASSUME IInv, [Next]_vars
      PROVE  [ReadChar /\ ~UartRxEmpty => got' > got /\ got' \notin dropped]_vars
  BY <1>1, ReadCharStep DEF IInv
<1> QED
  BY <1>1, Invariant, PTL DEF Spec, ReadInOrder

(* The timer line follows the deadline although mtimecmp is written in     *)
(* pieces and mtime runs on between the writes, for every word width.      *)
THEOREM TimerIsExact == Spec => []TimerExact
<1>1. IInv => TimerExact
  BY LineIsExact DEF IInv
<1> QED
  BY <1>1, Invariant, PTL

(* The external handler gets the UART's id whenever it asks, and keeps it  *)
(* until it completes.                                                     *)
THEOREM ClaimIsHeld == Spec => []ClaimHeld
<1>1. IInv => ClaimHeld
  BY DEF IInv, HandlerState
<1> QED
  BY <1>1, Invariant, PTL

(* A handler finds the reason it was called for.                           *)
THEOREM EntriesJustified == Spec => EntryJustified
<1> DEFINE Justified ==
      /\ mode' = "mei" => /\ rxFifo' # <<>> \/ (txIrqEnabled' /\ txFifo' = <<>>)
                          /\ claim' = UartId
      /\ mode' = "mti" => RegValue(regs', Mtime) >= NewDeadline[2]
      /\ mode' = "msi" => regs'[Index(Msip, Low)] = 1
<1>1. (PP!Inv /\ phase = "bus" /\ irq => claim = UartId /\ UartId \in pending)'
  BY OfferedIsUart, PTL
<1>2. ASSUME IInv, PP!Inv', IInv', Devices, mode' # mode PROVE Justified
  <2>1. mode = "main" /\ mode' = TakeInterrupt(irq', Mti(regs'), Msi(regs'))
    BY <1>2 DEF Devices
  <2>2. ASSUME mode' = "mei"
        PROVE  (rxFifo' # <<>> \/ (txIrqEnabled' /\ txFifo' = <<>>)) /\ claim' = UartId
    <3>1. irq' /\ phase' = "bus"
      BY <1>2, <2>1, <2>2 DEF TakeInterrupt, Devices, P!Update
    <3>2. claim' = UartId /\ UartId \in pending'
      BY <1>1, <1>2, <3>1
    <3>3. UartId \in level'
      BY <1>2, <3>2, Zenon DEF Devices, P!Update, P!FollowLevels
    <3>4. UartIrq(rxFifo, txFifo')
      BY <1>2, <3>3 DEF Devices
    <3>5. rxFifo' = rxFifo /\ (txIrqEnabled' <=> txIrqEnabled)
      BY <1>2 DEF Devices, UartUpdate
    <3>6. IsFull(rxFifo) => rxFifo # <<>>
      BY SizeFacts DEF IsFull
    <3> QED
      BY <3>2, <3>4, <3>5, <3>6 DEF UartIrq
  <2>3. ASSUME mode' = "mti" PROVE RegValue(regs', Mtime) >= NewDeadline[2]
    <3>1. Mti(regs')
      BY <2>1, <2>3 DEF TakeInterrupt
    <3>2. PICK d \in Deadlines : deadlines' = {<<0, d>>} /\ RegValue(regs', Mtimecmp) = d
      BY <1>2, <2>3 DEF IInv, TimerWritten
    <3>3. NewDeadline[2] = d
      <4>1. deadlines = {<<0, d>>}
        BY <1>2, <3>2 DEF Devices
      <4> QED
        BY <4>1, NewDeadlineFacts
    <3> QED
      BY <3>1, <3>2, <3>3 DEF Mti
  <2>4. ASSUME mode' = "msi" PROVE regs'[Index(Msip, Low)] = 1
    <3>1. Msi(regs')
      BY <2>1, <2>4 DEF TakeInterrupt
    <3>2. regs'[Index(Msip, Low)] \in {0, 1}
      BY <1>2 DEF IInv, TimerWritten
    <3> QED
      BY <3>1, <3>2 DEF Msi
  <2> QED
    BY <2>2, <2>3, <2>4
<1>3. ASSUME IInv, IInv', PP!Inv', [Next]_vars
      PROVE  [mode' # mode /\ phase = "update" => Justified]_vars
  <2>1. CASE Instruction
    BY <2>1, InstructionAccess
  <2>2. CASE Devices
    BY <1>2, <1>3, <2>2
  <2>3. CASE RxThread
    BY <2>3 DEF RxThread
  <2> QED
    BY <1>3, <2>1, <2>2, <2>3 DEF Next, Cycle
<1> QED
  BY <1>3, Invariant, PlicInvariant, PTL DEF Spec, EntryJustified

(* The PLIC's promises hold in the SoC: the highest servable id is         *)
(* offered, the claimed bits are what the guest holds, and no id is handed *)
(* out twice.                                                              *)
THEOREM PlicKeepsPromises ==
    Spec => [](P!OfferedIsHighest /\ P!ClaimsTracked) /\ P!ExclusiveClaim
<1>1. PP!Inv => P!OfferedIsHighest /\ P!ClaimsTracked
  BY DEF PP!Inv, PP!OfferedIsHighest, P!OfferedIsHighest, PP!ClaimsTracked,
         P!ClaimsTracked, PP!Servable, P!Servable
<1>2. PP!Inv => [P!Claim /\ claim # 0 => claim \notin inService]_(P!vars)
  BY <1>1 DEF P!OfferedIsHighest, P!ClaimsTracked, P!Servable, P!Claim, P!Access
<1> QED
  BY <1>1, <1>2, PlicInvariant, PTL DEF P!ExclusiveClaim
=============================================================================
