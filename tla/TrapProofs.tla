----------------------------- MODULE TrapProofs -----------------------------
(***************************************************************************)
(* Proofs about Trap, for every address space, guest program, set of       *)
(* memory faults and set of interrupt lines.                               *)
(*                                                                         *)
(* The inductive invariant is Inv: types, what a cycle knows               *)
(* (CycleConsistent), and the frame invariants.  The work is in two        *)
(* lemmas about the status register, ServedFacts and RestoredFacts: what   *)
(* entering and leaving a level does to the bits of that level and to      *)
(* those of the others.                                                    *)
(***************************************************************************)
EXTENDS Trap, TLAPS

Inv == /\ TypeOK /\ CycleConsistent /\ FrameIntact /\ HandlerShielded
       /\ InterruptAllowed /\ NoSpuriousInterrupt /\ ExceptionAtomic

USE DEF U, S, M, Reserved, Levels, NoTrap, Exceptions, Interrupts, Bits, Addr,
        UPIE, SPP, MPP0, MPP1

-----------------------------------------------------------------------------
(* Address arithmetic stays in the address space, and the subtraction that *)
(* trap_serve_interrupt makes undoes the addition of rv_core_run.          *)
LEMMA AddressFacts ==
    ASSUME NEW a \in Addr
    PROVE  /\ Next4(a) \in Addr /\ Prev4(a) \in Addr /\ Aligned(a) \in Addr
           /\ Prev4(Next4(a)) = a
BY AddrSpaceAssumption DEF Next4, Prev4, Aligned

(* Entering level x from level p: xPP and xPIE record p and xIE, xIE goes  *)
(* off, and the bits of the other levels stay.                             *)
LEMMA ServedFacts ==
    ASSUME NEW x \in Levels, NEW p \in {U, S, M}, NEW r \in SUBSET Bits, p <= x
    PROVE  LET n == ServedStatus(x, p, r) IN
           /\ n \in SUBSET Bits
           /\ x \notin n
           /\ UPIE + x \in n <=> x \in r
           /\ PreviousPriv(x, n) = p
           /\ x = M => (MPP0 \in n <=> p # U)
           /\ x # M => (MPP0 \in n <=> MPP0 \in r)
           /\ \A y \in Levels \ {x} :
                /\ y \in n <=> y \in r
                /\ UPIE + y \in n <=> UPIE + y \in r
                /\ PreviousPriv(y, n) = PreviousPriv(y, r)
<1>1. CASE x = M
  BY <1>1 DEF ServedStatus, SetMpp, AssignBit, PreviousPriv, Mpp, Spp
<1>2. CASE x = S
  BY <1>2 DEF ServedStatus, AssignBit, PreviousPriv, Mpp, Spp
<1>3. CASE x = U
  BY <1>3 DEF ServedStatus, AssignBit, PreviousPriv, Mpp, Spp
<1>4. QED BY <1>1, <1>2, <1>3

(* Leaving level x: xIE takes xPIE, and the bits of the other levels stay. *)
LEMMA RestoredFacts ==
    ASSUME NEW x \in Levels, NEW r \in SUBSET Bits
    PROVE  LET n == RestoredStatus(x, r) IN
           /\ n \in SUBSET Bits
           /\ x \in n <=> UPIE + x \in r
           /\ \A b \in Bits \ {x, UPIE + x} : b \in n <=> b \in r
           /\ \A y \in Levels : PreviousPriv(y, n) = PreviousPriv(y, r)
BY DEF RestoredStatus, AssignBit, PreviousPriv, Mpp, Spp

(* The privilege an xRET returns to is legal and not above its level.      *)
LEMMA PreviousPrivFacts ==
    ASSUME NEW x \in 0..3, NEW r
    PROVE  PreviousPriv(x, r) \in 0..3 /\ PreviousPriv(x, r) <= x
BY DEF PreviousPriv, Mpp, Spp

(* Exceptions are served at the current level or above it.                 *)
LEMMA ExceptionLevelFacts ==
    ASSUME NEW p \in Levels, NEW c
    PROVE  ExceptionLevel(p, c) \in Levels /\ p <= ExceptionLevel(p, c)
BY DEF ExceptionLevel

(* An interrupt is served at the current level, with its xIE on, or above. *)
LEMMA InterruptLevelFacts ==
    ASSUME NEW p \in Levels, NEW i \in Interrupts, NEW ip,
           InterruptPending(p, i, ip)
    PROVE  /\ i \in ip /\ i \in reg["ie"]
           /\ DelegationLevel(p, i) \in Levels
           /\ p <= DelegationLevel(p, i)
           /\ p = DelegationLevel(p, i) => p \in reg["status"]
BY DEF InterruptPending, DelegationLevel

(* The pending bits the SoC's lines drive agree with the lines whenever    *)
(* they are enabled.                                                       *)
LEMMA SetPendingFacts ==
    ASSUME TypeOK, NEW on \in SUBSET Lines
    PROVE  LET ip == SetPendingBits(on) IN
           /\ ip \in SUBSET Bits
           /\ \A i \in {MachineExti, SuperExti} :
                 i \in reg["ie"] => (i \in ip <=> "mei" \in on)
           /\ MachineTi \in reg["ie"] => (MachineTi \in ip <=> "mti" \in on)
           /\ MachineSwi \in reg["ie"] => (MachineSwi \in ip <=> "msi" \in on)
<1>1. reg["ip"] \in SUBSET Bits
  BY DEF TypeOK, Regs
<1>2. QED
  BY <1>1 DEF SetPendingBits, FollowLine, AssignBit, MachineExti, SuperExti,
              MachineTi, MachineSwi

(* A CSR write leaves a set of bits, and through sstatus, except by CSRRW  *)
(* with rd = x0, only those of the supervisor's view.                      *)
LEMMA NewCsrValFacts ==
    ASSUME TypeOK, NEW o \in CsrOps
    PROVE  /\ RegOf(o.csr) \in Regs
           /\ NewCsrVal(o) \in SUBSET Bits
           /\ RegOf(o.csr) = "status" => o.csr \in {"mstatus", "sstatus"}
           /\ o.csr = "sstatus" /\ ~(o.op = "rw" /\ o.x0) =>
                \A b \in Bits \ SStatusMask :
                    b \in NewCsrVal(o) <=> b \in reg["status"]
<1>1. RegOf(o.csr) \in Regs /\ (RegOf(o.csr) = "status" => o.csr \in {"mstatus", "sstatus"})
  BY DEF RegOf, Regs, CsrOps, Csrs, MachineCsrs, SuperCsrs
<1>2. reg[RegOf(o.csr)] \in SUBSET Bits
  BY <1>1 DEF TypeOK
<1>3. NewCsrVal(o) \in SUBSET Bits
  BY <1>2 DEF NewCsrVal, CsrOps
<1>4. ASSUME o.csr = "sstatus", ~(o.op = "rw" /\ o.x0)
      PROVE \A b \in Bits \ SStatusMask :
                    b \in NewCsrVal(o) <=> b \in reg["status"]
  <2>1. RegOf(o.csr) = "status" /\ Mask(o.csr) = SStatusMask
    BY <1>4 DEF RegOf, Mask
  <2>2. QED BY <1>4, <2>1 DEF NewCsrVal, CsrOps
<1>5. QED BY <1>1, <1>3, <1>4

-----------------------------------------------------------------------------
(* Instructions                                                            *)

(* What every instruction does to the cycle's bookkeeping.                 *)
LEMMA EndInstrFacts ==
    ASSUME Inv, NEW next \in Addr, NEW fault \in {NoTrap} \cup Exceptions,
           EndInstr(next, fault)
    PROVE  /\ phase = "run" /\ phase' = "irq" /\ sync = NoTrap /\ priv \in Levels
           /\ pc' \in Addr /\ pc' = next
           /\ exec' \in [pc : Addr, fault : {NoTrap} \cup Exceptions]
           /\ exec'.pc = pc /\ exec'.fault = fault
           /\ taken' \in [irq : BOOLEAN, cause : {NoTrap} \cup Exceptions,
                          first : {NoTrap} \cup Exceptions, from : 0..3,
                          to : Levels, on : SUBSET Lines]
           /\ ~taken'.irq
           /\ InterruptAllowed' /\ NoSpuriousInterrupt'
           /\ taken'.irq => taken'.first = NoTrap
           /\ ~taken'.irq => taken'.cause = taken'.first
<1>1. phase = "run" /\ sync = NoTrap /\ priv \in Levels
  BY DEF Inv, EndInstr, CycleConsistent, TypeOK
<1>2. taken' = NoTaken /\ ~taken'.irq
  BY DEF EndInstr, NoTaken
<1>3. InterruptAllowed' /\ NoSpuriousInterrupt'
  BY <1>2 DEF InterruptAllowed, NoSpuriousInterrupt
<1>4. QED
  BY <1>1, <1>2, <1>3 DEF EndInstr, NoTaken, Inv, TypeOK

(* An instruction that changes neither registers nor privilege keeps Inv.  *)
LEMMA QuietInstr ==
    ASSUME Inv, NEW next \in Addr, NEW fault \in {NoTrap} \cup Exceptions,
           EndInstr(next, fault), sync' = fault,
           fault # NoTrap => next = Next4(pc),
           tvec' \in [Levels -> Addr],
           UNCHANGED <<priv, reg, epc, frame>>
    PROVE  Inv'
<1>1. TypeOK'
  BY EndInstrFacts DEF Inv, TypeOK
<1>2. CycleConsistent'
  BY EndInstrFacts DEF Inv, CycleConsistent, Live, Next4
<1>3. FrameIntact' /\ HandlerShielded'
  BY DEF Inv, FrameIntact, HandlerShielded, Live
<1>4. QED
  BY <1>1, <1>2, <1>3, EndInstrFacts DEF Inv, ExceptionAtomic

(* An instruction refused for its privilege only records the exception.    *)
LEMMA IllegalInstructionStep ==
    ASSUME Inv, IllegalInstruction, UNCHANGED tvec
    PROVE  Inv'
<1>1. EndInstr(Next4(pc), IllegalInstr) /\ pc \in Addr /\ IllegalInstr \in Exceptions
  BY DEF IllegalInstruction, IllegalInstr, Inv, TypeOK
<1>2. Next4(pc) \in Addr
  BY <1>1, AddressFacts
<1>3. sync = NoTrap
  BY <1>1, <1>2, EndInstrFacts
<1>4. sync' = IllegalInstr
  BY <1>3 DEF IllegalInstruction, PrepareSyncTrap
<1>5. QED
  BY <1>1, <1>2, <1>4, QuietInstr DEF IllegalInstruction, Inv, TypeOK

(* Dropping frames: the frames that stay are the old ones.                 *)
LEMMA DropFacts ==
    ASSUME Inv, NEW xs
    PROVE  /\ Drop(xs) \in [Levels -> FrameType]
           /\ \A x \in Levels : Drop(xs)[x].live => x \notin xs /\ Drop(xs)[x] = frame[x]
BY AddrSpaceAssumption DEF Drop, NoFrame, FrameType, Inv, TypeOK

(* A write of status value n, with privilege q after it, keeps what the    *)
(* live frames outside xs saved, and keeps them shielded.                  *)
KeepsFrames(xs, n, q) ==
    \A x \in Levels \ xs : Live(x) =>
        /\ epc'[x] = epc[x]
        /\ PreviousPriv(x, n) = PreviousPriv(x, reg["status"])
        /\ UPIE + x \in n <=> UPIE + x \in reg["status"]
        /\ x \notin n
        /\ q >= x
        /\ q > x => PreviousPriv(q, n) >= x
        /\ x = S /\ q = M => MPP0 \in n

(* An instruction that writes registers keeps Inv if it keeps the frames   *)
(* it does not drop.                                                       *)
LEMMA WriteInstr ==
    ASSUME Inv, NEW xs, NEW n \in SUBSET Bits, NEW q \in 0..3,
           NEW t \in Addr, EndInstr(t, NoTrap), sync' = sync,
           reg' \in [Regs -> SUBSET Bits], reg'["status"] = n,
           epc' \in [Levels -> Addr], priv' = q, frame' = Drop(xs), tvec' = tvec,
           KeepsFrames(xs, n, q)
    PROVE  Inv'
<1>2. /\ frame' \in [Levels -> FrameType]
      /\ \A x \in Levels : Live(x)' => x \notin xs /\ frame'[x] = frame[x] /\ Live(x)
  BY DropFacts DEF Live
<1>3. TypeOK'
  BY <1>2, EndInstrFacts DEF Inv, TypeOK
<1>4. CycleConsistent'
  BY <1>2, EndInstrFacts DEF Inv, CycleConsistent, KeepsFrames
<1>5. FrameIntact'
  BY <1>2 DEF Inv, FrameIntact, KeepsFrames
<1>6. HandlerShielded'
  BY <1>2 DEF Inv, HandlerShielded, KeepsFrames
<1>7. QED
  BY <1>3, <1>4, <1>5, <1>6, EndInstrFacts DEF Inv, ExceptionAtomic

(* A CSR instruction on a bit register keeps Inv: a write of a status      *)
(* view drops the frames whose saved bits that view may change.            *)
LEMMA CsrAccessStep ==
    ASSUME Inv, CsrAccess
    PROVE  Inv'
<1>1. PICK o \in GuestOps :
        IF CsrAllowed(o)
          THEN /\ EndInstr(Next4(pc), NoTrap)
               /\ IF CsrWrites(o)
                    THEN /\ reg' = [reg EXCEPT ![RegOf(o.csr)] = NewCsrVal(o)]
                         /\ frame' = Drop(Overwritten(o))
                    ELSE UNCHANGED <<reg, frame>>
               /\ UNCHANGED <<priv, tvec, epc, sync>>
          ELSE IllegalInstruction
  BY DEF CsrAccess
<1>2. o \in CsrOps /\ TypeOK
  BY GuestOpsAssumption DEF Inv
<1>3. pc \in Addr /\ Next4(pc) \in Addr
  BY AddressFacts DEF Inv, TypeOK
<1>4. CASE ~CsrAllowed(o)
  BY <1>1, <1>4, IllegalInstructionStep DEF IllegalInstruction
<1>5. CASE CsrAllowed(o) /\ ~CsrWrites(o)
  <2>1. sync = NoTrap
    BY <1>1, <1>3, <1>5, EndInstrFacts
  <2>2. QED
    BY <1>1, <1>3, <1>5, <2>1, QuietInstr DEF Inv, TypeOK
<1>6. CASE CsrAllowed(o) /\ CsrWrites(o)
  <2>1. RegOf(o.csr) \in Regs /\ NewCsrVal(o) \in SUBSET Bits
    BY <1>2, NewCsrValFacts
  <2>2. reg' \in [Regs -> SUBSET Bits] /\ reg'["status"] \in SUBSET Bits
    BY <1>1, <1>6, <2>1 DEF Inv, TypeOK, Regs
  <2>3. CASE o.csr = "mstatus" \/ (o.csr = "sstatus" /\ o.op = "rw" /\ o.x0)
    <3>1. Overwritten(o) = Levels
      BY <2>3 DEF Overwritten
    <3>2. KeepsFrames(Levels, reg'["status"], priv)
      BY DEF KeepsFrames
    <3>3. QED
      BY <1>1, <1>3, <1>6, <2>2, <3>1, <3>2, WriteInstr DEF Inv, TypeOK
  <2>4. CASE o.csr = "sstatus" /\ ~(o.op = "rw" /\ o.x0)
    <3>1. Overwritten(o) = {U, S} /\ RegOf(o.csr) = "status"
      BY <2>4 DEF Overwritten, RegOf
    <3>2. reg'["status"] = NewCsrVal(o)
      BY <1>1, <1>6, <3>1 DEF Inv, TypeOK, Regs
    <3>3. \A b \in {3, 7, 11, 12} : b \in reg'["status"] <=> b \in reg["status"]
      BY <1>2, <2>4, <3>2, NewCsrValFacts DEF SStatusMask
    <3>4. /\ PreviousPriv(M, reg'["status"]) = PreviousPriv(M, reg["status"])
          /\ UPIE + M \in reg'["status"] <=> UPIE + M \in reg["status"]
          /\ M \in reg'["status"] <=> M \in reg["status"]
      BY <3>3 DEF PreviousPriv, Mpp
    <3>5. Live(M) => M \notin reg["status"] /\ priv >= M
      BY DEF Inv, HandlerShielded
    <3>6. KeepsFrames({U, S}, reg'["status"], priv)
      BY <1>1, <1>6, <3>4, <3>5 DEF KeepsFrames, Inv, TypeOK
    <3>7. QED
      BY <1>1, <1>3, <1>6, <2>2, <3>1, <3>6, WriteInstr DEF Inv, TypeOK
  <2>5. CASE o.csr \notin {"mstatus", "sstatus"}
    <3>1. Overwritten(o) = {} /\ RegOf(o.csr) # "status"
      BY <1>2, <2>5, NewCsrValFacts DEF Overwritten
    <3>2. reg'["status"] = reg["status"]
      BY <1>1, <1>6, <3>1 DEF Inv, TypeOK, Regs
    <3>3. KeepsFrames({}, reg'["status"], priv)
      BY <1>1, <1>6, <3>2 DEF KeepsFrames, Inv, HandlerShielded, CycleConsistent
    <3>4. QED
      BY <1>1, <1>3, <1>6, <2>2, <3>1, <3>3, WriteInstr DEF Inv, TypeOK
  <2>6. QED BY <2>3, <2>4, <2>5
<1>7. QED BY <1>4, <1>5, <1>6

(* A write of xtvec keeps the alignment and type of the vectors.           *)
LEMMA WriteTvecStep ==
    ASSUME Inv, WriteTvec
    PROVE  Inv'
<1>1. PICK x \in {S, M}, v \in Targets :
        IF priv \in Levels /\ priv >= x
          THEN /\ EndInstr(Next4(pc), NoTrap)
               /\ tvec' = [tvec EXCEPT ![x] = Aligned(v)]
               /\ UNCHANGED <<priv, reg, epc, sync, frame>>
          ELSE IllegalInstruction /\ UNCHANGED tvec
  BY DEF WriteTvec, IllegalInstruction
<1>2. pc \in Addr /\ Next4(pc) \in Addr /\ Aligned(v) \in Addr
  BY AddressFacts, TargetsAssumption DEF Inv, TypeOK
<1>3. CASE ~(priv \in Levels /\ priv >= x)
  BY <1>1, <1>3, IllegalInstructionStep
<1>4. CASE priv \in Levels /\ priv >= x
  <2>1. tvec' \in [Levels -> Addr]
    BY <1>1, <1>2, <1>4 DEF Inv, TypeOK
  <2>2. sync = NoTrap
    BY <1>1, <1>2, <1>4, EndInstrFacts
  <2>3. QED BY <1>1, <1>2, <1>4, <2>1, <2>2, QuietInstr
<1>5. QED BY <1>3, <1>4

(* A write of xepc drops the frame of its level and no other.              *)
LEMMA WriteEpcStep ==
    ASSUME Inv, WriteEpc
    PROVE  Inv'
<1>1. PICK x \in {S, M}, v \in Targets :
        IF priv \in Levels /\ priv >= x
          THEN /\ EndInstr(Next4(pc), NoTrap)
               /\ epc' = [epc EXCEPT ![x] = v]
               /\ frame' = Drop({x})
               /\ UNCHANGED <<priv, reg, tvec, sync>>
          ELSE IllegalInstruction /\ UNCHANGED tvec
  BY DEF WriteEpc, IllegalInstruction
<1>2. pc \in Addr /\ Next4(pc) \in Addr
  BY AddressFacts DEF Inv, TypeOK
<1>3. CASE ~(priv \in Levels /\ priv >= x)
  BY <1>1, <1>3, IllegalInstructionStep
<1>4. CASE priv \in Levels /\ priv >= x
  <2>1. /\ epc' \in [Levels -> Addr]
        /\ \A y \in Levels \ {x} : epc'[y] = epc[y]
    BY <1>1, <1>4, TargetsAssumption DEF Inv, TypeOK
  <2>2. reg' \in [Regs -> SUBSET Bits] /\ reg'["status"] = reg["status"]
        /\ reg["status"] \in SUBSET Bits
    BY <1>1, <1>4 DEF Inv, TypeOK, Regs
  <2>3. KeepsFrames({x}, reg["status"], priv)
    BY <2>1 DEF KeepsFrames, Inv, HandlerShielded, CycleConsistent
  <2>4. QED
    BY <1>1, <1>2, <1>4, <2>1, <2>2, <2>3, WriteInstr DEF Inv, TypeOK
<1>5. QED BY <1>3, <1>4

(* An xRET drops the frame of the level it leaves; it may not leave that   *)
(* level below a live frame.                                               *)
LEMMA ReturnStep ==
    ASSUME Inv, NEW x \in {S, M}, Return(x)
    PROVE  Inv'
<1> DEFINE q == PreviousPriv(priv, reg["status"])
           n == RestoredStatus(priv, reg["status"])
<1>1. PICK t \in Addr : EndInstr(t, NoTrap)
  BY AddressFacts DEF Return, Goto, Inv, TypeOK
<1>2. priv \in Levels /\ reg["status"] \in SUBSET Bits
  BY <1>1, EndInstrFacts DEF Inv, TypeOK, Regs
<1>3. n \in SUBSET Bits /\ q \in 0..3 /\ q <= priv
  BY <1>2, RestoredFacts, PreviousPrivFacts
<1>4. reg' \in [Regs -> SUBSET Bits] /\ reg'["status"] = n
  BY <1>3 DEF Return, Inv, TypeOK, Regs
<1>5. ASSUME NEW y \in Levels \ {priv}, Live(y)
      PROVE  /\ PreviousPriv(y, n) = PreviousPriv(y, reg["status"])
             /\ UPIE + y \in n <=> UPIE + y \in reg["status"]
             /\ y \notin n
             /\ q >= y
             /\ q > y => PreviousPriv(q, n) >= y
             /\ y = S /\ q = M => MPP0 \in n
  <2>1. y < priv /\ y \notin reg["status"] /\ q >= y
    BY <1>2, <1>5 DEF Inv, HandlerShielded, TypeOK
  <2>2. /\ PreviousPriv(y, n) = PreviousPriv(y, reg["status"])
        /\ UPIE + y \in n <=> UPIE + y \in reg["status"]
        /\ y \notin n
        /\ MPP0 \in n <=> MPP0 \in reg["status"]
    BY <1>2, <2>1, RestoredFacts
  <2>3. y = S => priv = M /\ MPP0 \in reg["status"] /\ q \in {S, M}
    BY <1>2, <1>5, <2>1 DEF Inv, CycleConsistent, PreviousPriv, Mpp
  <2>4. q > y => PreviousPriv(q, n) >= y
    BY <2>2, <2>3, <1>3, PreviousPrivFacts DEF PreviousPriv, Mpp
  <2>5. QED BY <2>1, <2>2, <2>3, <2>4
<1>6. KeepsFrames({priv}, n, q)
  BY <1>5 DEF KeepsFrames, Return
<1>7. QED
  BY <1>1, <1>3, <1>4, <1>6, WriteInstr DEF Return, Inv, TypeOK

(* One instruction of rv_core_run keeps Inv.                               *)
LEMMA InstructionStep ==
    ASSUME Inv, Instruction
    PROVE  Inv'
<1>1. pc \in Addr /\ Next4(pc) \in Addr
  BY AddressFacts DEF Inv, TypeOK
<1>2. tvec \in [Levels -> Addr]
  BY DEF Inv, TypeOK
<1>3. phase = "run" => sync = NoTrap /\ priv \in Levels
  BY DEF Inv, CycleConsistent, TypeOK
<1>4. CASE Plain
  BY <1>1, <1>2, <1>3, <1>4, QuietInstr DEF Plain, EndInstr
<1>5. CASE Jump
  <2>1. PICK t \in Targets : EndInstr(Goto(t), NoTrap)
    BY <1>5 DEF Jump
  <2>2. Goto(t) \in Addr
    BY <1>1, TargetsAssumption DEF Goto
  <2>3. QED
    BY <1>2, <1>3, <1>5, <2>1, <2>2, QuietInstr DEF Jump, EndInstr
<1>6. CASE Fault
  <2>1. PICK c1 \in FaultCauses, c2 \in FaultCauses :
          /\ EndInstr(Next4(pc), c1)
          /\ sync' = PrepareSyncTrap(PrepareSyncTrap(sync, c1), c2)
    BY <1>6 DEF Fault
  <2>2. c1 \in Exceptions /\ sync' = c1
    BY <1>3, <2>1, FaultCausesAssumption DEF PrepareSyncTrap, EndInstr
  <2>3. QED
    BY <1>1, <1>2, <1>6, <2>1, <2>2, QuietInstr DEF Fault
<1>7. CASE ECALL
  <2>1. UserEcall + priv \in Exceptions /\ sync' = UserEcall + priv
    BY <1>3, <1>7 DEF ECALL, EndInstr, UserEcall, PrepareSyncTrap
  <2>2. QED
    BY <1>1, <1>2, <1>7, <2>1, QuietInstr DEF ECALL
<1>8. QED
  BY <1>4, <1>5, <1>6, <1>7, CsrAccessStep, WriteTvecStep, WriteEpcStep, ReturnStep
     DEF Instruction, MRET, SRET

-----------------------------------------------------------------------------
(* Serving traps                                                           *)

(* Whether the line behind a machine cause c is among `on'.                *)
LineAsserted(c, on) ==
    /\ c = MachineExti => "mei" \in on
    /\ c = MachineTi => "mti" \in on
    /\ c = MachineSwi => "msi" \in on

(* Serving a trap at the current level or above keeps Inv.                 *)
LEMMA ServeStep ==
    ASSUME Inv, phase = "irq", phase' = "run", sync' = NoTrap, exec' = Idle,
           tvec' = tvec, priv \in Levels,
           NEW x \in Levels, priv <= x, NEW isIrq \in BOOLEAN,
           NEW c \in Exceptions, NEW ip \in SUBSET Bits, NEW on \in SUBSET Lines,
           Serve(x, isIrq, c, ip, on),
           ~isIrq => sync = c,
           isIrq => /\ sync = NoTrap /\ c \in reg["ie"] /\ LineAsserted(c, on)
                    /\ x = priv => x \in reg["status"]
    PROVE  Inv'
<1> DEFINE old == reg["status"]
           new == ServedStatus(x, priv, old)
           f == [live |-> TRUE, priv |-> priv, ie |-> x \in old,
                 pc |-> IF isIrq THEN pc ELSE exec.pc]
<1>1. old \in SUBSET Bits
  BY DEF Inv, TypeOK, Regs
<1>2. /\ new \in SUBSET Bits
      /\ x \notin new
      /\ UPIE + x \in new <=> x \in old
      /\ PreviousPriv(x, new) = priv
      /\ x = M => (MPP0 \in new <=> priv # U)
      /\ x # M => (MPP0 \in new <=> MPP0 \in old)
      /\ \A y \in Levels \ {x} :
           /\ y \in new <=> y \in old
           /\ UPIE + y \in new <=> UPIE + y \in old
           /\ PreviousPriv(y, new) = PreviousPriv(y, old)
  BY <1>1, ServedFacts
<1>3. /\ reg' \in [Regs -> SUBSET Bits] /\ reg'["status"] = new
      /\ reg'["ie"] = reg["ie"]
  BY <1>2 DEF Serve, Inv, TypeOK, Regs
<1>4. /\ frame' = [frame EXCEPT ![x] = f]
      /\ frame' \in [Levels -> FrameType] /\ frame'[x] = f
      /\ \A y \in Levels \ {x} : frame'[y] = frame[y]
  BY DEF Serve, Inv, TypeOK, FrameType
<1>5. /\ epc' \in [Levels -> Addr] /\ epc'[x] = f.pc
      /\ \A y \in Levels \ {x} : epc'[y] = epc[y]
  <2>1. ~isIrq => Prev4(pc) = exec.pc
    BY AddressFacts DEF Inv, CycleConsistent, TypeOK
  <2>2. pc \in Addr /\ Prev4(pc) \in Addr
    BY AddressFacts DEF Inv, TypeOK
  <2>3. QED BY <2>1, <2>2 DEF Serve, Inv, TypeOK
<1>6. /\ taken' = [irq |-> isIrq, cause |-> c, first |-> exec.fault,
                  from |-> priv, to |-> x, on |-> IF isIrq THEN on ELSE {}]
      /\ priv' = x /\ pc' = tvec[x] /\ sync = exec.fault
  BY DEF Serve, Inv, CycleConsistent
<1>7. TypeOK'
  BY <1>3, <1>4, <1>5, <1>6, AddrSpaceAssumption DEF Inv, TypeOK, Idle
<1>8. CycleConsistent'
  <2>1. Live(x)'
    BY <1>4 DEF Live
  <2>2. Live(S)' /\ x = M => MPP0 \in new
    BY <1>2, <1>4 DEF Live, Inv, HandlerShielded, CycleConsistent
  <2>3. QED BY <1>3, <1>6, <2>1, <2>2 DEF CycleConsistent
<1>9. FrameIntact'
  <2>1. /\ epc'[x] = frame'[x].pc
        /\ PreviousPriv(x, reg'["status"]) = frame'[x].priv
        /\ (UPIE + x \in reg'["status"]) <=> frame'[x].ie
    BY <1>2, <1>3, <1>4, <1>5
  <2>2. ASSUME NEW y \in Levels \ {x}, Live(y)'
        PROVE  /\ epc'[y] = frame'[y].pc
               /\ PreviousPriv(y, reg'["status"]) = frame'[y].priv
               /\ (UPIE + y \in reg'["status"]) <=> frame'[y].ie
    <3>1. Live(y) /\ frame'[y] = frame[y]
      BY <1>4, <2>2 DEF Live
    <3>2. QED BY <1>2, <1>3, <1>5, <3>1 DEF Inv, FrameIntact
  <2>3. QED BY <2>1, <2>2 DEF FrameIntact
<1>10. HandlerShielded'
  <2>1. ASSUME NEW y \in Levels \ {x}, Live(y)
        PROVE  y \notin new /\ y < x /\ PreviousPriv(x, new) >= y
    BY <1>2, <2>1 DEF Inv, HandlerShielded
  <2>2. QED BY <1>2, <1>3, <1>4, <1>6, <2>1 DEF HandlerShielded, Live
<1>11. InterruptAllowed'
  <2>1. taken'.irq = isIrq /\ taken'.cause = c /\ taken'.to = x /\ taken'.from = priv
    BY <1>6
  <2>2. isIrq => c \in reg'["ie"]
    BY <1>3
  <2>3. frame'[x].ie <=> x \in old
    BY <1>4
  <2>4. x > priv \/ x = priv
    OBVIOUS
  <2>5. isIrq => x > priv \/ (x = priv /\ frame'[x].ie)
    BY <2>3, <2>4, Zenon
  <2>6. QED BY <2>1, <2>2, <2>5 DEF InterruptAllowed
<1>12. NoSpuriousInterrupt'
  BY <1>6 DEF NoSpuriousInterrupt, LineAsserted
<1>13. ExceptionAtomic'
  BY <1>6 DEF ExceptionAtomic
<1>14. QED
  BY <1>7, <1>8, <1>9, <1>10, <1>11, <1>12, <1>13 DEF Inv

(* rv_core_process_interrupts keeps Inv, whatever lines are asserted.      *)
LEMMA ProcessStep ==
    ASSUME Inv, ProcessInterrupts
    PROVE  Inv'
<1>1. /\ phase = "irq" /\ phase' = "run" /\ sync' = NoTrap /\ exec' = Idle
      /\ tvec' = tvec /\ priv \in 0..3
  BY DEF ProcessInterrupts, Inv, TypeOK
<1>2. PICK on \in SUBSET Lines :
          \/ ServeSyncTrap(on)
          \/ \E i \in Interrupts : ServeInterrupt(i, on)
          \/ NothingToServe(on)
  BY DEF ProcessInterrupts
<1> DEFINE ip == SetPendingBits(on)
<1>3. ip \in SUBSET Bits
  BY SetPendingFacts DEF Inv
<1> HIDE DEF ip
<1>4. CASE ServeSyncTrap(on)
  <2> DEFINE x == ExceptionLevel(priv, sync)
  <2>1. sync \in Exceptions /\ priv \in Levels
    BY <1>1, <1>4 DEF ServeSyncTrap, Inv, TypeOK, CycleConsistent
  <2>2. x \in Levels /\ priv <= x
    BY <2>1, ExceptionLevelFacts
  <2>3. Serve(x, FALSE, sync, ip, on)
    BY <1>4 DEF ServeSyncTrap, ip
  <2> HIDE DEF x
  <2>4. QED BY <1>1, <1>3, <2>1, <2>2, <2>3, ServeStep
<1>5. CASE \E i \in Interrupts : ServeInterrupt(i, on)
  <2>1. PICK i \in Interrupts : ServeInterrupt(i, on)
    BY <1>5
  <2> DEFINE x == DelegationLevel(priv, i)
  <2>2. sync = NoTrap /\ priv \in Levels /\ i \in Exceptions
    BY <1>1, <2>1 DEF ServeInterrupt
  <2>3. InterruptPending(priv, i, ip) /\ Serve(x, TRUE, i, ip, on)
    BY <2>1, Zenon DEF ServeInterrupt, ip
  <2>4. /\ sync = NoTrap /\ priv \in Levels /\ i \in Exceptions
        /\ InterruptPending(priv, i, ip)
        /\ Serve(x, TRUE, i, ip, on)
    BY <2>2, <2>3
  <2>5. /\ i \in ip /\ i \in reg["ie"] /\ x \in Levels /\ priv <= x
        /\ x = priv => x \in reg["status"]
    BY <2>4, InterruptLevelFacts
  <2>6. LineAsserted(i, on)
    BY <2>5, SetPendingFacts DEF LineAsserted, Inv, ip, MachineExti, SuperExti,
                                 MachineTi, MachineSwi
  <2> HIDE DEF x
  <2>7. QED BY <1>1, <1>3, <2>4, <2>5, <2>6, ServeStep
<1>6. CASE NothingToServe(on)
  <2>1. /\ reg' \in [Regs -> SUBSET Bits] /\ reg'["status"] = reg["status"]
        /\ reg'["ie"] = reg["ie"]
    BY <1>3, <1>6 DEF NothingToServe, ip, Inv, TypeOK, Regs
  <2>2. UNCHANGED <<priv, epc, pc, taken, frame>> /\ priv # Reserved
    BY <1>6 DEF NothingToServe
  <2>3. TypeOK'
    BY <1>1, <2>1, <2>2, AddrSpaceAssumption DEF Inv, TypeOK, Idle
  <2>4. CycleConsistent'
    BY <1>1, <2>1, <2>2 DEF Inv, CycleConsistent, Live
  <2>5. FrameIntact' /\ HandlerShielded'
    BY <2>1, <2>2 DEF Inv, FrameIntact, HandlerShielded, Live
  <2>6. InterruptAllowed' /\ NoSpuriousInterrupt' /\ ExceptionAtomic'
    BY <1>1, <2>1, <2>2 DEF Inv, InterruptAllowed, NoSpuriousInterrupt, ExceptionAtomic
  <2>7. QED BY <2>3, <2>4, <2>5, <2>6 DEF Inv
<1>7. QED BY <1>2, <1>4, <1>5, <1>6

-----------------------------------------------------------------------------
(* rv_core_init and trap_init establish Inv.                               *)
LEMMA InitInv == Init => Inv
<1> SUFFICES ASSUME Init PROVE Inv
  OBVIOUS
<1>1. TypeOK
  BY AddrSpaceAssumption
     DEF Init, TypeOK, Regs, Extensions, NoTaken, Idle, NoFrame, FrameType
<1>2. CycleConsistent /\ FrameIntact /\ HandlerShielded
  BY DEF Init, CycleConsistent, FrameIntact, HandlerShielded, Live, NoFrame, NoTaken
<1>3. InterruptAllowed /\ NoSpuriousInterrupt /\ ExceptionAtomic
  BY DEF Init, InterruptAllowed, NoSpuriousInterrupt, ExceptionAtomic, NoTaken
<1>4. QED BY <1>1, <1>2, <1>3 DEF Inv

(* Every step of the loop keeps Inv.                                       *)
LEMMA NextInv == Inv /\ [Next]_vars => Inv'
<1> SUFFICES ASSUME Inv, [Next]_vars PROVE Inv'
  OBVIOUS
<1>1. CASE Instruction
  BY <1>1, InstructionStep
<1>2. CASE ProcessInterrupts
  BY <1>2, ProcessStep
<1>3. CASE NullDereference
  <2>1. phase = "irq" /\ phase' = "halt" /\ sync = NoTrap
        /\ UNCHANGED <<priv, reg, tvec, epc, pc, sync, taken, exec, frame>>
    BY <1>3 DEF NullDereference
  <2>2. TypeOK' /\ CycleConsistent'
    BY <2>1 DEF Inv, TypeOK, CycleConsistent, Live
  <2>3. /\ FrameIntact' /\ HandlerShielded' /\ InterruptAllowed'
        /\ NoSpuriousInterrupt' /\ ExceptionAtomic'
    BY <2>1 DEF Inv, FrameIntact, HandlerShielded, InterruptAllowed,
                NoSpuriousInterrupt, ExceptionAtomic, Live
  <2>4. QED BY <2>2, <2>3 DEF Inv
<1>4. CASE UNCHANGED vars
  BY <1>4 DEF vars, Inv, TypeOK, CycleConsistent, FrameIntact, HandlerShielded,
              InterruptAllowed, NoSpuriousInterrupt, ExceptionAtomic, Live
<1>5. QED BY <1>1, <1>2, <1>3, <1>4 DEF Next

(* The inductive invariant holds in every reachable state of the hart.     *)
THEOREM Invariance == Spec => []Inv
BY InitInv, NextInv, PTL DEF Spec

(* Every reachable state of the trap unit is well typed.                   *)
THEOREM TypeCorrect == Spec => []TypeOK
<1>1. Inv => TypeOK
  BY DEF Inv
<1>2. QED BY <1>1, Invariance, PTL

(* trap_serve_interrupt and trap_restore_irq_settings nest: whatever the   *)
(* guest does, a live handler's epc, xPP and xPIE are those of the context *)
(* it interrupted.                                                         *)
THEOREM FramesIntact == Spec => []FrameIntact
<1>1. Inv => FrameIntact
  BY DEF Inv
<1>2. QED BY <1>1, Invariance, PTL

(* A live handler runs with its xIE off and nothing returns below it.      *)
THEOREM HandlersShielded == Spec => []HandlerShielded
<1>1. Inv => HandlerShielded
  BY DEF Inv
<1>2. QED BY <1>1, Invariance, PTL

(* Interrupts are taken only as the enable bits and levels allow.          *)
THEOREM InterruptsAllowed == Spec => []InterruptAllowed
<1>1. Inv => InterruptAllowed
  BY DEF Inv
<1>2. QED BY <1>1, Invariance, PTL

(* trap_set_pending_bits refreshes stale bits before they are used.        *)
THEOREM NoSpuriousInterrupts == Spec => []NoSpuriousInterrupt
<1>1. Inv => NoSpuriousInterrupt
  BY DEF Inv
<1>2. QED BY <1>1, Invariance, PTL

(* rv_core_prepare_interrupts serves an exception in its own cycle, before *)
(* any interrupt, and reports the first fault.                             *)
THEOREM ExceptionsAtomic == Spec => []ExceptionAtomic
<1>1. Inv => ExceptionAtomic
  BY DEF Inv
<1>2. QED BY <1>1, Invariance, PTL

-----------------------------------------------------------------------------
(* Action properties                                                       *)

(* A step from phase "irq" is rv_core_process_interrupts (or the process   *)
(* dies), a step from phase "run" an instruction.                          *)
LEMMA PhaseOfStep ==
    ASSUME Next
    PROVE  /\ phase = "run" => Instruction
           /\ phase = "irq" => ProcessInterrupts \/ NullDereference
           /\ phase # "halt"
<1>1. ASSUME Instruction PROVE phase = "run"
  BY <1>1 DEF Instruction, Plain, Jump, Fault, ECALL, CsrAccess, WriteTvec, WriteEpc,
              MRET, SRET, Return, IllegalInstruction, EndInstr
<1>2. QED
  BY <1>1 DEF Next, ProcessInterrupts, NullDereference

(* What rv_core_process_interrupts does to the privilege, and where an     *)
(* interrupt goes.                                                         *)
LEMMA TrapDirection ==
    ASSUME Inv, ProcessInterrupts
    PROVE  /\ priv' >= priv
           /\ taken'.irq => ~Live(taken'.to)
<1>1. PICK on \in SUBSET Lines :
          \/ ServeSyncTrap(on)
          \/ \E i \in Interrupts : ServeInterrupt(i, on)
          \/ NothingToServe(on)
  BY DEF ProcessInterrupts
<1>2. priv \in 0..3 /\ phase = "irq"
  BY DEF Inv, TypeOK, ProcessInterrupts
<1>3. CASE ServeSyncTrap(on)
  <2>1. priv \in Levels
    BY <1>2, <1>3 DEF ServeSyncTrap, Inv, CycleConsistent
  <2>2. priv' = ExceptionLevel(priv, sync) /\ ~taken'.irq
    BY <1>3 DEF ServeSyncTrap, Serve
  <2>3. QED BY <2>1, <2>2, ExceptionLevelFacts
<1>4. CASE \E i \in Interrupts : ServeInterrupt(i, on)
  <2>1. PICK i \in Interrupts : ServeInterrupt(i, on)
    BY <1>4
  <2>2. priv \in Levels
    BY <1>2, <2>1 DEF ServeInterrupt
  <2>3. InterruptPending(priv, i, SetPendingBits(on))
    BY <2>1, Zenon DEF ServeInterrupt
  <2>4. priv' = DelegationLevel(priv, i) /\ taken'.to = DelegationLevel(priv, i)
    BY <2>1 DEF ServeInterrupt, Serve
  <2>5. /\ DelegationLevel(priv, i) \in Levels /\ priv <= DelegationLevel(priv, i)
        /\ priv = DelegationLevel(priv, i) => priv \in reg["status"]
    BY <2>2, <2>3, InterruptLevelFacts
  <2>6. ~Live(DelegationLevel(priv, i))
    BY <2>2, <2>5 DEF Inv, HandlerShielded
  <2>7. QED BY <2>4, <2>5, <2>6
<1>5. CASE NothingToServe(on)
  <2>1. ~taken.irq
    BY <1>2 DEF Inv, CycleConsistent
  <2>2. QED BY <1>2, <1>5, <2>1 DEF NothingToServe
<1>6. QED BY <1>1, <1>3, <1>4, <1>5

(* What an instruction does to the privilege.                              *)
LEMMA InstrDirection ==
    ASSUME Inv, Instruction
    PROVE  priv' <= priv
<1>1. priv \in 0..3
  BY DEF Inv, TypeOK
<1>2. ASSUME NEW x, Return(x) PROVE priv' <= priv
  BY <1>1, <1>2, PreviousPrivFacts DEF Return
<1>3. CASE MRET \/ SRET
  BY <1>2, <1>3 DEF MRET, SRET
<1>4. CASE Plain \/ Jump \/ Fault \/ ECALL
  BY <1>1, <1>4 DEF Plain, Jump, Fault, ECALL
<1>5. CASE CsrAccess \/ WriteTvec \/ WriteEpc
  BY <1>1, <1>5 DEF CsrAccess, WriteTvec, WriteEpc, IllegalInstruction
<1>6. QED BY <1>3, <1>4, <1>5 DEF Instruction

(* Instructions never raise the privilege (an xRET goes at most to its own *)
(* level), traps never lower it (delegation stops at the current level).   *)
THEOREM PrivilegeOrdered == Spec => PrivilegeDiscipline
<1>1. ASSUME Inv, [Next]_vars
      PROVE  [ /\ phase = "run" => priv' <= priv
               /\ phase = "irq" => priv' >= priv ]_vars
  <2>1. CASE UNCHANGED vars
    BY <2>1
  <2>2. CASE Next
    <3>1. phase = "run" => priv' <= priv
      BY <1>1, <2>2, PhaseOfStep, InstrDirection
    <3>2. phase = "irq" => priv' >= priv
      BY <1>1, <2>2, PhaseOfStep, TrapDirection DEF NullDereference, Inv, TypeOK
    <3>3. QED BY <3>1, <3>2
  <2>3. QED BY <1>1, <2>1, <2>2
<1>2. QED BY <1>1, Invariance, PTL DEF Spec, PrivilegeDiscipline

(* No interrupt overwrites the saved context of a live handler.            *)
THEOREM HandlersNotReentered == Spec => HandlerNotReentered
<1>1. ASSUME Inv, [Next]_vars
      PROVE  [taken'.irq /\ phase = "irq" => ~Live(taken'.to)]_vars
  <2>1. CASE UNCHANGED vars
    BY <2>1
  <2>2. CASE Next
    <3>1. CASE ProcessInterrupts
      BY <1>1, <3>1, TrapDirection
    <3>2. CASE NullDereference
      BY <1>1, <3>2 DEF NullDereference, Inv, CycleConsistent
    <3>3. QED BY <2>2, <3>1, <3>2, PhaseOfStep
  <2>3. QED BY <1>1, <2>1, <2>2
<1>2. QED BY <1>1, Invariance, PTL DEF Spec, HandlerNotReentered

(* An xRET of a live handler resumes what it interrupted.                  *)
THEOREM ReturnsResume == Spec => ReturnResumes
<1> DEFINE Resumed(x) ==
              /\ priv' = frame[x].priv
              /\ frame[x].pc # 0 => pc' = frame[x].pc
              /\ (x \in reg'["status"]) <=> frame[x].ie
<1>1. ASSUME Inv, NEW x \in {S, M}, Return(x), priv = x, Live(x)
      PROVE  Resumed(x)
  <2>1. reg["status"] \in SUBSET Bits
    BY <1>1 DEF Inv, TypeOK, Regs
  <2>2. reg'["status"] = RestoredStatus(x, reg["status"])
    BY <1>1 DEF Return, Inv, TypeOK, Regs
  <2>3. (x \in reg'["status"]) <=> UPIE + x \in reg["status"]
    BY <2>1, <2>2, RestoredFacts
  <2>4. /\ epc[x] = frame[x].pc
        /\ PreviousPriv(x, reg["status"]) = frame[x].priv
        /\ (UPIE + x \in reg["status"]) <=> frame[x].ie
    BY <1>1 DEF Inv, FrameIntact
  <2>5. priv' = frame[x].priv /\ (frame[x].pc # 0 => pc' = frame[x].pc)
    BY <1>1, <2>4 DEF Return, EndInstr, Goto
  <2>6. QED BY <2>3, <2>4, <2>5
<1>2. ASSUME Inv
      PROVE  [\A x \in {S, M} : Return(x) /\ priv = x /\ Live(x) => Resumed(x)]_vars
  BY <1>1, <1>2
<1>3. QED BY <1>2, Invariance, PTL DEF ReturnResumes

(* A CSR instruction below machine mode does no more than that.           *)
LEMMA CsrNoEscalation ==
    ASSUME Inv, priv \in {U, S}, CsrAccess
    PROVE  NoEscalation
<1>1. PICK o \in GuestOps :
        IF CsrAllowed(o)
          THEN /\ IF CsrWrites(o)
                    THEN reg' = [reg EXCEPT ![RegOf(o.csr)] = NewCsrVal(o)]
                    ELSE UNCHANGED reg
               /\ UNCHANGED <<tvec, epc>>
          ELSE UNCHANGED <<reg, tvec, epc>>
  BY DEF CsrAccess, IllegalInstruction
<1>2. tvec' = tvec /\ epc' = epc
  BY <1>1
<1>3. CASE reg' = reg
  BY <1>2, <1>3 DEF NoEscalation
<1>4. CASE reg' # reg
  <2>1. CsrAllowed(o) /\ CsrWrites(o) /\ reg' = [reg EXCEPT ![RegOf(o.csr)] = NewCsrVal(o)]
    BY <1>1, <1>4
  <2>2. o \in CsrOps /\ o.csr \in SuperCsrs
    BY <2>1, GuestOpsAssumption DEF CsrAllowed, WriteGranted, ReadGranted
  <2>3. NewCsrVal(o) \ Mask(o.csr) \subseteq reg[RegOf(o.csr)]
    BY <2>2 DEF NewCsrVal, CsrOps
  <2>4. CASE o.csr = "sstatus"
    <3>1. RegOf(o.csr) = "status" /\ Mask(o.csr) = SStatusMask
      BY <2>4 DEF RegOf, Mask
    <3>2. QED BY <1>2, <2>1, <2>3, <3>1 DEF NoEscalation, Inv, TypeOK, Regs
  <2>5. CASE o.csr = "sie"
    <3>1. RegOf(o.csr) = "ie" /\ Mask(o.csr) = SipSieMask
      BY <2>5 DEF RegOf, Mask
    <3>2. QED BY <1>2, <2>1, <2>3, <3>1 DEF NoEscalation, Inv, TypeOK, Regs
  <2>6. CASE o.csr = "sip"
    <3>1. RegOf(o.csr) = "ip" /\ Mask(o.csr) = SipSieMask
      BY <2>6 DEF RegOf, Mask
    <3>2. QED BY <1>2, <2>1, <2>3, <3>1 DEF NoEscalation, Inv, TypeOK, Regs
  <2>7. CASE o.csr \in {"sedeleg", "sideleg"}
    <3>1. RegOf(o.csr) \in {"sedeleg", "sideleg"}
      BY <2>7 DEF RegOf
    <3>2. QED BY <1>2, <2>1, <3>1 DEF NoEscalation, Inv, TypeOK, Regs
  <2>8. QED BY <2>2, <2>4, <2>5, <2>6, <2>7 DEF SuperCsrs
<1>5. QED BY <1>3, <1>4

(* Below machine mode the views give no way to set a machine bit or to     *)
(* move the machine's registers.                                           *)
THEOREM ViewsDoNotEscalate == Spec => NoEscalationThroughViews
<1>1. ASSUME Inv, Instruction, priv < M
      PROVE  NoEscalation
  <2>1. priv \in {U, S}
    <3>1. phase = "run"
      BY <1>1, PhaseOfStep DEF Instruction, Plain, Jump, Fault, ECALL, CsrAccess,
         WriteTvec, WriteEpc, MRET, SRET, Return, IllegalInstruction, EndInstr
    <3>2. QED BY <1>1, <3>1 DEF Inv, TypeOK, CycleConsistent
  <2>2. CASE MRET \/ SRET
    <3>1. reg["status"] \in SUBSET Bits
      BY <1>1 DEF Inv, TypeOK, Regs
    <3>2. /\ reg' = [reg EXCEPT !["status"] = RestoredStatus(priv, reg["status"])]
          /\ UNCHANGED <<tvec, epc>>
      BY <2>2 DEF MRET, SRET, Return
    <3>3. RestoredStatus(priv, reg["status"]) \ SStatusMask \subseteq reg["status"]
      BY <2>1, <3>1 DEF RestoredStatus, AssignBit, SStatusMask
    <3>4. QED BY <1>1, <3>2, <3>3 DEF NoEscalation, Inv, TypeOK, Regs
  <2>3. CASE Plain \/ Jump \/ Fault \/ ECALL
    BY <2>3 DEF Plain, Jump, Fault, ECALL, NoEscalation
  <2>4. CASE WriteTvec \/ WriteEpc
    BY <1>1, <2>1, <2>4 DEF WriteTvec, WriteEpc, IllegalInstruction, NoEscalation,
                            Inv, TypeOK
  <2>5. CASE CsrAccess
    BY <1>1, <2>1, <2>5, CsrNoEscalation
  <2>6. QED BY <1>1, <2>2, <2>3, <2>4, <2>5 DEF Instruction
<1>2. ASSUME Inv, [Next]_vars
      PROVE  [phase = "run" /\ priv < M => NoEscalation]_vars
  BY <1>1, <1>2, PhaseOfStep
<1>3. QED BY <1>2, Invariance, PTL DEF Spec, NoEscalationThroughViews

-----------------------------------------------------------------------------
(* How far the supervisor's views are restricted                           *)

(* No instruction writes one of the views with CSRRW and rd = x0 (csrw).   *)
ViewsReadFirst ==
    \A o \in GuestOps : o.op = "rw" /\ o.x0 => o.csr \notin {"sstatus", "sie", "sip"}

(* What the supervisor's view hides stays as it is.                        *)
HiddenKept ==
    /\ reg'["status"] \ SStatusMask = reg["status"] \ SStatusMask
    /\ reg'["ie"] \ SipSieMask = reg["ie"] \ SipSieMask
    /\ reg'["ip"] \ SipSieMask = reg["ip"] \ SipSieMask

(* A CSR instruction below machine mode that reads a view before it writes *)
(* it keeps the hidden bits.                                               *)
LEMMA CsrHiddenKept ==
    ASSUME ViewsReadFirst, Inv, priv \in {U, S}, CsrAccess
    PROVE  HiddenKept
<1>1. PICK o \in GuestOps :
        IF CsrAllowed(o)
          THEN IF CsrWrites(o)
                 THEN reg' = [reg EXCEPT ![RegOf(o.csr)] = NewCsrVal(o)]
                 ELSE UNCHANGED reg
          ELSE UNCHANGED reg
  BY DEF CsrAccess, IllegalInstruction
<1>2. CASE reg' = reg
  BY <1>2 DEF HiddenKept
<1>3. CASE reg' # reg
  <2>1. CsrAllowed(o) /\ CsrWrites(o) /\ reg' = [reg EXCEPT ![RegOf(o.csr)] = NewCsrVal(o)]
    BY <1>1, <1>3
  <2>2. o \in CsrOps /\ o.csr \in SuperCsrs
    BY <2>1, GuestOpsAssumption DEF CsrAllowed, WriteGranted, ReadGranted
  <2>3. o.csr \in {"sstatus", "sie", "sip"} =>
          NewCsrVal(o) \ Mask(o.csr) = reg[RegOf(o.csr)] \ Mask(o.csr)
    BY <2>2 DEF NewCsrVal, CsrOps, ViewsReadFirst
  <2>4. CASE o.csr = "sstatus"
    <3>1. RegOf(o.csr) = "status" /\ Mask(o.csr) = SStatusMask
      BY <2>4 DEF RegOf, Mask
    <3>2. QED BY <2>1, <2>3, <2>4, <3>1 DEF HiddenKept, Inv, TypeOK, Regs
  <2>5. CASE o.csr = "sie"
    <3>1. RegOf(o.csr) = "ie" /\ Mask(o.csr) = SipSieMask
      BY <2>5 DEF RegOf, Mask
    <3>2. QED BY <2>1, <2>3, <2>5, <3>1 DEF HiddenKept, Inv, TypeOK, Regs
  <2>6. CASE o.csr = "sip"
    <3>1. RegOf(o.csr) = "ip" /\ Mask(o.csr) = SipSieMask
      BY <2>6 DEF RegOf, Mask
    <3>2. QED BY <2>1, <2>3, <2>6, <3>1 DEF HiddenKept, Inv, TypeOK, Regs
  <2>7. CASE o.csr \in {"sedeleg", "sideleg"}
    <3>1. RegOf(o.csr) \in {"sedeleg", "sideleg"}
      BY <2>7 DEF RegOf
    <3>2. QED BY <2>1, <3>1 DEF HiddenKept, Inv, TypeOK, Regs
  <2>8. QED BY <2>2, <2>4, <2>5, <2>6, <2>7 DEF SuperCsrs
<1>4. QED BY <1>2, <1>3

(* The views are restricted for every guest that does not use csrw on      *)
(* them: no other instruction below machine mode, MRET and SRET included,  *)
(* changes a hidden bit.                                                   *)
THEOREM ViewsRestrictedWithoutCsrw ==
    ASSUME ViewsReadFirst
    PROVE  Spec => SupervisorViewRestricted
<1>1. ASSUME Inv, Instruction, priv < M
      PROVE  HiddenKept
  <2>1. priv \in {U, S}
    <3>1. phase = "run"
      BY <1>1, PhaseOfStep DEF Instruction, Plain, Jump, Fault, ECALL, CsrAccess,
         WriteTvec, WriteEpc, MRET, SRET, Return, IllegalInstruction, EndInstr
    <3>2. QED BY <1>1, <3>1 DEF Inv, TypeOK, CycleConsistent
  <2>2. CASE MRET \/ SRET
    <3>1. reg["status"] \in SUBSET Bits
      BY <1>1 DEF Inv, TypeOK, Regs
    <3>2. reg' = [reg EXCEPT !["status"] = RestoredStatus(priv, reg["status"])]
      BY <2>2 DEF MRET, SRET, Return
    <3>3. RestoredStatus(priv, reg["status"]) \ SStatusMask = reg["status"] \ SStatusMask
      BY <2>1, <3>1 DEF RestoredStatus, AssignBit, SStatusMask
    <3>4. QED BY <1>1, <3>2, <3>3 DEF HiddenKept, Inv, TypeOK, Regs
  <2>3. CASE Plain \/ Jump \/ Fault \/ ECALL
    BY <2>3 DEF Plain, Jump, Fault, ECALL, HiddenKept
  <2>4. CASE WriteTvec \/ WriteEpc
    BY <2>4 DEF WriteTvec, WriteEpc, IllegalInstruction, HiddenKept
  <2>5. CASE CsrAccess
    BY <1>1, <2>1, <2>5, CsrHiddenKept
  <2>6. QED BY <1>1, <2>2, <2>3, <2>4, <2>5 DEF Instruction
<1>2. ASSUME Inv, [Next]_vars
      PROVE  [phase = "run" /\ priv < M => HiddenKept]_vars
  BY <1>1, <1>2, PhaseOfStep
<1>3. QED BY <1>2, Invariance, PTL DEF Spec, SupervisorViewRestricted, HiddenKept
=============================================================================
