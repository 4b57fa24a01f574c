------------------------------- MODULE Trap -------------------------------
(***************************************************************************)
(* The trap unit of the hart: src/src/core/trap/trap.c, the CSR file in    *)
(* front of it (csr.c, and the CSR instructions of core.c) and the part of *)
(* core.c that raises and serves traps.                                    *)
(*                                                                         *)
(* A register is the set of its one bits, so `a & m' is a \cap m, `a | m'  *)
(* is a \cup m and `a & ~m' is a \ m.  The build modelled is the default   *)
(* one, RV32 (no always-enabled WARL bits).                                *)
(*                                                                         *)
(* A cycle of rv_soc_run has two steps: one instruction (phase "run") and  *)
(* rv_core_process_interrupts (phase "irq").  Phase "halt" is the process  *)
(* killed by the NULL dereference of a hart in the reserved mode.  The     *)
(* instructions that end the emulation on purpose (die_msg on an unknown   *)
(* instruction or a misaligned jump, the endless loop of URET) need no     *)
(* action: the specification asks for no fairness, so a behaviour may stop *)
(* after any step.                                                         *)
(*                                                                         *)
(* A definition named X_Word that stands right before X is a faulty        *)
(* variant of X: what a plausible mistake in that code would make of it.   *)
(* Nothing uses them; they show that the properties notice the mistake.    *)
(***************************************************************************)
EXTENDS Integers

CONSTANTS
    AddrSpace,   \* number of byte addresses: 2^XLEN
    Targets,     \* addresses the guest jumps to and stores in xtvec / xepc
    GuestOps,    \* the CSR instructions on bit registers the guest executes
    FaultCauses, \* causes raised by the memory system (pmp.c, mmu.c)
    Lines        \* interrupt lines of the SoC that may be asserted

VARIABLES
    phase,   \* "run", "irq" or "halt"
    priv,    \* rv_core->curr_priv_mode
    reg,     \* trap->regs_data: the bit registers
    tvec,    \* x_setup.tvec
    epc,     \* x_handling.epc
    pc,      \* rv_core->pc
    sync,    \* rv_core->sync_trap_cause, NoTrap when not sync_trap_pending
    taken,   \* the trap the last rv_core_prepare_interrupts took, if any
    exec,    \* history: address and first fault of the current instruction
    frame    \* history: the context each level's live handler interrupted

vars == <<phase, priv, reg, tvec, epc, pc, sync, taken, exec, frame>>

-----------------------------------------------------------------------------
(* Privilege levels (riscv_types.h), causes and status bits (trap.h)       *)

U == 0
S == 1
Reserved == 2
M == 3
Levels == {U, S, M}

NoTrap == -1
Exceptions == 0..15
Interrupts == 0..11
IllegalInstr == 2
UserEcall == 8
MachineSwi == 3
MachineTi == 7
SuperExti == 9
MachineExti == 11

UPIE == 4
SPP == 8
MPP0 == 11
MPP1 == 12

Bits == 0..31
Addr == 0..(AddrSpace - 1)

-----------------------------------------------------------------------------
(* The CSRs over bit registers: which storage each one aliases (trap_init),*)
(* the bits it shows (the masks of csr.h), and who may use it              *)
(* (rv_core_init_csr_regs).                                                *)

MachineCsrs == {"mstatus", "mie", "mip", "medeleg", "mideleg"}
SuperCsrs == {"sstatus", "sie", "sip", "sedeleg", "sideleg"}
Csrs == MachineCsrs \cup SuperCsrs \cup {"misa"}

Regs == {"status", "ie", "ip", "misa", "medeleg", "sedeleg", "uedeleg",
         "mideleg", "sideleg", "uideleg"}

RegOf(c) ==
    CASE c \in {"mstatus", "sstatus"} -> "status"
      [] c \in {"mie", "sie"} -> "ie"
      [] c \in {"mip", "sip"} -> "ip"
      [] OTHER -> c

SStatusMask == {0, 1, 4, 5, 8, 13, 14, 15, 16, 18, 19, 31}
SipSieMask == {0, 1, 4, 5, 8, 9}

Mask(c) ==
    CASE c = "mstatus" -> {0, 1, 3, 4, 5, 7, 8} \cup (11..22) \cup {31}
      [] c = "sstatus" -> SStatusMask
      [] c \in {"mie", "mip", "mideleg"} -> {0, 1, 3, 4, 5, 7, 8, 9, 11}
      [] c \in {"sie", "sip", "sideleg"} -> SipSieMask
      [] c = "medeleg" -> (0..9) \cup (12..15)
      [] c = "sedeleg" -> (0..8) \cup (12..15)
      [] OTHER -> Bits

ReadGranted(c, p) == p = M \/ (p = S /\ c \in SuperCsrs)
WriteGranted(c, p) == ReadGranted(c, p) /\ c # "misa"

(***************************************************************************)
(* A CSR instruction: op is CSRRW, CSRRS or CSRRC, in the register or the  *)
(* immediate form; val is the operand; x0 says that rd (CSRRW) or rs1      *)
(* (CSRRS, CSRRC) is register 0.                                           *)
(***************************************************************************)
CsrOps == [op : {"rw", "rs", "rc"}, csr : Csrs, val : SUBSET Bits, x0 : BOOLEAN]

LineNames == {"mei", "mti", "msi"}

ASSUME AddrSpaceAssumption == AddrSpace \in Nat /\ AddrSpace >= 8
ASSUME TargetsAssumption == Targets \subseteq Addr
ASSUME GuestOpsAssumption == GuestOps \subseteq CsrOps
ASSUME FaultCausesAssumption == FaultCauses \subseteq Exceptions
ASSUME LinesAssumption == Lines \subseteq LineNames

-----------------------------------------------------------------------------
(* Address arithmetic modulo 2^XLEN.                                       *)

Next4_NoWrap(a) == a + 4
Next4(a) == IF a + 4 >= AddrSpace THEN a + 4 - AddrSpace ELSE a + 4
Prev4_Same(a) == a
Prev4(a) == IF a < 4 THEN a - 4 + AddrSpace ELSE a - 4
Aligned(a) == a - (a % 4)

(* rv_core_run takes next_pc = 0 to mean that no jump was made.            *)
Goto(target) == IF target = 0 THEN Next4(pc) ELSE target

(* assign_xlen_bit, and the two-bit MPP field.                             *)
AssignBit(r, b, set) == IF set THEN r \cup {b} ELSE r \ {b}
SetMpp(r, p) == AssignBit(AssignBit(r, MPP0, p % 2 = 1), MPP1, p >= 2)
Mpp(r) == (IF MPP0 \in r THEN 1 ELSE 0) + (IF MPP1 \in r THEN 2 ELSE 0)
Spp(r) == IF SPP \in r THEN 1 ELSE 0

(* get_priv_regs, for the registers that are not shared.                   *)
Edeleg(x) == IF x = M THEN reg["medeleg"]
             ELSE IF x = S THEN reg["sedeleg"] ELSE reg["uedeleg"]
Ideleg(x) == IF x = M THEN reg["mideleg"]
             ELSE IF x = S THEN reg["sideleg"] ELSE reg["uideleg"]

-----------------------------------------------------------------------------
(* History: the context a trap into level x interrupted.  It is live until *)
(* the handler returns or the guest overwrites what the trap saved.        *)

NoFrame == [live |-> FALSE, priv |-> U, pc |-> 0, ie |-> FALSE]
Live(x) == frame[x].live

(* The last trap: the cause written to xcause (a register the emulator     *)
(* never reads back), the first fault of the instruction, the levels and   *)
(* the lines asserted when an interrupt was taken.                         *)
NoTaken == [irq |-> FALSE, cause |-> NoTrap, first |-> NoTrap,
            from |-> U, to |-> U, on |-> {}]
Idle == [pc |-> 0, fault |-> NoTrap]

(* The frames that a write of CSR c by instruction o overwrites.           *)
Overwritten(o) ==
    CASE o.csr = "mstatus" -> Levels
      [] o.csr = "sstatus" -> IF o.op = "rw" /\ o.x0 THEN Levels ELSE {U, S}
      [] OTHER -> {}
Drop(xs) == [x \in Levels |-> IF x \in xs THEN NoFrame ELSE frame[x]]

-----------------------------------------------------------------------------
(* Instructions                                                            *)

(* prepare_sync_trap: the first cause of an instruction wins.              *)
PrepareSyncTrap_Last(pending, c) == c
PrepareSyncTrap(pending, c) == IF pending = NoTrap THEN c ELSE pending

(* The bookkeeping every instruction shares: the loop goes on to           *)
(* rv_core_process_interrupts with the address and fault of this one.      *)
EndInstr(next, fault) ==
    /\ phase = "run"
    /\ phase' = "irq"
    /\ pc' = next
    /\ exec' = [pc |-> pc, fault |-> fault]
    /\ taken' = NoTaken

(* An instruction without effect on the trap unit; a jump or taken branch. *)
Plain ==
    /\ EndInstr(Next4(pc), NoTrap)
    /\ UNCHANGED <<priv, reg, tvec, epc, sync, frame>>

Jump ==
    /\ \E t \in Targets : t % 4 = 0 /\ EndInstr(Goto(t), NoTrap)
    /\ UNCHANGED <<priv, reg, tvec, epc, sync, frame>>

(* A fetch, load, store or AMO that faults; a page walk or an AMO may      *)
(* report a second fault for the same instruction.                         *)
Fault ==
    /\ \E c1 \in FaultCauses, c2 \in FaultCauses :
          /\ EndInstr(Next4(pc), c1)
          /\ sync' = PrepareSyncTrap(PrepareSyncTrap(sync, c1), c2)
    /\ UNCHANGED <<priv, reg, tvec, epc, frame>>

ECALL ==
    /\ EndInstr(Next4(pc), UserEcall + priv)
    /\ sync' = PrepareSyncTrap(sync, UserEcall + priv)
    /\ UNCHANGED <<priv, reg, tvec, epc, frame>>

IllegalInstruction ==
    /\ EndInstr(Next4(pc), IllegalInstr)
    /\ sync' = PrepareSyncTrap(sync, IllegalInstr)
    /\ UNCHANGED <<priv, reg, tvec, epc, frame>>

(* The value CSRRWx, CSRRSx and CSRRCx write.  CSRRWx reads the register   *)
(* only if rd is not x0; otherwise csr_val is 0, and so are the bits       *)
(* outside the mask.                                                       *)
NewCsrVal_Unmasked(o) ==
    LET old == reg[RegOf(o.csr)]
    IN  CASE o.op = "rw" -> o.val
          [] o.op = "rs" -> old \cup o.val
          [] o.op = "rc" -> old \ o.val
NewCsrVal(o) ==
    LET old == reg[RegOf(o.csr)]
        allowed == o.val \cap Mask(o.csr)
    IN  CASE o.op = "rw" -> IF o.x0 THEN allowed
                            ELSE (old \ Mask(o.csr)) \cup allowed
          [] o.op = "rs" -> old \cup allowed
          [] o.op = "rc" -> old \ allowed


CsrReads(o) == o.op # "rw" \/ ~o.x0
CsrWrites(o) == o.op = "rw" \/ ~o.x0
CsrAllowed(o) == /\ CsrReads(o) => ReadGranted(o.csr, priv)
                 /\ CsrWrites(o) => WriteGranted(o.csr, priv)

CsrAccess ==
    \E o \in GuestOps :
        IF CsrAllowed(o)
          THEN /\ EndInstr(Next4(pc), NoTrap)
               /\ IF CsrWrites(o)
                    THEN /\ reg' = [reg EXCEPT ![RegOf(o.csr)] = NewCsrVal(o)]
                         /\ frame' = Drop(Overwritten(o))
                    ELSE UNCHANGED <<reg, frame>>
               /\ UNCHANGED <<priv, tvec, epc, sync>>
          ELSE IllegalInstruction

(* A CSR instruction that leaves address v in stvec, sepc (x = S), mtvec   *)
(* or mepc (x = M).  The masks of xtvec clear its two low bits.            *)
WriteTvec ==
    \E x \in {S, M}, v \in Targets :
        IF priv \in Levels /\ priv >= x
          THEN /\ EndInstr(Next4(pc), NoTrap)
               /\ tvec' = [tvec EXCEPT ![x] = Aligned(v)]
               /\ UNCHANGED <<priv, reg, epc, sync, frame>>
          ELSE IllegalInstruction

WriteEpc ==
    \E x \in {S, M}, v \in Targets :
        IF priv \in Levels /\ priv >= x
          THEN /\ EndInstr(Next4(pc), NoTrap)
               /\ epc' = [epc EXCEPT ![x] = v]
               /\ frame' = Drop({x})
               /\ UNCHANGED <<priv, reg, tvec, sync>>
          ELSE IllegalInstruction

(* trap_restore_irq_settings(curr_priv_mode): the privilege to return to   *)
(* and the new status.                                                     *)
PreviousPriv(x, r) == IF x = M THEN Mpp(r) ELSE IF x = S THEN Spp(r) ELSE U
RestoredStatus_Keep(x, r) == r \ {UPIE + x}
RestoredStatus(x, r) == AssignBit(r, x, UPIE + x \in r) \ {UPIE + x}

(* instr_MRET and instr_SRET restore the CURRENT level; they differ in the *)
(* epc they jump to, and neither checks the privilege it runs at.          *)
Return(x) ==
    /\ EndInstr(Goto(epc[x]), NoTrap)
    /\ priv' = PreviousPriv(priv, reg["status"])
    /\ reg' = [reg EXCEPT !["status"] = RestoredStatus(priv, reg["status"])]
    /\ frame' = Drop({priv})
    /\ UNCHANGED <<tvec, epc, sync>>

MRET == Return(M)
SRET == Return(S)

-----------------------------------------------------------------------------
(* rv_core_process_interrupts                                              *)

(* trap_set_pending_bits: a pending bit follows its line only while the    *)
(* interrupt is enabled in ie.  SEIP follows the external line too.        *)
FollowLine_Latch(ip, b, asserted) ==
    IF b \in reg["ie"] /\ asserted THEN ip \cup {b} ELSE ip
FollowLine(ip, b, asserted) ==
    IF b \in reg["ie"] THEN AssignBit(ip, b, asserted) ELSE ip

SetPendingBits(on) ==
    LET ip1 == FollowLine(reg["ip"], MachineExti, "mei" \in on)
        ip2 == FollowLine(ip1, SuperExti, "mei" \in on)
        ip3 == FollowLine(ip2, MachineTi, "mti" \in on)
    IN  FollowLine(ip3, MachineSwi, "msi" \in on)

(* trap_check_exception_delegation                                         *)
ExceptionLevel_Unchecked(curr, c) ==
    IF c \notin Edeleg(M) THEN M ELSE IF c \notin Edeleg(S) THEN S ELSE U
ExceptionLevel(curr, c) ==
    IF c \notin Edeleg(M) \/ curr >= M THEN M
    ELSE IF c \notin Edeleg(S) \/ curr >= S THEN S
    ELSE U

(* trap_check_interrupt_pending: where the delegation loop stops.  It may  *)
(* stop one below curr, and then nobody serves the interrupt now.          *)
DelegationLevel(curr, i) ==
    IF i \notin Ideleg(M) THEN M
    ELSE IF curr = M THEN Reserved
    ELSE IF i \notin Ideleg(S) THEN S
    ELSE U

InterruptPending_NoGlobal(curr, i, ip) ==
    /\ i \in ip \cap reg["ie"]
    /\ curr <= DelegationLevel(curr, i)
InterruptPending_AnyIE(curr, i, ip) ==
    /\ i \in ip \cap reg["ie"]
    /\ curr <= DelegationLevel(curr, i)
    /\ \E b \in Levels : b <= DelegationLevel(curr, i) /\ b \in reg["status"]
InterruptPending(curr, i, ip) ==
    /\ i \in ip \cap reg["ie"]
    /\ \E b \in Levels : /\ curr <= b /\ b <= DelegationLevel(curr, i)
                         /\ b \in reg["status"]

(* trap_serve_interrupt: the status of a trap from level `from' into x.    *)
ServedStatus_KeepIE(x, from, r) ==
    LET r1 == IF x = M THEN SetMpp(r, from)
              ELSE IF x = S THEN AssignBit(r, SPP, from % 2 = 1)
              ELSE r
    IN  AssignBit(r1, UPIE + x, x \in r1)
ServedStatus(x, from, r) ==
    LET r1 == IF x = M THEN SetMpp(r, from)
              ELSE IF x = S THEN AssignBit(r, SPP, from % 2 = 1)
              ELSE r
    IN  AssignBit(r1, UPIE + x, x \in r1) \ {x}


Serve(x, isIrq, c, ip, on) ==
    /\ epc' = [epc EXCEPT ![x] = IF isIrq THEN pc ELSE Prev4(pc)]
    /\ reg' = [reg EXCEPT !["ip"] = ip,
                          !["status"] = ServedStatus(x, priv, reg["status"])]
    /\ pc' = tvec[x]
    /\ priv' = x
    /\ taken' = [irq |-> isIrq, cause |-> c, first |-> exec.fault,
                  from |-> priv, to |-> x, on |-> IF isIrq THEN on ELSE {}]
    /\ frame' = [frame EXCEPT ![x] =
                    [live |-> TRUE, priv |-> priv, ie |-> x \in reg["status"],
                     pc |-> IF isIrq THEN pc ELSE exec.pc]]

(* rv_core_prepare_interrupts: a synchronous trap first, else the pending  *)
(* interrupt of the highest number.                                        *)
ServeSyncTrap(on) ==
    /\ sync # NoTrap
    /\ Serve(ExceptionLevel(priv, sync), FALSE, sync, SetPendingBits(on), on)

ServeInterrupt(i, on) ==
    /\ sync = NoTrap
    /\ priv # Reserved
    /\ LET ip == SetPendingBits(on)
       IN  /\ InterruptPending(priv, i, ip)
           /\ \A j \in Interrupts : j > i => ~InterruptPending(priv, j, ip)
           /\ Serve(DelegationLevel(priv, i), TRUE, i, ip, on)

NothingToServe(on) ==
    /\ sync = NoTrap
    /\ priv # Reserved
    /\ \A i \in Interrupts : ~InterruptPending(priv, i, SetPendingBits(on))
    /\ reg' = [reg EXCEPT !["ip"] = SetPendingBits(on)]
    /\ UNCHANGED <<priv, epc, pc, taken, frame>>

ProcessInterrupts ==
    /\ phase = "irq"
    /\ phase' = "run"
    /\ sync' = NoTrap
    /\ exec' = Idle
    /\ UNCHANGED tvec
    /\ \E on \in SUBSET Lines :
          \/ ServeSyncTrap(on)
          \/ \E i \in Interrupts : ServeInterrupt(i, on)
          \/ NothingToServe(on)

(* get_priv_regs(reserved_mode) is NULL and trap_check_interrupt_pending   *)
(* dereferences it.                                                        *)
NullDereference ==
    /\ phase = "irq" /\ sync = NoTrap /\ priv = Reserved
    /\ phase' = "halt"
    /\ UNCHANGED <<priv, reg, tvec, epc, pc, sync, taken, exec, frame>>

-----------------------------------------------------------------------------
(* RV_SUPPORTED_EXTENSIONS and the XLEN field: A, I, M, S, U and MXL = 1.  *)
Extensions == {0, 8, 12, 18, 20, 30}

(* rv_core_init: machine mode, every trap register zero except misa.  pc   *)
(* is the reset vector, here address 4.                                    *)
Init ==
    /\ phase = "run"
    /\ priv = M
    /\ reg = [r \in Regs |-> IF r = "misa" THEN Extensions ELSE {}]
    /\ tvec = [x \in Levels |-> 0]
    /\ epc = [x \in Levels |-> 0]
    /\ pc = 4
    /\ sync = NoTrap
    /\ taken = NoTaken
    /\ exec = Idle
    /\ frame = [x \in Levels |-> NoFrame]

Instruction ==
    \/ Plain \/ Jump \/ Fault \/ ECALL \/ CsrAccess \/ WriteTvec \/ WriteEpc
    \/ MRET \/ SRET

Next == Instruction \/ ProcessInterrupts \/ NullDereference

Spec == Init /\ [][Next]_vars

-----------------------------------------------------------------------------
(* What one cycle knows: the pending exception is the first fault of the   *)
(* instruction at exec.pc, pc is past it, and no instruction starts in the *)
(* reserved mode.  The invariants below rest on this one.                  *)
CycleConsistent ==
    /\ phase = "irq" => sync = exec.fault /\ ~taken.irq
    /\ phase # "irq" => sync = NoTrap
    /\ phase = "irq" /\ sync # NoTrap => pc = Next4(exec.pc) /\ priv # Reserved
    /\ phase = "run" => priv # Reserved
    /\ Live(S) /\ priv = M => MPP0 \in reg["status"]
    /\ taken.irq => taken.from # Reserved /\ Live(taken.to)

-----------------------------------------------------------------------------
(* Properties                                                              *)

FrameType == [live : BOOLEAN, priv : 0..3, pc : Addr, ie : BOOLEAN]

(* Type correctness of the trap unit's state.                              *)
TypeOK ==
    /\ phase \in {"run", "irq", "halt"}
    /\ priv \in 0..3
    /\ reg \in [Regs -> SUBSET Bits]
    /\ tvec \in [Levels -> Addr]
    /\ epc \in [Levels -> Addr]
    /\ pc \in Addr
    /\ sync \in {NoTrap} \cup Exceptions
    /\ taken \in [irq : BOOLEAN, cause : {NoTrap} \cup Exceptions,
                  first : {NoTrap} \cup Exceptions, from : 0..3, to : Levels, on : SUBSET Lines]
    /\ exec \in [pc : Addr, fault : {NoTrap} \cup Exceptions]
    /\ frame \in [Levels -> FrameType]

(* The saved context of a live handler is the one it interrupted: epc is   *)
(* the faulting instruction (exception, although serving computes pc - 4)  *)
(* or the next one (interrupt), xPP and xPIE are the interrupted privilege *)
(* and enable bit, whatever traps into other levels happened since.        *)
FrameIntact ==
    \A x \in Levels : Live(x) =>
        /\ epc[x] = frame[x].pc
        /\ PreviousPriv(x, reg["status"]) = frame[x].priv
        /\ (UPIE + x \in reg["status"]) <=> frame[x].ie

(* "Interrupts will be disabled during the handling" (core.c:1725): while  *)
(* level x handles a trap its xIE is off, the hart is at x or above, and   *)
(* what sits above returns no lower than x.                                *)
HandlerShielded ==
    \A x \in Levels : Live(x) =>
        /\ x \notin reg["status"]
        /\ priv >= x
        /\ priv > x => PreviousPriv(priv, reg["status"]) >= x

(* An interrupt is taken only into a level above the interrupted one, or   *)
(* into the same level with its xIE on, and only if enabled in ie.         *)
InterruptAllowed ==
    taken.irq => /\ taken.cause \in reg["ie"]
                 /\ \/ taken.to > taken.from
                    \/ taken.to = taken.from /\ frame[taken.to].ie

(* A machine external, timer or software interrupt is taken only in a      *)
(* cycle whose line is asserted, although mip keeps stale bits while the   *)
(* enable bit is off and the guest may write mip itself.  The supervisor's *)
(* external interrupt is left out: software may raise it, too (see         *)
(* SeipIsLogicalOr).                                                       *)
NoSpuriousInterrupt ==
    taken.irq => /\ taken.cause = MachineExti => "mei" \in taken.on
                 /\ taken.cause = MachineTi => "mti" \in taken.on
                 /\ taken.cause = MachineSwi => "msi" \in taken.on

(* The exception of an instruction is served in its own cycle, reports the *)
(* FIRST fault of that instruction and goes before any interrupt ("This    *)
(* ensures atomicity among sync traps and Interrupts", core.c:1726).       *)
ExceptionAtomic ==
    /\ phase = "run" => sync = NoTrap
    /\ taken.irq => taken.first = NoTrap
    /\ ~taken.irq => taken.cause = taken.first

(* Instructions never raise the privilege, traps never lower it.           *)
PrivilegeDiscipline ==
    [][ /\ phase = "run" => priv' <= priv
        /\ phase = "irq" => priv' >= priv ]_vars

(* No interrupt enters a level whose handler is still live: the saved      *)
(* context of a handler is lost only to its own exceptions.                *)
HandlerNotReentered == [][ taken'.irq /\ phase = "irq" => ~Live(taken'.to) ]_vars

(* What an instruction below machine mode may do to the registers.         *)
NoEscalation ==
    /\ reg'["status"] \ SStatusMask \subseteq reg["status"]
    /\ reg'["ie"] \ SipSieMask \subseteq reg["ie"]
    /\ reg'["ip"] \ SipSieMask \subseteq reg["ip"]
    /\ \A r \in {"medeleg", "mideleg", "misa"} : reg'[r] = reg[r]
    /\ tvec'[M] = tvec[M] /\ epc'[M] = epc[M]

(* Below machine mode no instruction sets a bit of a shared register that  *)
(* the supervisor view hides, nor touches the machine's own registers.     *)
NoEscalationThroughViews == [][phase = "run" /\ priv < M => NoEscalation]_vars

(* An xRET of a live handler resumes the interrupted context: privilege,   *)
(* enable bit and, unless it is address 0, the interrupted address.        *)
ReturnResumes ==
    [][ \A x \in {S, M} : Return(x) /\ priv = x /\ Live(x) =>
          /\ priv' = frame[x].priv
          /\ frame[x].pc # 0 => pc' = frame[x].pc
          /\ (x \in reg'["status"]) <=> frame[x].ie ]_vars

(* trap.h:148, "shared registers, with restricted views depending on the   *)
(* priv level": an instruction below machine mode leaves the bits outside  *)
(* the supervisor's view as they are.                                      *)
SupervisorViewRestricted ==
    [][ phase = "run" /\ priv < M =>
          /\ reg'["status"] \ SStatusMask = reg["status"] \ SStatusMask
          /\ reg'["ie"] \ SipSieMask = reg["ie"] \ SipSieMask
          /\ reg'["ip"] \ SipSieMask = reg["ip"] \ SipSieMask ]_vars

(* trap.c:148, "The logical-OR of the software-writeable bit and the       *)
(* signal from the external interrupt controller is used": while the       *)
(* controller is silent a software-written SEIP stays pending until an     *)
(* instruction clears it.                                                  *)
SeipIsLogicalOr ==
    [][ phase = "irq" /\ SuperExti \in reg["ip"] => SuperExti \in reg'["ip"] ]_vars
=============================================================================
