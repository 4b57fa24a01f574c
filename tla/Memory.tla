------------------------------- MODULE Memory -------------------------------
(***************************************************************************)
(* The memory instructions of src/src/core/core.c: instruction fetch,      *)
(* loads, stores, LR, SC and the AMOs, through mmu_checked_bus_access and  *)
(* pmp_checked_bus_access, with the page tables in the memory they access. *)
(*                                                                         *)
(* A step is one instruction, the trap entry that serves its exception, or *)
(* a change of privilege or of the registers that control translation,     *)
(* which software makes in between.  Every instruction accesses a word;    *)
(* byte and halfword accesses differ in the extension of the value only.   *)
(* Registers are x0 and the ones in Regs; the operand of an AMO is any     *)
(* function on words.  The address register is not a destination.          *)
(*                                                                         *)
(* The guest is external.  Untranslated accesses of it go to DataFrames:   *)
(* the page tables are there from the start, and change when a page maps   *)
(* them.  A definition X_Word right before X is a faulty variant of X.     *)
(***************************************************************************)
EXTENDS Mmu

CONSTANTS
    Regs,        \* general registers besides x0
    Values,      \* words the guest loads into registers, Zero among them
    AmoOps,      \* the AMOs
    AmoResult(_, _, _),  \* what an AMO stores, of the old word and rs2
    Images,      \* memory contents when the guest starts
    PmpConfigs,  \* what the PMP may be set to grant below machine mode
    Statuses,    \* what the guest writes to mstatus
    DataFrames,  \* frames the guest accesses untranslated
    Vas          \* virtual addresses the guest uses

VARIABLES
    mem,         \* physical memory
    x,           \* rv_core->x
    priv,        \* rv_core->curr_priv_mode
    status,      \* mstatus: mprv, mpp, sum, mxr
    satpOn,      \* satp.MODE; the root table is frame 0
    allowed,     \* the PMP
    lr,          \* lr_address if lr_valid, else NoAddr
    trap         \* sync_trap_cause and whose it is, NoTrap if none pending

vars == <<mem, x, priv, status, satpOn, allowed, lr, trap>>
control == <<priv, status, satpOn, allowed>>

x0 == 0
Root == 0
NoAddr == <<>>
NoTrap == [cause |-> "none", op |-> "none"]
Causes == {"none", "instr_access", "load_access", "store_access",
           "instr_page", "load_page", "store_page"}
Ops == {"none", "fetch", "load", "store", "lr", "sc", "amo"}
Status == [mprv : BOOLEAN, mpp : Levels, sum : BOOLEAN, mxr : BOOLEAN]
Registers == {x0} \cup Regs

ASSUME RegsAssumption == x0 \notin Regs
ASSUME ValuesAssumption == Zero \in Values /\ Values \subseteq Word
ASSUME StatusesAssumption == Statuses \subseteq Status
ASSUME ImagesAssumption == Images \subseteq [PhysAddr -> Word]
ASSUME AmoAssumption == \A op \in AmoOps, v, w \in Word : AmoResult(op, v, w) \in Word
ASSUME PmpAssumption == PmpConfigs \subseteq SUBSET (Frames \X Accesses)
ASSUME GuestAssumption == DataFrames \subseteq Frames /\ Vas \subseteq VirtAddr

-----------------------------------------------------------------------------
(* mmu_checked_bus_access and pmp_checked_bus_access                       *)

(* check_mprv_override                                                     *)
EffectivePriv_Ignored(acc) == priv
EffectivePriv(acc) ==
    IF acc # "instr" /\ status.mprv THEN status.mpp ELSE priv

Granted_Page(p, f, acc) == TRUE
Granted(p, f, acc) == p = M \/ <<f, acc>> \in allowed

AccessFault(acc) ==
    CASE acc = "instr" -> "instr_access" [] acc = "read" -> "load_access"
      [] acc = "write" -> "store_access"
PageFaultOf(acc) ==
    CASE acc = "instr" -> "instr_page" [] acc = "read" -> "load_page"
      [] acc = "write" -> "store_page"

(* One access: where it goes, whether it is performed, and the first cause *)
(* it reports, "none" if it reports none.                                  *)
BusAccess(va, acc) ==
    LET p == EffectivePriv(acc)
        t == Translate(mem, allowed, satpOn, Root, va, p, acc, status.sum, status.mxr)
        done == t.ok /\ Granted(p, t.pa[1], acc)
    IN  [done |-> done, pa |-> t.pa,
         cause |-> IF t.refused THEN "load_access"
                   ELSE IF ~t.ok THEN PageFaultOf(acc)
                   ELSE IF ~done THEN AccessFault(acc)
                   ELSE "none"]

(* What the guest may access in this state.                                *)
Reachable(va, acc) ==
    EffectivePriv(acc) = M \/ ~satpOn => Frame(Entries * va[1] + va[2]) \in DataFrames

(* prepare_sync_trap: the first cause counts.                              *)
FirstCause(c1, c2) == IF c1 # "none" THEN c1 ELSE c2
Raise(c, op) == trap' = IF c = "none" THEN NoTrap ELSE [cause |-> c, op |-> op]

(* x0 reads as zero again when the instruction is over (rv_core_execute).  *)
SetReg_X0(rd, v) == [x EXCEPT ![rd] = v]
SetReg(rd, v) == IF rd = x0 THEN x ELSE [x EXCEPT ![rd] = v]

-----------------------------------------------------------------------------
(* Instructions                                                            *)

Ready == trap = NoTrap /\ UNCHANGED control

Fetch(va) ==
    /\ Ready
    /\ Reachable(va, "instr")
    /\ Raise(BusAccess(va, "instr").cause, "fetch")
    /\ UNCHANGED <<mem, x, lr>>

LoadInto(va, rd, op) ==
    LET b == BusAccess(va, "read")
    IN  /\ x' = IF b.done THEN SetReg(rd, mem[b.pa]) ELSE x
        /\ Raise(b.cause, op)
        /\ UNCHANGED mem

Load(va, rd) ==
    /\ Ready
    /\ Reachable(va, "read")
    /\ LoadInto(va, rd, "load")
    /\ UNCHANGED lr

Stored_Always(b, v) == [mem EXCEPT ![b.pa] = v]
Stored(b, v) == IF b.done THEN [mem EXCEPT ![b.pa] = v] ELSE mem

Store(va, rs2) ==
    /\ Ready
    /\ Reachable(va, "write")
    /\ LET b == BusAccess(va, "write")
       IN  mem' = Stored(b, x[rs2]) /\ Raise(b.cause, "store")
    /\ UNCHANGED <<x, lr>>

(* The reservation is made whether or not the load succeeds.               *)
LR(va, rd) ==
    /\ Ready
    /\ Reachable(va, "read")
    /\ lr' = va
    /\ LoadInto(va, rd, "lr")

(* rd says success whether or not the store succeeds.                      *)
One == [Zero EXCEPT !.v = TRUE]

SC(va, rd, rs2) ==
    /\ Ready
    /\ Reachable(va, "write")
    /\ lr' = NoAddr
    /\ IF lr = va
       THEN LET b == BusAccess(va, "write")
            IN  /\ mem' = Stored(b, x[rs2])
                /\ Raise(b.cause, "sc")
                /\ x' = SetReg(rd, Zero)
       ELSE x' = SetReg(rd, One) /\ UNCHANGED <<mem, trap>>

(* An AMO reads rs2, loads into rd, and stores a function of rd and rs2;   *)
(* the store is made even if the load has failed, of what rd held before.  *)
Operand_Late(rd, rs2, loaded) == IF rd = rs2 THEN loaded ELSE x[rs2]
Operand(rd, rs2, loaded) == x[rs2]

AMO(va, rd, rs2, op) ==
    /\ Ready
    /\ Reachable(va, "read") /\ Reachable(va, "write")
    /\ LET b1 == BusAccess(va, "read")
           b2 == BusAccess(va, "write")
           loaded == IF b1.done THEN mem[b1.pa] ELSE x[rd]
       IN  /\ x' = SetReg(rd, loaded)
           /\ mem' = Stored(b2, AmoResult(op, loaded, Operand(rd, rs2, loaded)))
           /\ Raise(FirstCause(b1.cause, b2.cause), "amo")
    /\ UNCHANGED lr

-----------------------------------------------------------------------------
(* Between the instructions: the trap unit (Trap.tla) and CSR writes.      *)

ServeTrap ==
    /\ trap # NoTrap
    /\ trap' = NoTrap
    /\ \E p \in {S, M} :
          /\ p >= priv
          /\ priv' = p
          /\ status' = IF p = M THEN [status EXCEPT !.mpp = priv] ELSE status
    /\ UNCHANGED <<mem, x, satpOn, allowed, lr>>

Return ==
    /\ trap = NoTrap
    /\ \/ priv = M /\ priv' = status.mpp
       \/ priv = S /\ priv' \in {U, S}
    /\ UNCHANGED <<mem, x, status, satpOn, allowed, lr, trap>>

(* Through sstatus the machine's fields keep their value or, by CSRRW with *)
(* rd = x0, are cleared (SupervisorViewRestricted of Trap.tla).            *)
WriteStatus ==
    /\ trap = NoTrap
    /\ \E s \in Statuses :
          \/ priv = M /\ status' = s
          \/ priv = S /\ status' \in {[s EXCEPT !.mprv = status.mprv, !.mpp = status.mpp],
                                     [s EXCEPT !.mprv = FALSE, !.mpp = U]}
    /\ UNCHANGED <<mem, x, priv, satpOn, allowed, lr, trap>>

WriteSatp ==
    /\ trap = NoTrap
    /\ priv \in {S, M}
    /\ satpOn' \in BOOLEAN
    /\ UNCHANGED <<mem, x, priv, status, allowed, lr, trap>>

WritePmp ==
    /\ trap = NoTrap
    /\ priv = M
    /\ allowed' \in PmpConfigs
    /\ UNCHANGED <<mem, x, priv, status, satpOn, lr, trap>>

(* Any instruction that computes, abstracted to its result.                *)
Compute(rd, v) ==
    /\ Ready
    /\ x' = SetReg(rd, v)
    /\ UNCHANGED <<mem, lr, trap>>

Init ==
    /\ mem \in Images
    /\ x = [r \in Registers |-> Zero]
    /\ priv = M
    /\ status = [mprv |-> FALSE, mpp |-> U, sum |-> FALSE, mxr |-> FALSE]
    /\ satpOn = FALSE
    /\ allowed \in PmpConfigs
    /\ lr = NoAddr
    /\ trap = NoTrap

Instruction ==
    \E va \in Vas, rd, rs2 \in Registers :
        \/ Fetch(va)
        \/ Load(va, rd)
        \/ Store(va, rs2)
        \/ LR(va, rd)
        \/ SC(va, rd, rs2)
        \/ \E op \in AmoOps : AMO(va, rd, rs2, op)

Next ==
    \/ Instruction
    \/ \E rd \in Regs, v \in Values : Compute(rd, v)
    \/ ServeTrap
    \/ Return
    \/ WriteStatus
    \/ WriteSatp
    \/ WritePmp

Spec == Init /\ [][Next]_vars

-----------------------------------------------------------------------------
(* Properties                                                              *)

(* Type correctness; x0 is zero between instructions.                      *)
TypeOK ==
    /\ mem \in [PhysAddr -> Word]
    /\ x \in [Registers -> Word] /\ x[x0] = Zero
    /\ priv \in Levels
    /\ status \in Status
    /\ satpOn \in BOOLEAN
    /\ allowed \in PmpConfigs
    /\ lr \in Vas \cup {NoAddr}
    /\ trap \in [cause : Causes, op : Ops] /\ (trap.cause = "none" => trap = NoTrap)

(***************************************************************************)
(* The algorithm that the comments of mmu_virt_to_phys quote, stated as    *)
(* what must hold: va is translated by the leaf entry e of level i, under a*)
(* pointer if i = 0, and every entry on the way may be read.  Entries are  *)
(* where the 32-bit bus finds them; the address they map va to is not cut. *)
(***************************************************************************)
EntryAt(va, i) ==
    IF i = 1 THEN mem[<<Root, va[1]>>]
    ELSE mem[<<Frame(mem[<<Root, va[1]>>].ppn), va[2]>>]

IsPointer(e) == e.v /\ ~e.r /\ ~e.w /\ ~e.x

Maps(va, i, p, acc) ==
    LET e == EntryAt(va, i)
    IN  /\ <<Root, "read">> \in allowed
        /\ i = 0 => /\ IsPointer(EntryAt(va, 1))
                    /\ <<Frame(EntryAt(va, 1).ppn), "read">> \in allowed
        /\ e.v /\ e.a /\ (e.w => e.r)
        /\ IF p = U THEN e.u ELSE e.u => status.sum
        /\ \/ acc = "read" /\ (e.r \/ (e.x /\ status.mxr))
           \/ acc = "write" /\ e.w /\ e.d
           \/ acc = "instr" /\ e.x
        /\ i = 1 => \E k \in 0..e.ppn : e.ppn = k * Entries

Target(va, i) == <<EntryAt(va, i).ppn + (IF i = 1 THEN va[2] ELSE 0), va[3]>>

(* What the bus makes of a 34-bit address.                                 *)
OnBus(pa) == <<Frame(pa[1]), pa[2]>>

(* The page numbers on the way of va are below 2^32.                       *)
Narrow(va) ==
    /\ EntryAt(va, 1).ppn \in Frames
    /\ IsPointer(EntryAt(va, 1)) => EntryAt(va, 0).ppn \in Frames

Pages == {va \in VirtAddr : va[3] = 0}

(* As long as no page number exceeds 32 bits, the walk succeeds just where *)
(* that definition maps the page, with its frame; in particular a walk     *)
(* whose page-table read the PMP refused never succeeds, although          *)
(* mmu_virt_to_phys ignores the refusal.                                   *)
WalkMeetsSpec ==
    \A va \in Pages, p \in {U, S}, acc \in Accesses : Narrow(va) =>
        LET t == Walk(mem, allowed, Root, va, p, acc, status.sum, status.mxr)
        IN  /\ t.ok <=> \E i \in {0, 1} : Maps(va, i, p, acc)
            /\ t.ok => /\ ~t.refused
                       /\ \E i \in {0, 1} : Maps(va, i, p, acc) /\ t.pa = Target(va, i)

(* "physical addresses are 34 Bit wide!!! even on RV32 systems"            *)
(* (mmu.c:309): a translation that software below machine mode can use     *)
(* leads to the address its entry names, however high that is.             *)
PhysicalAddressesAreWide ==
    satpOn /\ priv # M =>
        \A va \in Pages, acc \in Accesses :
            LET t == Walk(mem, allowed, Root, va, priv, acc, status.sum, status.mxr)
            IN  t.ok => \E i \in {0, 1} : Maps(va, i, priv, acc) /\ t.pa = Target(va, i)

(* A word of memory changes only if the PMP lets the effective privilege   *)
(* level write it and, under translation, some page maps it as writable    *)
(* for that level: stores, SC and AMOs never reach around either check.    *)
StoreConfined ==
    [][ \A pa \in PhysAddr : mem'[pa] # mem[pa] =>
          LET p == IF status.mprv THEN status.mpp ELSE priv
          IN  \/ p = M
              \/ /\ <<pa[1], "write">> \in allowed
                 /\ satpOn => \E va \in VirtAddr, i \in {0, 1} :
                                 Maps(va, i, p, "write") /\ pa = OnBus(Target(va, i)) ]_vars

(* An instruction that traps can be executed again: it has not changed     *)
(* memory, although an AMO stores without looking at the result of its     *)
(* load, and only SC and AMOs may have changed their destination.  The one *)
(* exception is an AMO on a region that the PMP lets the hart write and    *)
(* not read, which stores and reports that its load was refused.           *)
FaultAtomic ==
    [][ trap = NoTrap /\ trap' # NoTrap =>
          /\ \A pa \in PhysAddr : mem'[pa] # mem[pa] =>
                /\ trap' = [cause |-> "load_access", op |-> "amo"]
                /\ <<pa[1], "write">> \in allowed /\ <<pa[1], "read">> \notin allowed
          /\ x' = x \/ trap'.op \in {"sc", "amo"} ]_vars

(* An AMO that does not trap returns the old word and stores its function  *)
(* of that word and rs2 in the same place, also if rd is rs2 or x0.        *)
AmoExact ==
    [][ trap' = NoTrap /\ lr' = lr =>
          \A va \in Vas, rd, rs2 \in Registers, op \in AmoOps :
            AMO(va, rd, rs2, op) =>
              LET pa == BusAccess(va, "read").pa
              IN  /\ mem' = [mem EXCEPT ![pa] = AmoResult(op, mem[pa], x[rs2])]
                  /\ rd # x0 => x'[rd] = mem[pa] ]_vars
=============================================================================
