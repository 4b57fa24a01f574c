-------------------------------- MODULE Pmp --------------------------------
(***************************************************************************)
(* Physical memory protection, src/src/core/pmp/pmp.c: the configuration   *)
(* and address registers, their locks, and the check of every access.      *)
(*                                                                         *)
(* The registers change only by CSR instructions of machine mode: their    *)
(* CSRs are CSR_ACCESS_RW(machine_mode) and the callbacks ask again.       *)
(* Nothing unlocks an entry but a reset, that is a new process.            *)
(*                                                                         *)
(* A definition X_Word right before X is a faulty variant of X, used to    *)
(* see that the properties notice it.                                      *)
(***************************************************************************)
EXTENDS Integers

CONSTANTS
    NrEntries,  \* PMP_NR_ADDR_REGS: 16
    PerReg,     \* configuration bytes in a register: sizeof(rv_uint_xlen)
    XlenMod,    \* 2^XLEN
    CfgVals,    \* configuration bytes the guest writes
    AddrVals,   \* address register values the guest writes
    Probes      \* addresses of accesses that are checked

VARIABLES
    cfg,     \* pmp->cfg, one byte per entry
    addr,    \* pmp->addr
    dropped  \* history: the address register whose write was just dropped

vars == <<cfg, addr, dropped>>

U == 0
S == 1
M == 3
Privs == {U, S, M}
Accesses == {"r", "w", "x"}
Lens == {1, 2, 4}   \* the lengths of RV32 loads, stores and fetches

Entries == 0..(NrEntries - 1)
Words == 0..(XlenMod - 1)
Modes == {"off", "tor", "na4", "napot"}
Cfg == [lock : BOOLEAN, mode : Modes, perm : SUBSET Accesses]
Off == [lock |-> FALSE, mode |-> "off", perm |-> {}]
NoReg == -1

(* The number of one bits below the lowest zero bit.                       *)
LowOnes == [a \in Words |-> CHOOSE t \in 0..31 : a % (2^(t + 1)) = 2^t - 1]

ASSUME SizesAssumption ==
    /\ NrEntries \in Nat /\ PerReg \in Nat /\ PerReg > 0 /\ NrEntries > PerReg
    /\ NrEntries % PerReg = 0
    /\ XlenMod \in Nat /\ XlenMod >= 256 /\ XlenMod % 4 = 0
ASSUME ValsAssumption == CfgVals \subseteq Cfg /\ AddrVals \subseteq Words
ASSUME ProbesAssumption == Probes \subseteq Words

-----------------------------------------------------------------------------
(* The CSR writes                                                          *)

(* pmp_write_csr_cfg: locked bytes keep their value, the others of the     *)
(* same register are written.                                              *)
CfgWritable(i) == ~cfg[i].lock

WriteCfg(r, new) ==
    /\ cfg' = [i \in Entries |-> IF i \div PerReg = r /\ CfgWritable(i)
                                   THEN new[i % PerReg] ELSE cfg[i]]
    /\ dropped' = NoReg
    /\ UNCHANGED addr

(* cfg_ptr[cfg_idx+1].  For the last entry that is the byte behind cfg,    *)
(* the low byte of pmpaddr0: bit 7 is L, bits 4 and 3 are A.               *)
ModeOf(byte) == <<"off", "tor", "na4", "napot">>[((byte \div 8) % 4) + 1]
NextIsLockedTor_Never(i) == FALSE
NextIsLockedTor(i) ==
    /\ i % PerReg < NrEntries - 1
    /\ IF i + 1 \in Entries
         THEN cfg[i + 1].mode = "tor" /\ cfg[i + 1].lock
         ELSE ModeOf(addr[0]) = "tor" /\ (addr[0] \div 128) % 2 = 1

(* pmp_write_csr_addr *)
WriteAddr(i, v) ==
    /\ IF NextIsLockedTor(i) \/ cfg[i].lock
         THEN dropped' = i /\ UNCHANGED addr
         ELSE addr' = [addr EXCEPT ![i] = v] /\ dropped' = NoReg
    /\ UNCHANGED cfg

-----------------------------------------------------------------------------
(* pmp_mem_check                                                           *)

Shl2(a) == (4 * a) % XlenMod
AllOnes == XlenMod - 1

(* get_pmp_napot_size_from_pmpaddr and get_pmp_napot_addr_from_pmpaddr.    *)
NapotSize(a) == (2^(LowOnes[a] + 3)) % XlenMod
NapotAddr(a) == Shl2(a - (((NapotSize(a) \div 2) - 1) \div 4))

RegionStart(i) ==
    CASE cfg[i].mode = "tor"   -> IF i = 0 THEN 0 ELSE Shl2(addr[i - 1])
      [] cfg[i].mode = "napot" -> IF addr[i] = AllOnes THEN 0 ELSE NapotAddr(addr[i])
      [] OTHER                 -> Shl2(addr[i])

RegionSize(i) ==
    CASE cfg[i].mode = "tor"   -> (Shl2(addr[i]) - RegionStart(i)) % XlenMod
      [] cfg[i].mode = "napot" -> IF addr[i] = AllOnes THEN AllOnes ELSE NapotSize(addr[i])
      [] OTHER                 -> 4

(* ADDR_WITHIN *)
Within(x, i) ==
    /\ x >= RegionStart(i)
    /\ x < (RegionStart(i) + RegionSize(i)) % XlenMod

(* The entries that count for privilege p.                                 *)
Considered(p) == {i \in Entries : cfg[i].mode # "off" /\ (p = M => cfg[i].lock)}

(* The first entry that contains one end of the access decides; only       *)
(* machine mode may cross its border.                                      *)
pmp_mem_check_LowEnd(p, a, len, t) ==
    LET matching == {i \in Considered(p) : Within(a, i)}
    IN  IF matching = {} THEN p = M
        ELSE \E i \in matching : t \in cfg[i].perm /\ \A j \in matching : i <= j
pmp_mem_check(p, a, len, t) ==
    LET end == (a + len - 1) % XlenMod
        matching == {i \in Considered(p) : Within(a, i) \/ Within(end, i)}
    IN  IF matching = {} THEN p = M
        ELSE \E i \in matching :
               /\ \A j \in matching : i <= j
               /\ t \in cfg[i].perm
               /\ p = M \/ (Within(a, i) /\ Within(end, i))

-----------------------------------------------------------------------------
(* memset of rv_core_init *)
Init ==
    /\ cfg = [i \in Entries |-> Off]
    /\ addr = [i \in Entries |-> 0]
    /\ dropped = NoReg

Next ==
    \/ \E r \in 0..(NrEntries \div PerReg - 1), new \in [0..(PerReg - 1) -> CfgVals] :
          WriteCfg(r, new)
    \/ \E i \in Entries, v \in AddrVals : WriteAddr(i, v)

Spec == Init /\ [][Next]_vars

-----------------------------------------------------------------------------
(* Properties                                                              *)

(* Type correctness.                                                       *)
TypeOK ==
    /\ cfg \in [Entries -> Cfg]
    /\ addr \in [Entries -> Words]
    /\ dropped \in {NoReg} \cup Entries

(* "this can only be cleared by a reset" (pmp.c:28): once locked, an entry *)
(* keeps its configuration and the memory it covers, also through the      *)
(* address register of the entry before it that a TOR region starts at.    *)
LockedRegionFrozen ==
    [][ \A i \in Entries : cfg[i].lock =>
          /\ cfg'[i] = cfg[i]
          /\ RegionStart(i)' = RegionStart(i)
          /\ RegionSize(i)' = RegionSize(i) ]_vars

(* The bytes an entry covers, by definition of its mode and without        *)
(* wrap-around.                                                            *)
RegionEnd(i) ==
    CASE cfg[i].mode = "napot" -> 4 * (addr[i] - (2^LowOnes[addr[i]] - 1))
                                    + 2^(LowOnes[addr[i]] + 3)
      [] cfg[i].mode = "na4"   -> 4 * addr[i] + 4
      [] OTHER                 -> 4 * addr[i]
Covers(i, b) ==
    CASE cfg[i].mode = "tor"   -> (i = 0 \/ 4 * addr[i - 1] <= b) /\ b < 4 * addr[i]
      [] cfg[i].mode = "na4"   -> b \div 4 = addr[i]
      [] cfg[i].mode = "napot" -> LET n == 2^(LowOnes[addr[i]] + 1)
                                  IN  (b \div 4) \div n = addr[i] \div n
      [] OTHER                 -> FALSE

(* Some entry is in use.                                                   *)
SomeActive == \E i \in Entries : cfg[i].mode # "off"

(* What the check should answer, byte by byte, when PMP is in use: the     *)
(* first entry that counts and covers some byte decides, by its            *)
(* permissions; below machine mode it must cover all bytes.                *)
Granted(p, a, len, t) ==
    LET bytes == {(a + k) % XlenMod : k \in 0..(len - 1)}
        touching == {i \in Considered(p) : \E b \in bytes : Covers(i, b)}
    IN  IF touching = {} THEN p = M
        ELSE \E i \in touching :
               /\ \A j \in touching : i <= j
               /\ t \in cfg[i].perm
               /\ p = M \/ \A b \in bytes : Covers(i, b)

(* Every region ends below the top of the address space.                   *)
RegionsBelowTop ==
    \A i \in Entries : cfg[i].mode # "off" =>
        /\ addr[i] # AllOnes /\ RegionEnd(i) < XlenMod
        /\ i > 0 /\ cfg[i].mode = "tor" => 4 * addr[i - 1] < XlenMod

(* As long as some entry is active and every region ends below the top of  *)
(* the address space, pmp_mem_check answers that, although it only looks   *)
(* at the two ends of an access and at start and size modulo 2^XLEN.       *)
CheckIsBytewise ==
    SomeActive /\ RegionsBelowTop =>
        \A p \in {S, M}, a \in Probes, len \in Lens, t \in Accesses :
            pmp_mem_check(p, a, len, t) <=> Granted(p, a, len, t)

(* "No config seems to be active and therefore PMP is not used so access   *)
(* is granted" (pmp.c:211): with all entries off every access passes, at   *)
(* every level.                                                            *)
InactiveGrantsAll ==
    ~SomeActive =>
        \A p \in {S, M}, a \in Probes, len \in Lens, t \in Accesses :
            pmp_mem_check(p, a, len, t)
=============================================================================
