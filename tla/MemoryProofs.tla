---------------------------- MODULE MemoryProofs ----------------------------
(***************************************************************************)
(* Translation and the memory instructions, for every geometry of the page *)
(* tables, every content of memory and every PMP configuration.            *)
(***************************************************************************)
EXTENDS Memory, TLAPS

USE DEF U, S, M

-----------------------------------------------------------------------------
(* Addresses                                                               *)

(* A page number is taken modulo the number of frames.                     *)
LEMMA FrameType ==
    ASSUME NEW n \in Int
    PROVE  Frame(n) \in Frames
<1>1. NrFrames \in Nat \ {0} BY FramesAssumption
<1>2. n % NrFrames \in 0..(NrFrames - 1) BY <1>1
<1> QED BY <1>2 DEF Frame, Frames

(* What a word of memory is.                                               *)
LEMMA WordFields ==
    ASSUME NEW w \in Word
    PROVE  /\ w.v \in BOOLEAN /\ w.r \in BOOLEAN /\ w.w \in BOOLEAN /\ w.x \in BOOLEAN
           /\ w.u \in BOOLEAN /\ w.a \in BOOLEAN /\ w.d \in BOOLEAN
           /\ w.ppn \in Nat
<1>1. w.ppn \in 0..(2 * NrFrames - 1) BY DEF Word
<1> QED BY <1>1, FramesAssumption DEF Word

(* Zero is a word.                                                         *)
LEMMA ZeroType == Zero \in Word
<1>1. 0 \in 0..(2 * NrFrames - 1) BY FramesAssumption
<1> QED BY <1>1 DEF Zero, Word

(* The parts of a virtual address.                                         *)
LEMMA VirtAddrParts ==
    ASSUME NEW va \in VirtAddr
    PROVE  va[1] \in Index /\ va[2] \in Index /\ va[3] \in Index
BY DEF VirtAddr

(* An index is a number.                                                   *)
LEMMA IndexType == \A i \in Index : i \in Nat
BY EntriesAssumption DEF Index

(* A frame and an offset are a physical address.                           *)
LEMMA PhysAddrPair ==
    ASSUME NEW f \in Frames, NEW i \in Index
    PROVE  <<f, i>> \in PhysAddr
BY DEF PhysAddr

(* A superpage is aligned just if its number is a multiple of Entries, and *)
(* then clearing the lower part of the number changes nothing.             *)
LEMMA Multiple ==
    ASSUME NEW n \in Nat
    PROVE  /\ n % Entries = 0 <=> \E k \in 0..n : n = k * Entries
           /\ n % Entries = 0 => (n \div Entries) * Entries = n
<1> DEFINE E == Entries
           q == n \div E
           r == n % E
<1>1. E \in Nat \ {0} BY EntriesAssumption
<1>2. q \in Int /\ r \in 0..(E - 1) /\ n = q * E + r BY <1>1, SMTT(30)
<1> HIDE DEF E, q, r
<1>3. r = 0 => q * E = n BY <1>1, <1>2, SMTT(30)
<1>4. r = 0 => q \in 0..n
  <2>1. SUFFICES ASSUME r = 0 PROVE q \in 0..n OBVIOUS
  <2>2. n = q * E BY <1>1, <1>2, <2>1, SMTT(30)
  <2>3. q >= 0
    <3>1. SUFFICES ASSUME q <= -1 PROVE FALSE BY <1>2
    <3>2. q * E <= (-1) * E BY <1>1, <1>2, <3>1, SMTT(30)
    <3> QED BY <1>1, <2>2, <3>2, SMTT(30)
  <2>4. q * E >= q BY <1>1, <1>2, <2>3, SMTT(30)
  <2> QED BY <1>2, <2>2, <2>3, <2>4, SMTT(30)
<1>5. ASSUME NEW k \in 0..n, n = k * E
      PROVE  r = 0
  <2>1. (q - k) * E = -r BY <1>1, <1>2, <1>5, SMTT(30)
  <2>2. q = k
    <3>1. CASE q - k >= 1
      <4>1. (q - k) * E >= 1 * E BY <1>1, <1>2, <3>1, SMTT(30)
      <4> QED BY <1>1, <1>2, <2>1, <4>1, SMTT(30)
    <3>2. CASE q - k <= -1
      <4>1. (q - k) * E <= (-1) * E BY <1>1, <1>2, <3>2, SMTT(30)
      <4> QED BY <1>1, <1>2, <2>1, <4>1, SMTT(30)
    <3> QED BY <1>2, <3>1, <3>2
  <2> QED BY <1>1, <1>2, <1>5, <2>2, SMTT(30)
<1>6. r = 0 => \E k \in 0..n : n = k * E BY <1>3, <1>4
<1> QED BY <1>3, <1>5, <1>6 DEF E, q, r

-----------------------------------------------------------------------------
(* The walk                                                                *)

(* What Maps asks of a leaf: its flags, and the alignment of a superpage.  *)
Fits(e, p, acc) ==
    /\ e.v /\ e.a /\ (e.w => e.r)
    /\ IF p = U THEN e.u ELSE e.u => status.sum
    /\ \/ acc = "read" /\ (e.r \/ (e.x /\ status.mxr))
       \/ acc = "write" /\ e.w /\ e.d
       \/ acc = "instr" /\ e.x

Whole(e) == \E k \in 0..e.ppn : e.ppn = k * Entries

LeafMeetsSpec(e, i, va, p, acc) ==
    LET t == FinishLeaf(e, i, va, p, acc, status.sum, status.mxr, FALSE)
    IN  /\ t.ok <=> Fits(e, p, acc) /\ (i = 1 => Whole(e))
        /\ t.ok => t.pa = <<Frame(e.ppn + (IF i = 1 THEN va[2] ELSE 0)), va[3]>>
        /\ t.ok \in BOOLEAN
        /\ t.pa \in PhysAddr
        /\ t.refused = FALSE

(* A leaf e of level i that is not Invalid translates just where Maps has  *)
(* it, to the same address.                                                *)
LEMMA LeafCorrect ==
    ASSUME TypeOK, NEW va \in VirtAddr, NEW i \in {0, 1}, NEW p \in {U, S},
           NEW acc \in Accesses, NEW e \in Word, ~Invalid(e)
    PROVE  LeafMeetsSpec(e, i, va, p, acc)
<1> DEFINE ok == Permitted(e, p, acc, status.sum, status.mxr) /\ Aligned(e, i) /\ Marked(e, acc)
           n == IF i = 1 THEN Superpage(e.ppn) + va[2] ELSE e.ppn
           t == FinishLeaf(e, i, va, p, acc, status.sum, status.mxr, FALSE)
<1>1. e.ppn \in Nat /\ va[2] \in Nat /\ va[3] \in Index
  BY WordFields, VirtAddrParts, IndexType
<1>2. /\ e.ppn % Entries = 0 <=> Whole(e)
      /\ e.ppn % Entries = 0 => Superpage(e.ppn) = e.ppn
  BY <1>1, Multiple DEF Superpage, Whole
<1>3. Superpage(e.ppn) \in Int
  <2>1. Entries \in Nat \ {0} BY EntriesAssumption
  <2>2. e.ppn \div Entries \in Int BY <1>1, <2>1
  <2> QED BY <2>1, <2>2 DEF Superpage
<1>4. Frame(n) \in Frames
  <2>1. n \in Int BY <1>1, <1>3
  <2> QED BY <2>1, FrameType
<1>5. 0 \in Frames /\ 0 \in Index BY EntriesAssumption, FramesAssumption DEF Frames, Index
<1>6. /\ t.ok = ok /\ t.refused = FALSE
      /\ ok => t.pa = <<Frame(n), va[3]>>
      /\ ~ok => t.pa = <<0, 0>>
      /\ ok \in BOOLEAN
  BY DEF FinishLeaf, PageFault
<1>7. t.pa \in PhysAddr BY <1>1, <1>4, <1>5, <1>6, PhysAddrPair
<1>8. ok => n = e.ppn + (IF i = 1 THEN va[2] ELSE 0)
  BY <1>1, <1>2 DEF Aligned
<1>9. ok <=> Fits(e, p, acc) /\ (i = 1 => Whole(e))
  <2>1. Aligned(e, i) <=> (i = 1 => Whole(e)) BY <1>2 DEF Aligned
  <2>2. CASE acc = "read" BY <2>1, <2>2 DEF Permitted, Marked, Invalid, Fits
  <2>3. CASE acc = "write" BY <2>1, <2>3 DEF Permitted, Marked, Invalid, Fits
  <2>4. CASE acc = "instr" BY <2>1, <2>4 DEF Permitted, Marked, Invalid, Fits
  <2> QED BY <2>2, <2>3, <2>4 DEF Accesses
<1> HIDE DEF ok, n, t
<1> QED BY <1>6, <1>7, <1>8, <1>9 DEF t, LeafMeetsSpec

(* The walk of mmu_virt_to_phys is the algorithm its comments quote.       *)
LEMMA WalkCorrect ==
    ASSUME TypeOK, NEW va \in VirtAddr, NEW p \in {U, S}, NEW acc \in Accesses
    PROVE  LET t == Walk(mem, allowed, Root, va, p, acc, status.sum, status.mxr)
           IN  /\ t.ok \in BOOLEAN
               /\ t.refused \in BOOLEAN
               /\ t.pa \in PhysAddr
               /\ t.ok <=> \E i \in {0, 1} : Maps(va, i, p, acc)
               /\ t.ok => /\ ~t.refused
                          /\ \E i \in {0, 1} : Maps(va, i, p, acc) /\ t.pa = OnBus(Target(va, i))
<1> DEFINE t == Walk(mem, allowed, Root, va, p, acc, status.sum, status.mxr)
           e1 == mem[<<Root, va[1]>>]
           f == Frame(e1.ppn)
           e0 == mem[<<f, va[2]>>]
           ok1 == <<Root, "read">> \in allowed
           ok0 == <<f, "read">> \in allowed
           leaf1 == FinishLeaf(e1, 1, va, p, acc, status.sum, status.mxr, FALSE)
           leaf0 == FinishLeaf(e0, 0, va, p, acc, status.sum, status.mxr, FALSE)
<1>1. e1 \in Word /\ f \in Frames /\ e0 \in Word
  <2>1. Root \in Frames /\ va[1] \in Index /\ va[2] \in Index
    BY FramesAssumption, VirtAddrParts DEF Root, Frames
  <2>2. \A pa \in PhysAddr : mem[pa] \in Word BY DEF TypeOK
  <2>3. e1 \in Word BY <2>1, <2>2, PhysAddrPair
  <2>4. f \in Frames BY <2>3, WordFields, FrameType
  <2> QED BY <2>1, <2>2, <2>3, <2>4, PhysAddrPair
<1>2. /\ EntryAt(va, 1) = e1 /\ EntryAt(va, 0) = e0
      /\ OnBus(Target(va, 1)) = <<Frame(e1.ppn + va[2]), va[3]>>
      /\ OnBus(Target(va, 0)) = <<Frame(e0.ppn + 0), va[3]>>
  BY DEF EntryAt, Target, OnBus
<1>3. Maps(va, 1, p, acc) <=> ok1 /\ Fits(e1, p, acc) /\ Whole(e1)
  BY <1>2 DEF Maps, Fits, Whole
<1>4. Maps(va, 0, p, acc) <=> ok1 /\ ok0 /\ IsPointer(e1) /\ Fits(e0, p, acc)
  BY <1>2 DEF Maps, Fits
<1>5. ASSUME ~Invalid(e1)
      PROVE  /\ leaf1.ok <=> Fits(e1, p, acc) /\ Whole(e1)
             /\ leaf1.ok => leaf1.pa = OnBus(Target(va, 1))
             /\ leaf1.ok \in BOOLEAN /\ leaf1.pa \in PhysAddr /\ leaf1.refused = FALSE
  <2>1. LeafMeetsSpec(e1, 1, va, p, acc)
    <3> HIDE DEF e1
    <3>1. e1 \in Word /\ 1 \in {0, 1} BY <1>1
    <3> QED BY <1>5, <3>1, LeafCorrect
  <2> QED BY <1>2, <2>1 DEF LeafMeetsSpec
<1>6. ASSUME ~Invalid(e0)
      PROVE  /\ leaf0.ok <=> Fits(e0, p, acc)
             /\ leaf0.ok => leaf0.pa = OnBus(Target(va, 0))
             /\ leaf0.ok \in BOOLEAN /\ leaf0.pa \in PhysAddr /\ leaf0.refused = FALSE
  <2>1. LeafMeetsSpec(e0, 0, va, p, acc)
    <3> HIDE DEF e0
    <3>1. e0 \in Word /\ 0 \in {0, 1} BY <1>1
    <3> QED BY <1>6, <3>1, LeafCorrect
  <2>2. (0 = 1) = FALSE OBVIOUS
  <2> HIDE DEF e0
  <2> QED BY <1>2, <2>1, <2>2, Zenon DEF LeafMeetsSpec
<1>7. <<0, 0>> \in PhysAddr
  BY EntriesAssumption, FramesAssumption DEF PhysAddr, Frames, Index
<1>8. \A r \in BOOLEAN : /\ PageFault(r).ok = FALSE /\ PageFault(r).refused = r
                         /\ PageFault(r).pa \in PhysAddr
  BY <1>7 DEF PageFault
<1>9. CASE ~ok1
  <2>1. t = PageFault(TRUE) BY <1>9 DEF Walk, ReadPte, Invalid, Zero
  <2> QED BY <1>3, <1>4, <1>8, <1>9, <2>1
<1>10. CASE ok1 /\ Invalid(e1)
  <2>1. t = PageFault(FALSE) BY <1>10 DEF Walk, ReadPte
  <2>2. ~Fits(e1, p, acc) /\ ~IsPointer(e1) BY <1>10 DEF Invalid, IsPointer, Fits
  <2> HIDE DEF t
  <2> QED BY <1>3, <1>4, <1>8, <2>1, <2>2 DEF t
<1>11. CASE ok1 /\ ~Invalid(e1) /\ IsLeaf(e1)
  <2>1. t = leaf1 BY <1>11 DEF Walk, ReadPte
  <2>2. ~IsPointer(e1) BY <1>11 DEF IsLeaf, IsPointer
  <2> HIDE DEF t, leaf1
  <2> QED BY <1>3, <1>4, <1>5, <1>11, <2>1, <2>2 DEF t
<1>12. CASE ok1 /\ ~Invalid(e1) /\ ~IsLeaf(e1)
  <2>1. ~Fits(e1, p, acc) BY <1>12 DEF IsLeaf, Invalid, Fits
  <2>2. IsPointer(e1) BY <1>1, <1>12, WordFields DEF IsLeaf, Invalid, IsPointer
  <2>3. CASE ~ok0
    <3>1. t = PageFault(TRUE) BY <1>12, <2>3 DEF Walk, ReadPte
    <3> HIDE DEF t
    <3> QED BY <1>3, <1>4, <1>8, <2>1, <2>3, <3>1 DEF t
  <2>4. CASE ok0 /\ (Invalid(e0) \/ ~IsLeaf(e0))
    <3>1. t = PageFault(FALSE) BY <1>12, <2>4 DEF Walk, ReadPte
    <3>2. ~Fits(e0, p, acc) BY <2>4 DEF IsLeaf, Invalid, Fits
    <3> HIDE DEF t
    <3> QED BY <1>3, <1>4, <1>8, <2>1, <3>1, <3>2 DEF t
  <2>5. CASE ok0 /\ ~Invalid(e0) /\ IsLeaf(e0)
    <3>1. t = leaf0 BY <1>12, <2>5 DEF Walk, ReadPte
    <3> HIDE DEF t, leaf0
    <3> QED BY <1>3, <1>4, <1>6, <1>12, <2>1, <2>2, <2>5, <3>1 DEF t
  <2> QED BY <2>3, <2>4, <2>5
<1> QED BY <1>9, <1>10, <1>11, <1>12

-----------------------------------------------------------------------------
(* One access                                                              *)

TranslateMeetsSpec(va, p, acc) ==
    LET t == Translate(mem, allowed, satpOn, Root, va, p, acc, status.sum, status.mxr)
    IN  /\ t.ok \in BOOLEAN /\ t.refused \in BOOLEAN /\ t.pa \in PhysAddr
        /\ t.ok => ~t.refused
        /\ p = M \/ ~satpOn => t.ok /\ t.pa = <<Frame(Entries * va[1] + va[2]), va[3]>>
        /\ p # M /\ satpOn =>
              /\ t.ok <=> \E i \in {0, 1} : Maps(va, i, p, acc)
              /\ t.ok => \E i \in {0, 1} : Maps(va, i, p, acc) /\ t.pa = OnBus(Target(va, i))

(* Translation, with and without page tables.                              *)
LEMMA TranslateCorrect ==
    ASSUME TypeOK, NEW va \in VirtAddr, NEW p \in Levels, NEW acc \in Accesses
    PROVE  TranslateMeetsSpec(va, p, acc)
<1>1. CASE p = M \/ ~satpOn
  <2> DEFINE n == Entries * va[1] + va[2]
             t == Translate(mem, allowed, satpOn, Root, va, p, acc, status.sum, status.mxr)
  <2>1. t = [ok |-> TRUE, refused |-> FALSE, pa |-> <<Frame(n), va[3]>>]
    BY <1>1 DEF Translate
  <2>2. n \in Int /\ va[3] \in Index
    BY VirtAddrParts, IndexType, EntriesAssumption, SMTT(30)
  <2> HIDE DEF n
  <2>3. <<Frame(n), va[3]>> \in PhysAddr BY <2>2, FrameType, PhysAddrPair
  <2>4. t.ok = TRUE /\ t.refused = FALSE /\ t.pa = <<Frame(n), va[3]>> BY <2>1
  <2> HIDE DEF t
  <2> QED BY <1>1, <2>3, <2>4, Zenon DEF TranslateMeetsSpec, t, n
<1>2. CASE ~(p = M \/ ~satpOn)
  <2> DEFINE t == Translate(mem, allowed, satpOn, Root, va, p, acc, status.sum, status.mxr)
             u == Walk(mem, allowed, Root, va, p, acc, status.sum, status.mxr)
  <2>1. t = u BY <1>2 DEF Translate
  <2>2. p \in {U, S} BY <1>2 DEF Levels
  <2>3. /\ u.ok \in BOOLEAN
        /\ u.refused \in BOOLEAN
        /\ u.pa \in PhysAddr
        /\ u.ok <=> \E i \in {0, 1} : Maps(va, i, p, acc)
        /\ u.ok => /\ ~u.refused
                   /\ \E i \in {0, 1} : Maps(va, i, p, acc) /\ u.pa = OnBus(Target(va, i))
    BY <2>2, WalkCorrect
  <2> HIDE DEF t, u
  <2> QED BY <1>2, <2>1, <2>3, Zenon DEF TranslateMeetsSpec, t
<1> QED BY <1>1, <1>2

BusMeetsSpec(va, acc) ==
    LET b == BusAccess(va, acc)
        p == EffectivePriv(acc)
    IN  /\ b.done \in BOOLEAN /\ b.pa \in PhysAddr /\ b.cause \in Causes
        /\ b.done <=> b.cause = "none"
        /\ b.done => Granted(p, b.pa[1], acc)
        /\ b.done /\ p # M /\ satpOn =>
              \E i \in {0, 1} : Maps(va, i, p, acc) /\ b.pa = OnBus(Target(va, i))
        /\ p = M \/ ~satpOn => /\ b.pa = <<Frame(Entries * va[1] + va[2]), va[3]>>
                               /\ Granted(p, b.pa[1], acc) => b.done

(* The privilege level of an access is a privilege level.                  *)
LEMMA EffectiveLevel ==
    ASSUME TypeOK, NEW acc \in Accesses
    PROVE  EffectivePriv(acc) \in Levels
BY DEF TypeOK, EffectivePriv, Status

(* An access is performed just if it reports no fault, and only where the  *)
(* PMP and the page tables allow it.                                       *)
LEMMA BusCorrect ==
    ASSUME TypeOK, NEW va \in VirtAddr, NEW acc \in Accesses
    PROVE  BusMeetsSpec(va, acc)
<1> DEFINE b == BusAccess(va, acc)
           p == EffectivePriv(acc)
           t == Translate(mem, allowed, satpOn, Root, va, p, acc, status.sum, status.mxr)
           g == Granted(p, t.pa[1], acc)
<1>1. p \in Levels BY EffectiveLevel
<1>2. TranslateMeetsSpec(va, p, acc) BY <1>1, TranslateCorrect
<1>3. /\ t.ok \in BOOLEAN /\ t.refused \in BOOLEAN /\ t.pa \in PhysAddr
      /\ t.ok => ~t.refused
      /\ p = M \/ ~satpOn => t.ok /\ t.pa = <<Frame(Entries * va[1] + va[2]), va[3]>>
      /\ p # M /\ satpOn /\ t.ok =>
              \E i \in {0, 1} : Maps(va, i, p, acc) /\ t.pa = OnBus(Target(va, i))
  BY <1>2 DEF TranslateMeetsSpec
<1>4. /\ AccessFault(acc) \in Causes \ {"none"}
      /\ PageFaultOf(acc) \in Causes \ {"none"}
      /\ "load_access" \in Causes \ {"none"} /\ "none" \in Causes
  BY DEF AccessFault, PageFaultOf, Causes, Accesses
<1>5. /\ b.done = (t.ok /\ g) /\ b.pa = t.pa
      /\ b.cause = IF t.refused THEN "load_access"
                    ELSE IF ~t.ok THEN PageFaultOf(acc)
                    ELSE IF ~(t.ok /\ g) THEN AccessFault(acc)
                    ELSE "none"
  BY DEF BusAccess
<1>6. g \in BOOLEAN BY DEF Granted
<1> HIDE DEF b, t, p, g
<1>7. b.cause \in Causes /\ (b.done <=> b.cause = "none") /\ b.done \in BOOLEAN
  BY <1>3, <1>4, <1>5, <1>6, Zenon
<1>8. g = Granted(p, b.pa[1], acc) BY <1>5 DEF g
<1> QED BY <1>3, <1>5, <1>6, <1>7, <1>8, Zenon DEF BusMeetsSpec, b, p

-----------------------------------------------------------------------------
(* Type correctness                                                        *)

(* The value SC leaves when it fails is a word.                            *)
LEMMA OneType == One \in Word
<1>1. 0 \in 0..(2 * NrFrames - 1) BY FramesAssumption
<1> QED BY <1>1 DEF One, Zero, Word

RegsOK(y) == y \in [Registers -> Word] /\ y[x0] = Zero
TrapOK(t) == t \in [cause : Causes, op : Ops] /\ (t.cause = "none" => t = NoTrap)

(* Writing a register keeps x0.                                            *)
LEMMA SetRegType ==
    ASSUME RegsOK(x), NEW rd \in Registers, NEW v \in Word
    PROVE  RegsOK(SetReg(rd, v))
BY DEF RegsOK, SetReg

(* A store keeps memory a memory.                                          *)
LEMMA StoredType ==
    ASSUME TypeOK, NEW va \in VirtAddr, NEW v \in Word
    PROVE  Stored(BusAccess(va, "write"), v) \in [PhysAddr -> Word]
<1> DEFINE b == BusAccess(va, "write")
<1>1. BusMeetsSpec(va, "write") BY BusCorrect DEF Accesses
<1>2. b.pa \in PhysAddr BY <1>1 DEF BusMeetsSpec
<1>3. mem \in [PhysAddr -> Word] BY DEF TypeOK
<1> HIDE DEF b
<1>4. Stored(b, v) \in [PhysAddr -> Word] BY <1>2, <1>3 DEF Stored
<1> QED BY <1>4 DEF b

(* A reported fault.                                                       *)
LEMMA RaiseType ==
    ASSUME NEW c \in Causes, NEW op \in Ops, Raise(c, op)
    PROVE  TrapOK(trap')
BY DEF Raise, TrapOK, NoTrap, Causes, Ops

(* An instruction leaves the registers of the machine well typed.          *)
LEMMA InstructionType ==
    ASSUME TypeOK, NEW va \in Vas, NEW rd \in Registers, NEW rs2 \in Registers,
           \/ Fetch(va) \/ Load(va, rd) \/ Store(va, rs2) \/ LR(va, rd)
           \/ SC(va, rd, rs2) \/ \E op \in AmoOps : AMO(va, rd, rs2, op)
    PROVE  /\ mem' \in [PhysAddr -> Word] /\ RegsOK(x') /\ TrapOK(trap')
           /\ lr' \in Vas \cup {NoAddr}
           /\ UNCHANGED control
<1>1. va \in VirtAddr BY GuestAssumption
<1>2. /\ mem \in [PhysAddr -> Word] /\ RegsOK(x) /\ TrapOK(trap) /\ lr \in Vas \cup {NoAddr}
      /\ x[rs2] \in Word /\ x[rd] \in Word
  BY DEF TypeOK, RegsOK, TrapOK
<1>3. ASSUME NEW acc \in Accesses
      PROVE  BusAccess(va, acc).pa \in PhysAddr /\ BusAccess(va, acc).cause \in Causes
  <2>1. BusMeetsSpec(va, acc) BY <1>1, BusCorrect
  <2> QED BY <2>1 DEF BusMeetsSpec
<1>4. "read" \in Accesses /\ "write" \in Accesses /\ "instr" \in Accesses BY DEF Accesses
<1>5. {"fetch", "load", "store", "lr", "sc", "amo"} \subseteq Ops BY DEF Ops
<1>6. \A v \in Word : Stored(BusAccess(va, "write"), v) \in [PhysAddr -> Word]
  BY <1>1, StoredType
<1>7. mem[BusAccess(va, "read").pa] \in Word BY <1>2, <1>3, <1>4
<1>8. ASSUME NEW op \in Ops, LoadInto(va, rd, op)
      PROVE  mem' = mem /\ RegsOK(x') /\ TrapOK(trap')
  <2> DEFINE b == BusAccess(va, "read")
  <2>1. x' = (IF b.done THEN SetReg(rd, mem[b.pa]) ELSE x) /\ Raise(b.cause, op) /\ mem' = mem
    BY <1>8 DEF LoadInto
  <2>2. RegsOK(SetReg(rd, mem[b.pa])) BY <1>2, <1>7, SetRegType
  <2>3. b.cause \in Causes BY <1>3, <1>4
  <2>4. TrapOK(trap') BY <2>1, <2>3, RaiseType
  <2> HIDE DEF b
  <2> QED BY <1>2, <2>1, <2>2, <2>4
<1>9. CASE Fetch(va)
  <2>1. Raise(BusAccess(va, "instr").cause, "fetch") /\ UNCHANGED <<mem, x, lr>> /\ UNCHANGED control
    BY <1>9 DEF Fetch, Ready
  <2>2. TrapOK(trap') BY <1>3, <1>4, <1>5, <2>1, RaiseType
  <2> QED BY <1>2, <2>1, <2>2
<1>10. CASE Load(va, rd)
  <2>1. LoadInto(va, rd, "load") /\ lr' = lr /\ UNCHANGED control BY <1>10 DEF Load, Ready
  <2> QED BY <1>2, <1>5, <1>8, <2>1
<1>11. CASE Store(va, rs2)
  <2>1. /\ mem' = Stored(BusAccess(va, "write"), x[rs2])
        /\ Raise(BusAccess(va, "write").cause, "store")
        /\ UNCHANGED <<x, lr>> /\ UNCHANGED control
    BY <1>11 DEF Store, Ready
  <2>2. TrapOK(trap') BY <1>3, <1>4, <1>5, <2>1, RaiseType
  <2> QED BY <1>2, <1>6, <2>1, <2>2
<1>12. CASE LR(va, rd)
  <2>1. LoadInto(va, rd, "lr") /\ lr' = va /\ UNCHANGED control BY <1>12 DEF LR, Ready
  <2> QED BY <1>2, <1>5, <1>8, <2>1
<1>13. CASE SC(va, rd, rs2)
  <2>1. lr' = NoAddr /\ UNCHANGED control BY <1>13 DEF SC, Ready
  <2>2. RegsOK(SetReg(rd, Zero)) /\ RegsOK(SetReg(rd, One))
    BY <1>2, SetRegType, ZeroType, OneType
  <2>3. CASE lr = va
    <3>1. /\ mem' = Stored(BusAccess(va, "write"), x[rs2])
          /\ Raise(BusAccess(va, "write").cause, "sc")
          /\ x' = SetReg(rd, Zero)
      BY <1>13, <2>3 DEF SC
    <3>2. TrapOK(trap') BY <1>3, <1>4, <1>5, <3>1, RaiseType
    <3> QED BY <1>2, <1>6, <2>1, <2>2, <3>1, <3>2
  <2>4. CASE lr # va
    <3>1. x' = SetReg(rd, One) /\ UNCHANGED <<mem, trap>> BY <1>13, <2>4 DEF SC
    <3> QED BY <1>2, <2>1, <2>2, <3>1
  <2> QED BY <2>3, <2>4
<1>14. CASE \E op \in AmoOps : AMO(va, rd, rs2, op)
  <2>1. PICK op \in AmoOps : AMO(va, rd, rs2, op) BY <1>14
  <2> DEFINE b1 == BusAccess(va, "read")
             b2 == BusAccess(va, "write")
             loaded == IF b1.done THEN mem[b1.pa] ELSE x[rd]
  <2>2. /\ x' = SetReg(rd, loaded)
        /\ mem' = Stored(b2, AmoResult(op, loaded, Operand(rd, rs2, loaded)))
        /\ Raise(FirstCause(b1.cause, b2.cause), "amo")
        /\ lr' = lr /\ UNCHANGED control
    BY <2>1 DEF AMO, Ready
  <2>3. loaded \in Word BY <1>2, <1>7
  <2>4. FirstCause(b1.cause, b2.cause) \in Causes BY <1>3, <1>4 DEF FirstCause
  <2> HIDE DEF loaded, b1
  <2>5. RegsOK(x') BY <1>2, <2>2, <2>3, SetRegType
  <2>6. AmoResult(op, loaded, Operand(rd, rs2, loaded)) \in Word
    BY <1>2, <2>3, AmoAssumption DEF Operand
  <2>7. TrapOK(trap') BY <1>5, <2>2, <2>4, RaiseType
  <2> QED BY <1>2, <1>6, <2>2, <2>5, <2>6, <2>7
<1> QED BY <1>9, <1>10, <1>11, <1>12, <1>13, <1>14

(* Every step keeps the types.                                             *)
LEMMA TypeStep == TypeOK /\ [Next]_vars => TypeOK'
<1> SUFFICES ASSUME TypeOK, [Next]_vars PROVE TypeOK' OBVIOUS
<1>1. /\ mem \in [PhysAddr -> Word] /\ RegsOK(x) /\ TrapOK(trap) /\ lr \in Vas \cup {NoAddr}
      /\ priv \in Levels /\ status \in Status /\ satpOn \in BOOLEAN /\ allowed \in PmpConfigs
  BY DEF TypeOK, RegsOK, TrapOK
<1>2. SUFFICES /\ mem' \in [PhysAddr -> Word] /\ RegsOK(x') /\ TrapOK(trap')
               /\ lr' \in Vas \cup {NoAddr}
               /\ priv' \in Levels /\ status' \in Status /\ satpOn' \in BOOLEAN
               /\ allowed' \in PmpConfigs
  BY DEF TypeOK, RegsOK, TrapOK
<1>3. CASE Instruction
  <2>1. PICK va \in Vas, rd \in Registers, rs2 \in Registers :
           \/ Fetch(va) \/ Load(va, rd) \/ Store(va, rs2) \/ LR(va, rd)
           \/ SC(va, rd, rs2) \/ \E op \in AmoOps : AMO(va, rd, rs2, op)
    BY <1>3 DEF Instruction
  <2>2. /\ mem' \in [PhysAddr -> Word] /\ RegsOK(x') /\ TrapOK(trap')
        /\ lr' \in Vas \cup {NoAddr} /\ UNCHANGED control
    BY <2>1, InstructionType
  <2> QED BY <1>1, <2>2 DEF control
<1>4. CASE \E rd \in Regs, v \in Values : Compute(rd, v)
  <2>1. PICK rd \in Regs, v \in Values : Compute(rd, v) BY <1>4
  <2>2. rd \in Registers /\ v \in Word BY ValuesAssumption DEF Registers
  <2>3. RegsOK(SetReg(rd, v)) BY <1>1, <2>2, SetRegType
  <2> QED BY <1>1, <2>1, <2>3 DEF Compute, Ready, control
<1>5. CASE ServeTrap
  <2>1. /\ trap' = NoTrap /\ UNCHANGED <<mem, x, satpOn, allowed, lr>>
        /\ \E p \in {S, M} :
              /\ priv' = p
              /\ status' = IF p = M THEN [status EXCEPT !.mpp = priv] ELSE status
    BY <1>5 DEF ServeTrap
  <2>2. TrapOK(NoTrap) BY DEF TrapOK, NoTrap, Causes, Ops
  <2>3. [status EXCEPT !.mpp = priv] \in Status BY <1>1 DEF Status
  <2> QED BY <1>1, <2>1, <2>2, <2>3 DEF Levels
<1>6. CASE Return
  <2>1. status.mpp \in Levels BY <1>1 DEF Status
  <2> QED BY <1>1, <1>6, <2>1 DEF Return, Levels
<1>7. CASE WriteStatus
  <2>1. PICK s \in Statuses :
           status' \in {s, [s EXCEPT !.mprv = status.mprv, !.mpp = status.mpp],
                        [s EXCEPT !.mprv = FALSE, !.mpp = U]}
    BY <1>7 DEF WriteStatus
  <2>2. s \in Status BY StatusesAssumption
  <2>3. status' \in Status BY <1>1, <2>1, <2>2 DEF Status, Levels
  <2> QED BY <1>1, <1>7, <2>3 DEF WriteStatus
<1>8. CASE WriteSatp BY <1>1, <1>8 DEF WriteSatp
<1>9. CASE WritePmp BY <1>1, <1>9 DEF WritePmp
<1>10. CASE UNCHANGED vars BY <1>1, <1>10 DEF vars
<1> QED BY <1>3, <1>4, <1>5, <1>6, <1>7, <1>8, <1>9, <1>10 DEF Next

(* Types, and x0 = 0 after every instruction.                              *)
THEOREM TypeCorrect == Spec => []TypeOK
<1>1. Init => TypeOK
  <2> SUFFICES ASSUME Init PROVE TypeOK OBVIOUS
  <2>1. x = [r \in Registers |-> Zero] /\ x0 \in Registers BY DEF Init, Registers
  <2>2. x \in [Registers -> Word] /\ x[x0] = Zero BY <2>1, ZeroType
  <2>3. status \in Status /\ priv \in Levels BY DEF Init, Status, Levels
  <2>4. trap = NoTrap /\ NoTrap \in [cause : Causes, op : Ops]
    BY DEF Init, NoTrap, Causes, Ops
  <2>5. mem \in [PhysAddr -> Word] BY ImagesAssumption DEF Init
  <2> QED BY <2>2, <2>3, <2>4, <2>5 DEF Init, TypeOK
<1> QED BY <1>1, TypeStep, PTL DEF Spec

(* The address an entry maps va to is not cut if the page numbers on the   *)
(* way are below 2^32: the last superpage ends where the address space     *)
(* does, because NrFrames is a multiple of Entries.                        *)
LEMMA NarrowTarget ==
    ASSUME TypeOK, NEW va \in VirtAddr, NEW i \in {0, 1}, NEW p, NEW acc,
           Narrow(va), Maps(va, i, p, acc)
    PROVE  OnBus(Target(va, i)) = Target(va, i)
<1> DEFINE n == EntryAt(va, i).ppn
           m == n + (IF i = 1 THEN va[2] ELSE 0)
<1>1. n \in Frames
  <2>1. CASE i = 1 BY <2>1 DEF Narrow
  <2>2. CASE i = 0 BY <2>2 DEF Narrow, Maps
  <2> QED BY <2>1, <2>2
<1>2. i = 1 => \E k \in 0..n : n = k * Entries BY DEF Maps
<1>3. Target(va, i) = <<m, va[3]>> BY DEF Target
<1> HIDE DEF n
<1>4. n \in Nat /\ n < NrFrames /\ NrFrames \in Nat /\ Entries \in Nat \ {0}
  BY <1>1, FramesAssumption, EntriesAssumption DEF Frames
<1>5. va[2] \in Nat /\ va[2] < Entries
  BY <1>4, VirtAddrParts DEF Index
<1>6. m \in Nat /\ m < NrFrames
  <2>1. CASE i = 0 BY <1>4, <2>1
  <2>2. CASE i = 1
    <3>1. PICK k \in 0..n : n = k * Entries BY <1>2, <2>2
    <3>2. PICK l \in 0..NrFrames : NrFrames = l * Entries
      BY <1>4, Multiple, FramesAssumption
    <3>3. k < l
      <4>1. SUFFICES ASSUME k >= l PROVE FALSE BY <1>4
      <4>2. k * Entries >= l * Entries BY <1>4, <4>1, SMTT(30)
      <4> QED BY <1>4, <3>1, <3>2, <4>2
    <3>4. (k + 1) * Entries <= l * Entries BY <1>4, <3>3, SMTT(30)
    <3>5. (k + 1) * Entries = k * Entries + Entries BY <1>4, SMTT(30)
    <3>6. n + Entries <= NrFrames BY <3>1, <3>2, <3>4, <3>5
    <3> QED BY <1>4, <1>5, <2>2, <3>6
  <2> QED BY <2>1, <2>2
<1> HIDE DEF m
<1>7. Frame(m) = m
  <2>1. \A d, y \in Nat : y < d => y % d = y BY SMTT(30)
  <2> QED BY <1>4, <1>6, <2>1 DEF Frame
<1> QED BY <1>3, <1>7 DEF OnBus

(* The walk is the algorithm that mmu_virt_to_phys quotes, whatever the    *)
(* guest has made of the page tables, of mstatus and of the PMP, wherever  *)
(* the page numbers on the way are below 2^32.                             *)
THEOREM WalkMeetsSpecAlways == Spec => []WalkMeetsSpec
<1>1. TypeOK => WalkMeetsSpec
  <2> SUFFICES ASSUME TypeOK, NEW va \in Pages, NEW p \in {U, S}, NEW acc \in Accesses,
                      Narrow(va)
               PROVE  LET t == Walk(mem, allowed, Root, va, p, acc, status.sum, status.mxr)
                      IN  /\ t.ok <=> \E i \in {0, 1} : Maps(va, i, p, acc)
                          /\ t.ok => /\ ~t.refused
                                     /\ \E i \in {0, 1} : Maps(va, i, p, acc) /\ t.pa = Target(va, i)
    BY DEF WalkMeetsSpec
  <2> DEFINE t == Walk(mem, allowed, Root, va, p, acc, status.sum, status.mxr)
  <2>1. va \in VirtAddr BY DEF Pages
  <2>2. /\ t.ok <=> \E i \in {0, 1} : Maps(va, i, p, acc)
        /\ t.ok => /\ ~t.refused
                   /\ \E i \in {0, 1} : Maps(va, i, p, acc) /\ t.pa = OnBus(Target(va, i))
    BY <2>1, WalkCorrect
  <2>3. \A i \in {0, 1} : Maps(va, i, p, acc) => OnBus(Target(va, i)) = Target(va, i)
    BY <2>1, NarrowTarget
  <2> HIDE DEF t
  <2> QED BY <2>2, <2>3 DEF t
<1> QED BY <1>1, TypeCorrect, PTL

-----------------------------------------------------------------------------
(* Stores are confined                                                     *)

(* Memory changes only by a store through mmu_checked_bus_access.          *)
LEMMA MemoryStep ==
    ASSUME TypeOK, [Next]_vars
    PROVE  \/ mem' = mem
           \/ \E va \in VirtAddr, v \in Word : mem' = Stored(BusAccess(va, "write"), v)
<1>1. CASE Instruction
  <2>1. PICK va \in Vas, rd \in Registers, rs2 \in Registers :
           \/ Fetch(va) \/ Load(va, rd) \/ Store(va, rs2) \/ LR(va, rd)
           \/ SC(va, rd, rs2) \/ \E op \in AmoOps : AMO(va, rd, rs2, op)
    BY <1>1 DEF Instruction
  <2>2. va \in VirtAddr BY GuestAssumption
  <2>3. x[rs2] \in Word /\ x[rd] \in Word BY DEF TypeOK
  <2>4. CASE Fetch(va) \/ Load(va, rd) \/ LR(va, rd)
    BY <2>4 DEF Fetch, Load, LR, LoadInto
  <2>5. CASE Store(va, rs2)
    <3>1. mem' = Stored(BusAccess(va, "write"), x[rs2]) BY <2>5 DEF Store
    <3> QED BY <2>2, <2>3, <3>1
  <2>6. CASE SC(va, rd, rs2)
    <3>1. mem' = mem \/ mem' = Stored(BusAccess(va, "write"), x[rs2]) BY <2>6 DEF SC
    <3> QED BY <2>2, <2>3, <3>1
  <2>7. CASE \E op \in AmoOps : AMO(va, rd, rs2, op)
    <3>1. PICK op \in AmoOps : AMO(va, rd, rs2, op) BY <2>7
    <3> DEFINE b1 == BusAccess(va, "read")
               loaded == IF b1.done THEN mem[b1.pa] ELSE x[rd]
               v == AmoResult(op, loaded, Operand(rd, rs2, loaded))
    <3>2. mem' = Stored(BusAccess(va, "write"), v) BY <3>1 DEF AMO
    <3>3. b1.pa \in PhysAddr
      <4>1. BusMeetsSpec(va, "read") BY <2>2, BusCorrect DEF Accesses
      <4> QED BY <4>1 DEF BusMeetsSpec
    <3>4. loaded \in Word BY <2>3, <3>3 DEF TypeOK
    <3> HIDE DEF loaded
    <3>5. v \in Word BY <2>3, <3>4, AmoAssumption DEF Operand
    <3> HIDE DEF v
    <3> QED BY <2>2, <3>2, <3>5
  <2> QED BY <2>1, <2>4, <2>5, <2>6, <2>7
<1>2. CASE \E rd \in Regs, v \in Values : Compute(rd, v) BY <1>2 DEF Compute
<1>3. CASE ServeTrap \/ Return \/ WriteStatus \/ WriteSatp \/ WritePmp
  BY <1>3 DEF ServeTrap, Return, WriteStatus, WriteSatp, WritePmp
<1>4. CASE UNCHANGED vars BY <1>4 DEF vars
<1> QED BY <1>1, <1>2, <1>3, <1>4 DEF Next

(* Whatever the guest does, a word changes only where the PMP and, under   *)
(* translation, a writable page allow the effective level to write.        *)
THEOREM StoreConfinedAlways == Spec => StoreConfined
<1> DEFINE Confined ==
             \A pa \in PhysAddr : mem'[pa] # mem[pa] =>
               LET p == IF status.mprv THEN status.mpp ELSE priv
               IN  \/ p = M
                   \/ /\ <<pa[1], "write">> \in allowed
                      /\ satpOn => \E va \in VirtAddr, i \in {0, 1} :
                                      Maps(va, i, p, "write") /\ pa = OnBus(Target(va, i))
<1>1. TypeOK /\ [Next]_vars => Confined
  <2> SUFFICES ASSUME TypeOK, [Next]_vars, NEW pa \in PhysAddr, mem'[pa] # mem[pa]
               PROVE  LET p == IF status.mprv THEN status.mpp ELSE priv
                      IN  \/ p = M
                          \/ /\ <<pa[1], "write">> \in allowed
                             /\ satpOn => \E va \in VirtAddr, i \in {0, 1} :
                                             Maps(va, i, p, "write") /\ pa = OnBus(Target(va, i))
    OBVIOUS
  <2>1. PICK va \in VirtAddr, v \in Word : mem' = Stored(BusAccess(va, "write"), v)
    BY MemoryStep
  <2> DEFINE b == BusAccess(va, "write")
             p == EffectivePriv("write")
  <2>2. BusMeetsSpec(va, "write") BY BusCorrect DEF Accesses
  <2>3. /\ b.done => Granted(p, b.pa[1], "write")
        /\ b.done /\ p # M /\ satpOn =>
              \E i \in {0, 1} : Maps(va, i, p, "write") /\ b.pa = OnBus(Target(va, i))
        /\ b.pa \in PhysAddr
    BY <2>2 DEF BusMeetsSpec
  <2>4. p = IF status.mprv THEN status.mpp ELSE priv BY DEF EffectivePriv
  <2>5. b.done /\ b.pa = pa
    <3> HIDE DEF b
    <3>1. mem' = Stored(b, v) BY <2>1 DEF b
    <3>2. mem \in [PhysAddr -> Word] BY DEF TypeOK
    <3> QED BY <2>3, <3>1, <3>2 DEF Stored
  <2> HIDE DEF b, p
  <2>6. Granted(p, pa[1], "write") BY <2>3, <2>5
  <2>7. p = M \/ <<pa[1], "write">> \in allowed BY <2>6 DEF Granted
  <2>8. p # M /\ satpOn => \E i \in {0, 1} : Maps(va, i, p, "write") /\ pa = OnBus(Target(va, i))
    BY <2>3, <2>5
  <2> QED BY <2>4, <2>7, <2>8
<1> QED BY <1>1, TypeCorrect, PTL DEF Spec, StoreConfined

-----------------------------------------------------------------------------
(* Faults                                                                  *)

(* What may be written may be read, at the same place, unless the PMP lets *)
(* it be written only: then the load reports an access fault.              *)
WriteImpliesRead(va) ==
    LET w == BusAccess(va, "write")
        r == BusAccess(va, "read")
    IN  w.done => /\ r.pa = w.pa
                  /\ ~r.done => /\ r.cause = "load_access"
                                /\ <<w.pa[1], "write">> \in allowed
                                /\ <<w.pa[1], "read">> \notin allowed

(* A page that maps va for writing maps it for reading, on one level only. *)
LEMMA WritablePage ==
    ASSUME NEW va \in VirtAddr, NEW i \in {0, 1}, NEW j \in {0, 1}, NEW p \in Levels,
           Maps(va, i, p, "write")
    PROVE  /\ Maps(va, i, p, "read")
           /\ Maps(va, j, p, "read") => i = j
<1>1. Maps(va, i, p, "read") BY DEF Maps
<1>2. ASSUME NEW acc \in {"read", "write"}, Maps(va, 0, p, acc), Maps(va, 1, p, "read")
      PROVE  FALSE
  BY <1>2 DEF Maps, IsPointer
<1>3. ASSUME Maps(va, j, p, "read"), i # j PROVE FALSE
  <2>1. CASE i = 0 /\ j = 1 BY <1>2, <1>3, <2>1
  <2>2. CASE i = 1 /\ j = 0 BY <1>1, <1>2, <1>3, <2>2
  <2> QED BY <1>3, <2>1, <2>2
<1> QED BY <1>1, <1>3

(* An AMO whose load fails does not store, although the code goes on,      *)
(* unless its place is write-only.                                         *)
LEMMA WritableReadable ==
    ASSUME TypeOK, NEW va \in VirtAddr
    PROVE  WriteImpliesRead(va)
<1> DEFINE w == BusAccess(va, "write")
           r == BusAccess(va, "read")
           p == EffectivePriv("read")
           t == Translate(mem, allowed, satpOn, Root, va, p, "read", status.sum, status.mxr)
<1>1. p \in Levels /\ EffectivePriv("write") = p
  BY EffectiveLevel DEF EffectivePriv, Accesses
<1>2. BusMeetsSpec(va, "write") BY BusCorrect DEF Accesses
<1>3. BusMeetsSpec(va, "read") BY BusCorrect DEF Accesses
<1>4. TranslateMeetsSpec(va, p, "read") BY <1>1, TranslateCorrect DEF Accesses
<1>5. /\ w.pa \in PhysAddr
      /\ w.done => Granted(p, w.pa[1], "write")
      /\ w.done /\ p # M /\ satpOn =>
            \E i \in {0, 1} : Maps(va, i, p, "write") /\ w.pa = OnBus(Target(va, i))
      /\ p = M \/ ~satpOn => w.pa = <<Frame(Entries * va[1] + va[2]), va[3]>>
  BY <1>1, <1>2 DEF BusMeetsSpec
<1>6. p = M \/ ~satpOn => t.ok /\ t.pa = <<Frame(Entries * va[1] + va[2]), va[3]>>
  BY <1>4 DEF TranslateMeetsSpec
<1>7. p # M /\ satpOn =>
         /\ t.ok <=> \E i \in {0, 1} : Maps(va, i, p, "read")
         /\ t.ok => \E i \in {0, 1} : Maps(va, i, p, "read") /\ t.pa = OnBus(Target(va, i))
  BY <1>4 DEF TranslateMeetsSpec
<1>8. t.ok => ~t.refused BY <1>4 DEF TranslateMeetsSpec
<1>9. /\ r.pa = t.pa /\ r.done = (t.ok /\ Granted(p, t.pa[1], "read"))
      /\ t.ok /\ ~t.refused /\ ~r.done => r.cause = "load_access"
  BY DEF BusAccess, AccessFault
<1> HIDE DEF w, r, p, t
<1>10. ASSUME w.done PROVE t.ok /\ t.pa = w.pa
  <2>1. CASE p = M \/ ~satpOn BY <1>5, <1>6, <1>10, <2>1
  <2>2. CASE p # M /\ satpOn
    <3>1. PICK i \in {0, 1} : Maps(va, i, p, "write") /\ w.pa = OnBus(Target(va, i))
      BY <1>5, <1>10, <2>2
    <3>2. Maps(va, i, p, "read") BY <1>1, <3>1, WritablePage
    <3>3. t.ok BY <1>7, <2>2, <3>2
    <3>4. PICK j \in {0, 1} : Maps(va, j, p, "read") /\ t.pa = OnBus(Target(va, j))
      BY <1>7, <2>2, <3>3
    <3>5. i = j BY <1>1, <3>1, <3>4, WritablePage
    <3> QED BY <3>1, <3>3, <3>4, <3>5
  <2> QED BY <2>1, <2>2
<1>11. ASSUME w.done, ~r.done
       PROVE  /\ r.cause = "load_access"
              /\ <<w.pa[1], "write">> \in allowed /\ <<w.pa[1], "read">> \notin allowed
  <2>1. r.cause = "load_access" BY <1>8, <1>9, <1>10, <1>11
  <2>2. ~Granted(p, w.pa[1], "read") BY <1>9, <1>10, <1>11
  <2>3. Granted(p, w.pa[1], "write") BY <1>5, <1>11
  <2> QED BY <2>1, <2>2, <2>3 DEF Granted
<1> QED BY <1>9, <1>10, <1>11 DEF WriteImpliesRead, w, r

(* What an access reports tells whether it was made.                       *)
LEMMA CauseTells ==
    ASSUME TypeOK, NEW va \in VirtAddr, NEW acc \in Accesses
    PROVE  /\ BusAccess(va, acc).done <=> BusAccess(va, acc).cause = "none"
           /\ BusAccess(va, acc).pa \in PhysAddr
<1>1. BusMeetsSpec(va, acc) BY BusCorrect
<1> QED BY <1>1 DEF BusMeetsSpec

(* A trap that an instruction raises comes from a reported cause.          *)
LEMMA RaiseTells ==
    ASSUME NEW c, NEW op, Raise(c, op)
    PROVE  /\ trap' # NoTrap => c # "none" /\ trap' = [cause |-> c, op |-> op]
           /\ trap' = NoTrap => c = "none"
BY DEF Raise, NoTrap

(* A load or store that traps has changed nothing, and an AMO or SC that   *)
(* traps has not changed memory, but for the AMO on a write-only region,   *)
(* for every setting of the PMP.                                           *)
THEOREM FaultAtomicAlways == Spec => FaultAtomic
<1> DEFINE Stays == \A pa \in PhysAddr : mem'[pa] # mem[pa] =>
                      /\ trap' = [cause |-> "load_access", op |-> "amo"]
                      /\ <<pa[1], "write">> \in allowed /\ <<pa[1], "read">> \notin allowed
           Atomic == trap = NoTrap /\ trap' # NoTrap =>
                       Stays /\ (x' = x \/ trap'.op \in {"sc", "amo"})
<1>1. TypeOK /\ [Next]_vars => Atomic
  <2> SUFFICES ASSUME TypeOK, [Next]_vars, trap = NoTrap, trap' # NoTrap
               PROVE  Stays /\ (x' = x \/ trap'.op \in {"sc", "amo"})
    OBVIOUS
  <2>1. Instruction
    BY DEF Next, Compute, ServeTrap, Return, WriteStatus, WriteSatp, WritePmp, vars
  <2>2. PICK va \in Vas, rd \in Registers, rs2 \in Registers :
           \/ Fetch(va) \/ Load(va, rd) \/ Store(va, rs2) \/ LR(va, rd)
           \/ SC(va, rd, rs2) \/ \E op \in AmoOps : AMO(va, rd, rs2, op)
    BY <2>1 DEF Instruction
  <2> DEFINE b1 == BusAccess(va, "read")
             b2 == BusAccess(va, "write")
  <2>3. va \in VirtAddr BY GuestAssumption
  <2>4. /\ b1.done <=> b1.cause = "none"
        /\ b2.done <=> b2.cause = "none"
        /\ b2.pa \in PhysAddr
    BY <2>3, CauseTells DEF Accesses
  <2>5. b2.done /\ ~b1.done => /\ b1.cause = "load_access"
                              /\ <<b2.pa[1], "write">> \in allowed
                              /\ <<b2.pa[1], "read">> \notin allowed
    <3>1. WriteImpliesRead(va) BY <2>3, WritableReadable
    <3> QED BY <3>1 DEF WriteImpliesRead
  <2>6. CASE Fetch(va) BY <2>6 DEF Fetch
  <2>7. CASE Load(va, rd) \/ LR(va, rd)
    <3>1. PICK op \in {"load", "lr"} : LoadInto(va, rd, op) BY <2>7 DEF Load, LR
    <3>2. /\ x' = IF b1.done THEN SetReg(rd, mem[b1.pa]) ELSE x
          /\ Raise(b1.cause, op) /\ mem' = mem
      BY <3>1 DEF LoadInto
    <3> HIDE DEF b1, b2
    <3>3. b1.cause # "none" BY <3>2, RaiseTells
    <3> QED BY <2>4, <3>2, <3>3
  <2>8. CASE Store(va, rs2)
    <3>1. mem' = Stored(b2, x[rs2]) /\ Raise(b2.cause, "store") /\ x' = x
      BY <2>8 DEF Store
    <3> HIDE DEF b1, b2
    <3>2. b2.cause # "none" BY <3>1, RaiseTells
    <3> QED BY <2>4, <3>1, <3>2 DEF Stored
  <2>9. CASE SC(va, rd, rs2)
    <3>1. mem' = Stored(b2, x[rs2]) /\ Raise(b2.cause, "sc") BY <2>9 DEF SC
    <3> HIDE DEF b1, b2
    <3>2. b2.cause # "none" /\ trap'.op = "sc" BY <3>1, RaiseTells
    <3> QED BY <2>4, <3>1, <3>2 DEF Stored
  <2>10. CASE \E op \in AmoOps : AMO(va, rd, rs2, op)
    <3>1. PICK op \in AmoOps : AMO(va, rd, rs2, op) BY <2>10
    <3>2. (\E v : mem' = Stored(b2, v)) /\ Raise(FirstCause(b1.cause, b2.cause), "amo")
      BY <3>1 DEF AMO
    <3> HIDE DEF b1, b2
    <3>3. /\ FirstCause(b1.cause, b2.cause) # "none"
          /\ trap' = [cause |-> FirstCause(b1.cause, b2.cause), op |-> "amo"]
      BY <3>2, RaiseTells
    <3>4. CASE ~b2.done BY <3>2, <3>3, <3>4 DEF Stored
    <3>5. CASE b2.done
      <4>1. ~b1.done BY <2>4, <3>3, <3>5 DEF FirstCause
      <4>2. b1.cause = "load_access" BY <2>5, <3>5, <4>1
      <4>3. FirstCause(b1.cause, b2.cause) = "load_access" BY <4>2 DEF FirstCause
      <4>4. trap' = [cause |-> "load_access", op |-> "amo"] BY <3>3, <4>3
      <4>5. \A pa \in PhysAddr : mem'[pa] # mem[pa] => pa = b2.pa
        <5>1. PICK v : mem' = [mem EXCEPT ![b2.pa] = v] BY <3>2, <3>5 DEF Stored
        <5> QED BY <5>1 DEF TypeOK
      <4> QED BY <2>5, <3>5, <4>1, <4>4, <4>5
    <3> QED BY <3>4, <3>5
  <2> QED BY <2>2, <2>6, <2>7, <2>8, <2>9, <2>10
<1> QED BY <1>1, TypeCorrect, PTL DEF Spec, FaultAtomic

(* An AMO that does not trap is atomic and exact, for any registers.       *)
THEOREM AmoExactAlways == Spec => AmoExact
<1> DEFINE Exact(va, rd, rs2, op) ==
             LET pa == BusAccess(va, "read").pa
             IN  /\ mem' = [mem EXCEPT ![pa] = AmoResult(op, mem[pa], x[rs2])]
                 /\ rd # x0 => x'[rd] = mem[pa]
           Amos == trap' = NoTrap /\ lr' = lr =>
                     \A va \in Vas, rd, rs2 \in Registers, op \in AmoOps :
                       AMO(va, rd, rs2, op) => Exact(va, rd, rs2, op)
<1>1. TypeOK => Amos
  <2> SUFFICES ASSUME TypeOK, trap' = NoTrap,
                      NEW va \in Vas, NEW rd \in Registers, NEW rs2 \in Registers,
                      NEW op \in AmoOps, AMO(va, rd, rs2, op)
               PROVE  Exact(va, rd, rs2, op)
    OBVIOUS
  <2> DEFINE b1 == BusAccess(va, "read")
             b2 == BusAccess(va, "write")
             loaded == IF b1.done THEN mem[b1.pa] ELSE x[rd]
  <2>1. va \in VirtAddr BY GuestAssumption
  <2>2. /\ b1.done <=> b1.cause = "none"
        /\ b2.done <=> b2.cause = "none"
        /\ b1.pa \in PhysAddr
    BY <2>1, CauseTells DEF Accesses
  <2>3. b2.done => b1.pa = b2.pa
    <3>1. WriteImpliesRead(va) BY <2>1, WritableReadable
    <3> QED BY <3>1 DEF WriteImpliesRead
  <2>4. /\ x' = SetReg(rd, loaded)
        /\ mem' = Stored(b2, AmoResult(op, loaded, x[rs2]))
        /\ Raise(FirstCause(b1.cause, b2.cause), "amo")
    BY DEF AMO, Operand
  <2> HIDE DEF b1, b2
  <2>5. FirstCause(b1.cause, b2.cause) = "none" BY <2>4, RaiseTells
  <2>6. b1.done /\ b2.done BY <2>2, <2>5 DEF FirstCause
  <2>7. loaded = mem[b1.pa] /\ b1.pa = b2.pa BY <2>3, <2>6
  <2>8. mem' = [mem EXCEPT ![b1.pa] = AmoResult(op, mem[b1.pa], x[rs2])]
    BY <2>4, <2>6, <2>7 DEF Stored
  <2>9. rd # x0 => x'[rd] = mem[b1.pa]
    BY <2>4, <2>7 DEF SetReg, TypeOK
  <2> QED BY <2>8, <2>9 DEF b1
<1> QED BY <1>1, TypeCorrect, PTL DEF Spec, AmoExact
=============================================================================
