-------------------------------- MODULE Mmu --------------------------------
(***************************************************************************)
(* Address translation: the Sv32 walk of src/src/core/mmu/mmu.c over the   *)
(* PMP-checked bus of core.c.                                              *)
(*                                                                         *)
(* The geometry is that of Sv32 with tables of Entries words: a virtual    *)
(* address is <<vpn1, vpn0, offset>>, a physical one <<frame, offset>>, a  *)
(* frame holds one table, and Entries frames make a superpage.  A word is  *)
(* the page-table entry it reads as.  Page numbers of an entry are wider   *)
(* than a 32-bit address, and the code computes addresses in 32 bits: a    *)
(* number is taken modulo Frames.                                          *)
(*                                                                         *)
(* A definition X_Word right before X is a faulty variant of X.            *)
(***************************************************************************)
EXTENDS Integers

CONSTANTS
    Entries,    \* SV32_PAGE_TABLE_ENTRIES
    NrFrames    \* frames of the 32-bit physical address space

ASSUME EntriesAssumption == Entries \in Nat \ {0}
ASSUME FramesAssumption == NrFrames \in Nat \ {0} /\ NrFrames % Entries = 0

U == 0
S == 1
M == 3
Levels == {U, S, M}
Accesses == {"read", "write", "instr"}

Index == 0..(Entries - 1)
Frames == 0..(NrFrames - 1)
VirtAddr == Index \X Index \X Index
PhysAddr == Frames \X Index

Word == [v : BOOLEAN, r : BOOLEAN, w : BOOLEAN, x : BOOLEAN, u : BOOLEAN,
         a : BOOLEAN, d : BOOLEAN, ppn : 0..(2 * NrFrames - 1)]
Zero == [v |-> FALSE, r |-> FALSE, w |-> FALSE, x |-> FALSE, u |-> FALSE,
         a |-> FALSE, d |-> FALSE, ppn |-> 0]

Frame(n) == n % NrFrames
Superpage(n) == (n \div Entries) * Entries

-----------------------------------------------------------------------------
(* mmu_virt_to_phys.  m is the memory, allowed the <<frame, access>> pairs *)
(* the PMP grants a hart below machine mode.                               *)

(* The result of a page-table read is not looked at: if the PMP refuses    *)
(* it, pte keeps the value of the level before.                            *)
ReadPte_Unchecked(m, allowed, f, i, old) == m[<<f, i>>]
ReadPte(m, allowed, f, i, old) ==
    IF <<f, "read">> \in allowed THEN m[<<f, i>>] ELSE old

Invalid(pte) == ~pte.v \/ (~pte.r /\ pte.w)
IsLeaf(pte) == pte.r \/ pte.x

(* Step 5: the privilege level, SUM, MXR and the access against the flags. *)
Permitted_NoSum(pte, p, acc, sum, mxr) ==
    /\ p = U => pte.u
    /\ acc = "read" => pte.r \/ (pte.x /\ mxr)
    /\ acc = "write" => pte.w
    /\ acc = "instr" => pte.x
Permitted(pte, p, acc, sum, mxr) ==
    /\ p = U => pte.u
    /\ p = S /\ pte.u => sum
    /\ acc = "read" => pte.r \/ (pte.x /\ mxr)
    /\ acc = "write" => pte.w
    /\ acc = "instr" => pte.x

(* Step 7: the access and dirty bits are the software's to set.            *)
Marked(pte, acc) == pte.a /\ (acc = "write" => pte.d)

(* Steps 5 to 8 for a leaf at level i; refused tells that the PMP refused a*)
(* read on the way, which has raised an access fault already.              *)
Aligned_Never(pte, i) == TRUE
Aligned(pte, i) == i = 1 => pte.ppn % Entries = 0

PageFault(refused) == [ok |-> FALSE, pa |-> <<0, 0>>, refused |-> refused]

FinishLeaf(pte, i, va, p, acc, sum, mxr, refused) ==
    IF Permitted(pte, p, acc, sum, mxr) /\ Aligned(pte, i) /\ Marked(pte, acc)
    THEN [ok |-> TRUE, refused |-> refused,
          pa |-> <<Frame(IF i = 1 THEN Superpage(pte.ppn) + va[2] ELSE pte.ppn), va[3]>>]
    ELSE PageFault(refused)

Walk(m, allowed, root, va, p, acc, sum, mxr) ==
    LET pte1 == ReadPte(m, allowed, root, va[1], Zero)
        refused1 == <<root, "read">> \notin allowed
        a == Frame(pte1.ppn)
        pte0 == ReadPte(m, allowed, a, va[2], pte1)
        refused0 == <<a, "read">> \notin allowed
    IN  IF Invalid(pte1) THEN PageFault(refused1)
        ELSE IF IsLeaf(pte1) THEN FinishLeaf(pte1, 1, va, p, acc, sum, mxr, refused1)
        ELSE IF Invalid(pte0) \/ ~IsLeaf(pte0) THEN PageFault(refused1 \/ refused0)
        ELSE FinishLeaf(pte0, 0, va, p, acc, sum, mxr, refused1 \/ refused0)

(* No translation in machine mode or with satp.MODE = 0.                   *)
Translate(m, allowed, on, root, va, p, acc, sum, mxr) ==
    IF p = M \/ ~on
    THEN [ok |-> TRUE, refused |-> FALSE, pa |-> <<Frame(Entries * va[1] + va[2]), va[3]>>]
    ELSE Walk(m, allowed, root, va, p, acc, sum, mxr)
=============================================================================
