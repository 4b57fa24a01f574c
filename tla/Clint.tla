------------------------------- MODULE Clint -------------------------------
(***************************************************************************)
(* The core-local interruptor, src/src/peripherals/clint/clint.c: software *)
(* interrupt bit, timer and timer compare.  The 64-bit registers are one   *)
(* array of the words a 32-bit hart accesses, low word first, as the code  *)
(* addresses them through a byte pointer; a word has WordBase values.      *)
(*                                                                         *)
(* A definition X_Word right before X is a faulty variant of X.            *)
(***************************************************************************)
EXTENDS Integers

CONSTANT WordBase   \* 2^32, the values of a word

VARIABLE regs       \* clint->regs, seen as words

ASSUME WordBaseAssumption == WordBase \in Nat /\ WordBase >= 2

Low == 0
High == 1
RegWords == 2
Msip == 0
Mtimecmp == 1
Mtime == 2

ClintWord == 0..(WordBase - 1)
MaxWord == WordBase - 1

(* get_u8_arr_index_offs plus the offset in the register.                  *)
Index_Base(r, half) == r * RegWords
Index(r, half) == r * RegWords + half

RegValue(rg, r) == rg[Index(r, Low)] + WordBase * rg[Index(r, High)]

ClintInit == regs = [i \in 0..5 |-> 0]

(* clint_bus_access: a write of one aligned word.                          *)
ClintWrite(r, half, v) == regs' = [regs EXCEPT ![Index(r, half)] = v]

(* clint_update: the timer runs, then the two interrupt lines.             *)
Ticked_NoWrap ==
    LET t == RegValue(regs, Mtime) + 1
    IN  [regs EXCEPT ![Index(Mtime, Low)] = t % WordBase,
                     ![Index(Mtime, High)] = t \div WordBase]
Ticked ==
    LET t == RegValue(regs, Mtime) + 1
    IN  [regs EXCEPT ![Index(Mtime, Low)] = t % WordBase,
                     ![Index(Mtime, High)] = (t \div WordBase) % WordBase]

ClintUpdate == regs' = Ticked

Mti_LowOnly(rg) == rg[Index(Mtime, Low)] >= rg[Index(Mtimecmp, Low)]
Mti(rg) == RegValue(rg, Mtime) >= RegValue(rg, Mtimecmp)
Msi(rg) == rg[Index(Msip, Low)] % 2 = 1
=============================================================================
