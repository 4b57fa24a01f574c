------------------------------- MODULE MCPmp -------------------------------
(* An instance of Pmp for TLC: four entries, two in a register, and a      *)
(* ten-bit address space, so that pmpaddr0 has a low byte.                 *)
EXTENDS Pmp

Byte(l, m, p) == [lock |-> l, mode |-> m, perm |-> p]

(* Entries of every mode (off is the initial one); the locked ones stay.   *)
MCCfgVals == {Byte(TRUE, "tor", {"x"}), Byte(TRUE, "napot", {"r", "w"}),
              Byte(FALSE, "na4", {"w"})}

(* Two regions at the same place, 8 bytes or 32 bytes from 544 on, or the  *)
(* words 544 and 556; their low byte reads as a locked TOR configuration.  *)
MCAddrVals == {136, 139}

(* Next to the borders 544, 548, 552, 556 and 576, and the two ends of the *)
(* address space.                                                          *)
MCProbes == {0, 542, 544, 550, 555, 574, 1021}
=============================================================================
