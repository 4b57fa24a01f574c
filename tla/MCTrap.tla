------------------------------ MODULE MCTrap ------------------------------
(* Instances of Trap for TLC.                                              *)
EXTENDS Trap

Op(o, c, v, z) == [op |-> o, csr |-> c, val |-> v, x0 |-> z]

(* Firmware that delegates, enables and drops to the lower levels, and a   *)
(* supervisor that uses its restricted views.                              *)
MCGuestOps == {
    Op("rw", "mstatus", {1, 3, 5, 7, 11}, FALSE),
    Op("rw", "mstatus", {12}, TRUE),
    Op("rw", "sstatus", {}, TRUE),
    Op("rs", "sstatus", {1, 3}, FALSE),
    Op("rs", "mie", {7, 9, 11}, FALSE),
    Op("rs", "mip", {7, 9}, FALSE),
    Op("rs", "mideleg", {9}, FALSE),
    Op("rs", "medeleg", {13}, FALSE),
    Op("rs", "sedeleg", {13}, FALSE),
    Op("rw", "misa", {}, TRUE)}
=============================================================================
