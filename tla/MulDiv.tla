------------------------------- MODULE MulDiv -------------------------------
(***************************************************************************)
(* Multiplication and division of src/src/core/core.c, and the wide        *)
(* products of src/src/core/riscv_helper.h they are built from.            *)
(*                                                                         *)
(* The code has every wide product twice, for RV32 from halves of 16 bits  *)
(* and for RV64 from halves of 32.  Here h is the number of values of such *)
(* a half, 2^16 or 2^32; a register has h * h values.  Registers are       *)
(* unsigned, Signed(h, r) is a register read as an intX_t.  Arithmetic on  *)
(* uintX_t and the conversion to it wrap around; where the code lets an    *)
(* intX_t overflow (MUL, *hi -= b) the built program wraps around as well. *)
(***************************************************************************)
EXTENDS Integers

Base(h) == h * h
Register(h) == 0..(Base(h) - 1)
Signed(h, r) == IF 2 * r < Base(h) THEN r ELSE r - Base(h)
Wrap(h, n) == n % Base(h)

-----------------------------------------------------------------------------
(* riscv_helper.h.  No product of two halves overflows the register.       *)

umulwide(h, a, b) ==
    LET p0 == (a % h) * (b % h)
        p1 == (a % h) * (b \div h)
        p2 == (a \div h) * (b % h)
        p3 == (a \div h) * (b \div h)
        cy == (((p0 \div h) + (p1 % h) + (p2 % h)) \div h) % h
    IN  [lo |-> Wrap(h, p0 + Wrap(h, p1 * h) + Wrap(h, p2 * h)),
         hi |-> Wrap(h, p3 + (p1 \div h) + (p2 \div h) + cy)]

(* The sign of an operand is corrected for in the upper half.              *)
mulwide(h, a, b) ==
    LET u == umulwide(h, a, b)
        hi1 == IF Signed(h, a) < 0 THEN Wrap(h, u.hi - Signed(h, b)) ELSE u.hi
    IN  [lo |-> u.lo,
         hi |-> IF Signed(h, b) < 0 THEN Wrap(h, hi1 - Signed(h, a)) ELSE hi1]

mulhsuwide(h, a, b) ==
    LET u == umulwide(h, a, b)
    IN  [lo |-> u.lo,
         hi |-> IF Signed(h, a) < 0 THEN Wrap(h, u.hi - b) ELSE u.hi]

-----------------------------------------------------------------------------
(* core.c: what the instruction leaves in rd, of rs1 = a and rs2 = b.      *)

MUL(h, a, b) == Wrap(h, Signed(h, a) * Signed(h, b))
MULHU(h, a, b) == umulwide(h, a, b).hi
MULH(h, a, b) == mulwide(h, a, b).hi
MULHSU(h, a, b) == mulhsuwide(h, a, b).hi

Abs(n) == IF n < 0 THEN -n ELSE n

(* Division in C truncates towards zero, and n % d has the sign of n.      *)
Quotient(n, d) ==
    IF (n < 0) = (d < 0) THEN Abs(n) \div Abs(d) ELSE -(Abs(n) \div Abs(d))
Remainder(n, d) == IF n < 0 THEN -(Abs(n) % Abs(d)) ELSE Abs(n) % Abs(d)

IntMin(h, a) == 2 * Signed(h, a) = -Base(h)

DIV(h, a, b) ==
    IF b = 0 THEN Wrap(h, -1)
    ELSE IF IntMin(h, a) /\ Signed(h, b) = -1 THEN a
    ELSE Wrap(h, Quotient(Signed(h, a), Signed(h, b)))

REM(h, a, b) ==
    IF b = 0 THEN a
    ELSE IF IntMin(h, a) /\ Signed(h, b) = -1 THEN 0
    ELSE Wrap(h, Remainder(Signed(h, a), Signed(h, b)))

DIVU(h, a, b) == IF b = 0 THEN Wrap(h, -1) ELSE a \div b
REMU(h, a, b) == IF b = 0 THEN a ELSE a % b
=============================================================================
