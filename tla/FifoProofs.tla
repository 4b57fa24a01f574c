----------------------------- MODULE FifoProofs -----------------------------
(***************************************************************************)
(* Proofs about Fifo for every size, counter width and interleaving of the *)
(* reader and the writer: first the types and reservations, then that the  *)
(* ring buffer implements BoundedQueue.                                    *)
(***************************************************************************)
EXTENDS Fifo, SequenceTheorems, TLAPS

(* Between two calls a side holds no reservation.                          *)
IdleHoldsNothing ==
    /\ wpc = "idle" => wbuf = <<>>
    /\ rpc = "idle" => rlen = 0

Inv == TypeOK /\ ReservationHolds /\ IdleHoldsNothing

(* Counter arithmetic: advancing `in' lengthens the fifo, advancing `out'  *)
(* shortens it, also across the wrap-around.                               *)
LEMMA CounterFacts ==
    ASSUME NEW a \in 0..(CounterMod - 1), NEW b \in 0..(CounterMod - 1),
           NEW n \in Nat
    PROVE  /\ Diff(a, b) \in 0..(CounterMod - 1)
           /\ n <= Size => Advance(a, n) \in 0..(CounterMod - 1)
           /\ Diff(a, b) + n <= Size => Diff(Advance(a, n), b) = Diff(a, b) + n
           /\ n <= Diff(a, b) /\ n <= Size => Diff(a, Advance(b, n)) = Diff(a, b) - n
BY SizeAssumption, CounterModAssumption DEF Diff, Advance

(* The bytes a call copies in are a prefix of the caller's.                *)
LEMMA ClippedFacts ==
    ASSUME NEW batch \in Batch, NEW room \in Nat
    PROVE  /\ SubSeq(batch, 1, Smaller(Len(batch), room)) \in Seq(Vals)
           /\ Len(SubSeq(batch, 1, Smaller(Len(batch), room))) <= room
<1>1. PICK n \in 1..MaxBatch : batch \in [1..n -> Vals]
  BY DEF Batch
<1>2. batch \in Seq(Vals) /\ Len(batch) = n /\ n \in Nat
  BY <1>1, ValsAssumption
<1>3. Smaller(Len(batch), room) \in 0..Len(batch) /\ Smaller(Len(batch), room) <= room
  BY <1>2 DEF Smaller
<1>4. QED BY <1>2, <1>3

(* Copying keeps the buffer and the reader's bytes well typed.             *)
LEMMA CopyFacts ==
    ASSUME TypeOK, NEW off \in 0..(Size - 1)
    PROVE  /\ \A buf \in Seq(Vals) :
                Len(buf) <= Size => CopiedIn(buf, off) \in [0..(Size - 1) -> Vals]
           /\ \A len \in 0..Size : CopiedOut(len, off) \in Seq(Vals)
<1>1. ASSUME NEW buf \in Seq(Vals), Len(buf) <= Size
      PROVE  CopiedIn(buf, off) \in [0..(Size - 1) -> Vals]
  <2> DEFINE l == Smaller(Size - off, Len(buf))
  <2>1. l \in Nat /\ l <= Len(buf) /\ l <= Size - off
    BY <1>1, SizeAssumption DEF Smaller
  <2>2. ASSUME NEW s \in 0..(Size - 1)
        PROVE  (IF s >= off /\ s < off + l THEN buf[s - off + 1]
                ELSE IF s < Len(buf) - l THEN buf[l + s + 1] ELSE data[s]) \in Vals
    <3>1. CASE s >= off /\ s < off + l
      <4>1. s - off + 1 \in 1..Len(buf)
        BY <2>1, <3>1, SizeAssumption
      <4>2. QED BY <3>1, <4>1
    <3>2. CASE ~(s >= off /\ s < off + l) /\ s < Len(buf) - l
      <4>1. l + s + 1 \in 1..Len(buf)
        BY <2>1, <3>2, SizeAssumption
      <4>2. QED BY <3>2, <4>1
    <3>3. CASE ~(s >= off /\ s < off + l) /\ ~(s < Len(buf) - l)
      BY <3>3 DEF TypeOK
    <3>4. QED BY <3>1, <3>2, <3>3
  <2> HIDE DEF l
  <2>3. QED BY <2>2 DEF CopiedIn, l
<1>2. ASSUME NEW len \in 0..Size PROVE CopiedOut(len, off) \in Seq(Vals)
  <2> DEFINE l == Smaller(Size - off, len)
  <2>1. l \in Nat /\ l <= len /\ l <= Size - off
    BY SizeAssumption DEF Smaller
  <2>2. ASSUME NEW k \in 1..len
        PROVE  (IF k <= l THEN data[off + k - 1] ELSE data[k - l - 1]) \in Vals
    <3>1. CASE k <= l
      <4>1. off + k - 1 \in 0..(Size - 1)
        BY <2>1, <3>1, SizeAssumption
      <4>2. QED BY <3>1, <4>1 DEF TypeOK
    <3>2. CASE ~(k <= l)
      <4>1. k - l - 1 \in 0..(Size - 1)
        BY <2>1, <3>2, SizeAssumption
      <4>2. QED BY <3>2, <4>1 DEF TypeOK
    <3>3. QED BY <3>1, <3>2
  <2> HIDE DEF l
  <2>3. CopiedOut(len, off) \in [1..len -> Vals]
    BY <2>2 DEF CopiedOut, l
  <2>4. QED BY <2>3
<1>3. QED BY <1>1, <1>2

(* fifo_init establishes the invariant.                                    *)
LEMMA InitInv == Init => Inv
<1> SUFFICES ASSUME Init PROVE Inv
  OBVIOUS
<1>1. <<>> \in Seq(Vals) /\ Len(<<>>) = 0
  OBVIOUS
<1>2. TypeOK
  BY <1>1, SizeAssumption, CounterModAssumption, ValsAssumption DEF Init, TypeOK
<1>3. fifo_len = 0
  BY DEF Init, fifo_len, Diff
<1>4. QED BY <1>1, <1>2, <1>3, SizeAssumption DEF Init, Inv, ReservationHolds, IdleHoldsNothing

(* Every step of either side keeps it.                                     *)
LEMMA NextInv == Inv /\ [Next]_vars => Inv'
<1> SUFFICES ASSUME Inv, [Next]_vars PROVE Inv'
  OBVIOUS
<1> USE DEF Inv, IdleHoldsNothing
<1>0. /\ <<>> \in Seq(Vals) /\ Len(<<>>) = 0
      /\ fifo_len \in Nat /\ Len(wbuf) \in Nat /\ rlen \in Nat
      /\ Slot(in) \in 0..(Size - 1) /\ Slot(out) \in 0..(Size - 1)
  <2>1. fifo_len \in Nat
    BY CounterFacts DEF TypeOK, fifo_len
  <2>2. Slot(in) \in 0..(Size - 1) /\ Slot(out) \in 0..(Size - 1)
    BY SizeAssumption DEF TypeOK, Slot
  <2>3. QED BY <2>1, <2>2 DEF TypeOK
<1>1. ASSUME NEW batch \in Batch, StartIn(batch) PROVE Inv'
  <2>1. fifo_unused \in Nat /\ fifo_len + fifo_unused = Size
    BY <1>0, SizeAssumption DEF fifo_unused, fifo_len, ReservationHolds
  <2>2. wbuf' \in Seq(Vals) /\ Len(wbuf') <= fifo_unused
    BY <1>1, <2>1, ClippedFacts DEF StartIn
  <2>3. TypeOK'
    BY <1>1, <2>2 DEF StartIn, TypeOK
  <2>4. fifo_len' = fifo_len
    BY <1>1 DEF StartIn, fifo_len
  <2>5. Len(wbuf') \in Nat
    BY <2>2
  <2>6. QED
    BY <1>0, <1>1, <2>1, <2>2, <2>3, <2>4, <2>5, SizeAssumption DEF StartIn, ReservationHolds
<1>2. CASE CopyIn
  <2>1. Len(wbuf) <= Size
    BY <1>0, SizeAssumption DEF ReservationHolds
  <2>2. data' \in [0..(Size - 1) -> Vals]
    BY <1>0, <1>2, <2>1, CopyFacts, SizeAssumption DEF CopyIn, TypeOK
  <2>3. QED BY <1>2, <2>2 DEF CopyIn, TypeOK, ReservationHolds, fifo_len
<1>3. CASE CommitIn
  <2>1. fifo_len + Len(wbuf) <= Size /\ Len(wbuf) <= Size
    BY <1>0, SizeAssumption DEF ReservationHolds
  <2>2. in' \in 0..(CounterMod - 1) /\ fifo_len' = fifo_len + Len(wbuf)
    BY <1>0, <1>3, <2>1, CounterFacts DEF CommitIn, TypeOK, fifo_len
  <2>3. QED
    BY <1>0, <1>3, <2>1, <2>2, SizeAssumption DEF CommitIn, TypeOK, ReservationHolds
<1>4. ASSUME NEW n \in 1..MaxBatch, StartOut(n) PROVE Inv'
  <2>1. rlen' \in Nat /\ rlen' <= fifo_len
    BY <1>0, <1>4, ValsAssumption DEF StartOut, Smaller
  <2>2. QED BY <1>4, <2>1 DEF StartOut, TypeOK, ReservationHolds, fifo_len
<1>5. CASE CopyOut
  <2>1. rlen <= Size
    BY <1>0, SizeAssumption DEF ReservationHolds
  <2>2. rbuf' \in Seq(Vals)
    BY <1>0, <1>5, <2>1, CopyFacts, SizeAssumption DEF CopyOut
  <2>3. QED BY <1>5, <2>2 DEF CopyOut, TypeOK, ReservationHolds, fifo_len
<1>6. CASE CommitOut
  <2>1. rlen <= fifo_len /\ rlen <= Size
    BY <1>0, SizeAssumption DEF ReservationHolds
  <2>2. out' \in 0..(CounterMod - 1) /\ fifo_len' = fifo_len - rlen
    BY <1>0, <1>6, <2>1, CounterFacts DEF CommitOut, TypeOK, fifo_len
  <2>3. QED
    BY <1>0, <1>6, <2>1, <2>2, SizeAssumption DEF CommitOut, TypeOK, ReservationHolds
<1>7. CASE Reset
  <2>1. fifo_len' = 0
    BY <1>7 DEF Reset, fifo_len, Diff
  <2>2. wbuf = <<>> /\ rlen = 0
    BY <1>7 DEF Reset
  <2>3. QED BY <1>0, <1>7, <2>1, <2>2, SizeAssumption, CounterModAssumption DEF Reset, TypeOK, ReservationHolds
<1>8. CASE UNCHANGED vars
  BY <1>8 DEF vars, TypeOK, ReservationHolds, fifo_len
<1>9. QED BY <1>1, <1>2, <1>3, <1>4, <1>5, <1>6, <1>7, <1>8 DEF Next

(* The inductive invariant holds in every reachable state.                 *)
THEOREM Invariance == Spec => []Inv
BY InitInv, NextInv, PTL DEF Spec

(* The counters stay unsigned ints and the buffers hold bytes.             *)
THEOREM TypeCorrect == Spec => []TypeOK
<1>1. Inv => TypeOK
  BY DEF Inv
<1>2. QED BY <1>1, Invariance, PTL

(* What fifo_in and fifo_out saw of the counters stays true until they     *)
(* advance them, without a lock and across the wrap-around.                *)
THEOREM ReservationsHold == Spec => []ReservationHolds
<1>1. Inv => ReservationHolds
  BY DEF Inv
<1>2. QED BY <1>1, Invariance, PTL

-----------------------------------------------------------------------------
(* Division with remainder: the remainder is unique.                       *)
LEMMA DivMod ==
    ASSUME NEW n \in Nat, n > 0, NEW a \in Nat
    PROVE  a % n \in 0..(n - 1) /\ a \div n \in Nat /\ a = n * (a \div n) + (a % n)
OBVIOUS

(* Two quotients that differ are a whole divisor apart.                    *)
LEMMA QuotientGap ==
    ASSUME NEW n \in Nat, NEW p \in Int, NEW q \in Int, p > q
    PROVE  n * p >= n * q + n
<1>1. p - q - 1 \in Nat /\ p = q + 1 + (p - q - 1)
  OBVIOUS
<1>2. PICK d \in Nat : p = q + 1 + d
  BY <1>1
<1>3. n * p = n * q + n + n * d
  BY <1>2
<1>4. n * d >= 0
  OBVIOUS
<1>5. QED BY <1>3, <1>4

(* Equal sums have equal remainders.                                       *)
LEMMA RemainderUnique ==
    ASSUME NEW n \in Nat, n > 0, NEW p \in Int, NEW q \in Int,
           NEW r \in 0..(n - 1), NEW s \in 0..(n - 1), n * p + r = n * q + s
    PROVE  r = s
<1>1. CASE p > q
  BY <1>1, QuotientGap
<1>2. CASE q > p
  BY <1>2, QuotientGap
<1>3. CASE p = q
  BY <1>3
<1>4. QED BY <1>1, <1>2, <1>3

(* The slot k places further on, at most once around the buffer.           *)
LEMMA SlotPlus ==
    ASSUME NEW c \in Nat, NEW k \in 0..Size
    PROVE  Slot(c + k) = IF Slot(c) + k < Size THEN Slot(c) + k ELSE Slot(c) + k - Size
<1> DEFINE p == c \div Size
           r == c % Size
           q == (c + k) \div Size
           s == (c + k) % Size
<1>1. c = Size * p + r /\ r \in 0..(Size - 1) /\ p \in Nat
  BY SizeAssumption, DivMod
<1>2. c + k = Size * q + s /\ s \in 0..(Size - 1) /\ q \in Nat
  BY SizeAssumption, DivMod
<1>3. Slot(c) = r /\ Slot(c + k) = s
  BY DEF Slot
<1> HIDE DEF p, q, r, s
<1>4. CASE r + k < Size
  <2> DEFINE v == r + k
  <2>1. p \in Int /\ q \in Int /\ v \in 0..(Size - 1)
    BY <1>1, <1>2, <1>4, SizeAssumption
  <2>2. Size * p + v = Size * q + s
    BY <1>1, <1>2, SizeAssumption
  <2> HIDE DEF v
  <2>3. v = s
    BY <1>2, <2>1, <2>2, SizeAssumption, RemainderUnique, Zenon
  <2>4. QED BY <1>3, <1>4, <2>3 DEF v
<1>5. CASE ~(r + k < Size)
  <2> DEFINE u == p + 1
             v == r + k - Size
  <2>1. u \in Int /\ q \in Int /\ v \in 0..(Size - 1)
    BY <1>1, <1>2, <1>5, SizeAssumption
  <2>2. Size * u + v = Size * q + s
    BY <1>1, <1>2, SizeAssumption
  <2> HIDE DEF u, v
  <2>3. v = s
    BY <1>2, <2>1, <2>2, SizeAssumption, RemainderUnique, Zenon
  <2>4. QED BY <1>3, <1>5, <2>3 DEF v
<1>6. QED BY <1>4, <1>5

(* A counter's wrap-around does not disturb the slots.                     *)
LEMMA SlotWrap ==
    ASSUME NEW c \in Nat
    PROVE  Slot(c + CounterMod) = Slot(c)
<1> DEFINE p == c \div Size
           r == c % Size
           q == (c + CounterMod) \div Size
           s == (c + CounterMod) % Size
           t == CounterMod \div Size
<1>1. c = Size * p + r /\ r \in 0..(Size - 1) /\ p \in Nat
  BY SizeAssumption, DivMod
<1>2. c + CounterMod = Size * q + s /\ s \in 0..(Size - 1) /\ q \in Nat
  BY SizeAssumption, CounterModAssumption, DivMod
<1>3. CounterMod = Size * t /\ t \in Nat
  BY SizeAssumption, CounterModAssumption, DivMod
<1>4. Slot(c) = r /\ Slot(c + CounterMod) = s
  BY DEF Slot
<1> HIDE DEF p, q, r, s, t
<1>5. p + t \in Int /\ q \in Int /\ Size * (p + t) + r = Size * q + s
  BY <1>1, <1>2, <1>3, SizeAssumption
<1>6. r = s
  BY <1>1, <1>2, <1>5, SizeAssumption, RemainderUnique, Zenon
<1>7. QED BY <1>4, <1>6

(* Slots counted from `in' and from `out' agree.                           *)
LEMMA SlotFacts ==
    ASSUME NEW a \in 0..(CounterMod - 1), NEW b \in 0..(CounterMod - 1), NEW x \in Nat
    PROVE  /\ Slot(a + x) = Slot(b + Diff(a, b) + x)
           /\ \A n \in 0..Size : Slot(Advance(b, n) + x) = Slot(b + n + x)
           /\ Slot(b + Size) = Slot(b)
<1>1. Slot(a + x) = Slot(b + Diff(a, b) + x)
  <2>1. CASE a >= b
    <3>1. b + Diff(a, b) + x = a + x
      BY <2>1, CounterModAssumption DEF Diff
    <3>2. QED BY <3>1
  <2>2. CASE ~(a >= b)
    <3>1. b + Diff(a, b) + x = (a + x) + CounterMod
      BY <2>2, CounterModAssumption DEF Diff
    <3>2. QED BY <3>1, SlotWrap
  <2>3. QED BY <2>1, <2>2
<1>2. ASSUME NEW n \in 0..Size PROVE Slot(Advance(b, n) + x) = Slot(b + n + x)
  <2>1. CASE b + n >= CounterMod
    <3>1. /\ Advance(b, n) + x \in Nat
          /\ (Advance(b, n) + x) + CounterMod = b + n + x
      BY <2>1, SizeAssumption, CounterModAssumption DEF Advance
    <3>2. QED BY <3>1, SlotWrap
  <2>2. CASE ~(b + n >= CounterMod)
    BY <2>2 DEF Advance
  <2>3. QED BY <2>1, <2>2
<1>3. Slot(b + Size) = Slot(b)
  <2>1. Slot(b) \in 0..(Size - 1)
    BY SizeAssumption DEF Slot
  <2>2. QED BY <2>1, SlotPlus, SizeAssumption
<1>4. QED BY <1>1, <1>2, <1>3

-----------------------------------------------------------------------------
(* fifo_copy_in puts byte k in the k-th slot from `in' on and leaves the   *)
(* remaining slots alone.                                                  *)
LEMMA CopiedInFacts ==
    ASSUME NEW c \in Nat, NEW buf \in Seq(Vals), Len(buf) <= Size
    PROVE  /\ \A k \in 1..Len(buf) : CopiedIn(buf, Slot(c))[Slot(c + k - 1)] = buf[k]
           /\ \A j \in Len(buf)..(Size - 1) :
                  CopiedIn(buf, Slot(c))[Slot(c + j)] = data[Slot(c + j)]
<1> DEFINE off == Slot(c)
           l == Smaller(Size - off, Len(buf))
           Val(s) == IF s >= off /\ s < off + l THEN buf[s - off + 1]
                     ELSE IF s < Len(buf) - l THEN buf[l + s + 1] ELSE data[s]
<1>1. off \in 0..(Size - 1) /\ Len(buf) \in Nat
  BY SizeAssumption DEF Slot
<1>2. /\ l \in Nat
      /\ Len(buf) <= Size - off => l = Len(buf)
      /\ ~(Len(buf) <= Size - off) => l = Size - off
  BY <1>1, SizeAssumption DEF Smaller
<1>3. CopiedIn(buf, off) = [s \in 0..(Size - 1) |-> Val(s)]
  BY DEF CopiedIn
<1>4. \A s \in 0..(Size - 1) : CopiedIn(buf, off)[s] = Val(s)
  BY <1>3
<1>5. \A j \in 0..(Size - 1) :
        /\ Slot(c + j) = IF off + j < Size THEN off + j ELSE off + j - Size
        /\ Slot(c + j) \in 0..(Size - 1)
  <2> SUFFICES ASSUME NEW j \in 0..(Size - 1)
               PROVE  /\ Slot(c + j) = IF off + j < Size THEN off + j ELSE off + j - Size
                      /\ Slot(c + j) \in 0..(Size - 1)
    OBVIOUS
  <2>1. j \in 0..Size
    BY SizeAssumption
  <2>2. Slot(c + j) = IF off + j < Size THEN off + j ELSE off + j - Size
    BY <2>1, SlotPlus
  <2> HIDE DEF off
  <2>3. QED BY <1>1, <2>2, SizeAssumption
<1> HIDE DEF l, off
<1>6. ASSUME NEW k \in 1..Len(buf)
      PROVE  CopiedIn(buf, off)[Slot(c + k - 1)] = buf[k]
  <2> DEFINE s == Slot(c + (k - 1))
  <2>1. k - 1 \in 0..(Size - 1) /\ c + k - 1 = c + (k - 1)
    BY <1>1, SizeAssumption
  <2>2. s = (IF off + (k - 1) < Size THEN off + (k - 1) ELSE off + (k - 1) - Size)
        /\ s \in 0..(Size - 1)
    BY <1>5, <2>1
  <2> HIDE DEF s
  <2>3. CASE off + (k - 1) < Size
    <3>1. s >= off /\ s < off + l /\ s - off + 1 = k
      BY <1>1, <1>2, <2>2, <2>3, SizeAssumption
    <3>2. QED BY <1>4, <2>1, <2>2, <3>1 DEF s
  <2>4. CASE ~(off + (k - 1) < Size)
    <3>1. ~(s >= off /\ s < off + l) /\ s < Len(buf) - l /\ l + s + 1 = k
      BY <1>1, <1>2, <2>2, <2>4, SizeAssumption
    <3>2. QED BY <1>4, <2>1, <2>2, <3>1 DEF s
  <2>5. QED BY <2>3, <2>4
<1>7. ASSUME NEW j \in Len(buf)..(Size - 1)
      PROVE  CopiedIn(buf, off)[Slot(c + j)] = data[Slot(c + j)]
  <2>1. j \in 0..(Size - 1)
    BY <1>1, SizeAssumption
  <2> DEFINE s == Slot(c + j)
  <2>2. s = (IF off + j < Size THEN off + j ELSE off + j - Size) /\ s \in 0..(Size - 1)
    BY <1>5, <2>1
  <2> HIDE DEF s
  <2>3. ~(s >= off /\ s < off + l) /\ ~(s < Len(buf) - l)
    BY <1>1, <1>2, <2>1, <2>2, SizeAssumption
  <2>4. QED BY <1>4, <2>2, <2>3 DEF s
<1>8. QED BY <1>6, <1>7 DEF off

(* fifo_copy_out reads the slots from `out' on, in order.                  *)
LEMMA CopiedOutFacts ==
    ASSUME NEW c \in Nat, NEW len \in 0..Size
    PROVE  CopiedOut(len, Slot(c)) = [k \in 1..len |-> data[Slot(c + k - 1)]]
<1> DEFINE off == Slot(c)
           l == Smaller(Size - off, len)
<1>1. off \in 0..(Size - 1)
  BY SizeAssumption DEF Slot
<1>2. /\ len <= Size - off => l = len
      /\ ~(len <= Size - off) => l = Size - off
  BY <1>1, SizeAssumption DEF Smaller
<1>3. CopiedOut(len, off) =
        [k \in 1..len |-> IF k <= l THEN data[off + k - 1] ELSE data[k - l - 1]]
  BY DEF CopiedOut
<1>4. \A j \in 0..(Size - 1) :
        Slot(c + j) = IF off + j < Size THEN off + j ELSE off + j - Size
  BY <1>1, SlotPlus, SizeAssumption
<1> HIDE DEF l, off
<1>5. ASSUME NEW k \in 1..len
      PROVE  (IF k <= l THEN data[off + k - 1] ELSE data[k - l - 1]) = data[Slot(c + k - 1)]
  <2>1. k - 1 \in 0..(Size - 1) /\ c + k - 1 = c + (k - 1)
    BY SizeAssumption
  <2>2. Slot(c + k - 1) = IF off + (k - 1) < Size THEN off + (k - 1) ELSE off + (k - 1) - Size
    BY <1>4, <2>1
  <2>3. CASE k <= l
    <3>1. Slot(c + k - 1) = off + k - 1
      BY <1>1, <1>2, <2>2, <2>3, SizeAssumption
    <3>2. QED BY <2>3, <3>1
  <2>4. CASE ~(k <= l)
    <3>1. Slot(c + k - 1) = k - l - 1
      BY <1>1, <1>2, <2>2, <2>4, SizeAssumption
    <3>2. QED BY <2>4, <3>1
  <2>5. QED BY <2>3, <2>4
<1>6. QED BY <1>3, <1>5 DEF off

-----------------------------------------------------------------------------
(* The queue the buffer represents, as in the instance Queue.              *)
contents == [k \in 1..fifo_len |-> data[Slot(out + k - 1)]]

(* What has been copied is still what the caller gave, or the head of the  *)
(* queue, when the counter is about to be advanced.                        *)
CopiesIntact ==
    /\ wpc = "commit" => \A k \in 1..Len(wbuf) : data[Slot(in + k - 1)] = wbuf[k]
    /\ rpc = "commit" => rbuf = [k \in 1..rlen |-> data[Slot(out + k - 1)]]

(* The writer's copy does not touch what is in the queue.                  *)
LEMMA CopyInKeepsQueue ==
    ASSUME Inv, CopyIn, NEW k \in 1..fifo_len
    PROVE  data'[Slot(out + k - 1)] = data[Slot(out + k - 1)]
<1> DEFINE j == Size - fifo_len + (k - 1)
<1>1. /\ in \in 0..(CounterMod - 1) /\ out \in 0..(CounterMod - 1)
      /\ in \in Nat /\ out \in Nat
      /\ wbuf \in Seq(Vals) /\ Len(wbuf) \in Nat /\ fifo_len \in Nat
      /\ fifo_len + Len(wbuf) <= Size
  BY CounterFacts, CounterModAssumption DEF Inv, TypeOK, ReservationHolds, fifo_len
<1>2. j \in Len(wbuf)..(Size - 1) /\ Len(wbuf) <= Size /\ j \in Nat
  BY <1>1, SizeAssumption
<1>3. Slot(in + j) = Slot(out + k - 1)
  <2>1. Slot(in + j) = Slot(out + fifo_len + j)
    BY <1>1, <1>2, SlotFacts DEF fifo_len
  <2>2. out + fifo_len + j = (out + (k - 1)) + Size /\ out + (k - 1) \in Nat
        /\ out + (k - 1) = out + k - 1
    BY <1>1, SizeAssumption
  <2>3. Slot((out + (k - 1)) + Size) = Slot(out + (k - 1))
    <3>1. Slot(out + (k - 1)) \in 0..(Size - 1)
      BY <2>2, SizeAssumption DEF Slot
    <3>2. QED BY <2>2, <3>1, SlotPlus, SizeAssumption
  <2>4. QED BY <2>1, <2>2, <2>3
<1> HIDE DEF j
<1>4. data' = CopiedIn(wbuf, Slot(in))
  BY DEF CopyIn
<1>5. QED BY <1>1, <1>2, <1>3, <1>4, CopiedInFacts

(* CopiesIntact holds initially and every step keeps it.                   *)
LEMMA CopiesInit == Init => CopiesIntact
BY DEF Init, CopiesIntact

(* Every step of either side keeps the copies intact: a step of the other *)
(* side leaves the slots between the counters alone.                      *)
LEMMA CopiesNext == Inv /\ CopiesIntact /\ [Next]_vars => CopiesIntact'
<1> SUFFICES ASSUME Inv, CopiesIntact, [Next]_vars PROVE CopiesIntact'
  OBVIOUS
<1>0. /\ in \in Nat /\ out \in Nat /\ fifo_len \in Nat
      /\ rlen \in Nat /\ rlen <= fifo_len /\ fifo_len <= Size
      /\ wbuf \in Seq(Vals) /\ Len(wbuf) <= Size
  <2>1. fifo_len \in Nat /\ in \in Nat /\ out \in Nat /\ Len(wbuf) \in Nat
    BY CounterFacts, CounterModAssumption DEF Inv, TypeOK, fifo_len
  <2>2. QED BY <2>1, SizeAssumption DEF Inv, TypeOK, ReservationHolds
<1>1. ASSUME NEW batch \in Batch, StartIn(batch) PROVE CopiesIntact'
  BY <1>1 DEF StartIn, CopiesIntact
<1>2. CASE CopyIn
  <2>1. \A k \in 1..Len(wbuf) : data'[Slot(in + k - 1)] = wbuf[k]
    BY <1>0, <1>2, CopiedInFacts DEF CopyIn
  <2>2. \A k \in 1..rlen : data'[Slot(out + k - 1)] = data[Slot(out + k - 1)]
    <3>1. \A k \in 1..rlen : k \in 1..fifo_len
      BY <1>0
    <3>2. QED BY <1>2, <3>1, CopyInKeepsQueue
  <2>3. [k \in 1..rlen |-> data'[Slot(out + k - 1)]] =
        [k \in 1..rlen |-> data[Slot(out + k - 1)]]
    BY <2>2
  <2>4. QED BY <1>2, <2>1, <2>3 DEF CopyIn, CopiesIntact
<1>3. CASE CommitIn
  BY <1>3 DEF CommitIn, CopiesIntact
<1>4. ASSUME NEW n \in 1..MaxBatch, StartOut(n) PROVE CopiesIntact'
  BY <1>4 DEF StartOut, CopiesIntact
<1>5. CASE CopyOut
  <2>1. rlen \in 0..Size
    BY <1>0, SizeAssumption
  <2>2. rbuf' = [k \in 1..rlen |-> data[Slot(out + k - 1)]]
    BY <1>0, <1>5, <2>1, CopiedOutFacts DEF CopyOut
  <2>3. QED BY <1>5, <2>2 DEF CopyOut, CopiesIntact
<1>6. CASE CommitOut
  BY <1>6 DEF CommitOut, CopiesIntact
<1>7. CASE Reset
  BY <1>7 DEF Reset, CopiesIntact
<1>8. CASE UNCHANGED vars
  BY <1>8 DEF vars, CopiesIntact
<1>9. QED BY <1>1, <1>2, <1>3, <1>4, <1>5, <1>6, <1>7, <1>8 DEF Next

-----------------------------------------------------------------------------
(* Every step of the ring buffer is a step of the queue or leaves it be.   *)
LEMMA StepSimulation ==
    ASSUME Inv, CopiesIntact, [Next]_vars
    PROVE  [Queue!QNext]_(Queue!qvars)
<1>0. /\ in \in 0..(CounterMod - 1) /\ out \in 0..(CounterMod - 1)
      /\ in \in Nat /\ out \in Nat /\ fifo_len \in Nat /\ Len(wbuf) \in Nat
      /\ rlen \in Nat /\ rlen <= fifo_len /\ fifo_len <= Size /\ rlen <= Size
      /\ wbuf \in Seq(Vals) /\ Len(wbuf) <= Size /\ fifo_len + Len(wbuf) <= Size
  <2>1. fifo_len \in Nat /\ in \in Nat /\ out \in Nat /\ Len(wbuf) \in Nat
    BY CounterFacts, CounterModAssumption DEF Inv, TypeOK, fifo_len
  <2>2. QED BY <2>1, SizeAssumption DEF Inv, TypeOK, ReservationHolds
<1>00. Len(contents) = fifo_len /\ contents \in Seq(Vals)
  <2>1. \A k \in 1..fifo_len : data[Slot(out + k - 1)] \in Vals
    <3>1. \A k \in 1..fifo_len : Slot(out + k - 1) \in 0..(Size - 1)
      BY <1>0, SizeAssumption DEF Slot
    <3>2. QED BY <3>1 DEF Inv, TypeOK
  <2>2. contents \in [1..fifo_len -> Vals]
    BY <2>1 DEF contents
  <2>3. QED BY <1>0, <2>2 DEF contents
<1>1. ASSUME NEW batch \in Batch, StartIn(batch) PROVE Queue!BeginPut(batch)
  <2>1. wbuf = <<>>
    BY <1>1 DEF StartIn, Inv, IdleHoldsNothing
  <2>2. Smaller(Len(batch), fifo_unused) = Queue!Least(Len(batch), Size - Len(contents))
    BY <1>00 DEF Smaller, Queue!Least, fifo_unused, fifo_len
  <2>3. contents' = contents
    BY <1>1 DEF StartIn, contents, fifo_len
  <2>4. QED BY <1>1, <2>1, <2>2, <2>3 DEF StartIn, Queue!BeginPut, contents
<1>2. CASE CopyIn
  <2>1. contents' = contents
    <3>1. \A k \in 1..fifo_len : data'[Slot(out + k - 1)] = data[Slot(out + k - 1)]
      BY <1>2, CopyInKeepsQueue
    <3>2. out' = out /\ fifo_len' = fifo_len
      BY <1>2 DEF CopyIn, fifo_len
    <3>3. QED BY <3>1, <3>2 DEF contents
  <2>2. QED BY <1>2, <2>1 DEF CopyIn, Queue!qvars, contents
<1>3. CASE CommitIn
  <2>1. fifo_len' = fifo_len + Len(wbuf) /\ out' = out /\ data' = data
    BY <1>0, <1>3, CounterFacts DEF CommitIn, fifo_len
  <2>2. contents' = contents \o wbuf
    <3>1. ASSUME NEW k \in 1..(fifo_len + Len(wbuf))
          PROVE  data[Slot(out + k - 1)] =
                   IF k <= Len(contents) THEN contents[k] ELSE wbuf[k - Len(contents)]
      <4>1. CASE k <= fifo_len
        BY <1>0, <1>00, <4>1 DEF contents
      <4>2. CASE ~(k <= fifo_len)
        <5> DEFINE x == k - fifo_len
        <5>1. x \in 1..Len(wbuf) /\ x - 1 \in Nat /\ in + x - 1 = in + (x - 1)
              /\ out + fifo_len + (x - 1) = out + k - 1
          BY <1>0, <4>2
        <5>2. Slot(in + (x - 1)) = Slot(out + fifo_len + (x - 1))
          BY <1>0, <5>1, SlotFacts DEF fifo_len
        <5> HIDE DEF x
        <5>3. data[Slot(in + x - 1)] = wbuf[x]
          BY <1>3, <5>1 DEF CommitIn, CopiesIntact
        <5>4. QED BY <1>00, <4>2, <5>1, <5>2, <5>3 DEF x
      <4>3. QED BY <4>1, <4>2
    <3>2. contents' = [k \in 1..(fifo_len + Len(wbuf)) |-> data[Slot(out + k - 1)]]
      BY <2>1 DEF contents
    <3>3. /\ contents \o wbuf \in Seq(Vals)
          /\ Len(contents \o wbuf) = fifo_len + Len(wbuf)
          /\ \A k \in 1..(fifo_len + Len(wbuf)) : (contents \o wbuf)[k] =
               IF k <= Len(contents) THEN contents[k] ELSE wbuf[k - Len(contents)]
      BY <1>0, <1>00, ConcatProperties
    <3>4. contents' \in Seq(Vals) /\ Len(contents') = fifo_len + Len(wbuf)
      <4>1. \A k \in 1..(fifo_len + Len(wbuf)) : Slot(out + k - 1) \in 0..(Size - 1)
        BY <1>0, SizeAssumption DEF Slot
      <4>2. contents' \in [1..(fifo_len + Len(wbuf)) -> Vals]
        BY <3>2, <4>1 DEF Inv, TypeOK
      <4>3. QED BY <1>0, <3>2, <4>2
    <3>5. \A k \in 1..(fifo_len + Len(wbuf)) : contents'[k] = (contents \o wbuf)[k]
      BY <3>1, <3>2, <3>3
    <3>6. QED BY <3>3, <3>4, <3>5, SeqEqual
  <2>3. Queue!EndPut
    BY <1>3, <2>2 DEF CommitIn, Queue!EndPut, contents
  <2>4. QED BY <2>3 DEF Queue!QNext
<1>4. ASSUME NEW n \in 1..MaxBatch, StartOut(n) PROVE Queue!BeginGet(n)
  <2>1. rlen = 0
    BY <1>4 DEF StartOut, Inv, IdleHoldsNothing
  <2>2. Smaller(n, fifo_len) = Queue!Least(n, Len(contents))
    BY <1>00 DEF Smaller, Queue!Least
  <2>3. contents' = contents
    BY <1>4 DEF StartOut, contents, fifo_len
  <2>4. QED BY <1>4, <2>1, <2>2, <2>3 DEF StartOut, Queue!BeginGet, contents
<1>5. CASE CopyOut
  <2>1. contents' = contents
    BY <1>5 DEF CopyOut, contents, fifo_len
  <2>2. QED BY <1>5, <2>1 DEF CopyOut, Queue!qvars, contents
<1>6. CASE CommitOut
  <2>1. fifo_len' = fifo_len - rlen /\ data' = data
    BY <1>0, <1>6, CounterFacts DEF CommitOut, fifo_len
  <2>2. got' = SubSeq(contents, 1, rlen)
    <3>1. rbuf = [k \in 1..rlen |-> data[Slot(out + k - 1)]]
      BY <1>6 DEF CommitOut, CopiesIntact
    <3>2. SubSeq(contents, 1, rlen) = [k \in 1..rlen |-> contents[k]]
      BY <1>0, <1>00
    <3>3. \A k \in 1..rlen : contents[k] = data[Slot(out + k - 1)]
      BY <1>0 DEF contents
    <3>4. QED BY <1>6, <3>1, <3>2, <3>3 DEF CommitOut
  <2>3. contents' = SubSeq(contents, rlen + 1, Len(contents))
    <3>1. ASSUME NEW k \in 1..(fifo_len - rlen)
          PROVE  data[Slot(out' + k - 1)] = contents[rlen + k]
      <4>1. k - 1 \in Nat /\ out' + k - 1 = Advance(out, rlen) + (k - 1)
        BY <1>0, <1>6, SizeAssumption, CounterModAssumption DEF CommitOut, Advance
      <4>2. Slot(Advance(out, rlen) + (k - 1)) = Slot(out + rlen + (k - 1))
        BY <1>0, <4>1, SizeAssumption, SlotFacts
      <4>3. rlen + k \in 1..fifo_len /\ out + rlen + (k - 1) = out + (rlen + k) - 1
        BY <1>0
      <4>4. QED BY <4>1, <4>2, <4>3 DEF contents
    <3>2. contents' = [k \in 1..(fifo_len - rlen) |-> data[Slot(out' + k - 1)]]
      BY <2>1 DEF contents
    <3>3. SubSeq(contents, rlen + 1, Len(contents)) =
            [k \in 1..(fifo_len - rlen) |-> contents[rlen + k]]
      BY <1>0, <1>00
    <3>4. QED BY <3>1, <3>2, <3>3
  <2>4. Queue!EndGet
    BY <1>6, <2>2, <2>3 DEF CommitOut, Queue!EndGet, contents
  <2>5. QED BY <2>4 DEF Queue!QNext
<1>7. CASE Reset
  <2>1. fifo_len' = 0
    BY <1>7 DEF Reset, fifo_len, Diff
  <2>2. contents' = <<>>
    BY <2>1 DEF contents
  <2>3. wbuf = <<>> /\ rlen = 0
    BY <1>7 DEF Reset, Inv, IdleHoldsNothing
  <2>4. Queue!Clear
    BY <1>7, <2>2, <2>3 DEF Reset, Queue!Clear, contents
  <2>5. QED BY <2>4 DEF Queue!QNext
<1>8. CASE UNCHANGED vars
  <2>1. contents' = contents
    BY <1>8 DEF vars, contents, fifo_len
  <2>2. QED BY <1>8, <2>1 DEF vars, Queue!qvars, contents
<1>9. Batch = Queue!Batches
  BY DEF Batch, Queue!Batches
<1>10. QED
  BY <1>1, <1>2, <1>3, <1>4, <1>5, <1>6, <1>7, <1>8, <1>9 DEF Next, Queue!QNext

(* The ring buffer implements the bounded queue, for every size and        *)
(* counter width, with a reader and a writer that share no lock.           *)
THEOREM QueueImplemented == Spec => ImplementsQueue
<1>1. Init => Queue!QInit
  <2> SUFFICES ASSUME Init PROVE Queue!QInit
    OBVIOUS
  <2>1. fifo_len = 0
    BY DEF Init, fifo_len, Diff
  <2>2. [k \in 1..fifo_len |-> data[Slot(out + k - 1)]] = <<>>
    BY <2>1
  <2>3. QED BY <2>2 DEF Init, Queue!QInit
<1>2. Inv /\ CopiesIntact /\ [Next]_vars => [Queue!QNext]_(Queue!qvars)
  BY StepSimulation
<1>3. QED
  BY <1>1, <1>2, CopiesInit, CopiesNext, InitInv, NextInv, PTL
     DEF Spec, ImplementsQueue, Queue!QSpec
=============================================================================
