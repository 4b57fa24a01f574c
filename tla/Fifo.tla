-------------------------------- MODULE Fifo --------------------------------
(***************************************************************************)
(* The ring buffer of src/src/helpers/fifo.c, used by both UARTs.          *)
(*                                                                         *)
(* fifo->in and fifo->out are free-running unsigned counters; fifo_in and  *)
(* fifo_out are split into the steps at which another thread can see the   *)
(* difference: looking at the counters, copying, advancing the counter.    *)
(* The UARTs hold a mutex around every call; fifo.h claims that with one   *)
(* reader and one writer no lock is needed, and that is what is modelled.  *)
(* Steps are sequentially consistent.                                      *)
(*                                                                         *)
(* A definition X_Word right before X is a faulty variant of X, used to    *)
(* see that the properties notice it.                                      *)
(***************************************************************************)
EXTENDS Integers, Sequences

CONSTANTS
    Size,       \* fifo->size = fifo->mask + 1: 1 or 16, a power of two
    CounterMod, \* 2^32, the number of values of an unsigned int
    Vals,       \* the bytes
    Zero,       \* the byte the buffer is filled with at the start
    MaxBatch    \* most bytes a caller passes at once

VARIABLES
    in, out,    \* the counters
    data,       \* the buffer
    wpc, wbuf,  \* the writer's call: its step and the bytes it will copy
    rpc, rlen,  \* the reader's call: its step and the length it will copy
    rbuf,       \*   and what it has copied
    got         \* history: what the last fifo_out returned

vars == <<in, out, data, wpc, wbuf, rpc, rlen, rbuf, got>>

(* Counters wrap around at a multiple of the size, so that a slot's number *)
(* goes on counting; with Size a power of two `c & mask' is c % Size.      *)
ASSUME SizeAssumption == Size \in Nat /\ Size > 0
ASSUME CounterModAssumption ==
    CounterMod \in Nat /\ CounterMod > Size /\ CounterMod % Size = 0
ASSUME ValsAssumption == Zero \in Vals /\ MaxBatch \in Nat

Smaller(a, b) == IF a <= b THEN a ELSE b
Batch == UNION {[1..n -> Vals] : n \in 1..MaxBatch}

-----------------------------------------------------------------------------
(* Unsigned arithmetic on the counters                                     *)

Diff(a, b) == IF a >= b THEN a - b ELSE a - b + CounterMod
Advance_NoWrap(c, n) == c + n
Advance(c, n) == IF c + n >= CounterMod THEN c + n - CounterMod ELSE c + n
Slot(c) == c % Size

fifo_len == Diff(in, out)
fifo_unused_OneMore == Size + 1 - Diff(in, out)
fifo_unused == Size - Diff(in, out)

-----------------------------------------------------------------------------
(* fifo_in                                                                 *)

StartIn(batch) ==
    /\ wpc = "idle" /\ wpc' = "copy"
    /\ wbuf' = SubSeq(batch, 1, Smaller(Len(batch), fifo_unused))
    /\ UNCHANGED <<in, out, data, rpc, rlen, rbuf, got>>

(* fifo_copy_in: up to the end of the buffer, the rest at its start.       *)
CopiedIn_NoSplit(buf, off) ==
    [s \in 0..(Size - 1) |->
        IF s >= off /\ s < off + Len(buf) THEN buf[s - off + 1] ELSE data[s]]
CopiedIn(buf, off) ==
    LET l == Smaller(Size - off, Len(buf))
    IN  [s \in 0..(Size - 1) |->
            IF s >= off /\ s < off + l THEN buf[s - off + 1]
            ELSE IF s < Len(buf) - l THEN buf[l + s + 1]
            ELSE data[s]]

CopyIn ==
    /\ wpc = "copy" /\ wpc' = "commit"
    /\ data' = CopiedIn(wbuf, Slot(in))
    /\ UNCHANGED <<in, out, wbuf, rpc, rlen, rbuf, got>>

CommitIn ==
    /\ wpc = "commit" /\ wpc' = "idle"
    /\ in' = Advance(in, Len(wbuf))
    /\ wbuf' = <<>>
    /\ UNCHANGED <<out, data, rpc, rlen, rbuf, got>>

-----------------------------------------------------------------------------
(* fifo_out and fifo_out_peek                                              *)

StartOut(n) ==
    /\ rpc = "idle" /\ rpc' = "copy"
    /\ rlen' = Smaller(n, fifo_len)
    /\ UNCHANGED <<in, out, data, wpc, wbuf, rbuf, got>>

(* fifo_copy_out *)
CopiedOut(len, off) ==
    LET l == Smaller(Size - off, len)
    IN  [k \in 1..len |-> IF k <= l THEN data[off + k - 1] ELSE data[k - l - 1]]

CopyOut ==
    /\ rpc = "copy" /\ rpc' = "commit"
    /\ rbuf' = CopiedOut(rlen, Slot(out))
    /\ UNCHANGED <<in, out, data, wpc, wbuf, rlen, got>>

CommitOut ==
    /\ rpc = "commit" /\ rpc' = "idle"
    /\ out' = Advance(out, rlen)
    /\ got' = rbuf
    /\ rlen' = 0 /\ rbuf' = <<>>
    /\ UNCHANGED <<in, data, wpc, wbuf>>

(* fifo_reset "requires a protected and exclusive access" (fifo.h).        *)
Reset ==
    /\ wpc = "idle" /\ rpc = "idle"
    /\ in' = 0 /\ out' = 0
    /\ UNCHANGED <<data, wpc, wbuf, rpc, rlen, rbuf, got>>

-----------------------------------------------------------------------------
(* fifo_init on zeroed memory *)
Init ==
    /\ in = 0 /\ out = 0
    /\ data = [s \in 0..(Size - 1) |-> Zero]
    /\ wpc = "idle" /\ wbuf = <<>>
    /\ rpc = "idle" /\ rlen = 0 /\ rbuf = <<>>
    /\ got = <<>>

Next ==
    \/ \E batch \in Batch : StartIn(batch)
    \/ CopyIn
    \/ CommitIn
    \/ \E n \in 1..MaxBatch : StartOut(n)
    \/ CopyOut
    \/ CommitOut
    \/ Reset

Spec == Init /\ [][Next]_vars

-----------------------------------------------------------------------------
(* Properties                                                              *)

(* Type correctness; the counters stay unsigned ints.                      *)
TypeOK ==
    /\ in \in 0..(CounterMod - 1)
    /\ out \in 0..(CounterMod - 1)
    /\ data \in [0..(Size - 1) -> Vals]
    /\ wpc \in {"idle", "copy", "commit"}
    /\ wbuf \in Seq(Vals)
    /\ rpc \in {"idle", "copy", "commit"}
    /\ rlen \in Nat
    /\ rbuf \in Seq(Vals)
    /\ got \in Seq(Vals)

(* What a call saw of the counters stays true until it ends, whatever the  *)
(* other side does meanwhile and even when a counter has wrapped around:   *)
(* the writer's bytes still fit, the reader's are still there.             *)
ReservationHolds ==
    /\ fifo_len + Len(wbuf) <= Size
    /\ rlen <= fifo_len

(* The ring buffer implements the bounded queue: no byte is lost,          *)
(* duplicated, reordered or overwritten before it was read.                *)
Queue == INSTANCE BoundedQueue
    WITH q <- [k \in 1..fifo_len |-> data[Slot(out + k - 1)]],
         offer <- wbuf, want <- rlen, got <- got, Capacity <- Size

ImplementsQueue == Queue!QSpec
=============================================================================
