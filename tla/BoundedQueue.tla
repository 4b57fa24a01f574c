---------------------------- MODULE BoundedQueue ----------------------------
(***************************************************************************)
(* What the ring buffer of src/src/helpers/fifo.c promises to one writer   *)
(* and one reader: a first-in first-out queue of at most Capacity elements.*)
(* A call decides how much it moves when it starts and takes effect, all   *)
(* at once, when it ends; calls of the two sides overlap freely.           *)
(***************************************************************************)
EXTENDS Naturals, Sequences

CONSTANTS Vals, Capacity, MaxBatch

VARIABLES
    q,      \* the queue
    offer,  \* what the writer's current call will append
    want,   \* how many elements the reader's current call will take
    got     \* what the reader's last call returned

qvars == <<q, offer, want, got>>

Least(a, b) == IF a <= b THEN a ELSE b
Batches == UNION {[1..n -> Vals] : n \in 1..MaxBatch}

QInit == q = <<>> /\ offer = <<>> /\ want = 0 /\ got = <<>>

(* As much of the batch as there is room for now.                          *)
BeginPut(batch) ==
    /\ offer = <<>>
    /\ offer' = SubSeq(batch, 1, Least(Len(batch), Capacity - Len(q)))
    /\ UNCHANGED <<q, want, got>>

EndPut ==
    /\ q' = q \o offer
    /\ offer' = <<>>
    /\ UNCHANGED <<want, got>>

BeginGet(n) ==
    /\ want = 0
    /\ want' = Least(n, Len(q))
    /\ UNCHANGED <<q, offer, got>>

EndGet ==
    /\ got' = SubSeq(q, 1, want)
    /\ q' = SubSeq(q, want + 1, Len(q))
    /\ want' = 0
    /\ UNCHANGED offer

(* Only when neither side is in a call.                                    *)
Clear ==
    /\ offer = <<>> /\ want = 0
    /\ q' = <<>>
    /\ UNCHANGED <<offer, want, got>>

QNext ==
    \/ \E batch \in Batches : BeginPut(batch)
    \/ EndPut
    \/ \E n \in 1..MaxBatch : BeginGet(n)
    \/ EndGet
    \/ Clear

QSpec == QInit /\ [][QNext]_qvars
=============================================================================
