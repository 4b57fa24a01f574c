-------------------------------- MODULE Plic --------------------------------
(***************************************************************************)
(* The platform-level interrupt controller, src/src/peripherals/plic.      *)
(*                                                                         *)
(* The loop of the SoC alternates two steps: an instruction, which makes   *)
(* at most one access to the PLIC's registers (phase "bus"), and then      *)
(* plic_update_pending for each wired source and plic_update (phase        *)
(* "update").  The bit arrays pending_bits, enable_bits and claimed_bits   *)
(* are sets of interrupt ids; id n is bit n % 32 of word n \div 32.        *)
(*                                                                         *)
(* Register accesses are aligned 32-bit ones, and software only uses the   *)
(* ids in Ids.  A definition X_Word right before X is a faulty variant of  *)
(* X, used to see that the properties notice it.                           *)
(***************************************************************************)
EXTENDS Integers, FiniteSets

CONSTANTS
    Ids,        \* the interrupt ids software configures
    Driven,     \* the ids wired to a device (the SoC wires the UART, id 10)
    Prios,      \* values software writes to priority registers
    Thresholds  \* values software writes to the threshold register

VARIABLES
    phase,      \* "bus" or "update"
    priority,   \* plic->priority, of the ids in Ids; the others stay 0
    pending,    \* plic->pending_bits
    enable,     \* plic->enable_bits
    claimed,    \* plic->claimed_bits
    threshold,  \* plic->priority_threshold
    claim,      \* plic->claim_complete
    irq,        \* what the last plic_update returned: the hart's mei line
    level,      \* the device levels of the last plic_update_pending calls
    inService   \* history: ids handed to software and not completed yet

vars == <<phase, priority, pending, enable, claimed, threshold, claim, irq,
          level, inService>>

WordBits == 32
NrRegs == 8
AllIds == 0..(WordBits * NrRegs - 1)
MaxPrio == 7

ASSUME IdsAssumption == Ids \subseteq AllIds \ {0}
ASSUME DrivenAssumption == Driven \subseteq Ids
ASSUME PriosAssumption == Prios \subseteq Nat /\ Thresholds \subseteq Nat

WordOf(id) == id \div WordBits
Word(i) == {id \in Ids : WordOf(id) = i}
Priority(n) == IF n \in Ids THEN priority[n] ELSE 0

-----------------------------------------------------------------------------
(* plic_bus_access: one register access of an instruction.                 *)

(* plic_check_sanity keeps three bits of every priority.                   *)
Sane_Off(v) == v
Sane(v) == v % (MaxPrio + 1)

Access == phase = "bus" /\ phase' = "update"

NoAccess ==
    /\ Access
    /\ UNCHANGED <<priority, pending, enable, claimed, threshold, claim, irq,
                   level, inService>>

WritePriority(id, v) ==
    /\ Access
    /\ priority' = [priority EXCEPT ![id] = Sane(v)]
    /\ UNCHANGED <<pending, enable, claimed, threshold, claim, irq, level, inService>>

WriteThreshold(v) ==
    /\ Access
    /\ threshold' = Sane(v)
    /\ UNCHANGED <<priority, pending, enable, claimed, claim, irq, level, inService>>

WriteEnable(i, set) ==
    /\ Access
    /\ enable' = (enable \ Word(i)) \cup set
    /\ UNCHANGED <<priority, pending, claimed, threshold, claim, irq, level, inService>>

WritePending(i, set) ==
    /\ Access
    /\ pending' = (pending \ Word(i)) \cup set
    /\ UNCHANGED <<priority, enable, claimed, threshold, claim, irq, level, inService>>

(* A read of the claim register hands out claim_complete and marks it      *)
(* claimed, if its pending bit is (still) set.                             *)
MarkClaimed_Never(n) == claimed
MarkClaimed(n) == IF n \in pending THEN claimed \cup {n} ELSE claimed

Claim ==
    /\ Access
    /\ claimed' = MarkClaimed(claim)
    /\ inService' = inService \cup ({claim} \ {0})
    /\ UNCHANGED <<priority, pending, enable, threshold, claim, irq, level>>

(* A write of the claim register completes the id written; it also         *)
(* overwrites claim_complete until the next plic_update.                   *)
Unclaim_Never(id) == claimed
Unclaim(id) == claimed \ {id}

Complete(id) ==
    /\ Access
    /\ claimed' = Unclaim(id)
    /\ claim' = id
    /\ inService' = inService \ {id}
    /\ UNCHANGED <<priority, pending, enable, threshold, irq, level>>

-----------------------------------------------------------------------------
(* plic_update_pending and plic_update                                     *)

(* A wired source's pending bit follows its level; the others keep theirs. *)
FollowLevels(on) == (pending \ Driven) \cup on

(* A word is skipped, and irq_id_count NOT advanced, unless it has some    *)
(* enabled and some pending bit.                                           *)
Scanned(i, pend) == Word(i) \cap enable # {} /\ Word(i) \cap pend # {}

(* irq_id_count when the scan is at the bit of id: the id the loop takes   *)
(* this bit for.                                                           *)
Count(id, pend) ==
    WordBits * Cardinality({i \in 0..(WordOf(id) - 1) : Scanned(i, pend)})
      + (id % WordBits)

Selected(pend) ==
    {id \in enable \cap pend : Priority(Count(id, pend)) >= threshold}

(* The scan goes up and takes a later candidate of the same priority, so   *)
(* the last one of the highest priority wins.                              *)
Candidates_Claimed(pend) == Selected(pend)
Candidates(pend) == Selected(pend) \ claimed

Wins_Lowest(id, pend) ==
    /\ id \in Candidates(pend)
    /\ \A o \in Candidates(pend) \ {id} :
          Priority(Count(o, pend)) >= Priority(Count(id, pend))
Wins(id, pend) ==
    /\ id \in Candidates(pend)
    /\ \A o \in Candidates(pend) \ {id} :
          LET p == Priority(Count(id, pend))
              q == Priority(Count(o, pend))
          IN  q < p \/ (q = p /\ o < id)

Update ==
    /\ phase = "update" /\ phase' = "bus"
    /\ \E on \in SUBSET Driven :
          LET pend == FollowLevels(on)
          IN  /\ level' = on
              /\ pending' = pend \ (Selected(pend) \cap claimed)
              /\ \/ Candidates(pend) = {} /\ claim' = 0
                 \/ \E id \in Candidates(pend) :
                       Wins(id, pend) /\ claim' = Count(id, pend)
              /\ irq' = (claim' > 0)
    /\ UNCHANGED <<priority, enable, claimed, threshold, inService>>

-----------------------------------------------------------------------------
(* memset(rv_soc, 0) of the SoC.                                           *)
Init ==
    /\ phase = "bus"
    /\ priority = [id \in Ids |-> 0]
    /\ pending = {}
    /\ enable = {}
    /\ claimed = {}
    /\ threshold = 0
    /\ claim = 0
    /\ irq = FALSE
    /\ level = {}
    /\ inService = {}

Configure ==
    \/ \E id \in Ids, v \in Prios : WritePriority(id, v)
    \/ \E v \in Thresholds : WriteThreshold(v)
    \/ \E i \in 0..(NrRegs - 1) : \E set \in SUBSET Word(i) :
          Word(i) # {} /\ (WriteEnable(i, set) \/ WritePending(i, set))

Next ==
    \/ NoAccess
    \/ Configure
    \/ Claim
    \/ \E id \in Ids : Complete(id)
    \/ Update

Spec == Init /\ [][Next]_vars

(***************************************************************************)
(* The loop keeps running, and software's interrupt handler, entered again *)
(* and again while the line is high, reads the claim register.             *)
(***************************************************************************)
Fairness ==
    /\ WF_vars(Next)
    /\ SF_vars(irq /\ Claim)

FairSpec == Spec /\ Fairness

-----------------------------------------------------------------------------
(* Properties                                                              *)

(* Type correctness; priorities and threshold keep to three bits.          *)
TypeOK ==
    /\ phase \in {"bus", "update"}
    /\ priority \in [Ids -> 0..MaxPrio]
    /\ pending \subseteq Ids
    /\ enable \subseteq Ids
    /\ claimed \subseteq AllIds
    /\ threshold \in 0..MaxPrio
    /\ claim \in AllIds
    /\ irq \in BOOLEAN
    /\ level \subseteq Driven
    /\ inService \subseteq AllIds

(* The sources software could be handed, read off the registers by id.     *)
Servable == {id \in (pending \cap enable) \ claimed : priority[id] >= threshold}

(* "find irq with highest prio" (plic.c:121): after plic_update the id in  *)
(* the claim register is servable and none servable has a higher priority; *)
(* it is 0, and the line low, only if nothing is servable.                 *)
OfferedIsHighest ==
    phase = "bus" =>
        /\ irq <=> claim # 0
        /\ claim = 0 => Servable = {}
        /\ claim # 0 => /\ claim \in Servable
                        /\ \A o \in Servable : priority[o] <= priority[claim]

(* An id that software holds is not handed out a second time before it is  *)
(* completed, however claims, completions, reconfigurations, software      *)
(* writes of pending and device levels interleave.                         *)
ExclusiveClaim == [][Claim /\ claim # 0 => claim \notin inService]_vars

(* The claimed bits are what software holds: no claim goes unrecorded and  *)
(* no completion is forgotten.                                             *)
ClaimsTracked == claimed = inService

(* A device that needs service more than all other enabled sources.        *)
Wanted(d) ==
    /\ d \in level /\ d \in enable /\ priority[d] >= threshold
    /\ d \notin inService
    /\ \A o \in enable \ {d} : priority[o] < priority[d]

(* Such a device is eventually handed to software, unless software         *)
(* reconfigures it away or the device withdraws.                           *)
DeviceServed == \A d \in Driven : Wanted(d) ~> (d \in inService \/ ~Wanted(d))

(* plic.h:29, pending and enable hold "bits correspronding to the          *)
(* interrupt ids": an id is offered only if its own bits are set.          *)
OfferedIdIsPending ==
    phase = "bus" /\ claim # 0 => claim \in pending \cap enable
=============================================================================
