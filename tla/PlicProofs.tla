----------------------------- MODULE PlicProofs -----------------------------
(***************************************************************************)
(* Proofs about Plic for every set of ids in word 0, every wiring and all  *)
(* values software writes.  The assumption that the ids are those of word  *)
(* 0 is what the SoC satisfies (its only source is id 10); without it the  *)
(* theorems are false, see OfferedIdIsPending.                             *)
(***************************************************************************)
EXTENDS Plic, FiniteSetTheorems, TLAPS

OneWord == \A id \in Ids : id < WordBits

Inv == TypeOK /\ OfferedIsHighest /\ ClaimsTracked

USE DEF WordBits, NrRegs, AllIds, MaxPrio

(* Within word 0 the loop counts the id itself.                            *)
LEMMA CountIsId ==
    ASSUME OneWord, NEW id \in Ids, NEW pend
    PROVE  Count(id, pend) = id
<1>1. id \in 1..31
  BY IdsAssumption DEF OneWord
<1>2. WordOf(id) = 0 /\ id % WordBits = id
  BY <1>1 DEF WordOf
<1>3. {i \in 0..(WordOf(id) - 1) : Scanned(i, pend)} = {}
  BY <1>2
<1>4. Cardinality({}) = 0
  BY FS_EmptySet
<1>5. QED BY <1>1, <1>2, <1>3, <1>4 DEF Count

(* A priority as it is stored fits three bits.                             *)
LEMMA SaneFacts == ASSUME NEW v \in Nat PROVE Sane(v) \in 0..MaxPrio
BY DEF Sane

(* The cleared registers satisfy the invariant: nothing is servable.       *)
LEMMA InitInv == Init => Inv
<1> SUFFICES ASSUME Init PROVE Inv
  OBVIOUS
<1>1. 0 \in AllIds /\ 0 \in 0..MaxPrio
  OBVIOUS
<1>2. TypeOK
  BY <1>1 DEF Init, TypeOK
<1>3. Servable = {} /\ claim = 0 /\ irq = FALSE
  BY DEF Init, Servable
<1>4. OfferedIsHighest
  BY <1>3 DEF OfferedIsHighest
<1>5. ClaimsTracked
  BY DEF Init, ClaimsTracked
<1>6. QED BY <1>2, <1>4, <1>5 DEF Inv

(* A register access keeps the types, and the claimed bits in step with    *)
(* what software holds.                                                    *)
LEMMA AccessStep ==
    ASSUME Inv, NoAccess \/ Configure \/ Claim \/ (\E id \in Ids : Complete(id))
    PROVE  Inv'
<1>1. phase = "bus" /\ phase' = "update"
  BY DEF NoAccess, Configure, Claim, Complete, Access, WritePriority, WriteThreshold,
         WriteEnable, WritePending
<1>2. OfferedIsHighest'
  BY <1>1 DEF OfferedIsHighest
<1>3. CASE NoAccess
  BY <1>1, <1>2, <1>3 DEF NoAccess, Inv, TypeOK, ClaimsTracked
<1>4. CASE Configure
  <2>1. UNCHANGED <<claimed, inService>>
    BY <1>4 DEF Configure, WritePriority, WriteThreshold, WriteEnable, WritePending
  <2>2. ASSUME \E id \in Ids, v \in Prios : WritePriority(id, v) PROVE TypeOK'
    BY <1>1, <2>2, SaneFacts, PriosAssumption DEF WritePriority, Inv, TypeOK
  <2>3. ASSUME \E v \in Thresholds : WriteThreshold(v) PROVE TypeOK'
    BY <1>1, <2>3, SaneFacts, PriosAssumption DEF WriteThreshold, Inv, TypeOK
  <2>4. ASSUME \E i \in 0..(NrRegs - 1) : \E set \in SUBSET Word(i) :
                  Word(i) # {} /\ (WriteEnable(i, set) \/ WritePending(i, set))
        PROVE  TypeOK'
    BY <1>1, <2>4 DEF WriteEnable, WritePending, Word, Inv, TypeOK
  <2>5. TypeOK'
    BY <1>4, <2>2, <2>3, <2>4 DEF Configure
  <2>6. QED BY <1>2, <2>1, <2>5 DEF Inv, ClaimsTracked
<1>5. CASE Claim
  <2>1. claim # 0 => claim \in pending
    BY <1>1 DEF Inv, OfferedIsHighest, Servable
  <2>2. 0 \notin pending
    BY IdsAssumption DEF Inv, TypeOK
  <2>3. claimed' = claimed \cup ({claim} \ {0}) /\ inService' = claimed'
    BY <1>5, <2>1, <2>2 DEF Claim, MarkClaimed, Inv, ClaimsTracked
  <2>4. QED
    BY <1>1, <1>2, <1>5, <2>3 DEF Claim, Inv, TypeOK, ClaimsTracked
<1>6. CASE \E id \in Ids : Complete(id)
  BY <1>1, <1>2, <1>6, IdsAssumption DEF Complete, Unclaim, Inv, TypeOK, ClaimsTracked
<1>7. QED BY <1>3, <1>4, <1>5, <1>6

(* plic_update offers the highest servable id: what is servable after it   *)
(* is exactly the set of its candidates.                                   *)
LEMMA UpdateStep ==
    ASSUME OneWord, Inv, Update
    PROVE  Inv'
<1>1. PICK on \in SUBSET Driven :
        /\ level' = on
        /\ pending' = FollowLevels(on) \ (Selected(FollowLevels(on)) \cap claimed)
        /\ \/ Candidates(FollowLevels(on)) = {} /\ claim' = 0
           \/ \E id \in Candidates(FollowLevels(on)) :
                 Wins(id, FollowLevels(on)) /\ claim' = Count(id, FollowLevels(on))
        /\ irq' = (claim' > 0)
  BY Zenon DEF Update
<1>2. /\ phase' = "bus"
      /\ UNCHANGED <<priority, enable, claimed, threshold, inService>>
  BY DEF Update
<1> DEFINE pend == FollowLevels(on)
<1>3. pend \subseteq Ids
  BY DrivenAssumption DEF FollowLevels, Inv, TypeOK
<1> HIDE DEF pend
<1>4. \A id \in Ids : Priority(Count(id, pend)) = priority[id]
  BY CountIsId DEF Priority
<1>5. Selected(pend) = {id \in enable \cap pend : priority[id] >= threshold}
  BY <1>3, <1>4 DEF Selected
<1>6. Servable' = Candidates(pend) /\ Candidates(pend) \subseteq Ids
  BY <1>1, <1>2, <1>3, <1>5 DEF Servable, Candidates, pend
<1>7. /\ claim' \in AllIds
      /\ claim' = 0 => Servable' = {}
      /\ claim' # 0 => /\ claim' \in Servable'
                       /\ \A o \in Servable' : priority[o] <= priority[claim']
  <2>1. CASE Candidates(pend) = {} /\ claim' = 0
    BY <1>6, <2>1
  <2>2. CASE \E id \in Candidates(pend) : Wins(id, pend) /\ claim' = Count(id, pend)
    <3>1. PICK id \in Candidates(pend) : Wins(id, pend) /\ claim' = Count(id, pend)
      BY <2>2
    <3>2. id \in Ids /\ claim' = id
      BY <1>6, <3>1, CountIsId
    <3>3. \A o \in Candidates(pend) : priority[o] <= priority[id]
      <4> SUFFICES ASSUME NEW o \in Candidates(pend) PROVE priority[o] <= priority[id]
        OBVIOUS
      <4>1. o \in Ids /\ priority[o] \in 0..MaxPrio /\ priority[id] \in 0..MaxPrio
        BY <1>6, <3>2 DEF Inv, TypeOK
      <4>2. Priority(Count(o, pend)) = priority[o] /\ Priority(Count(id, pend)) = priority[id]
        BY <1>4, <3>2, <4>1
      <4>3. CASE o = id
        BY <4>1, <4>3
      <4>4. CASE o # id
        <5>1. \/ Priority(Count(o, pend)) < Priority(Count(id, pend))
              \/ Priority(Count(o, pend)) = Priority(Count(id, pend))
          BY <3>1, <4>4 DEF Wins
        <5>2. QED BY <4>1, <4>2, <5>1
      <4>5. QED BY <4>3, <4>4
    <3>4. claim' \in AllIds /\ claim' # 0
      BY <3>2, IdsAssumption
    <3>5. claim' \in Servable'
      BY <1>6, <3>1, <3>2
    <3>6. \A o \in Servable' : priority[o] <= priority[claim']
      BY <1>6, <3>2, <3>3
    <3>7. QED BY <3>4, <3>5, <3>6
  <2>3. QED BY <1>1, <2>1, <2>2 DEF pend
<1>8. irq' <=> claim' # 0
  <2>1. (claim' > 0) <=> claim' # 0
    BY <1>7
  <2>2. irq' = (claim' > 0)
    BY <1>1
  <2>3. QED BY <2>1, <2>2
<1>9. irq' \in BOOLEAN
  BY <1>1
<1>10. TypeOK'
  BY <1>1, <1>2, <1>3, <1>7, <1>9 DEF Inv, TypeOK, pend
<1>11. OfferedIsHighest'
  BY <1>2, <1>7, <1>8 DEF OfferedIsHighest
<1>12. QED BY <1>2, <1>10, <1>11 DEF Inv, ClaimsTracked

(* What the registers, the claim history and the offered id satisfy        *)
(* between any two steps of the loop.                                      *)
THEOREM Invariance == ASSUME OneWord PROVE Spec => []Inv
<1>1. Inv /\ [Next]_vars => Inv'
  <2> SUFFICES ASSUME Inv, [Next]_vars PROVE Inv'
    OBVIOUS
  <2>1. CASE UNCHANGED vars
    BY <2>1 DEF vars, Inv, TypeOK, OfferedIsHighest, ClaimsTracked, Servable
  <2>2. CASE Next
    BY <2>2, AccessStep, UpdateStep DEF Next
  <2>3. QED BY <2>1, <2>2
<1>2. QED BY <1>1, InitInv, PTL DEF Spec

(* Type correctness: no access and no update leaves the registers' types.  *)
THEOREM TypeCorrect == ASSUME OneWord PROVE Spec => []TypeOK
<1>1. Inv => TypeOK
  BY DEF Inv
<1>2. QED BY <1>1, Invariance, PTL

(* plic_update offers the highest-priority servable id.                    *)
THEOREM OfferIsHighest == ASSUME OneWord PROVE Spec => []OfferedIsHighest
<1>1. Inv => OfferedIsHighest
  BY DEF Inv
<1>2. QED BY <1>1, Invariance, PTL

(* The claimed bits of plic_bus_access are the ids software holds.         *)
THEOREM ClaimsAreTracked == ASSUME OneWord PROVE Spec => []ClaimsTracked
<1>1. Inv => ClaimsTracked
  BY DEF Inv
<1>2. QED BY <1>1, Invariance, PTL

(* No id is handed out twice before its completion.                        *)
THEOREM ClaimsAreExclusive == ASSUME OneWord PROVE Spec => ExclusiveClaim
<1>1. Inv => [Claim /\ claim # 0 => claim \notin inService]_vars
  BY DEF Inv, OfferedIsHighest, Servable, ClaimsTracked, Claim, Access
<1>2. QED BY <1>1, Invariance, PTL DEF ExclusiveClaim

(* With all ids in the first word an offered id is pending and enabled:    *)
(* the id is miscounted only where plic_update skips a word.               *)
THEOREM OfferIsPending == ASSUME OneWord PROVE Spec => []OfferedIdIsPending
<1>1. OfferedIsHighest => OfferedIdIsPending
  BY DEF OfferedIsHighest, OfferedIdIsPending, Servable
<1>2. QED BY <1>1, OfferIsHighest, PTL
=============================================================================
