------------------------- MODULE MpscQueueProducers -------------------------
(***************************************************************************)
(* Writing a slot and publishing it preserve RingInv, hence so does every  *)
(* step of a producer of core/queue.c.                                     *)
(***************************************************************************)
EXTENDS MpscQueueClaims

\* The write of a record or of a tombstone into the claimed slot.
LEMMA RingWrite ==
  ASSUME TypeInv, RingInv, NEW p \in Producers, WriteRecord(p) \/ WriteTomb(p)
  PROVE  RingInv'
<1> USE DEF TypeInv, RingInv, producerFrame, consVars, slotVars, claimVars
<1>0. /\ head \in Nat /\ tail \in Nat /\ pos[p] \in Nat /\ tail <= pos[p] /\ pos[p] < head
      /\ Writing(p) /\ Claimed(p) /\ ppc[p] # "publish" /\ pos[p] \notin voided
      /\ claims[pos[p] + 1] = Rec(p) /\ pos[p] < tail + Capacity /\ Idx(pos[p]) \in Index
  <2>1. ppc[p] \in {"write", "tomb"} /\ Writing(p) /\ Claimed(p)
    BY DEF WriteRecord, WriteTomb, Writing, Claimed, Unpublished
  <2>2. head \in Nat /\ tail \in Nat /\ pos[p] \in Nat
    BY DEF TypeOK
  <2>3. Idx(pos[p]) \in Index
    BY <2>2, IdxType
  <2> QED
    BY <2>1, <2>2, <2>3 DEF ClaimInv
<1>1. /\ UNCHANGED <<head, tail, pos, claims, calls, slotSeq, cpc, avail, batch, taken>>
      /\ ppc' = [ppc EXCEPT ![p] = "publish"] /\ ppc \in [Producers -> ProducerPC]
  BY ZenonT(30) DEF TypeOK, WriteRecord, WriteTomb, Goto
<1>2. \/ voided' = voided /\ slotRec' = [slotRec EXCEPT ![Idx(pos[p])] = Rec(p)]
      \/ voided' = voided \cup {pos[p]} /\ slotRec' = [slotRec EXCEPT ![Idx(pos[p])] = Tomb]
  BY DEF WriteRecord, WriteTomb, Tombstone
<1>3. \A x \in Nat : x # pos[p] => Value(x)' = Value(x)
  BY <1>1, <1>2 DEF Value
<1>4. slotRec'[Idx(pos[p])] = Value(pos[p])' /\ \A i \in Index \ {Idx(pos[p])} : slotRec'[i] = slotRec[i]
  BY <1>0, <1>1, <1>2, SMTT(30) DEF Value, TypeOK
<1>5. \A q \in Producers : /\ Claimed(q)' <=> Claimed(q)
                           /\ q # p => ppc'[q] = ppc[q]
                           /\ Rec(q)' = Rec(q)
  BY <1>0, <1>1 DEF Claimed, Rec, Unpublished
<1>6. \A x \in Nat : IsPublished(x)' <=> IsPublished(x)
  BY <1>1 DEF IsPublished
<1>7. ClaimInv'
  <2>1. voided' \subseteq 0..(head' - 1)
    <3>1. voided \subseteq 0..(head - 1) /\ pos[p] \in 0..(head - 1)
      BY <1>0 DEF ClaimInv
    <3> QED
      BY <1>1, <1>2, <3>1, Zenon
  <2>2. ASSUME NEW q \in Producers, Claimed(q)'
        PROVE  /\ pos'[q] \in tail'..(head' - 1)
               /\ claims'[pos'[q] + 1] = Rec(q)'
               /\ pos'[q] \in voided' => ppc'[q] = "publish"
               /\ Writing(q)' => pos'[q] < tail' + Capacity
               /\ \A r \in Producers \ {q} : Claimed(r)' => pos'[r] # pos'[q]
    BY <1>0, <1>1, <1>2, <1>5, <2>2, SMTT(30) DEF ClaimInv, Writing
  <2> QED
    BY <1>1, <2>1, <2>2 DEF ClaimInv
<1>8. SlotInv'
  <2>1. \A i \in Index : (slotSeq'[i] <= head' \/ slotSeq'[i] = i) /\ slotSeq'[i] <= tail' + Capacity
    BY <1>1 DEF SlotInv
  <2>2. ASSUME NEW x \in tail'..(head' - 1), IsPublished(x)'
        PROVE  slotRec'[Idx(x)] = Value(x)'
    <3>1. x \in Nat /\ x \in tail..(head - 1) /\ IsPublished(x) /\ Idx(x) \in Index
      BY <1>0, <1>1, <1>6, <2>2, IdxType
    <3>2. Idx(x) # Idx(pos[p]) /\ x # pos[p]
      BY <1>0, <3>1, WriterAlone
    <3> QED
      BY <1>3, <1>4, <3>1, <3>2 DEF SlotInv
  <2>3. ASSUME NEW q \in Producers, Claimed(q)'
        PROVE  /\ ~IsPublished(pos[q])'
               /\ ppc'[q] = "publish" => slotRec'[Idx(pos'[q])] = Value(pos[q])'
    <3>1. pos[q] \in Nat /\ pos'[q] = pos[q] /\ Claimed(q) /\ ~IsPublished(pos[q]) /\ Idx(pos[q]) \in Index
      BY <1>1, <1>5, <2>3, IdxType DEF TypeOK, SlotInv
    <3>2. ~IsPublished(pos[q])'
      BY <1>1, <1>6, <3>1
    <3>3. CASE q = p
      BY <1>1, <1>4, <3>2, <3>3
    <3>4. CASE q # p
      <4>1. ppc[q] = "publish" => Idx(pos[q]) # Idx(pos[p]) /\ pos[q] # pos[p]
        BY <1>0, <3>4, WriterAlone DEF Writing
      <4> QED
        BY <1>1, <1>3, <1>4, <1>5, <3>1, <3>2, <3>4, <4>1 DEF SlotInv
    <3> QED
      BY <3>3, <3>4
  <2> QED
    BY <2>1, <2>2, <2>3 DEF SlotInv
<1>9. BatchInv'
  <2>1. \A i \in 1..Len(taken) : taken'[i] = Value(i - 1)'
    BY <1>0, <1>1, <1>3, HeldIsClaimed, HeldIsSettled, SMTT(30) DEF BatchInv
  <2>2. \A i \in 1..Len(batch) : batch'[i] = Value(Len(taken) + i - 1)'
    BY <1>0, <1>1, <1>3, HeldIsClaimed, HeldIsSettled DEF BatchInv
  <2> QED
    <3>1. head <= head' /\ head' \in Nat
      BY <1>0, <1>1
    <3>2. tail' = tail /\ cpc' = cpc /\ avail' = avail /\ batch' = batch /\ taken' = taken
      BY <1>1
    <3>3. \A x \in tail..(head - 1) : IsPublished(x) => IsPublished(x)'
      BY <1>1 DEF IsPublished
    <3> QED
      BY <2>1, <2>2, <3>1, <3>2, <3>3, BatchFrame
<1> QED
  BY <1>7, <1>8, <1>9

\* The store of the sequence number: the position's content is in its slot.
LEMMA RingPublish ==
  ASSUME TypeInv, RingInv, NEW p \in Producers, Publish(p)
  PROVE  RingInv'
<1> USE DEF TypeInv, RingInv, producerFrame, consVars, slotVars, claimVars
<1>0. /\ head \in Nat /\ tail \in Nat /\ pos[p] \in Nat /\ tail <= pos[p] /\ pos[p] < head
      /\ Writing(p) /\ Claimed(p) /\ slotRec[Idx(pos[p])] = Value(pos[p])
      /\ pos[p] < tail + Capacity /\ Idx(pos[p]) \in Index
  <2>1. ppc[p] = "publish" /\ Writing(p) /\ Claimed(p)
    BY DEF Publish, Writing, Claimed, Unpublished
  <2>2. head \in Nat /\ tail \in Nat /\ pos[p] \in Nat
    BY DEF TypeOK
  <2>3. Idx(pos[p]) \in Index
    BY <2>2, IdxType
  <2> QED
    BY <2>1, <2>2, <2>3, SMTT(30) DEF ClaimInv, SlotInv
<1>1. /\ head' = head /\ tail' = tail /\ pos' = pos /\ claims' = claims /\ voided' = voided
      /\ calls' = calls /\ slotRec' = slotRec
      /\ cpc' = cpc /\ avail' = avail /\ batch' = batch /\ taken' = taken
      /\ ppc' = [ppc EXCEPT ![p] = "signal"] /\ ppc \in [Producers -> ProducerPC]
  BY DEF TypeOK, Publish, Goto
<1>2. /\ slotSeq'[Idx(pos[p])] = pos[p] + 1
      /\ \A i \in Index : i # Idx(pos[p]) => slotSeq'[i] = slotSeq[i]
  BY <1>0 DEF Publish, TypeOK
<1>3. \A x : Value(x)' = Value(x)
  BY <1>1 DEF Value
<1>4. \A q \in Producers : Claimed(q)' =>
        Claimed(q) /\ q # p /\ ppc'[q] = ppc[q] /\ Rec(q)' = Rec(q)
  BY <1>1 DEF Claimed, Rec, Unpublished
<1>5. \A x \in tail..(head - 1) : IsPublished(x) => IsPublished(x)'
  <2> SUFFICES ASSUME NEW x \in tail..(head - 1), IsPublished(x) PROVE IsPublished(x)'
    OBVIOUS
  <2>1. Idx(x) \in Index /\ Idx(x) # Idx(pos[p])
    BY <1>0, IdxType, WriterAlone
  <2> QED
    BY <1>2, <2>1 DEF IsPublished
<1>6. ClaimInv'
  BY <1>1, <1>4, SMTT(30) DEF ClaimInv, Writing
<1>7. SlotInv'
  <2>1. ASSUME NEW i \in Index
        PROVE  (slotSeq'[i] <= head' \/ slotSeq'[i] = i) /\ slotSeq'[i] <= tail' + Capacity
    <3>1. CASE i = Idx(pos[p])
      <4>1. pos[p] + 1 <= head /\ pos[p] + 1 <= tail + Capacity
        BY <1>0, QueueAssumption
      <4> QED
        BY <1>1, <1>2, <3>1, <4>1
    <3>2. CASE i # Idx(pos[p])
      BY <1>1, <1>2, <3>2 DEF SlotInv
    <3> QED
      BY <3>1, <3>2
  <2>2. ASSUME NEW x \in tail'..(head' - 1), IsPublished(x)'
        PROVE  slotRec'[Idx(x)] = Value(x)'
    <3>1. x \in Nat /\ x \in tail..(head - 1) /\ Idx(x) \in Index
      BY <1>0, <1>1, IdxType
    <3>2. CASE Idx(x) = Idx(pos[p])
      <4>1. x + 1 = pos[p] + 1
        BY <1>2, <2>2, <3>2 DEF IsPublished
      <4>2. x = pos[p]
        BY <1>0, <3>1, <4>1
      <4> QED
        BY <1>0, <1>1, <1>3, <4>2
    <3>3. CASE Idx(x) # Idx(pos[p])
      <4>1. IsPublished(x)
        BY <1>2, <2>2, <3>1, <3>3 DEF IsPublished
      <4> QED
        BY <1>1, <1>3, <3>1, <4>1 DEF SlotInv
    <3> QED
      BY <3>2, <3>3
  <2>3. ASSUME NEW q \in Producers, Claimed(q)'
        PROVE  /\ ~IsPublished(pos[q])'
               /\ ppc'[q] = "publish" => slotRec'[Idx(pos'[q])] = Value(pos[q])'
    <3>1. /\ pos[q] \in Nat /\ pos'[q] = pos[q] /\ Claimed(q) /\ ~IsPublished(pos[q])
          /\ Idx(pos[q]) \in Index /\ pos[q] # pos[p]
      BY <1>0, <1>1, <1>4, <2>3, IdxType DEF TypeOK, SlotInv, ClaimInv
    <3>2. slotSeq'[Idx(pos[q])] # pos[q] + 1
      <4>1. CASE Idx(pos[q]) = Idx(pos[p])
        BY <1>0, <1>2, <3>1, <4>1, SMTT(30)
      <4>2. CASE Idx(pos[q]) # Idx(pos[p])
        BY <1>2, <3>1, <4>2 DEF IsPublished
      <4> QED
        BY <4>1, <4>2
    <3>3. ~IsPublished(pos[q])'
      BY <1>1, <3>2 DEF IsPublished
    <3> QED
      BY <1>1, <1>3, <1>4, <2>3, <3>1, <3>3, SMTT(30) DEF SlotInv
  <2> QED
    BY <2>1, <2>2, <2>3 DEF SlotInv
<1>8. BatchInv'
  <2>1. head <= head' /\ head' \in Nat
    BY <1>0, <1>1
  <2>2. /\ \A i \in 1..Len(taken) : taken'[i] = Value(i - 1)'
        /\ \A i \in 1..Len(batch) : batch'[i] = Value(Len(taken) + i - 1)'
    BY <1>1, <1>3 DEF BatchInv
  <2> QED
    BY <1>1, <1>5, <2>1, <2>2, BatchFrame
<1> QED
  BY <1>6, <1>7, <1>8

\* Every step of a producer keeps RingInv.
LEMMA RingProducer ==
  ASSUME TypeInv, RingInv, NEW p \in Producers, TryPut(p) \/ ProducerStep(p)
  PROVE  RingInv'
<1> DEFINE Same == UNCHANGED <<head, tail, slotRec, slotSeq, pos, claims, voided, cpc, avail,
                               batch, taken>>
<1>0. ppc \in [Producers -> ProducerPC] /\ calls \in [Producers -> 0..MaxCalls]
  BY DEF TypeInv, TypeOK
<1>1. ASSUME Same, NEW l \in ProducerPC \ Unpublished, Goto(p, l) PROVE RingInv'
  BY <1>1, RingOutside, Zenon DEF Goto
<1>2. ASSUME Same, Return(p) PROVE RingInv'
  <2>1. "idle" \in ProducerPC \ Unpublished
    BY DEF ProducerPC, Unpublished
  <2>2. \A q \in Producers \ {p} : calls'[q] = calls[q]
    BY <1>0, <1>2 DEF Return
  <2> QED
    BY <1>2, <2>1, <2>2, RingOutside, Zenon DEF Return
<1>3. {"snap", "full", "claim", "failed", "post", "wait", "retry"} \subseteq ProducerPC \ Unpublished
  BY DEF ProducerPC, Unpublished
<1>4. ASSUME Same, FailPut(p) \/ FinishPut(p) \/ Reject(p) PROVE RingInv'
  BY <1>1, <1>2, <1>3, <1>4, SMTT(30) DEF FailPut, FinishPut, Reject, Accept
<1>5. CASE TryPut(p) \/ SnapTail(p) \/ CheckFull(p) \/ PutFailed(p) \/ WaitSlot(p)
  <2>1. Same
    BY <1>5, Zenon DEF TryPut, SnapTail, CheckFull, PutFailed, WaitSlot, producerFrame, slotVars,
                claimVars, consVars
  <2> QED
    BY <1>1, <1>3, <1>4, <1>5, <2>1 DEF TryPut, SnapTail, CheckFull, PutFailed, WaitSlot
<1>6. CASE Abandon(p) \/ SignalConsumer(p) \/ PostItems(p)
  <2>1. Same
    BY <1>6, ZenonT(30) DEF Abandon, SignalConsumer, PostItems, producerFrame, slotVars, claimVars, consVars
  <2> QED
    BY <1>1, <1>3, <1>4, <1>6, <2>1, ZenonT(30) DEF Abandon, SignalConsumer, PostItems
<1>7. CASE Recheck(p) \/ StallOver(p)
  <2>1. Same /\ calls' = calls
    BY <1>7, ZenonT(30) DEF Recheck, StallOver, Goto, producerFrame, slotVars, claimVars, consVars
  <2>2. pos[p] \in Nat /\ tail \in Nat /\ Capacity \in Nat
    BY QueueAssumption DEF TypeInv, TypeOK
  <2>3. PICK l \in {"stall", "write", "tomb"} :
          /\ ppc[p] \in {"recheck", "stall"}
          /\ l # "stall" => pos[p] < tail + Capacity
          /\ ppc' = [ppc EXCEPT ![p] = l]
    BY <1>7, <2>2 DEF Recheck, StallOver, Goto, Lapped, OldRead
  <2> QED
    BY <2>1, <2>3, RingInside, Zenon
<1> QED
  BY <1>5, <1>6, <1>7, RingClaim, RingWrite, RingPublish DEF ProducerStep

=============================================================================
