--------------------------- MODULE MpscQueueProofs ---------------------------
(***************************************************************************)
(* Theorems about the ring of core/queue.c, for every number of producers, *)
(* flushers and calls, every capacity and batch size, every depth of the   *)
(* store buffer, and strong or weak compare-and-swap.                      *)
(***************************************************************************)
EXTENDS MpscQueueProducers

-----------------------------------------------------------------------------
(***************************************************************************)
(* The consumer and the other threads preserve RingInv                     *)
(***************************************************************************)

\* Steps of the consumer, the closer and the flushers that leave the ring alone.
LEMMA RingUntouched ==
  ASSUME ClaimInv, SlotInv,
         UNCHANGED <<head, tail, slotRec, slotSeq, ppc, calls, pos, claims, voided>>
  PROVE  /\ ClaimInv' /\ SlotInv'
         /\ \A x : Value(x)' = Value(x) /\ (IsPublished(x)' <=> IsPublished(x))
<1>1. \A x : Value(x)' = Value(x) /\ (IsPublished(x)' <=> IsPublished(x))
  BY DEF Value, IsPublished
<1>2. ClaimInv'
  BY DEF ClaimInv, Claimed, Writing, Rec
<1>3. SlotInv'
  BY <1>1 DEF SlotInv, Claimed
<1> QED
  BY <1>1, <1>2, <1>3

\* Steps of the consumer that neither copy nor return records.
LEMMA RingControl ==
  ASSUME TypeInv, RingInv,
         UNCHANGED <<head, tail, slotRec, slotSeq, ppc, calls, pos, claims, voided, avail, batch,
                     taken>>,
         \/ cpc' = cpc
         \/ cpc \in {"free", "rem", "bcast", "ret"} /\ cpc' \in {"free", "rem", "bcast", "ret"}
         \/ /\ cpc \notin {"free", "rem", "bcast", "ret", "scan", "copy", "advance"}
            /\ cpc' \notin {"free", "rem", "bcast", "ret", "scan", "copy", "advance"}
  PROVE  RingInv'
<1>1. /\ ClaimInv' /\ SlotInv'
      /\ \A x : Value(x)' = Value(x) /\ (IsPublished(x)' <=> IsPublished(x))
  BY RingUntouched DEF RingInv
<1>2. BatchInv'
  BY <1>1 DEF RingInv, BatchInv
<1> QED
  BY <1>1, <1>2 DEF RingInv

\* The copy of a published slot: the batch grows by the content of its position.
LEMMA RingCopy ==
  ASSUME TypeInv, RingInv, CopySlot
  PROVE  RingInv'
<1> USE DEF TypeInv, RingInv
<1>0. /\ tail \in Nat /\ head \in Nat /\ avail \in Int /\ Len(batch) \in Nat /\ Len(taken) = tail
      /\ batch \in Seq(Content)
      /\ Len(batch) < avail /\ tail + avail <= head /\ IsPublished(tail + Len(batch))
      /\ \A i \in 1..Len(batch) : IsPublished(tail + i - 1)
      /\ \A i \in 1..Len(batch) : batch[i] = Value(tail + i - 1)
  BY SMTT(30) DEF TypeOK, BatchInv, CopySlot, Content
<1>1. /\ ClaimInv' /\ SlotInv'
      /\ \A x : Value(x)' = Value(x) /\ (IsPublished(x)' <=> IsPublished(x))
  BY RingUntouched DEF CopySlot, consumerFrame, slotVars, prodVars, claimVars
<1>2. /\ cpc' = "scan" /\ tail' = tail /\ head' = head /\ avail' = avail /\ taken' = taken
      /\ batch' = Append(batch, slotRec[Idx(tail + Len(batch))])
  BY DEF CopySlot, consumerFrame
<1>3. slotRec[Idx(tail + Len(batch))] = Value(tail + Len(batch))
  <2>1. tail + Len(batch) \in tail..(head - 1)
    BY <1>0
  <2> QED
    BY <1>0, <2>1 DEF SlotInv
<1>4. /\ Len(batch') = Len(batch) + 1
      /\ \A i \in 1..Len(batch) : batch'[i] = batch[i]
      /\ batch'[Len(batch) + 1] = Value(tail + Len(batch))
  BY <1>0, <1>2, <1>3
<1>5. ASSUME NEW i \in 1..Len(batch')
      PROVE  batch'[i] = Value(tail + i - 1)' /\ IsPublished(tail + i - 1)'
  <2>1. CASE i \in 1..Len(batch)
    BY <1>0, <1>1, <1>2, <1>4, <2>1
  <2>2. CASE i = Len(batch) + 1
    <3>1. tail + i - 1 = tail + Len(batch)
      BY <1>0, <2>2
    <3> QED
      BY <1>0, <1>1, <1>2, <1>4, <2>2, <3>1
  <2> QED
    BY <1>0, <1>4, <2>1, <2>2
<1>6. BatchInv'
  <2>1. \A i \in 1..Len(taken') : taken'[i] = Value(i - 1)'
    BY <1>1, <1>2 DEF BatchInv
  <2>2. Len(batch') <= avail' /\ tail' + avail' <= head' /\ Len(taken') = tail'
    BY <1>0, <1>2, <1>4
  <2> QED
    BY <1>2, <1>5, <2>1, <2>2 DEF BatchInv
<1> QED
  BY <1>1, <1>6

\* The store of tail: no unfinished claim is left behind it.
LEMMA RingAdvance ==
  ASSUME TypeInv, RingInv, AdvanceTail
  PROVE  RingInv'
<1> USE DEF TypeInv, RingInv
<1>0. /\ tail \in Nat /\ head \in Nat /\ avail \in Int /\ Len(batch) \in Nat /\ Len(taken) = tail
      /\ Len(batch) <= avail /\ tail + avail <= head /\ Capacity \in Nat
      /\ \A i \in 1..Len(batch) : IsPublished(tail + i - 1)
  BY QueueAssumption DEF TypeOK, BatchInv, AdvanceTail
<1>1. /\ head' = head /\ slotRec' = slotRec /\ slotSeq' = slotSeq /\ ppc' = ppc /\ calls' = calls
      /\ pos' = pos /\ claims' = claims /\ voided' = voided /\ batch' = batch /\ taken' = taken
      /\ tail' = tail + Len(batch) /\ cpc' \in {"free", "ret"}
  BY DEF AdvanceTail, consumerFrame, slotVars, prodVars, claimVars
<1>2. \A x : Value(x)' = Value(x) /\ (IsPublished(x)' <=> IsPublished(x))
  BY <1>1 DEF Value, IsPublished
<1>3. \A q \in Producers : (Claimed(q)' <=> Claimed(q)) /\ Rec(q)' = Rec(q)
                           /\ (Writing(q)' <=> Writing(q))
  BY <1>1 DEF Claimed, Rec, Writing
<1>4. ASSUME NEW q \in Producers, Claimed(q) PROVE pos[q] >= tail + Len(batch)
  <2>1. pos[q] \in Nat /\ pos[q] >= tail /\ ~IsPublished(pos[q])
    BY <1>0, <1>4 DEF ClaimInv, SlotInv, TypeOK
  <2>2. ASSUME pos[q] < tail + Len(batch) PROVE FALSE
    <3>1. pos[q] - tail + 1 \in 1..Len(batch) /\ tail + (pos[q] - tail + 1) - 1 = pos[q]
      BY <1>0, <2>1, <2>2
    <3> QED
      BY <1>0, <2>1, <3>1
  <2> QED
    BY <1>0, <2>1, <2>2
<1>5. ClaimInv'
  <2>1. tail' <= head' /\ head' = Len(claims') /\ voided' \subseteq 0..(head' - 1)
    BY <1>0, <1>1 DEF ClaimInv
  <2>2. ASSUME NEW q \in Producers, Claimed(q)'
        PROVE  /\ pos'[q] \in tail'..(head' - 1)
               /\ claims'[pos'[q] + 1] = Rec(q)'
               /\ pos'[q] \in voided' => ppc'[q] = "publish"
               /\ Writing(q)' => pos'[q] < tail' + Capacity
               /\ \A r \in Producers \ {q} : Claimed(r)' => pos'[r] # pos'[q]
    <3>1. Claimed(q) /\ pos[q] >= tail + Len(batch)
      BY <1>3, <1>4, <2>2
    <3>2. /\ pos[q] \in tail..(head - 1) /\ claims[pos[q] + 1] = Rec(q)
          /\ pos[q] \in voided => ppc[q] = "publish"
          /\ Writing(q) => pos[q] < tail + Capacity
          /\ \A r \in Producers \ {q} : Claimed(r) => pos[r] # pos[q]
      BY <3>1 DEF ClaimInv
    <3>3. pos[q] \in (tail + Len(batch))..(head - 1)
      BY <1>0, <3>1, <3>2
    <3>4. Writing(q) => pos[q] < tail + Len(batch) + Capacity
      BY <1>0, <3>2
    <3> QED
      BY <1>1, <1>3, <3>2, <3>3, <3>4
  <2> QED
    BY <2>1, <2>2 DEF ClaimInv
<1>6. SlotInv'
  <2>1. \A i \in Index : (slotSeq'[i] <= head' \/ slotSeq'[i] = i) /\ slotSeq'[i] <= tail' + Capacity
    BY <1>0, <1>1 DEF SlotInv, TypeOK
  <2>2. \A x \in tail'..(head' - 1) : IsPublished(x)' => slotRec'[Idx(x)] = Value(x)'
    BY <1>0, <1>1, <1>2 DEF SlotInv
  <2> QED
    BY <1>1, <1>2, <1>3, <2>1, <2>2, SMTT(30) DEF SlotInv
<1>7. BatchInv'
  BY <1>0, <1>1, <1>2 DEF BatchInv
<1> QED
  BY <1>5, <1>6, <1>7

\* The batch is handed to the caller of get_batch.
LEMMA RingReturn ==
  ASSUME TypeInv, RingInv, ReturnBatch
  PROVE  RingInv'
<1> USE DEF TypeInv, RingInv
<1>0. /\ taken \in Seq(Content) /\ batch \in Seq(Content) /\ Len(taken) + Len(batch) = tail
      /\ Len(taken) \in Nat /\ Len(batch) \in Nat
      /\ \A i \in 1..Len(taken) : taken[i] = Value(i - 1)
      /\ \A i \in 1..Len(batch) : batch[i] = Value(Len(taken) + i - 1)
  BY DEF TypeOK, BatchInv, ReturnBatch, Content
<1>1. /\ ClaimInv' /\ SlotInv'
      /\ \A x : Value(x)' = Value(x) /\ (IsPublished(x)' <=> IsPublished(x))
  BY RingUntouched DEF ReturnBatch, consumerFrame, slotVars, prodVars, claimVars
<1>2. cpc' = "check" /\ tail' = tail /\ batch' = <<>> /\ taken' = taken \o batch
  BY DEF ReturnBatch
<1>3. /\ Len(taken \o batch) = Len(taken) + Len(batch)
      /\ \A i \in 1..(Len(taken) + Len(batch)) :
           (taken \o batch)[i] = IF i <= Len(taken) THEN taken[i] ELSE batch[i - Len(taken)]
  BY <1>0, ConcatProperties
<1>4. ASSUME NEW i \in 1..Len(taken') PROVE taken'[i] = Value(i - 1)'
  <2>1. CASE i <= Len(taken)
    BY <1>0, <1>1, <1>2, <1>3, <2>1
  <2>2. CASE i > Len(taken)
    <3>1. i - Len(taken) \in 1..Len(batch) /\ Len(taken) + (i - Len(taken)) - 1 = i - 1
      BY <1>0, <1>2, <1>3, <2>2
    <3>2. taken'[i] = batch[i - Len(taken)]
      BY <1>0, <1>2, <1>3, <2>2
    <3> QED
      BY <1>0, <1>1, <3>1, <3>2
  <2> QED
    BY <1>0, <2>1, <2>2
<1>5. BatchInv'
  BY <1>0, <1>2, <1>3, <1>4 DEF BatchInv
<1> QED
  BY <1>1, <1>5

\* Every step of the consumer and of its store buffer keeps RingInv.
LEMMA RingConsumer ==
  ASSUME TypeInv, RingInv, ConsumerStep \/ DrainStore
  PROVE  RingInv'
<1> USE DEF consumerFrame, slotVars, prodVars, claimVars, consVars
<1>1. CASE CheckItems \/ CheckClosed \/ RecheckItems \/ RecheckClosed \/ CheckDrained
  BY <1>1, RingControl, SMTT(30)
  DEF CheckItems, CheckClosed, RecheckItems, RecheckClosed, CheckDrained, Branch
<1>2. CASE Park \/ Sleep \/ Unpark \/ FreeSlots \/ BroadcastDrained \/ DrainStore
  BY <1>2, RingControl DEF Park, Sleep, Unpark, FreeSlots, BroadcastDrained, DrainStore
<1>3. CASE LoadAvailable \/ ScanSlot
  <2>1. /\ ClaimInv' /\ SlotInv'
        /\ \A x : Value(x)' = Value(x) /\ (IsPublished(x)' <=> IsPublished(x))
    BY <1>3, RingUntouched DEF RingInv, LoadAvailable, ScanSlot, Branch
  <2>2. CASE LoadAvailable
    <3>1. /\ batch = <<>> /\ batch' = <<>> /\ Len(batch) = 0 /\ taken' = taken /\ Len(taken) = tail
          /\ tail' = tail /\ head' = head /\ avail' = head - tail /\ cpc' \in {"ret", "scan"}
          /\ head \in Nat /\ tail \in Nat /\ tail <= head
      BY <2>2, SMTT(30) DEF LoadAvailable, RingInv, BatchInv, ClaimInv, TypeInv, TypeOK
    <3> QED
      BY <2>1, <3>1, SMTT(30) DEF RingInv, BatchInv
  <2>3. CASE ScanSlot
    BY <2>1, <2>3 DEF RingInv, BatchInv, ScanSlot, Branch, TypeInv, TypeOK
  <2> QED
    BY <1>3, <2>2, <2>3
<1> QED
  BY <1>1, <1>2, <1>3, RingCopy, RingAdvance, RingReturn, SMTT(30) DEF ConsumerStep, WaitForItems, GetBatchTry

\* The closer and the flushers do not touch the ring.
LEMMA RingOthers ==
  ASSUME TypeInv, RingInv, Close \/ (\E f \in Flushers : FlusherStep(f)) \/ UNCHANGED vars
  PROVE  RingInv'
<1> USE DEF slotVars, prodVars, claimVars, consVars
<1>1. CASE Close
  BY <1>1, RingControl, SMTT(30) DEF Close, CloseStore, CloseWake, CloseBroadcast, closerFrame
<1>2. CASE \E f \in Flushers : FlusherStep(f)
  BY <1>2, RingControl DEF FlusherStep, FlushLock, FlushLoadHead, FlushLoadTail, flusherFrame
<1>3. CASE UNCHANGED vars
  BY <1>3, RingControl DEF vars
<1> QED
  BY <1>1, <1>2, <1>3, SMTT(30)

\* RingInv is an invariant of the ring: claims, slots and the consumer's batch
\* stay consistent for any number of producers and any capacity.
THEOREM RingInvariant == Spec => [](TypeInv /\ RingInv)
<1>1. Init => TypeInv /\ RingInv
  BY TypeInit, RingInit
<1>2. TypeInv /\ RingInv /\ [Next]_vars => (TypeInv /\ RingInv)'
  <2> SUFFICES ASSUME TypeInv, RingInv, [Next]_vars PROVE TypeInv' /\ RingInv'
    OBVIOUS
  <2>1. RingInv'
    BY RingProducer, RingConsumer, RingOthers DEF Next
  <2> QED
    BY <2>1, TypeNext
<1> QED
  BY <1>1, <1>2, PTL DEF Spec

-----------------------------------------------------------------------------
(***************************************************************************)
(* What the caller of get_batch sees                                       *)
(***************************************************************************)

\* The consumer receives, for every position, exactly the record of the
\* producer that claimed it or that producer's tombstone.
THEOREM DeliversInOrder == Spec => []TakenInOrder
<1>1. TypeInv /\ RingInv => TakenInOrder
  BY DEF TypeInv, TypeOK, RingInv, BatchInv, TakenInOrder
<1> QED
  BY <1>1, RingInvariant, PTL

\* No producer writes a slot that another producer or the consumer uses: the
\* plain, non-atomic accesses to buffer[i].rec are free of data races.
THEOREM SlotsRaceFree == Spec => []NoSlotRace
<1>1. ASSUME TypeInv, RingInv PROVE NoSlotRace
  <2> SUFFICES ASSUME NEW p \in Producers, Writing(p)
               PROVE  /\ \A q \in Producers \ {p} : Writing(q) => Idx(pos[q]) # Idx(pos[p])
                      /\ cpc = "copy" => Idx(tail + Len(batch)) # Idx(pos[p])
    BY DEF NoSlotRace, Writing
  <2>1. cpc = "copy" => tail + Len(batch) \in tail..(head - 1) /\ IsPublished(tail + Len(batch))
    BY <1>1 DEF TypeInv, TypeOK, RingInv, BatchInv
  <2> QED
    BY <1>1, <2>1, WriterAlone
<1> QED
  BY <1>1, RingInvariant, PTL

=============================================================================
