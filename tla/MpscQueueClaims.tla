--------------------------- MODULE MpscQueueClaims ---------------------------
(***************************************************************************)
(* RingInv holds initially and is preserved by the claim of a position and *)
(* by the steps that leave the ring alone; what it says of a writer and of *)
(* the positions the consumer holds.                                       *)
(***************************************************************************)
EXTENDS MpscQueueTyping

\* A fresh ring: nothing is claimed and no slot has been published.
LEMMA RingInit == Init => RingInv
<1> SUFFICES ASSUME Init PROVE RingInv
  OBVIOUS
<1>1. ClaimInv
  BY DEF Init, ClaimInv, Claimed, Unpublished
<1>2. SlotInv
  BY QueueAssumption DEF Init, SlotInv, Claimed, Unpublished, Index
<1>3. BatchInv
  BY DEF Init, BatchInv
<1> QED
  BY <1>1, <1>2, <1>3 DEF RingInv

\* A step of a producer that leaves the ring alone and ends outside of a claim.
LEMMA RingOutside ==
  ASSUME TypeInv, RingInv, NEW p \in Producers,
         UNCHANGED <<head, tail, slotRec, slotSeq, pos, claims, voided, cpc, avail, batch, taken>>,
         NEW l \in ProducerPC \ Unpublished,
         ppc' = [ppc EXCEPT ![p] = l],
         \A q \in Producers \ {p} : calls'[q] = calls[q]
  PROVE  RingInv'
<1> USE DEF TypeInv, RingInv
<1>1. \A q \in Producers : Claimed(q)' => Claimed(q) /\ q # p /\ ppc'[q] = ppc[q] /\ Rec(q)' = Rec(q)
  BY DEF TypeOK, Claimed, Rec
<1>2. ClaimInv'
  BY <1>1 DEF ClaimInv, Writing
<1>3. SlotInv'
  BY <1>1 DEF SlotInv, IsPublished, Value
<1>4. BatchInv'
  BY DEF BatchInv, IsPublished, Value
<1> QED
  BY <1>2, <1>3, <1>4

\* The same for a step between two stages of one claim.
LEMMA RingInside ==
  ASSUME TypeInv, RingInv, NEW p \in Producers,
         UNCHANGED <<head, tail, slotRec, slotSeq, pos, claims, voided, calls, cpc, avail, batch,
                     taken>>,
         NEW l \in {"stall", "write", "tomb"}, ppc[p] \in {"recheck", "stall"},
         l # "stall" => pos[p] < tail + Capacity,
         ppc' = [ppc EXCEPT ![p] = l]
  PROVE  RingInv'
<1> USE DEF TypeInv, RingInv
<1>1. \A q \in Producers : /\ Claimed(q)' <=> Claimed(q)
                           /\ q # p => ppc'[q] = ppc[q]
                           /\ Rec(q)' = Rec(q)
  BY DEF TypeOK, Claimed, Rec, Unpublished
<1>2. ClaimInv'
  BY <1>1, SMTT(30) DEF ClaimInv, Writing, TypeOK
<1>3. SlotInv'
  BY <1>1 DEF SlotInv, IsPublished, Value, TypeOK
<1>4. BatchInv'
  BY Zenon DEF BatchInv, IsPublished, Value
<1> QED
  BY <1>2, <1>3, <1>4

\* The positions whose content the consumer holds are claimed ones.
LEMMA HeldIsClaimed ==
  ASSUME TypeInv, RingInv
  PROVE  /\ \A i \in 1..Len(taken) : i - 1 \in 0..(tail - 1)
         /\ \A i \in 1..Len(batch) : Len(taken) + i - 1 \in 0..(head - 1)
<1> USE DEF TypeInv, RingInv
<1>1. Len(taken) \in Nat /\ Len(batch) \in Nat /\ tail \in Nat /\ head \in Nat /\ avail \in Int
  BY DEF TypeOK
<1>2. CASE cpc \in {"free", "rem", "bcast", "ret"}
  BY <1>1, <1>2 DEF BatchInv, ClaimInv
<1>3. CASE cpc \in {"scan", "copy", "advance"}
  BY <1>1, <1>3, SMTT(30) DEF BatchInv, ClaimInv
<1>4. CASE cpc \notin {"free", "rem", "bcast", "ret", "scan", "copy", "advance"}
  BY <1>1, <1>4 DEF BatchInv, ClaimInv
<1> QED
  BY <1>2, <1>3, <1>4

\* BatchInv survives a step that keeps the consumer's state, the content of
\* what it holds and what is published for it.
LEMMA BatchFrame ==
  ASSUME TypeInv, BatchInv,
         head <= head', head' \in Nat,
         tail' = tail, cpc' = cpc, avail' = avail, batch' = batch, taken' = taken,
         \A i \in 1..Len(taken) : taken'[i] = Value(i - 1)',
         \A i \in 1..Len(batch) : batch'[i] = Value(Len(taken) + i - 1)',
         \A x \in tail..(head - 1) : IsPublished(x) => IsPublished(x)'
  PROVE  BatchInv'
<1>1. tail \in Nat /\ head \in Nat /\ Len(batch) \in Nat /\ avail \in Int
  BY DEF TypeInv, TypeOK
<1>2. CASE cpc \in {"free", "rem", "bcast", "ret"}
  BY <1>1, <1>2 DEF BatchInv
<1>3. CASE cpc \in {"scan", "copy", "advance"}
  <2>1. \A i \in 1..Len(batch) : IsPublished(tail + i - 1)'
    <3> SUFFICES ASSUME NEW i \in 1..Len(batch) PROVE IsPublished(tail + i - 1)'
      BY Zenon
    <3>1. tail + i - 1 \in tail..(head - 1)
      BY <1>1, <1>3 DEF BatchInv
    <3> QED
      BY <1>3, <3>1 DEF BatchInv
  <2>2. cpc = "copy" => IsPublished(tail + Len(batch))'
    <3>1. cpc = "copy" => tail + Len(batch) \in tail..(head - 1)
      BY <1>1, <1>3 DEF BatchInv
    <3> QED
      BY <1>3, <3>1 DEF BatchInv
  <2> QED
    BY <1>1, <1>3, <2>1, <2>2 DEF BatchInv
<1>4. CASE cpc \notin {"free", "rem", "bcast", "ret", "scan", "copy", "advance"}
  BY <1>1, <1>4 DEF BatchInv
<1> QED
  BY <1>2, <1>3, <1>4

\* fetch_add on head: the new position is unpublished, whatever its slot holds.
LEMMA RingClaim ==
  ASSUME TypeInv, RingInv, NEW p \in Producers, Claim(p)
  PROVE  RingInv'
<1> USE DEF TypeInv, RingInv, producerFrame, consVars, slotVars
<1>0. /\ head \in Nat /\ tail \in Nat /\ tail <= head /\ head' = head + 1 /\ tail' = tail
      /\ Len(claims) = head /\ claims \in Seq(Records) /\ Rec(p) \in Records
      /\ claims' = Append(claims, Rec(p)) /\ voided' = voided /\ calls' = calls
      /\ pos' = [pos EXCEPT ![p] = head] /\ pos \in [Producers -> Nat]
      /\ ppc' = [ppc EXCEPT ![p] = "recheck"] /\ ppc \in [Producers -> ProducerPC]
      /\ UNCHANGED <<slotRec, slotSeq, cpc, avail, batch, taken>>
  BY QueueAssumption, SMTT(30) DEF TypeOK, ClaimInv, Claim, Goto, Rec, Records
<1>1. \A x \in 0..(head - 1) : Value(x)' = Value(x)
  BY <1>0 DEF Value
<1>2. \A q \in Producers \ {p} : /\ Claimed(q)' <=> Claimed(q)
                                 /\ ppc'[q] = ppc[q] /\ pos'[q] = pos[q] /\ Rec(q)' = Rec(q)
  BY <1>0 DEF Claimed, Rec
<1>3. pos'[p] = head /\ ppc'[p] = "recheck" /\ Rec(p)' = Rec(p) /\ head \notin voided
  BY <1>0 DEF Rec, ClaimInv
<1>4. \A x \in tail..head : IsPublished(x)' <=> IsPublished(x)
  BY <1>0 DEF IsPublished
<1>5. ~IsPublished(head)
  <2>1. Idx(head) \in Index /\ Idx(head) <= head
    BY <1>0, IdxType
  <2>2. slotSeq[Idx(head)] <= head \/ slotSeq[Idx(head)] = Idx(head)
    BY <2>1 DEF SlotInv
  <2>3. slotSeq[Idx(head)] \in Nat /\ Idx(head) \in Nat
    BY <2>1 DEF TypeOK, Index
  <2>4. slotSeq[Idx(head)] # head + 1
    BY <1>0, <2>1, <2>2, <2>3
  <2> QED
    BY <2>4 DEF IsPublished
<1>6. ClaimInv'
  <2>1. tail' <= head' /\ head' = Len(claims') /\ voided' \subseteq 0..(head' - 1)
    BY <1>0 DEF ClaimInv
  <2>2. ASSUME NEW q \in Producers, Claimed(q)'
        PROVE  /\ pos'[q] \in tail'..(head' - 1)
               /\ claims'[pos'[q] + 1] = Rec(q)'
               /\ pos'[q] \in voided' => ppc'[q] = "publish"
               /\ Writing(q)' => pos'[q] < tail' + Capacity
               /\ \A r \in Producers \ {q} : Claimed(r)' => pos'[r] # pos'[q]
    <3>1. CASE q = p
      BY <1>0, <1>2, <1>3, <2>2, <3>1 DEF ClaimInv, Writing
    <3>2. CASE q # p
      BY <1>0, <1>2, <1>3, <2>2, <3>2, SMTT(30) DEF ClaimInv, Writing
    <3> QED
      BY <3>1, <3>2
  <2> QED
    BY <2>1, <2>2 DEF ClaimInv
<1>7. SlotInv'
  <2>1. \A i \in Index : (slotSeq'[i] <= head' \/ slotSeq'[i] = i) /\ slotSeq'[i] <= tail' + Capacity
    BY <1>0 DEF SlotInv, TypeOK
  <2>2. \A x \in tail'..(head' - 1) : IsPublished(x)' => slotRec'[Idx(x)] = Value(x)'
    BY <1>0, <1>1, <1>4, <1>5 DEF SlotInv
  <2>3. \A q \in Producers : Claimed(q)' =>
          /\ ~IsPublished(pos[q])'
          /\ ppc'[q] = "publish" => slotRec'[Idx(pos'[q])] = Value(pos[q])'
    BY <1>0, <1>1, <1>2, <1>3, <1>4, <1>5, SMTT(30) DEF SlotInv, ClaimInv
  <2> QED
    BY <2>1, <2>2, <2>3 DEF SlotInv
<1>8. BatchInv'
  <2>1. \A i \in 1..Len(taken) : taken'[i] = Value(i - 1)'
    BY <1>0, <1>1, HeldIsClaimed DEF BatchInv
  <2>2. \A i \in 1..Len(batch) : batch'[i] = Value(Len(taken) + i - 1)'
    BY <1>0, <1>1, HeldIsClaimed DEF BatchInv
  <2>3. \A x \in tail..(head - 1) : IsPublished(x) => IsPublished(x)'
    BY <1>0 DEF IsPublished
  <2> QED
    <3>1. head <= head' /\ head' \in Nat
      BY <1>0
    <3>2. tail' = tail /\ cpc' = cpc /\ avail' = avail /\ batch' = batch /\ taken' = taken
      BY <1>0
    <3> QED
      BY <2>1, <2>2, <2>3, <3>1, <3>2, BatchFrame
<1> QED
  BY <1>6, <1>7, <1>8

\* A producer that may write has its slot to itself: no published position the
\* consumer may still read, and no other writer, shares it.
LEMMA WriterAlone ==
  ASSUME TypeInv, RingInv, NEW p \in Producers, Writing(p)
  PROVE  /\ \A x \in tail..(head - 1) : IsPublished(x) => Idx(x) # Idx(pos[p])
         /\ \A q \in Producers \ {p} : Writing(q) => Idx(pos[q]) # Idx(pos[p])
<1> USE DEF TypeInv, RingInv
<1>0. \A q \in Producers : Writing(q) => Claimed(q)
  BY DEF Writing, Claimed, Unpublished
<1>1. tail \in Nat /\ head \in Nat /\ Capacity \in Nat
  BY QueueAssumption DEF TypeOK
<1>2. \A q \in Producers : Writing(q) =>
        pos[q] \in Nat /\ tail <= pos[q] /\ pos[q] < tail + Capacity
  BY <1>0, <1>1 DEF ClaimInv, TypeOK
<1>3. ASSUME NEW x \in tail..(head - 1), IsPublished(x), Idx(x) = Idx(pos[p]) PROVE FALSE
  <2>1. x \in Nat /\ Idx(x) \in Index
    BY <1>1, IdxType
  <2>2. x < tail + Capacity
    BY <1>1, <1>3, <2>1 DEF IsPublished, SlotInv
  <2>3. x = pos[p]
    BY <1>1, <1>2, <1>3, <2>1, <2>2, IdxInjective
  <2> QED
    BY <1>0, <1>3, <2>3 DEF SlotInv
<1>4. ASSUME NEW q \in Producers \ {p}, Writing(q), Idx(pos[q]) = Idx(pos[p]) PROVE FALSE
  <2>1. pos[q] = pos[p]
    BY <1>1, <1>2, <1>4, IdxInjective
  <2> QED
    BY <1>0, <1>4, <2>1 DEF ClaimInv
<1> QED
  BY <1>3, <1>4

\* What the consumer holds is not the position of an unfinished claim.
LEMMA HeldIsSettled ==
  ASSUME TypeInv, RingInv, NEW p \in Producers, Claimed(p)
  PROVE  /\ \A i \in 1..Len(taken) : i - 1 # pos[p]
         /\ \A i \in 1..Len(batch) : Len(taken) + i - 1 # pos[p]
<1> USE DEF TypeInv, RingInv
<1>1. /\ Len(taken) \in Nat /\ Len(batch) \in Nat /\ tail \in Nat /\ head \in Nat
      /\ pos[p] \in Nat /\ tail <= pos[p] /\ ~IsPublished(pos[p])
  BY DEF TypeOK, ClaimInv, SlotInv
<1>2. \A i \in 1..Len(taken) : i - 1 # pos[p]
  BY <1>1, HeldIsClaimed
<1>3. CASE cpc \in {"free", "rem", "bcast", "ret"}
  BY <1>1, <1>2, <1>3 DEF BatchInv
<1>4. CASE cpc \in {"scan", "copy", "advance"}
  BY <1>1, <1>2, <1>4, Zenon DEF BatchInv
<1>5. CASE cpc \notin {"free", "rem", "bcast", "ret", "scan", "copy", "advance"}
  BY <1>1, <1>2, <1>5 DEF BatchInv
<1> QED
  BY <1>3, <1>4, <1>5

=============================================================================
