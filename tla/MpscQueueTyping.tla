-------------------------- MODULE MpscQueueTyping --------------------------
(***************************************************************************)
(* Type correctness of the ring of core/queue.c, and the arithmetic of its *)
(* slot indices, for every value of the constants.                         *)
(***************************************************************************)
EXTENDS MpscQueue, SequenceTheorems, TLAPS

Content == Records \cup {Tomb, NoRec}

-----------------------------------------------------------------------------
(***************************************************************************)
(* Arithmetic of slot indices                                              *)
(***************************************************************************)

\* Division with remainder.
LEMMA DivMod ==
  ASSUME NEW n \in Nat \ {0}, NEW a \in Nat
  PROVE  \E q \in Nat : a % n \in 0..(n - 1) /\ a = n * q + (a % n)
<1>1. a \div n \in Nat /\ a % n \in 0..(n - 1) /\ a = n * (a \div n) + (a % n)
  OBVIOUS
<1> QED
  BY <1>1, Zenon

\* The only multiple of n strictly between -n and n is 0.
LEMMA SmallMultiple ==
  ASSUME NEW n \in Nat \ {0}, NEW d \in Int, n * d > -n, n * d < n
  PROVE  d = 0
<1>1. CASE d >= 1
  BY <1>1
<1>2. CASE d <= -1
  BY <1>2
<1> QED
  BY <1>1, <1>2

\* Multiplication distributes over subtraction.
LEMMA Distribute ==
  ASSUME NEW n \in Int, NEW x \in Int, NEW y \in Int
  PROVE  n * (x - y) = n * x - n * y
OBVIOUS

\* Two numbers less than n apart with the same remainder are equal.
LEMMA ModInjective ==
  ASSUME NEW n \in Nat \ {0}, NEW a \in Nat, NEW b \in Nat,
         a < b + n, b < a + n, a % n = b % n
  PROVE  a = b
<1>1. PICK qa \in Nat : a % n \in 0..(n - 1) /\ a = n * qa + (a % n)
  BY DivMod, Zenon
<1>2. PICK qb \in Nat : b % n \in 0..(n - 1) /\ b = n * qb + (b % n)
  BY DivMod, Zenon
<1>3. n * (qb - qa) = b - a
  BY <1>1, <1>2, Distribute
<1>4. qb - qa = 0
  BY <1>3, SmallMultiple
<1> QED
  BY <1>1, <1>2, <1>4

\* A position has a slot.
LEMMA IdxType ==
  ASSUME NEW x \in Nat
  PROVE  Idx(x) \in Index /\ Idx(x) <= x
<1>1. PICK q \in Nat : x % Capacity \in 0..(Capacity - 1) /\ x = Capacity * q + (x % Capacity)
  BY DivMod, QueueAssumption, Zenon
<1>2. Capacity * q >= 0
  BY QueueAssumption
<1> QED
  BY <1>1, <1>2, QueueAssumption DEF Idx, Index

\* Within one lap, different positions have different slots.
LEMMA IdxInjective ==
  ASSUME NEW t \in Nat, NEW x \in Nat, NEW y \in Nat,
         t <= x, x < t + Capacity, t <= y, y < t + Capacity, Idx(x) = Idx(y)
  PROVE  x = y
<1>1. Capacity \in Nat \ {0}
  BY QueueAssumption
<1>2. x < y + Capacity /\ y < x + Capacity
  BY <1>1
<1>3. x % Capacity = y % Capacity
  BY DEF Idx
<1> QED
  BY <1>1, <1>2, <1>3, ModInjective, Zenon

-----------------------------------------------------------------------------
(***************************************************************************)
(* Type correctness                                                        *)
(***************************************************************************)

\* Inside a call the call counter is below its bound.
InCall == \A p \in Producers : ppc[p] # "idle" => calls[p] < MaxCalls

TypeInv == TypeOK /\ InCall

\* The initial state of mpsc_queue_create is well typed.
LEMMA TypeInit == Init => TypeInv
<1> SUFFICES ASSUME Init PROVE TypeInv
  OBVIOUS
<1>1. slotSeq \in [Index -> Nat] /\ slotsSem \in Nat
  BY QueueAssumption DEF Init, Index
<1>2. TypeOK
  BY <1>1, QueueAssumption DEF Init, TypeOK, ProducerPC, Unpublished, ConsumerPC, Nobody
<1>3. InCall
  BY DEF Init, InCall
<1> QED
  BY <1>2, <1>3 DEF TypeInv

\* What the ways to leave a step of try_put and put do to the producer's state.
LEMMA TypeReturn ==
  ASSUME TypeInv, NEW p \in Producers,
         \/ \E l \in ProducerPC : Goto(p, l) /\ (ppc[p] # "idle" \/ calls[p] < MaxCalls)
         \/ FailPut(p) /\ (ppc[p] # "idle" \/ calls[p] < MaxCalls)
         \/ FinishPut(p) /\ ppc[p] # "idle"
         \/ Reject(p) /\ ppc[p] # "idle"
  PROVE  /\ ppc' \in [Producers -> ProducerPC]
         /\ calls' \in [Producers -> 0..MaxCalls]
         /\ accepted' \subseteq Records /\ rejected' \subseteq Records
         /\ InCall'
<1> USE DEF TypeInv
<1>0. /\ Rec(p) \in Records /\ calls[p] \in Nat /\ calls[p] < MaxCalls
      /\ "failed" \in ProducerPC /\ "idle" \in ProducerPC /\ MaxCalls \in Nat
  BY QueueAssumption DEF TypeOK, InCall, Rec, Records, ProducerPC
<1>1. CASE \E l \in ProducerPC : Goto(p, l)
  BY <1>0, <1>1 DEF TypeOK, InCall, Goto
<1>2. CASE Accept(p) \/ Reject(p)
  <2>1. calls[p] + 1 \in 0..MaxCalls
    BY <1>0
  <2>2. ppc' \in [Producers -> ProducerPC] /\ calls' \in [Producers -> 0..MaxCalls]
    BY <1>0, <1>2, <2>1, Zenon DEF TypeOK, Accept, Reject, Return
  <2>3. accepted' \subseteq Records /\ rejected' \subseteq Records
    BY <1>0, <1>2 DEF TypeOK, Accept, Reject
  <2>4. InCall'
    BY <1>2, Zenon DEF TypeOK, InCall, Accept, Reject, Return
  <2> QED
    BY <2>2, <2>3, <2>4
<1> QED
  BY <1>0, <1>1, <1>2 DEF FailPut, FinishPut

\* Every step of a producer keeps the types.
LEMMA TypeProducer ==
  ASSUME TypeInv, NEW p \in Producers, TryPut(p) \/ ProducerStep(p)
  PROVE  TypeInv'
<1> USE DEF TypeInv, producerFrame, drainVars, consVars, flushVars, semVars, slotVars, claimVars
<1>0. /\ Rec(p) \in Records /\ Idx(pos[p]) \in Index /\ pos[p] \in Nat
      /\ {"idle", "snap", "full", "claim", "recheck", "stall", "write", "tomb", "publish",
          "signal", "post", "failed", "wait", "retry"} = ProducerPC
  BY IdxType, QueueAssumption DEF TypeOK, Rec, Records, ProducerPC, Unpublished
<1>1. CASE TryPut(p)
  BY <1>0, <1>1, TypeReturn, Zenon DEF TypeOK, TryPut
<1>2. CASE SnapTail(p)
  BY <1>0, <1>2, TypeReturn, Zenon DEF TypeOK, SnapTail
<1>3. CASE CheckFull(p)
  BY <1>0, <1>3, TypeReturn, Zenon DEF TypeOK, CheckFull
<1>4. CASE Claim(p)
  <2>1. head' \in Nat /\ pos' \in [Producers -> Nat] /\ claims' \in Seq(Records)
    BY <1>0, <1>4 DEF TypeOK, Claim
  <2>2. /\ ppc' \in [Producers -> ProducerPC] /\ calls' \in [Producers -> 0..MaxCalls]
        /\ accepted' \subseteq Records /\ rejected' \subseteq Records /\ InCall'
    BY <1>0, <1>4, TypeReturn DEF Claim
  <2> QED
    BY <1>4, <2>1, <2>2, ZenonT(30) DEF TypeOK, Claim
<1>5. CASE Recheck(p)
  BY <1>0, <1>5, TypeReturn, Zenon DEF TypeOK, Recheck
<1>6. CASE StallOver(p)
  BY <1>0, <1>6, TypeReturn, Zenon DEF TypeOK, StallOver
<1>7. CASE Abandon(p)
  BY <1>0, <1>7, TypeReturn, Zenon DEF TypeOK, Abandon
<1>8. CASE WriteRecord(p)
  BY <1>0, <1>8, TypeReturn, Zenon DEF TypeOK, WriteRecord
<1>9. CASE WriteTomb(p)
  BY <1>0, <1>9, TypeReturn, Zenon DEF TypeOK, WriteTomb, Tombstone
<1>10. CASE Publish(p)
  <2>1. slotSeq' \in [Index -> Nat]
    BY <1>0, <1>10 DEF TypeOK, Publish
  <2>2. /\ ppc' \in [Producers -> ProducerPC] /\ calls' \in [Producers -> 0..MaxCalls]
        /\ accepted' \subseteq Records /\ rejected' \subseteq Records /\ InCall'
    BY <1>0, <1>10, TypeReturn DEF Publish
  <2> QED
    BY <1>10, <2>1, <2>2, Zenon DEF TypeOK, Publish
<1>11. CASE SignalConsumer(p)
  BY <1>0, <1>11, TypeReturn, Zenon DEF TypeOK, SignalConsumer
<1>12. CASE PostItems(p)
  <2>1. itemsSem' \in Nat
    BY <1>0, <1>12 DEF TypeOK, PostItems
  <2>2. /\ ppc' \in [Producers -> ProducerPC] /\ calls' \in [Producers -> 0..MaxCalls]
        /\ accepted' \subseteq Records /\ rejected' \subseteq Records /\ InCall'
    BY <1>0, <1>12, TypeReturn DEF PostItems
  <2> QED
    BY <1>12, <2>1, <2>2, SMTT(30) DEF TypeOK, PostItems
<1>13. CASE PutFailed(p)
  BY <1>0, <1>13, TypeReturn, Zenon DEF TypeOK, PutFailed
<1>14. CASE WaitSlot(p)
  <2>1. slotsSem' \in Nat
    BY <1>0, <1>14 DEF TypeOK, WaitSlot, SemReady
  <2>2. /\ ppc' \in [Producers -> ProducerPC] /\ calls' \in [Producers -> 0..MaxCalls]
        /\ accepted' \subseteq Records /\ rejected' \subseteq Records /\ InCall'
    BY <1>0, <1>14, TypeReturn DEF WaitSlot
  <2> QED
    BY <1>14, <2>1, <2>2, SMTT(30) DEF TypeOK, WaitSlot
<1> QED
  BY <1>1, <1>2, <1>3, <1>4, <1>5, <1>6, <1>7, <1>8, <1>9, <1>10, <1>11, <1>12, <1>13, <1>14
  DEF ProducerStep

\* A load and branch of the consumer keeps the types.
LEMMA TypeBranch ==
  ASSUME TypeInv, NEW from, NEW test, NEW yes \in ConsumerPC, NEW no \in ConsumerPC,
         Branch(from, test, yes, no)
  PROVE  TypeInv'
BY DEF TypeInv, TypeOK, InCall, Branch, consumerFrame, slotVars, prodVars, flushVars, claimVars,
       semVars, drainVars

\* Every step of the consumer and of its store buffer keeps the types.
LEMMA TypeConsumer ==
  ASSUME TypeInv, ConsumerStep \/ DrainStore
  PROVE  TypeInv'
<1> USE DEF TypeInv, InCall, consumerFrame, slotVars, prodVars, flushVars, claimVars, semVars,
            drainVars, consVars
<1>0. ConsumerPC = {"check", "closed", "park", "recheck", "reclosed", "sleep", "unpark_check",
                    "unpark_try", "unpark_exit", "try", "scan", "copy", "advance", "free",
                    "rem", "bcast", "ret", "exit"}
  BY DEF ConsumerPC
<1>1. ASSUME NEW v \in {0, 1}, StoreParked(v)
      PROVE  parked' \in {0, 1} /\ storeBuf' \in Seq({0, 1})
  <2> DEFINE S == {0, 1}
  <2>1. storeBuf \in Seq(S) /\ parked \in S /\ v \in S
    BY DEF TypeOK
  <2> HIDE DEF S
  <2>2. Append(storeBuf, v) \in Seq(S)
    BY <2>1
  <2>3. parked' \in S /\ storeBuf' \in Seq(S)
    BY <1>1, <2>1, <2>2, SMTT(30) DEF StoreParked
  <2> QED
    BY <2>3 DEF S
<1>2. CASE CheckItems \/ CheckClosed \/ RecheckItems \/ RecheckClosed \/ ScanSlot \/ CheckDrained
  BY <1>0, <1>2, TypeBranch
  DEF CheckItems, CheckClosed, RecheckItems, RecheckClosed, ScanSlot, CheckDrained
<1>3. CASE Park \/ Unpark
  BY <1>0, <1>1, <1>3, Zenon DEF TypeOK, Park, Unpark
<1>4. CASE Sleep
  <2>1. itemsSem' \in Nat
    BY <1>4 DEF TypeOK, Sleep, SemReady
  <2> QED
    BY <1>0, <1>4, <2>1, SMTT(30) DEF TypeOK, Sleep
<1>5. CASE LoadAvailable
  BY <1>0, <1>5 DEF TypeOK, LoadAvailable
<1>6. CASE CopySlot
  <2>1. tail + Len(batch) \in Nat
    BY DEF TypeOK
  <2>2. slotRec[Idx(tail + Len(batch))] \in Content
    BY <2>1, IdxType DEF TypeOK, Content
  <2>3. batch' \in Seq(Content)
    BY <1>6, <2>2 DEF TypeOK, CopySlot, Content
  <2> QED
    BY <1>0, <1>6, <2>3, SMTT(30) DEF TypeOK, CopySlot, Content
<1>7. CASE AdvanceTail
  <2>1. tail' \in Nat
    BY <1>7 DEF TypeOK, AdvanceTail
  <2> QED
    BY <1>0, <1>7, <2>1, SMTT(30) DEF TypeOK, AdvanceTail
<1>8. CASE FreeSlots
  <2>1. slotsSem' \in Nat
    BY <1>8 DEF TypeOK, FreeSlots, SlotPosts
  <2> QED
    BY <1>0, <1>8, <2>1 DEF TypeOK, FreeSlots
<1>9. CASE BroadcastDrained
  BY <1>0, <1>9 DEF TypeOK, BroadcastDrained, Broadcast
<1>10. CASE ReturnBatch
  BY <1>0, <1>10 DEF TypeOK, ReturnBatch
<1>11. CASE DrainStore
  <2>1. parked' \in {0, 1} /\ storeBuf' \in Seq({0, 1})
    BY <1>11 DEF TypeOK, DrainStore
  <2> QED
    BY <1>11, <2>1, SMTT(30) DEF TypeOK, DrainStore
<1> QED
  BY <1>2, <1>3, <1>4, <1>5, <1>6, <1>7, <1>8, <1>9, <1>10, <1>11
  DEF ConsumerStep, WaitForItems, GetBatchTry

\* Every step of mpsc_queue_close and mpsc_queue_wait_empty keeps the types.
LEMMA TypeOthers ==
  ASSUME TypeInv, Close \/ \E f \in Flushers : FlusherStep(f)
  PROVE  TypeInv'
<1> USE DEF TypeInv, InCall, closerFrame, flusherFrame, slotVars, prodVars, consVars, flushVars,
            claimVars, semVars, drainVars
<1>1. CASE CloseStore
  BY <1>1 DEF TypeOK, CloseStore
<1>2. CASE CloseWake
  <2>1. itemsSem' \in Nat /\ slotsSem' \in Nat
    BY <1>2, QueueAssumption DEF TypeOK, CloseWake, ItemPosts
  <2> QED
    BY <1>2, <2>1, SMTT(30) DEF TypeOK, CloseWake
<1>3. CASE CloseBroadcast
  BY <1>3, SMTT(30) DEF TypeOK, CloseBroadcast, Broadcast
<1>4. ASSUME NEW f \in Flushers, FlusherStep(f) PROVE TypeInv'
  <2>1. CASE FlushLock(f)
    BY <1>4, <2>1 DEF TypeOK, FlushLock
  <2>2. CASE FlushLoadHead(f)
    BY <1>4, <2>2, SMTT(30) DEF TypeOK, FlushLoadHead
  <2>3. CASE FlushLoadTail(f)
    BY <1>4, <2>3, Zenon DEF TypeOK, FlushLoadTail
  <2> QED
    BY <1>4, <2>1, <2>2, <2>3, SMTT(30) DEF FlusherStep
<1> QED
  BY <1>1, <1>2, <1>3, <1>4 DEF Close

\* Every step keeps the types.
LEMMA TypeNext == TypeInv /\ [Next]_vars => TypeInv'
<1> SUFFICES ASSUME TypeInv, [Next]_vars PROVE TypeInv'
  OBVIOUS
<1>1. CASE UNCHANGED vars
  BY <1>1 DEF TypeInv, TypeOK, InCall, vars, semVars, slotVars, drainVars, prodVars, consVars,
              flushVars, claimVars
<1> QED
  BY <1>1, TypeProducer, TypeConsumer, TypeOthers DEF Next

\* Type correctness: the counters of the ring, its semaphores and slots never
\* leave their types; in particular no semaphore is ever waited below 0.
THEOREM TypeCorrect == Spec => []TypeOK
<1>1. Spec => []TypeInv
  BY TypeInit, TypeNext, PTL DEF Spec
<1> QED
  BY <1>1, PTL DEF TypeInv

=============================================================================
