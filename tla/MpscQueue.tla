------------------------------ MODULE MpscQueue ------------------------------
(***************************************************************************)
(* The lock-free multi-producer, single-consumer ring of core/queue.c.     *)
(*                                                                         *)
(* Every step is one access to shared memory: a load, a store, a           *)
(* fetch_add, a compare-and-swap or a semaphore operation, together with   *)
(* the local computation that follows it.  Producers run                   *)
(* mpsc_queue_try_put or mpsc_queue_put, the consumer runs                 *)
(* mpsc_queue_get_batch in a loop, flushers run mpsc_queue_wait_empty and  *)
(* one closer runs mpsc_queue_close.                                       *)
(*                                                                         *)
(* The atomics of include/clog_port.h are acquire loads and release        *)
(* stores, so on x86 a store of the consumer may still sit in its store    *)
(* buffer when it performs a later load.  The only store of this file that *)
(* is followed by a load of another location without an intervening        *)
(* read-modify-write or system call is the one to consumer_parked, and     *)
(* storeBuf holds the values of it that have not reached memory.  A        *)
(* StoreBufferDepth of 0 is a sequentially consistent machine.             *)
(*                                                                         *)
(* Positions are the absolute, never wrapping values of head and tail      *)
(* (64-bit counters in the code), a slot index is a position modulo        *)
(* Capacity (pos & mask, Capacity being a power of two in the code).       *)
(***************************************************************************)
EXTENDS Integers, Sequences, FiniteSets

CONSTANTS
  Producers,         \* threads that enqueue
  Blocking,          \* those of them that call mpsc_queue_put
  Flushers,          \* threads that call mpsc_queue_wait_empty
  Capacity,          \* number of slots
  MaxBatch,          \* max_records of mpsc_queue_get_batch
  MaxCalls,          \* bound: enqueue calls per producer
  StoreBufferDepth,  \* bound: pending stores to consumer_parked
  WeakCas,           \* the weak compare-and-swap may fail spuriously (LL/SC)
  ConsumerMayStall,  \* a producer may poll 1000000 times without tail moving
  Tomb, NoRec        \* a tombstone, and the content of a fresh slot

ASSUME QueueAssumption ==
  /\ Blocking \subseteq Producers
  /\ Capacity \in Nat \ {0}
  /\ MaxBatch \in Nat \ {0}
  /\ MaxCalls \in Nat
  /\ StoreBufferDepth \in Nat
  /\ WeakCas \in BOOLEAN
  /\ ConsumerMayStall \in BOOLEAN
  /\ \A p \in Producers, k \in 0..MaxCalls : Tomb # <<p, k>> /\ NoRec # <<p, k>>

VARIABLES
  head, tail, closed, parked,  \* the atomics of mpsc_queue_t
  storeBuf,                    \* consumer stores to parked not yet in memory
  itemsSem, slotsSem,          \* the two semaphores
  slotRec, slotSeq,            \* buffer[i].rec and buffer[i].seq
  drainLock, drainWait,        \* drain_mutex holder, waiters of drain_cond
  ppc, calls, pos, snap,       \* producers: control, calls made, pos, tail_snap
  cpc, avail, batch,           \* consumer: control, available, records[0..n-1]
  kpc,                         \* closer
  fpc, fhead,                  \* flushers: control, head
  claims,                      \* history: the record behind every claim
  voided, holes,               \* history: claims tombstoned, claims abandoned
  accepted, rejected,          \* history: records put with result 0 and -1
  taken                        \* history: what get_batch handed to its caller

prodVars  == <<ppc, calls, pos, snap>>
consVars  == <<cpc, avail, batch>>
drainVars == <<drainLock, drainWait>>
flushVars == <<fpc, fhead>>
claimVars == <<claims, voided, holes>>
slotVars  == <<slotRec, slotSeq>>
semVars   == <<itemsSem, slotsSem>>

vars == <<head, tail, closed, parked, storeBuf, semVars, slotVars, drainVars, prodVars,
          consVars, kpc, flushVars, claimVars, accepted, rejected, taken>>

\* What no producer, consumer, closer or flusher step changes.
producerFrame == <<tail, closed, storeBuf, drainVars, consVars, kpc, flushVars, taken>>
consumerFrame == <<head, closed, slotVars, prodVars, kpc, flushVars, claimVars,
                   accepted, rejected>>
closerFrame   == <<head, tail, parked, storeBuf, slotVars, prodVars, consVars, flushVars,
                   claimVars, accepted, rejected, taken>>
flusherFrame  == <<head, tail, closed, parked, storeBuf, semVars, slotVars, prodVars, consVars,
                   kpc, claimVars, accepted, rejected, taken>>

Index == 0..(Capacity - 1)
Idx(x) == x % Capacity

Records == Producers \X (0..MaxCalls)

\* The record a producer is enqueueing.
Rec(p) == <<p, calls[p]>>

Nobody == "nobody"

\* clog_sem_wait returns once the semaphore is positive.
SemReady(sem) == sem > 0

\* mpsc_queue_create: slot i waits for seq = i + 1, slots_sem counts Capacity.
Init ==
  /\ head = 0 /\ tail = 0 /\ closed = 0
  /\ parked = 0 /\ storeBuf = <<>>
  /\ itemsSem = 0 /\ slotsSem = Capacity
  /\ slotRec = [i \in Index |-> NoRec]
  /\ slotSeq = [i \in Index |-> i]
  /\ drainLock = Nobody /\ drainWait = {}
  /\ ppc = [p \in Producers |-> "idle"]
  /\ calls = [p \in Producers |-> 0]
  /\ pos = [p \in Producers |-> 0]
  /\ snap = [p \in Producers |-> 0]
  /\ cpc = "check" /\ avail = 0 /\ batch = <<>>
  /\ kpc = "open"
  /\ fpc = [f \in Flushers |-> "idle"]
  /\ fhead = [f \in Flushers |-> 0]
  /\ claims = <<>> /\ voided = {} /\ holes = {}
  /\ accepted = {} /\ rejected = {} /\ taken = <<>>

-----------------------------------------------------------------------------
(***************************************************************************)
(* Producers: mpsc_queue_try_put and mpsc_queue_put                        *)
(***************************************************************************)

\* The call of a producer returns: 0 or -1 to its caller.
Return(p) ==
  /\ ppc' = [ppc EXCEPT ![p] = "idle"]
  /\ calls' = [calls EXCEPT ![p] = @ + 1]

Accept(p) ==
  /\ Return(p)
  /\ accepted' = accepted \cup {Rec(p)}
  /\ UNCHANGED rejected

Reject(p) ==
  /\ Return(p)
  /\ rejected' = rejected \cup {Rec(p)}
  /\ UNCHANGED accepted

Goto(p, label) ==
  /\ ppc' = [ppc EXCEPT ![p] = label]
  /\ UNCHANGED <<calls, accepted, rejected>>

\* try_put returns -1: to the caller, or to mpsc_queue_put.
FailPut(p) == IF p \in Blocking THEN Goto(p, "failed") ELSE Reject(p)

\* The first load of try_put: a closed queue takes nothing.
TryPut(p) ==
  /\ (ppc[p] = "idle" /\ calls[p] < MaxCalls) \/ ppc[p] = "retry"
  /\ IF closed = 1 THEN FailPut(p) ELSE Goto(p, "snap")
  /\ UNCHANGED <<producerFrame, head, parked, semVars, slotVars, pos, snap, claimVars>>

\* The optimistic pre-check loads tail first ...
SnapTail(p) ==
  /\ ppc[p] = "snap"
  /\ snap' = [snap EXCEPT ![p] = tail]
  /\ Goto(p, "full")
  /\ UNCHANGED <<producerFrame, head, parked, semVars, slotVars, pos, claimVars>>

\* ... then head, and gives up when the difference is the capacity.
SeesFull(p) == head - snap[p] >= Capacity

CheckFull(p) ==
  /\ ppc[p] = "full"
  /\ IF SeesFull(p) THEN FailPut(p) ELSE Goto(p, "claim")
  /\ UNCHANGED <<producerFrame, head, parked, semVars, slotVars, pos, snap, claimVars>>

\* pos = fetch_add(head, 1): the claim is never rolled back.
Claim(p) ==
  /\ ppc[p] = "claim"
  /\ pos' = [pos EXCEPT ![p] = head]
  /\ head' = head + 1
  /\ claims' = Append(claims, Rec(p))
  /\ Goto(p, "recheck")
  /\ UNCHANGED <<producerFrame, parked, semVars, slotVars, snap, voided, holes>>

\* Post-claim re-check: the loser of a full-queue race must not write yet.
Lapped(p) == pos[p] - tail >= Capacity

Recheck(p) ==
  /\ ppc[p] = "recheck"
  /\ Goto(p, IF Lapped(p) THEN "stall" ELSE "write")
  /\ UNCHANGED <<producerFrame, head, parked, semVars, slotVars, pos, snap, claimVars>>

\* Mutant: off by one.
OldReadEarly(p) == tail >= pos[p] - Capacity

\* The polling loop ends once the unread record of the previous lap is gone.
OldRead(p) == tail > pos[p] - Capacity

StallOver(p) ==
  /\ ppc[p] = "stall"
  /\ OldRead(p)
  /\ Goto(p, "tomb")
  /\ UNCHANGED <<producerFrame, head, parked, semVars, slotVars, pos, snap, claimVars>>

\* 1000000 polls without progress of a stalled or finished consumer: return -1
\* and leave the claim unpublished.
Abandon(p) ==
  /\ ConsumerMayStall \/ cpc = "exit"
  /\ ppc[p] = "stall"
  /\ tail <= pos[p] - Capacity
  /\ holes' = holes \cup {pos[p]}
  /\ FailPut(p)
  /\ UNCHANGED <<producerFrame, head, parked, semVars, slotVars, pos, snap, claims, voided>>

\* slot->rec = *record, its inline pointers rebased into the slot.
WriteRecord(p) ==
  /\ ppc[p] = "write"
  /\ slotRec' = [slotRec EXCEPT ![Idx(pos[p])] = Rec(p)]
  /\ Goto(p, "publish")
  /\ UNCHANGED <<producerFrame, head, parked, semVars, slotSeq, pos, snap, claimVars>>

\* Mutant: the tombstone flag is forgotten.
NoTombstone(p) == Rec(p)

\* slot->rec = tomb.
Tombstone(p) == Tomb

WriteTomb(p) ==
  /\ ppc[p] = "tomb"
  /\ slotRec' = [slotRec EXCEPT ![Idx(pos[p])] = Tombstone(p)]
  /\ voided' = voided \cup {pos[p]}
  /\ Goto(p, "publish")
  /\ UNCHANGED <<producerFrame, head, parked, semVars, slotSeq, pos, snap, claims, holes>>

\* slot->seq = pos + 1, a release store.
Publish(p) ==
  /\ ppc[p] = "publish"
  /\ slotSeq' = [slotSeq EXCEPT ![Idx(pos[p])] = pos[p] + 1]
  /\ Goto(p, "signal")
  /\ UNCHANGED <<producerFrame, head, parked, semVars, slotRec, pos, snap, claimVars>>

\* Mutant: the tombstone path returns 0.
FinishPutOk(p) == Accept(p)

\* try_put returns: 0 for a record, -1 for a tombstone.
FinishPut(p) == IF pos[p] \in voided THEN FailPut(p) ELSE Accept(p)

\* queue_signal_consumer: a successful CAS 1 -> 0 on parked owns the post.
SignalConsumer(p) ==
  /\ ppc[p] = "signal"
  /\ \/ parked = 1 /\ parked' = 0 /\ Goto(p, "post")
     \/ (parked = 0 \/ WeakCas) /\ UNCHANGED parked /\ FinishPut(p)
  /\ UNCHANGED <<producerFrame, head, semVars, slotVars, pos, snap, claimVars>>

PostItems(p) ==
  /\ ppc[p] = "post"
  /\ itemsSem' = itemsSem + 1
  /\ FinishPut(p)
  /\ UNCHANGED <<producerFrame, head, parked, slotsSem, slotVars, pos, snap, claimVars>>

\* mpsc_queue_put after a failed try_put: -1 when closed, else wait for a slot.
PutFailed(p) ==
  /\ ppc[p] = "failed"
  /\ IF closed = 1 THEN Reject(p) ELSE Goto(p, "wait")
  /\ UNCHANGED <<producerFrame, head, parked, semVars, slotVars, pos, snap, claimVars>>

WaitSlot(p) ==
  /\ ppc[p] = "wait"
  /\ SemReady(slotsSem)
  /\ slotsSem' = slotsSem - 1
  /\ Goto(p, "retry")
  /\ UNCHANGED <<producerFrame, head, parked, itemsSem, slotVars, pos, snap, claimVars>>

-----------------------------------------------------------------------------
(***************************************************************************)
(* The consumer: mpsc_queue_wait_for_items, mpsc_queue_get_batch_try       *)
(***************************************************************************)

\* A step that only loads shared state and branches on it.
Branch(from, test, yes, no) ==
  /\ cpc = from
  /\ cpc' = IF test THEN yes ELSE no
  /\ UNCHANGED <<consumerFrame, tail, parked, storeBuf, semVars, drainVars, avail, batch, taken>>

\* A release store to consumer_parked, immediate or through the store buffer.
StoreParked(v) ==
  \/ StoreBufferDepth = 0 /\ parked' = v /\ UNCHANGED storeBuf
  \/ /\ Len(storeBuf) < StoreBufferDepth
     /\ storeBuf' = Append(storeBuf, v)
     /\ UNCHANGED parked

\* The machine writes the oldest pending store to memory.
DrainStore ==
  /\ storeBuf # <<>>
  /\ parked' = Head(storeBuf)
  /\ storeBuf' = Tail(storeBuf)
  /\ UNCHANGED <<consumerFrame, tail, semVars, drainVars, consVars, taken>>

\* Mutant: no second look after parking.
NoRecheckItems == Branch("recheck", FALSE, "unpark_try", "reclosed")

\* wait_for_items: return 0 when something is claimed, -1 when empty and closed,
\* else set consumer_parked and look at both again before sleeping.
CheckItems    == Branch("check", head - tail > 0, "try", "closed")
CheckClosed   == Branch("closed", closed = 1, "exit", "park")
RecheckItems  == Branch("recheck", head - tail > 0, "unpark_try", "reclosed")
RecheckClosed == Branch("reclosed", closed = 1, "unpark_exit", "sleep")

Park ==
  /\ cpc = "park"
  /\ StoreParked(1)
  /\ cpc' = "recheck"
  /\ UNCHANGED <<consumerFrame, tail, semVars, drainVars, avail, batch, taken>>

\* sem_wait(items_sem), a locked instruction or system call: no store is pending.
Sleep ==
  /\ cpc = "sleep"
  /\ storeBuf = <<>>
  /\ SemReady(itemsSem)
  /\ itemsSem' = itemsSem - 1
  /\ cpc' = "unpark_check"
  /\ UNCHANGED <<consumerFrame, tail, parked, storeBuf, slotsSem, drainVars, avail, batch, taken>>

\* consumer_parked = 0, then loop, return 0 or return -1.
Unpark ==
  /\ \/ cpc = "unpark_check" /\ cpc' = "check"
     \/ cpc = "unpark_try" /\ cpc' = "try"
     \/ cpc = "unpark_exit" /\ cpc' = "exit"
  /\ StoreParked(0)
  /\ UNCHANGED <<consumerFrame, tail, semVars, drainVars, avail, batch, taken>>

\* get_batch_try: load head and tail.
LoadAvailable ==
  /\ cpc = "try"
  /\ avail' = head - tail
  /\ cpc' = IF head - tail = 0 THEN "ret" ELSE "scan"
  /\ UNCHANGED <<consumerFrame, tail, parked, storeBuf, semVars, drainVars, batch, taken>>

\* Mutant: trust head, a claimed slot counts as published.
TrustHead(x) == TRUE

\* The loop test and the load of slot->seq: stop at the first unpublished slot.
IsPublished(x) == slotSeq[Idx(x)] = x + 1

ScanSlot ==
  Branch("scan",
         Len(batch) < avail /\ Len(batch) < MaxBatch /\ IsPublished(tail + Len(batch)),
         "copy", "advance")

CopySlot ==
  /\ cpc = "copy"
  /\ batch' = Append(batch, slotRec[Idx(tail + Len(batch))])
  /\ cpc' = "scan"
  /\ UNCHANGED <<consumerFrame, tail, parked, storeBuf, semVars, drainVars, avail, taken>>

\* n == 0 returns; otherwise tail moves past what was copied.
AdvanceTail ==
  /\ cpc = "advance"
  /\ storeBuf = <<>>
  /\ tail' = tail + Len(batch)
  /\ cpc' = IF batch = <<>> THEN "ret" ELSE "free"
  /\ UNCHANGED <<consumerFrame, parked, storeBuf, semVars, drainVars, avail, batch, taken>>

\* Mutant: blocked producers are not told.
NoSlotPosts == 0

\* One sem_post(slots_sem) per record.
SlotPosts == Len(batch)

FreeSlots ==
  /\ cpc = "free"
  /\ slotsSem' = slotsSem + SlotPosts
  /\ cpc' = "rem"
  /\ UNCHANGED <<consumerFrame, tail, parked, storeBuf, itemsSem, drainVars, avail, batch, taken>>

\* Mutant: wait_empty is only served after close.
CheckDrainedClosed == Branch("rem", closed = 1 /\ head - tail = 0, "bcast", "ret")

CheckDrained == Branch("rem", head - tail = 0, "bcast", "ret")

\* Lock drain_mutex, broadcast drain_cond, unlock.
Broadcast ==
  /\ drainLock = Nobody
  /\ drainWait' = {}
  /\ UNCHANGED drainLock

BroadcastDrained ==
  /\ cpc = "bcast"
  /\ Broadcast
  /\ cpc' = "ret"
  /\ UNCHANGED <<consumerFrame, tail, parked, storeBuf, semVars, avail, batch, taken>>

\* get_batch returns n > 0 records, or waits again when n = 0.
ReturnBatch ==
  /\ cpc = "ret"
  /\ taken' = taken \o batch
  /\ batch' = <<>>
  /\ avail' = 0
  /\ cpc' = "check"
  /\ UNCHANGED <<consumerFrame, tail, parked, storeBuf, semVars, drainVars>>

-----------------------------------------------------------------------------
(***************************************************************************)
(* mpsc_queue_close and mpsc_queue_wait_empty                              *)
(***************************************************************************)

CloseStore ==
  /\ kpc = "open"
  /\ closed' = 1
  /\ kpc' = "wake"
  /\ UNCHANGED <<closerFrame, semVars, drainVars>>

\* Mutant: close forgets the sleeping consumer.
NoItemPost == 0

\* One post for the consumer, Capacity posts for blocked producers.
ItemPosts == 1

CloseWake ==
  /\ kpc = "wake"
  /\ itemsSem' = itemsSem + ItemPosts
  /\ slotsSem' = slotsSem + Capacity
  /\ kpc' = "bcast"
  /\ UNCHANGED <<closerFrame, closed, drainVars>>

CloseBroadcast ==
  /\ kpc = "bcast"
  /\ Broadcast
  /\ kpc' = "closed"
  /\ UNCHANGED <<closerFrame, closed, semVars>>

\* Lock drain_mutex, on entry and when cond_wait returns.
FlushLock(f) ==
  /\ \/ fpc[f] = "idle"
     \/ fpc[f] = "wait" /\ f \notin drainWait
  /\ drainLock = Nobody
  /\ drainLock' = f
  /\ fpc' = [fpc EXCEPT ![f] = "head"]
  /\ UNCHANGED <<flusherFrame, drainWait, fhead>>

FlushLoadHead(f) ==
  /\ fpc[f] = "head"
  /\ fhead' = [fhead EXCEPT ![f] = head]
  /\ fpc' = [fpc EXCEPT ![f] = "tail"]
  /\ UNCHANGED <<flusherFrame, drainVars>>

\* head == tail returns; otherwise cond_wait releases the mutex and waits.
\* tail may have passed the loaded head: the unsigned difference is not 0.
FlushLoadTail(f) ==
  /\ fpc[f] = "tail"
  /\ drainLock' = Nobody
  /\ \/ /\ fhead[f] = tail
        /\ fpc' = [fpc EXCEPT ![f] = "done"]
        /\ UNCHANGED drainWait
     \/ /\ fhead[f] # tail
        /\ fpc' = [fpc EXCEPT ![f] = "wait"]
        /\ drainWait' = drainWait \cup {f}
  /\ UNCHANGED <<flusherFrame, fhead>>

-----------------------------------------------------------------------------

ProducerStep(p) ==
  \/ SnapTail(p) \/ CheckFull(p) \/ Claim(p) \/ Recheck(p) \/ StallOver(p) \/ Abandon(p)
  \/ WriteRecord(p) \/ WriteTomb(p) \/ Publish(p) \/ SignalConsumer(p) \/ PostItems(p)
  \/ PutFailed(p) \/ WaitSlot(p)

WaitForItems ==
  CheckItems \/ CheckClosed \/ Park \/ RecheckItems \/ RecheckClosed \/ Sleep \/ Unpark

GetBatchTry ==
  \/ LoadAvailable \/ ScanSlot \/ CopySlot \/ AdvanceTail \/ FreeSlots
  \/ CheckDrained \/ BroadcastDrained

ConsumerStep == WaitForItems \/ GetBatchTry \/ ReturnBatch

Close == CloseStore \/ CloseWake \/ CloseBroadcast

FlusherStep(f) == FlushLock(f) \/ FlushLoadHead(f) \/ FlushLoadTail(f)

Next ==
  \/ \E p \in Producers : TryPut(p) \/ ProducerStep(p)
  \/ ConsumerStep
  \/ DrainStore
  \/ Close
  \/ \E f \in Flushers : FlusherStep(f)

Spec == Init /\ [][Next]_vars

(***************************************************************************)
(* A thread inside a call keeps running; nobody is obliged to start one.   *)
(***************************************************************************)
Fairness ==
  /\ \A p \in Producers : WF_vars(ProducerStep(p) \/ (ppc[p] = "retry" /\ TryPut(p)))
  /\ WF_vars(ConsumerStep)
  /\ WF_vars(DrainStore)
  /\ WF_vars(CloseWake \/ CloseBroadcast)
  /\ \A f \in Flushers : WF_vars(fpc[f] # "idle" /\ FlusherStep(f))

FairSpec == Spec /\ Fairness

-----------------------------------------------------------------------------
(***************************************************************************)
(* Properties                                                              *)
(***************************************************************************)

\* A producer that owns a position whose slot it has not published yet.
Unpublished == {"recheck", "stall", "write", "tomb", "publish"}
Claimed(p) == ppc[p] \in Unpublished

\* What the consumer must find at a position.
Value(x) == IF x \in voided THEN Tomb ELSE claims[x + 1]

ProducerPC == Unpublished \cup {"idle", "snap", "full", "claim", "signal", "post",
                                "failed", "wait", "retry"}
ConsumerPC == {"check", "closed", "park", "recheck", "reclosed", "sleep", "unpark_check",
               "unpark_try", "unpark_exit", "try", "scan", "copy", "advance", "free",
               "rem", "bcast", "ret", "exit"}

\* Every variable stays in its type; tail and head are positions, seq a counter.
TypeOK ==
  /\ head \in Nat /\ tail \in Nat /\ closed \in {0, 1}
  /\ parked \in {0, 1} /\ storeBuf \in Seq({0, 1})
  /\ itemsSem \in Nat /\ slotsSem \in Nat
  /\ slotRec \in [Index -> Records \cup {Tomb, NoRec}]
  /\ slotSeq \in [Index -> Nat]
  /\ drainLock \in Flushers \cup {Nobody}
  /\ drainWait \subseteq Flushers
  /\ ppc \in [Producers -> ProducerPC]
  /\ calls \in [Producers -> 0..MaxCalls]
  /\ pos \in [Producers -> Nat]
  /\ snap \in [Producers -> Nat]
  /\ cpc \in ConsumerPC
  /\ avail \in Int
  /\ batch \in Seq(Records \cup {Tomb, NoRec})
  /\ kpc \in {"open", "wake", "bcast", "closed"}
  /\ fpc \in [Flushers -> {"idle", "head", "tail", "wait", "done"}]
  /\ fhead \in [Flushers -> Nat]
  /\ claims \in Seq(Records)
  /\ voided \subseteq Nat /\ holes \subseteq Nat
  /\ accepted \subseteq Records /\ rejected \subseteq Records
  /\ taken \in Seq(Records \cup {Tomb, NoRec})

\* The consumer receives, position by position, exactly the record of the
\* producer that claimed the position, or the tombstone that producer wrote:
\* no slot is overwritten before it is read and none is read half written.
TakenInOrder ==
  /\ Len(taken) <= tail
  /\ \A i \in 1..Len(taken) : taken[i] = Value(i - 1)

\* No producer writes a slot while another producer or the consumer uses it.
NoSlotRace ==
  \A p \in Producers : ppc[p] \in {"write", "tomb", "publish"} =>
    /\ \A q \in Producers \ {p} :
         ppc[q] \in {"write", "tomb", "publish"} => Idx(pos[q]) # Idx(pos[p])
    /\ cpc = "copy" => Idx(tail + Len(batch)) # Idx(pos[p])

\* The result of a put tells its caller who has the record.  One whose put
\* returned 0 is published in the ring or was dequeued; one whose put returned
\* -1, which the caller writes itself, never comes out of the queue.
ResultTells ==
  /\ \A r \in accepted : \E x \in 0..(head - 1) :
       /\ claims[x + 1] = r /\ x \notin voided /\ x \notin holes
       /\ x < tail \/ (slotSeq[Idx(x)] = x + 1 /\ slotRec[Idx(x)] = r)
  /\ \A i \in 1..Len(taken) : taken[i] \notin rejected

\* Whatever was claimed is dequeued (producers make MaxCalls calls, so the
\* ring empties again and again): no wake-up of a parked consumer is lost.
AlwaysDrains == []<>(head = tail \/ cpc = "exit")

\* The consumer has come to a position that its producer abandoned, and stays
\* there: wait_for_items finds the ring not empty, get_batch_try nothing in it.
AtHole == tail \in holes

\* Closing ends the consumer, parked or not: get_batch returns -1, whether or not
\* it has taken all records by then, unless the consumer has come to a position
\* that a put abandoned while the consumer stood still.
CloseEndsConsumer == closed = 1 ~> (cpc = "exit" \/ AtHole)

\* wait_empty returns once the producers pause, as long as the consumer runs.
FlushReturns ==
  \A f \in Flushers : fpc[f] = "head" ~> (fpc[f] = "done" \/ cpc = "exit")

\* While the queue is open an enqueue call returns: a producer blocked in
\* mpsc_queue_put is woken by a freed slot, as long as the consumer can free one.
PutReturns == \A p \in Producers : ppc[p] # "idle" ~> (ppc[p] = "idle" \/ closed = 1 \/ AtHole)

-----------------------------------------------------------------------------
(***************************************************************************)
(* The inductive invariant behind TakenInOrder and NoSlotRace              *)
(***************************************************************************)

\* A producer that may touch its slot: the previous lap has been read.
Writing(p) == ppc[p] \in {"write", "tomb", "publish"}

\* Claimed positions lie between tail and head, no two producers own the same,
\* and one is void only once its owner has written the tombstone.
ClaimInv ==
  /\ tail <= head /\ head = Len(claims)
  /\ voided \subseteq 0..(head - 1)
  /\ \A p \in Producers : Claimed(p) =>
       /\ pos[p] \in tail..(head - 1)
       /\ claims[pos[p] + 1] = Rec(p)
       /\ pos[p] \in voided => ppc[p] = "publish"
       /\ Writing(p) => pos[p] < tail + Capacity
       /\ \A q \in Producers \ {p} : Claimed(q) => pos[q] # pos[p]

\* A sequence number promises the content of its slot, for a position that is
\* neither unclaimed, nor still being written, nor a lap ahead of the consumer.
SlotInv ==
  /\ \A i \in Index : (slotSeq[i] <= head \/ slotSeq[i] = i) /\ slotSeq[i] <= tail + Capacity
  /\ \A x \in tail..(head - 1) : IsPublished(x) => slotRec[Idx(x)] = Value(x)
  /\ \A p \in Producers : Claimed(p) =>
       /\ ~IsPublished(pos[p])
       /\ ppc[p] = "publish" => slotRec[Idx(pos[p])] = Value(pos[p])

\* The batch being copied starts at tail; once tail has moved it ends there.
BatchInv ==
  /\ \A i \in 1..Len(taken) : taken[i] = Value(i - 1)
  /\ \A i \in 1..Len(batch) : batch[i] = Value(Len(taken) + i - 1)
  /\ IF cpc \in {"free", "rem", "bcast", "ret"} THEN Len(taken) + Len(batch) = tail
     ELSE /\ Len(taken) = tail
          /\ cpc \notin {"scan", "copy", "advance"} => batch = <<>>
          /\ cpc \in {"scan", "copy", "advance"} =>
               /\ Len(batch) <= avail /\ tail + avail <= head
               /\ \A i \in 1..Len(batch) : IsPublished(tail + i - 1)
          /\ cpc = "copy" => Len(batch) < avail /\ IsPublished(tail + Len(batch))

\* The ring keeps every claimed position's owner, slot and copy consistent, in
\* every interleaving of try_put with get_batch_try.
RingInv == ClaimInv /\ SlotInv /\ BatchInv

-----------------------------------------------------------------------------
(***************************************************************************)
(* Refinement: a claimed position is a place of LogChannel, settled by the *)
(* store of its sequence number; the store of tail takes what was copied.  *)
(***************************************************************************)
PlaceState(x) ==
  IF x \in holes THEN "lost"
  ELSE IF \E p \in Producers : Claimed(p) /\ pos[p] = x THEN "reserved"
  ELSE IF x \in voided THEN "void" ELSE "full"

Channel == INSTANCE LogChannel WITH
  places <- [i \in 1..head |-> [rec |-> claims[i], state |-> PlaceState(i - 1)]],
  next   <- tail,
  out    <- IF cpc \in {"free", "rem", "bcast", "ret"} THEN taken \o batch ELSE taken

\* The ring, its sequence numbers, tombstones and tail implement LogChannel.
ImplementsChannel == Channel!ChannelSpec

=============================================================================
