---------------------------- MODULE RecordMemory ----------------------------
(***************************************************************************)
(* Whose memory the strings of a queued record are in (core/async.c and    *)
(* the copies of core/queue.c).  log_async_write_for makes a copy in its   *)
(* own frame, mpsc_queue_try_put copies that into a slot of the ring, the  *)
(* worker copies the slot into its batch, and each of the three has an     *)
(* inline_buf that may hold the strings; longer strings share one heap     *)
(* block.  A frame is gone when its call returns, a slot is written again  *)
(* once tail has passed it.  The claims and the publication of slots are   *)
(* MpscQueue's; here a put and the copy of one record are single steps.    *)
(***************************************************************************)
EXTENDS Integers, Sequences, SequencesExt, FiniteSets

CONSTANTS
  MemThreads,      \* the threads that log
  Shapes,          \* of message, module, tag, key and value the bytes with the NUL; 0 for NULL
  InlineSize,      \* CLOG_MAX_INLINE_SIZE
  MemSlots,        \* capacity of the ring
  MemBatch,        \* ASYNC_BATCH_SIZE
  MaxMemRecords    \* bound on the records

VARIABLES
  owned,           \* of every thread the copy in log_async_write_for
  slot,            \* of every slot of the ring the record in it
  batch,           \* the worker's batch
  heap,            \* the blocks allocated: what they hold, how often they were freed
  ends,            \* head and tail of the ring, the records copied, the records dispatched of them
  records,         \* how many have been logged
  shown,           \* history: the record dispatched last and the strings it showed
  badFree          \* history: free was called on something that is not a block

memVars == <<owned, slot, batch, heap, ends, records, shown, badFree>>

Fields == 1 .. 5
MessageField == 1
KeyField == 4

Null == [in |-> <<"null", 0>>, off |-> 0]
NoRecord == [ptr |-> [f \in Fields |-> Null], buf |-> <<>>, src |-> [id |-> 0, shape |-> <<0, 0, 0, 0, 0>>]]

MemInit ==
  /\ owned = [t \in MemThreads |-> NoRecord]
  /\ slot = [k \in 0 .. MemSlots - 1 |-> NoRecord]
  /\ batch = [j \in 1 .. MemBatch |-> NoRecord]
  /\ heap = <<>>
  /\ ends = [head |-> 0, tail |-> 0, copied |-> 0, done |-> 0]
  /\ records = 0
  /\ shown = [src |-> NoRecord.src, texts |-> [f \in Fields |-> <<0, 0>>]]
  /\ badFree = FALSE

-----------------------------------------------------------------------------
(***************************************************************************)
(* log_record_clone: the strings one after the other, all of them in       *)
(* inline_buf or all of them in one block.                                 *)
(***************************************************************************)
Sum(s) == FoldLeft(LAMBDA a, b : a + b, 0, s)
Offset(shape, f) == Sum(SubSeq(shape, 1, f - 1))
Present(shape) == {f \in Fields : shape[f] > 0}

\* The bytes: at every offset where a string begins, which string.
Packed(src) ==
  [o \in {Offset(src.shape, f) : f \in Present(src.shape)} |->
     <<src.id, CHOOSE f \in Present(src.shape) : Offset(src.shape, f) = o>>]

Pointing(src, place) ==
  [f \in Fields |-> IF src.shape[f] = 0 THEN Null ELSE [in |-> place, off |-> Offset(src.shape, f)]]

Clone(t) ==
  /\ owned[t] = NoRecord
  /\ records < MaxMemRecords
  /\ records' = records + 1
  /\ \E shape \in Shapes :
       LET src == [id |-> records + 1, shape |-> shape] IN
       \/ /\ Sum(shape) <= InlineSize
          /\ owned' = [owned EXCEPT ![t] =
                         [ptr |-> Pointing(src, <<"frame", t>>), buf |-> Packed(src), src |-> src]]
          /\ UNCHANGED heap
       \/ /\ Sum(shape) > InlineSize
          /\ heap' = Append(heap, [buf |-> Packed(src), freed |-> 0])
          /\ owned' = [owned EXCEPT ![t] =
                         [ptr |-> Pointing(src, <<"heap", Len(heap) + 1>>), buf |-> <<>>, src |-> src]]
       \* malloc fails: the caller's record is dispatched.
       \/ Sum(shape) > InlineSize /\ UNCHANGED <<owned, heap>>
  /\ UNCHANGED <<slot, batch, ends, shown, badFree>>

-----------------------------------------------------------------------------
(***************************************************************************)
(* log_record_is_inline, log_record_rebase_inline, log_record_free_owned   *)
(***************************************************************************)
IsInline(r, place) == r.ptr[MessageField] # Null /\ r.ptr[MessageField].in = place

Rebased(r, place) ==
  [r EXCEPT !.ptr = [f \in Fields |-> IF @[f] = Null THEN Null ELSE [@[f] EXCEPT !.in = place]]]

\* The struct copy, and the rebase when the source was inline.
CopyTo(place, r, from) == IF IsInline(r, from) THEN Rebased(r, place) ELSE r

\* The first pointer of message, module, tag and the first key.
Block(r) ==
  LET fs == {f \in MessageField .. KeyField : r.ptr[f] # Null}
  IN  IF fs = {} THEN Null ELSE r.ptr[CHOOSE f \in fs : \A g \in fs : f <= g]

FreeOwned(r, place) ==
  LET b == Block(r) IN
  IF IsInline(r, place) \/ b = Null THEN UNCHANGED <<heap, badFree>>
  ELSE IF b.in[1] = "heap" /\ b.off = 0
       THEN heap' = [heap EXCEPT ![b.in[2]].freed = @ + 1] /\ UNCHANGED badFree
       ELSE badFree' = TRUE /\ UNCHANGED heap

-----------------------------------------------------------------------------
(***************************************************************************)
(* mpsc_queue_try_put and the end of log_async_write_for.                  *)
(***************************************************************************)
Room == ends.head - ends.tail < MemSlots
HeadSlot == ends.head % MemSlots
Return(t) == owned' = [owned EXCEPT ![t] = NoRecord]

\* Mutant: the slot keeps the pointers into the frame.
PlainCopy(t) == owned[t]

SlotCopy(t) == CopyTo(<<"slot", HeadSlot>>, owned[t], <<"frame", t>>)

PutAccepted(t) ==
  /\ owned[t] # NoRecord
  /\ Room
  /\ slot' = [slot EXCEPT ![HeadSlot] = SlotCopy(t)]
  /\ ends' = [ends EXCEPT !.head = @ + 1]
  /\ Return(t)
  /\ UNCHANGED <<batch, heap, records, shown, badFree>>

\* Mutant: a refused record keeps its block.
KeepRefused(t) == UNCHANGED <<heap, badFree>>

FreeRefused(t) == FreeOwned(owned[t], <<"frame", t>>)

\* The ring is full, or the thread has lost the race for the last slot and
\* leaves a tombstone; either way it dispatches the caller's record.
PutRefused(t) ==
  /\ owned[t] # NoRecord
  /\ \/ ~Room /\ UNCHANGED <<slot, ends>>
     \/ /\ Room
        /\ slot' = [slot EXCEPT ![HeadSlot] = NoRecord]
        /\ ends' = [ends EXCEPT !.head = @ + 1]
  /\ FreeRefused(t)
  /\ Return(t)
  /\ UNCHANGED <<batch, records, shown>>

-----------------------------------------------------------------------------
(***************************************************************************)
(* mpsc_queue_get_batch_try and the loop of async_worker_for.              *)
(***************************************************************************)
BatchCopy(j, k) == CopyTo(<<"batch", j>>, slot[k], <<"slot", k>>)

CopyRecord ==
  /\ ends.done = 0
  /\ ends.copied < MemBatch
  /\ ends.tail + ends.copied < ends.head
  /\ batch' = [batch EXCEPT ![ends.copied + 1] =
                 BatchCopy(ends.copied + 1, (ends.tail + ends.copied) % MemSlots)]
  /\ ends' = [ends EXCEPT !.copied = @ + 1]
  /\ UNCHANGED <<owned, slot, heap, records, shown, badFree>>

AdvanceTail ==
  /\ ends.done = 0
  /\ ends.copied > 0
  /\ ends' = [ends EXCEPT !.tail = @ + ends.copied, !.done = 1]
  /\ UNCHANGED <<owned, slot, batch, heap, records, shown, badFree>>

Bytes(place) ==
  CASE place[1] = "frame" -> owned[place[2]].buf
    [] place[1] = "slot" -> slot[place[2]].buf
    [] place[1] = "batch" -> batch[place[2]].buf
    [] place[1] = "heap" -> IF heap[place[2]].freed > 0 THEN <<>> ELSE heap[place[2]].buf
    [] OTHER -> <<>>

\* What is read through a pointer: a string of a record, or nothing known.
Deref(p) == IF p.off \in DOMAIN Bytes(p.in) THEN Bytes(p.in)[p.off] ELSE <<0, 0>>

DispatchRecord ==
  /\ ends.done > 0
  /\ LET r == batch[ends.done] IN
     IF r = NoRecord THEN UNCHANGED <<shown, heap, badFree>>
     ELSE /\ shown' = [src |-> r.src, texts |-> [f \in Fields |-> Deref(r.ptr[f])]]
          /\ FreeOwned(r, <<"batch", ends.done>>)
  /\ ends' = IF ends.done < ends.copied THEN [ends EXCEPT !.done = @ + 1]
             ELSE [ends EXCEPT !.done = 0, !.copied = 0]
  /\ UNCHANGED <<owned, slot, batch, records>>

MemNext ==
  \/ \E t \in MemThreads : Clone(t) \/ PutAccepted(t) \/ PutRefused(t)
  \/ CopyRecord \/ AdvanceTail \/ DispatchRecord

MemSpec == MemInit /\ [][MemNext]_memVars

-----------------------------------------------------------------------------
(***************************************************************************)
(* What the worker dispatches shows every string as it was when the record *)
(* was logged, although the frame it was copied in is gone and the slot it *)
(* passed through may hold a later record by then.                         *)
(***************************************************************************)
ShownAsLogged ==
  \A f \in Fields :
    shown.texts[f] = IF shown.src.shape[f] = 0 THEN <<0, 0>> ELSE <<shown.src.id, f>>

\* The copies that own their strings: in a call, in the ring, or in the batch and not yet freed.
Owners ==
  {owned[t] : t \in MemThreads}
  \cup {slot[pos % MemSlots] : pos \in
          (ends.tail + IF ends.done = 0 THEN ends.copied ELSE 0) .. ends.head - 1}
  \cup {batch[j] : j \in (IF ends.done = 0 THEN 1 ELSE ends.done) .. ends.copied}

(***************************************************************************)
(* Every heap block has one owner until it is freed, and is freed once by  *)
(* it: a record that is refused, dispatched, or replaced by a tombstone    *)
(* leaks no block and frees none twice, and free is never called on an     *)
(* inline_buf.                                                             *)
(***************************************************************************)
OneOwner ==
  /\ ~badFree
  /\ \A b \in DOMAIN heap :
       LET holders == {r \in Owners : r.ptr[MessageField].in = <<"heap", b>>}
       IN  Cardinality(holders) + heap[b].freed = 1
=============================================================================
