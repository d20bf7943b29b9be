---------------------------- MODULE SocketWriter -----------------------------
(***************************************************************************)
(* The asynchronous socket sink: the lossy ring of core/socket_ring.c, the *)
(* writer thread of core/socket_writer.c that drains it over a             *)
(* non-blocking connection (core/socket_transport.c), and                  *)
(* socket_writer_stop.                                                     *)
(*                                                                         *)
(* A step is one access to shared memory or one system call.  A short line *)
(* is stored in the slot itself and handed to the writer by address: what  *)
(* the writer sends is what the slot holds when it sends.  A long line is  *)
(* copied to the heap and handed over with it.                             *)
(***************************************************************************)
EXTENDS Naturals, Sequences

CONSTANTS
  Producers,  \* threads inside socket_ring_put
  Capacity,   \* number of slots
  MaxBatch,   \* BATCH_SIZE
  MaxPuts,    \* bound: calls of socket_ring_put
  Kinds,      \* subset of LineKinds: the lines that are put
  MayFail,    \* subset of Faults: what can fail
  Tomb        \* the content of a slot without a line

LineKinds == {"inline", "heap"}

\* No memory for a copy, no connection, a send that fails.
Faults == {"alloc", "connect", "send"}

ASSUME WriterAssumption ==
  /\ Capacity \in Nat \ {0} /\ MaxBatch \in Nat \ {0} /\ MaxPuts \in Nat
  /\ Kinds \subseteq LineKinds /\ MayFail \subseteq Faults

VARIABLES
  head, tail, closed, sem, dropped,  \* socket_ring_buffer_t
  slots, inlineBuf,                  \* line, heap and seq of a slot, and its storage
  puts,                              \* number of puts, and so of lines
  ppc, line, kind, pos,              \* producers: control, line, its length, head as loaded
  wpc, avail, batch,                 \* writer: control, available, lines not yet sent
  draining, connected,               \* writer: in its final drain, has a connection
  spc,                               \* socket_writer_stop
  owners, settled,                   \* history: the line behind every claim, its fate
  taken,                             \* history: what get_batch handed out
  out, lost                          \* what was sent, positions the writer gave up

ringVars     == <<head, tail, closed, sem, dropped, slots, inlineBuf>>
producerVars == <<puts, ppc, line, kind, pos>>
writerVars   == <<wpc, avail, batch, draining, connected>>
historyVars  == <<owners, settled, taken, out, lost>>
asyncVars == <<ringVars, producerVars, writerVars, spc, historyVars>>

Index == 0..(Capacity - 1)
Idx(x) == x % Capacity
LineIds == 1..MaxPuts

WriterInit ==
  /\ head = 0 /\ tail = 0 /\ closed = FALSE /\ sem = 0 /\ dropped = 0
  /\ slots = [i \in Index |-> [seq |-> i, kind |-> "none", line |-> Tomb]]
  /\ inlineBuf = [i \in Index |-> Tomb]
  /\ puts = 0 /\ ppc = [p \in Producers |-> "idle"] /\ line = [p \in Producers |-> Tomb]
  /\ kind = [p \in Producers |-> "none"] /\ pos = [p \in Producers |-> 0]
  /\ wpc = "enter" /\ avail = 0 /\ batch = <<>> /\ draining = FALSE /\ connected = FALSE
  /\ spc = "idle"
  /\ owners = <<>> /\ settled = <<>> /\ taken = <<>> /\ out = <<>> /\ lost = {}

-----------------------------------------------------------------------------
(***************************************************************************)
(* Producers: socket_ring_put                                              *)
(***************************************************************************)
producerFrame == <<tail, closed, writerVars, spc, taken, out, lost>>

PGoto(p, label) == ppc' = [ppc EXCEPT ![p] = label] /\ UNCHANGED <<puts, line, kind>>

\* The call returns; its local variables are gone.
PReturn(p) ==
  /\ ppc' = [ppc EXCEPT ![p] = "idle"]
  /\ line' = [line EXCEPT ![p] = Tomb] /\ kind' = [kind EXCEPT ![p] = "none"]
  /\ pos' = [pos EXCEPT ![p] = 0]
  /\ UNCHANGED puts

\* A closed ring refuses the line.
Put(p) ==
  /\ ppc[p] = "idle" /\ puts < MaxPuts /\ spc # "done"
  /\ puts' = puts + 1
  /\ \/ closed /\ UNCHANGED <<ppc, line, kind>>
     \/ /\ ~closed
        /\ ppc' = [ppc EXCEPT ![p] = "head"] /\ line' = [line EXCEPT ![p] = puts']
        /\ \E k \in Kinds : kind' = [kind EXCEPT ![p] = k]
  /\ UNCHANGED <<head, sem, dropped, slots, inlineBuf, pos, owners, settled, producerFrame>>

LoadHead(p) ==
  /\ ppc[p] = "head"
  /\ pos' = [pos EXCEPT ![p] = head]
  /\ PGoto(p, "full")
  /\ UNCHANGED <<head, sem, dropped, slots, inlineBuf, owners, settled, producerFrame>>

\* head - tail >= capacity on unsigned numbers: a tail that has passed the
\* head loaded before makes the difference huge.
SeesFull(p) == pos[p] < tail \/ pos[p] - tail >= Capacity

\* A full ring drops the new line, counts it, and returns 0.
CheckFull(p) ==
  /\ ppc[p] = "full"
  /\ IF SeesFull(p) THEN dropped' = dropped + 1 /\ PReturn(p)
                    ELSE UNCHANGED <<dropped, pos>> /\ PGoto(p, "claim")
  /\ UNCHANGED <<head, sem, slots, inlineBuf, owners, settled, producerFrame>>

\* The weak compare-and-swap on head; a failed one, lost or spurious, starts over.
Claim(p) ==
  /\ ppc[p] = "claim"
  /\ \/ /\ head = pos[p]
        /\ head' = head + 1
        /\ owners' = Append(owners, line[p])
        /\ settled' = Append(settled, "reserved")
        /\ PGoto(p, "write")
     \/ UNCHANGED <<head, owners, settled>> /\ PGoto(p, "head")
  /\ UNCHANGED <<sem, dropped, slots, inlineBuf, pos, producerFrame>>

\* Store the line in the slot, or the address of a copy, or nothing when
\* there is no memory for a copy.
WriteSlot(p) ==
  /\ ppc[p] = "write"
  /\ LET i == Idx(pos[p])
     IN  \/ /\ kind[p] = "inline"
            /\ inlineBuf' = [inlineBuf EXCEPT ![i] = line[p]]
            /\ slots' = [slots EXCEPT ![i].kind = "inline"]
         \/ /\ kind[p] = "heap"
            /\ slots' = [slots EXCEPT ![i].kind = "heap", ![i].line = line[p]]
            /\ UNCHANGED inlineBuf
         \/ /\ kind[p] = "heap" /\ "alloc" \in MayFail
            /\ slots' = [slots EXCEPT ![i].kind = "none", ![i].line = Tomb]
            /\ UNCHANGED inlineBuf
  /\ PGoto(p, "publish")
  /\ UNCHANGED <<head, sem, dropped, pos, owners, settled, producerFrame>>

Publish(p) ==
  /\ ppc[p] = "publish"
  /\ slots' = [slots EXCEPT ![Idx(pos[p])].seq = pos[p] + 1]
  /\ settled' = [settled EXCEPT ![pos[p] + 1] =
                   IF slots[Idx(pos[p])].kind = "none" THEN "void" ELSE "full"]
  /\ PGoto(p, "post")
  /\ UNCHANGED <<head, sem, dropped, inlineBuf, pos, owners, producerFrame>>

\* A line that could not be copied is counted as dropped.
Post(p) ==
  /\ ppc[p] = "post"
  /\ sem' = sem + 1
  /\ dropped' = IF settled[pos[p] + 1] = "void" THEN dropped + 1 ELSE dropped
  /\ PReturn(p)
  /\ UNCHANGED <<head, slots, inlineBuf, owners, settled, producerFrame>>

ProducerStep(p) ==
  LoadHead(p) \/ CheckFull(p) \/ Claim(p) \/ WriteSlot(p) \/ Publish(p) \/ Post(p)

-----------------------------------------------------------------------------
(***************************************************************************)
(* The writer thread: socket_ring_get_batch                                *)
(***************************************************************************)
writerFrame == <<head, closed, dropped, inlineBuf, producerVars, spc, owners, settled>>

WGoto(label) == wpc' = label

\* get_batch returned -1: from the loop to the final drain, from that to the end.
Drained == WGoto(IF draining THEN "cleanup" ELSE "final")

CheckClosed ==
  /\ wpc = "enter"
  /\ WGoto(IF closed THEN "empty" ELSE "wait")
  /\ UNCHANGED <<tail, sem, slots, avail, batch, draining, connected, taken, out, lost, writerFrame>>

CheckEmpty ==
  /\ wpc = "empty"
  /\ IF head = tail THEN Drained ELSE WGoto("wait")
  /\ UNCHANGED <<tail, sem, slots, avail, batch, draining, connected, taken, out, lost, writerFrame>>

SemWait ==
  /\ wpc = "wait" /\ sem > 0
  /\ sem' = sem - 1
  /\ WGoto("load")
  /\ UNCHANGED <<tail, slots, avail, batch, draining, connected, taken, out, lost, writerFrame>>

LoadAvailable ==
  /\ wpc = "load"
  /\ avail' = head - tail
  /\ WGoto(IF head = tail THEN "recheck" ELSE "scan")
  /\ UNCHANGED <<tail, sem, slots, batch, draining, connected, taken, out, lost, writerFrame>>

\* Woken for nothing: done if closed, else wait again.
RecheckClosed ==
  /\ wpc = "recheck"
  /\ IF closed THEN Drained ELSE WGoto("enter")
  /\ UNCHANGED <<tail, sem, slots, avail, batch, draining, connected, taken, out, lost, writerFrame>>

\* Mutant: a claimed slot is taken as it is.
TrustHead(x) == TRUE

IsPublished(x) == slots[Idx(x)].seq = x + 1

\* The published lines from tail on, up to the first slot that is not.
Takes ==
  {n \in 0..MaxBatch : n <= avail /\ \A i \in 0..(n - 1) : IsPublished(tail + i)}

\* The lines leave their slots; without one the call starts over.
Scan ==
  /\ wpc = "scan"
  /\ LET n == CHOOSE m \in Takes : \A k \in Takes : k <= m
         entry(i) == [pos |-> tail + i - 1, kind |-> slots[Idx(tail + i - 1)].kind,
                      line |-> slots[Idx(tail + i - 1)].line]
     IN  /\ batch' = [i \in 1..n |-> entry(i)]
         /\ slots' = [i \in Index |->
              IF \E j \in 1..n : i = Idx(tail + j - 1)
              THEN [slots[i] EXCEPT !.kind = "none", !.line = Tomb] ELSE slots[i]]
         /\ WGoto(IF n = 0 THEN "enter" ELSE "advance")
  /\ UNCHANGED <<tail, sem, avail, draining, connected, taken, out, lost, writerFrame>>

\* What the address in a batch refers to.
Refers(b) == IF b.kind = "inline" THEN inlineBuf[Idx(b.pos)] ELSE b.line

\* Mutant: tail moves over all that was available.
AdvanceAvail == tail + avail

Advanced == tail + Len(batch)

\* The call returns; its local variable available is gone.
AdvanceTail ==
  /\ wpc = "advance"
  /\ tail' = Advanced
  /\ taken' = taken \o [i \in 1..Len(batch) |-> Refers(batch[i])]
  /\ WGoto("connect")
  /\ avail' = 0
  /\ UNCHANGED <<sem, slots, batch, draining, connected, out, lost, writerFrame>>

GetBatch ==
  CheckClosed \/ CheckEmpty \/ SemWait \/ LoadAvailable \/ RecheckClosed \/ Scan \/ AdvanceTail

-----------------------------------------------------------------------------
(***************************************************************************)
(* The writer thread: socket_writer_thread                                 *)
(***************************************************************************)

\* The positions of a batch that hold a line.
Unsent(b) == {b[i].pos : i \in {j \in 1..Len(b) : b[j].kind # "none"}}

\* socket_writer_connect keeps a connection it has, else tries to make one.
NoConnection == ~connected /\ "connect" \in MayFail

\* A batch that finds no connection is dropped after a backoff.
WriterConnect ==
  /\ wpc = "connect"
  /\ \/ WGoto("send") /\ connected' = TRUE /\ UNCHANGED <<batch, lost>>
     \/ /\ NoConnection
        /\ lost' = lost \cup Unsent(batch) /\ batch' = <<>>
        /\ WGoto("enter") /\ UNCHANGED connected
  /\ UNCHANGED <<tail, sem, slots, avail, draining, taken, out, writerFrame>>

\* Mutant: a long line is sent from its slot, too.
SentFromSlot ==
  LET b == Head(batch) IN
  Append(out, [pos |-> b.pos, kind |-> b.kind, line |-> slots[Idx(b.pos)].line])

Sent ==
  LET b == Head(batch) IN Append(out, [pos |-> b.pos, kind |-> b.kind, line |-> Refers(b)])

\* A failed send gives up the rest of the batch, except in the final drain.
Rest == IF draining THEN Tail(batch) ELSE <<>>

\* One line of the batch.  An empty slot is skipped; a send that stops in the
\* middle of a line counts as a success, as does a long line for which there is
\* no memory to add its newline; a failed send closes the connection.
SendLine ==
  /\ wpc = "send" /\ batch # <<>>
  /\ \/ /\ Head(batch).kind = "none"
        /\ batch' = Tail(batch) /\ UNCHANGED <<out, lost, connected>>
     \/ /\ Head(batch).kind # "none"
        /\ batch' = Tail(batch) /\ out' = Sent /\ UNCHANGED <<lost, connected>>
     \/ /\ Head(batch).kind = "heap" /\ "alloc" \in MayFail
        /\ batch' = Tail(batch) /\ lost' = lost \cup {Head(batch).pos}
        /\ UNCHANGED <<out, connected>>
     \/ /\ Head(batch).kind # "none" /\ "send" \in MayFail
        /\ batch' = Rest
        /\ lost' = lost \cup (Unsent(batch) \ Unsent(batch'))
        /\ connected' = draining
        /\ UNCHANGED out
  /\ WGoto(IF batch' = <<>> THEN "enter" ELSE "send")
  /\ UNCHANGED <<tail, sem, slots, avail, draining, taken, writerFrame>>

\* The final drain needs a connection, too.
FinalConnect ==
  /\ wpc = "final"
  /\ \/ connected' = TRUE /\ draining' = TRUE /\ WGoto("enter")
     \/ NoConnection /\ WGoto("exit") /\ UNCHANGED <<connected, draining>>
  /\ UNCHANGED <<tail, sem, slots, avail, batch, taken, out, lost, writerFrame>>

Cleanup ==
  /\ wpc = "cleanup"
  /\ connected' = FALSE
  /\ WGoto("exit")
  /\ UNCHANGED <<tail, sem, slots, avail, batch, draining, taken, out, lost, writerFrame>>

WriterStep == GetBatch \/ WriterConnect \/ SendLine \/ FinalConnect \/ Cleanup

-----------------------------------------------------------------------------
(***************************************************************************)
(* socket_writer_stop                                                      *)
(***************************************************************************)
stopFrame == <<head, tail, dropped, inlineBuf, producerVars, writerVars, historyVars>>

\* The dispatcher stops a sink only when no write to it is running.
Stop ==
  /\ spc = "idle" /\ \A p \in Producers : ppc[p] = "idle"
  /\ closed' = TRUE
  /\ spc' = "post"
  /\ UNCHANGED <<sem, slots, stopFrame>>

\* The post of socket_ring_close, then the one of socket_ring_signal.
StopPost ==
  /\ spc \in {"post", "signal"}
  /\ sem' = sem + 1
  /\ spc' = IF spc = "post" THEN "signal" ELSE "join"
  /\ UNCHANGED <<closed, slots, stopFrame>>

\* Join the writer and destroy the ring, with the lines that are left in it.
Join ==
  /\ spc = "join" /\ wpc = "exit"
  /\ sem' = sem + 1
  /\ slots' = [i \in Index |-> [slots[i] EXCEPT !.kind = "none", !.line = Tomb]]
  /\ spc' = "done"
  /\ UNCHANGED <<closed, stopFrame>>

StopStep == StopPost \/ Join

-----------------------------------------------------------------------------

WriterNext ==
  \/ \E p \in Producers : Put(p) \/ ProducerStep(p)
  \/ WriterStep
  \/ Stop \/ StopStep

WriterSpec == WriterInit /\ [][WriterNext]_asyncVars

\* A put, the writer and a stop that has begun keep running.
Fairness ==
  /\ \A p \in Producers : WF_asyncVars(ProducerStep(p))
  /\ WF_asyncVars(WriterStep) /\ WF_asyncVars(StopStep)

WriterFairSpec == WriterSpec /\ Fairness

-----------------------------------------------------------------------------
(***************************************************************************)
(* Properties                                                              *)
(***************************************************************************)

\* Every line a put claimed a place for is in the ring or in the batch of the
\* writer, or sent, or given up by the writer with its connection: exactly one.
HandledOnce ==
  /\ \A i, j \in 1..Len(out) : i < j => out[i].pos < out[j].pos
  /\ {out[i].pos : i \in 1..Len(out)} \cap lost = {}
  /\ \A x \in 0..(tail - 1) :
       settled[x + 1] = "full" <=>
         x \in lost \cup {out[i].pos : i \in 1..Len(out)}
               \cup (IF wpc = "advance" THEN {} ELSE Unsent(batch))

\* What is sent for a long line is the line that was put: get_batch moves its
\* memory out of the slot before the slot is given back.  A short line is sent
\* from the slot, and a producer may have overwritten it by then.
LongSentIsPut ==
  \A i \in 1..Len(out) : out[i].kind = "heap" => out[i].line = owners[out[i].pos + 1]

\* socket_writer_stop returns: the writer takes what is left in the ring and
\* ends, since a closed ring never blocks it and, as get_batch says, the semaphore
\* is never zero while there are lines.
StopReturns == spc = "post" ~> spc = "done"

\* The ring implements the channel: lines leave in the order of their claims,
\* as they were put, each once.
Channel == INSTANCE LogChannel WITH
  Records <- LineIds,
  places <- [i \in 1..Len(owners) |-> [rec |-> owners[i], state |-> settled[i]]],
  next <- tail,
  out <- taken

ImplementsChannel == Channel!ChannelSpec

=============================================================================
