----------------------------- MODULE LogChannel ------------------------------
(***************************************************************************)
(* What the two rings, the record queue of core/queue.c and the line ring  *)
(* of core/socket_ring.c, promise the threads at both ends: places are     *)
(* reserved in an order, a place is filled with the record of the thread   *)
(* that reserved it or declared void, and the consumer takes the places in *)
(* that order, each once.  There are no slots, sequence numbers or         *)
(* semaphores here.                                                        *)
(***************************************************************************)
EXTENDS Naturals, Sequences

CONSTANTS
  Records,   \* what can be enqueued
  Capacity,  \* how far ahead of the consumer a place may be filled
  MaxBatch,  \* the most places one dequeue takes
  Tomb       \* what the consumer sees in a void place

VARIABLES
  places,    \* every place ever reserved, in order
  next,      \* number of places taken
  out        \* what the consumer got, in order

channelVars == <<places, next, out>>

Place == [rec : Records, state : {"reserved", "full", "void", "lost"}]

ChannelInit == places = <<>> /\ next = 0 /\ out = <<>>

Reserve(r) ==
  /\ places' = Append(places, [rec |-> r, state |-> "reserved"])
  /\ UNCHANGED <<next, out>>

Settle(i, how) ==
  /\ places[i].state = "reserved"
  /\ places' = [places EXCEPT ![i].state = how]
  /\ UNCHANGED <<next, out>>

\* Only a place the consumer has left room for may be filled or voided.
Fill(i) == i <= next + Capacity /\ Settle(i, "full")
Void(i) == i <= next + Capacity /\ Settle(i, "void")

\* A place beyond that may be lost: the consumer never gets past it.
Lose(i) == i > next + Capacity /\ Settle(i, "lost")

Content(place) == IF place.state = "void" THEN Tomb ELSE place.rec

\* Take the next n places, all filled or void.
Take(n) ==
  /\ next + n <= Len(places)
  /\ \A i \in (next + 1)..(next + n) : places[i].state \in {"full", "void"}
  /\ out' = out \o [i \in 1..n |-> Content(places[next + i])]
  /\ next' = next + n
  /\ UNCHANGED places

ChannelNext ==
  \/ \E r \in Records : Reserve(r)
  \/ \E i \in 1..Len(places) : Fill(i) \/ Void(i) \/ Lose(i)
  \/ \E n \in 1..MaxBatch : Take(n)

ChannelSpec == ChannelInit /\ [][ChannelNext]_channelVars

=============================================================================
