---------------------------- MODULE ForkHandlers ----------------------------
(***************************************************************************)
(* fork() in a process that logs (log_atfork_prepare, _parent and _child   *)
(* of core/log.c, with their parts in core/dispatcher.c and core/async.c). *)
(* A call of the library is the sequence of its steps on the locks and on  *)
(* the ring of the asynchronous mode; a thread forks between two calls.    *)
(* After the fork the model follows the parent or the child: in the child  *)
(* only the forking thread is there, and every lock is as it was.  The     *)
(* ring is the one of MpscQueue with one step for a claim.                 *)
(***************************************************************************)
EXTENDS Integers, Sequences, FiniteSets

CONSTANTS
  ForkThreads,     \* the application's threads
  Worker,          \* the worker thread of the asynchronous mode
  RingSize,        \* capacity of the ring
  MaxForkCalls,    \* bound on the calls in one process
  MaxForks         \* bound on the generations

VARIABLES
  owner,           \* of every lock the thread that holds it
  todo,            \* of every thread the steps that are left of its call
  here,            \* the threads of the process
  ring,            \* head, tail and the slots of the queue, and async_processing
  batch,           \* the records the worker has taken and not written
  forks,           \* the generation of the process and the calls made in it
  claims,          \* history: the records put since the ring was last reset, by position
  taken            \* history: the records the worker has taken since then

forkVars == <<owner, todo, here, ring, batch, forks, claims, taken>>

Nobody == "nobody"
Handled == {"init", "module", "dispatcher", "drain"}
Locks == Handled \cup {"rl", "redact", "plugin", "prom"}

AllThreads == ForkThreads \cup {Worker}

Take(l) == [op |-> "take", on |-> l]
Drop(l) == [op |-> "drop", on |-> l]
Do(op) == <<[op |-> op, on |-> "none"]>>
Section(l, body) == <<Take(l)>> \o body \o <<Drop(l)>>
Under(l) == Section(l, <<>>)

Optional(part) == {<<>>, part}

(***************************************************************************)
(* The calls: what each takes and does, in its order.  A log call redacts, *)
(* copies the module name (under the mutex when the counter moved), asks   *)
(* the limiter and puts the record in the ring.                            *)
(***************************************************************************)
LogCalls ==
  {r \o m \o l \o Do("claim") : r \in Optional(Under("redact")),
                                m \in Optional(Under("module")), l \in Optional(Under("rl"))}

FlushCall == Under("drain") \o Do("quiet") \o Under("dispatcher")
AddSinkCall == Section("init", Under("dispatcher"))
RemoveSinkCall == Under("dispatcher")
SetModuleCall == Under("module")

\* logger_init_internal and the exporter run under g_init_mutex, a reload and the destruction
\* only test the state under it.
InitCall ==
  Section("init", Under("rl") \o Under("plugin") \o Under("dispatcher") \o Under("module") \o Under("prom"))
ReloadCall == Under("init") \o Under("rl") \o Under("plugin") \o Under("dispatcher")
DestroyCall == Under("init") \o Under("prom") \o Under("dispatcher") \o Under("rl") \o Under("plugin")

DispatcherFirst == <<Take("dispatcher"), Take("module"), Take("init")>> \o Do("fork")

\* log_atfork_prepare.
Prepare == <<Take("init"), Take("module"), Take("dispatcher")>> \o Do("fork")

\* log_atfork_parent.
Parent == <<Drop("dispatcher"), Drop("module"), Drop("init")>>

\* log_atfork_child: the sinks first, then the locks, then the asynchronous mode.
Child == <<Drop("dispatcher"), Drop("module"), Drop("init")>> \o Do("restart")

Calls ==
  LogCalls \cup {FlushCall, AddSinkCall, RemoveSinkCall, SetModuleCall, InitCall, ReloadCall,
                 DestroyCall, Prepare}

NoRecord == <<0, 0>>

ForkInit ==
  /\ owner = [l \in Locks |-> Nobody]
  /\ todo = [t \in AllThreads |-> <<>>]
  /\ here = AllThreads
  /\ ring = [head |-> 0, tail |-> 0, busy |-> FALSE,
             seq |-> [i \in 0 .. RingSize - 1 |-> i], rec |-> [i \in 0 .. RingSize - 1 |-> NoRecord]]
  /\ batch = <<>>
  /\ forks = [generation |-> 1, calls |-> 0]
  /\ claims = <<>>
  /\ taken = <<>>

(***************************************************************************)
(* Calls and their steps.                                                  *)
(***************************************************************************)
BeginCall(t) ==
  /\ t \in here \cap ForkThreads
  /\ todo[t] = <<>>
  /\ forks.calls < MaxForkCalls
  /\ \E c \in Calls :
       /\ c = Prepare => forks.generation <= MaxForks
       /\ todo' = [todo EXCEPT ![t] = c]
  /\ forks' = [forks EXCEPT !.calls = @ + 1]
  /\ UNCHANGED <<owner, here, ring, batch, claims, taken>>

NextIs(t, op) == t \in here /\ todo[t] # <<>> /\ Head(todo[t]).op = op
LockOf(t) == Head(todo[t]).on
Done(t) == todo' = [todo EXCEPT ![t] = Tail(@)]

TakeLock(t) ==
  /\ NextIs(t, "take")
  /\ owner[LockOf(t)] = Nobody
  /\ owner' = [owner EXCEPT ![LockOf(t)] = t]
  /\ Done(t)
  /\ UNCHANGED <<here, ring, batch, forks, claims, taken>>

DropLock(t) ==
  /\ NextIs(t, "drop")
  /\ owner' = [owner EXCEPT ![LockOf(t)] = Nobody]
  /\ Done(t)
  /\ UNCHANGED <<here, ring, batch, forks, claims, taken>>

Slot(pos) == pos % RingSize

\* mpsc_queue_try_put: claim a position, or write the record under the dispatcher's mutex.
Claim(t) ==
  /\ NextIs(t, "claim")
  /\ IF ring.head - ring.tail >= RingSize
     THEN /\ todo' = [todo EXCEPT ![t] = Under("dispatcher")]
          /\ UNCHANGED <<ring, claims>>
     ELSE /\ todo' = [todo EXCEPT ![t] = <<[op |-> "publish", on |-> ring.head]>>]
          /\ ring' = [ring EXCEPT !.head = @ + 1]
          /\ claims' = Append(claims, <<forks.generation, ring.head + 1>>)
  /\ UNCHANGED <<owner, here, batch, forks, taken>>

Publish(t) ==
  /\ NextIs(t, "publish")
  /\ ring' = [ring EXCEPT !.seq[Slot(LockOf(t))] = LockOf(t) + 1,
                          !.rec[Slot(LockOf(t))] = claims[LockOf(t) + 1]]
  /\ Done(t)
  /\ UNCHANGED <<owner, here, batch, forks, claims, taken>>

\* log_async_flush_for past mpsc_queue_wait_empty.
Quiet(t) ==
  /\ NextIs(t, "quiet")
  /\ ring.head = ring.tail
  /\ ~ring.busy
  /\ Done(t)
  /\ UNCHANGED <<owner, here, ring, batch, forks, claims, taken>>

(***************************************************************************)
(* async_worker_for: the flag, a batch of one record if its slot is        *)
(* published, the record under the dispatcher's mutex, the flag again.     *)
(***************************************************************************)
Wake ==
  /\ Worker \in here
  /\ todo[Worker] = <<>>
  /\ ring.head > ring.tail
  /\ ring' = [ring EXCEPT !.busy = TRUE]
  /\ todo' = [todo EXCEPT ![Worker] = Do("batch")]
  /\ UNCHANGED <<owner, here, batch, forks, claims, taken>>

GetBatch ==
  /\ NextIs(Worker, "batch")
  /\ LET s == Slot(ring.tail) IN
     IF ring.seq[s] = ring.tail + 1
     THEN /\ ring' = [ring EXCEPT !.tail = @ + 1]
          /\ batch' = <<ring.rec[s]>>
          /\ taken' = Append(taken, ring.rec[s])
          /\ todo' = [todo EXCEPT ![Worker] = (IF ring.head = ring.tail + 1 THEN Under("drain") ELSE <<>>)
                                              \o Under("dispatcher") \o Do("rest")]
     ELSE /\ todo' = [todo EXCEPT ![Worker] = Do("rest")]
          /\ UNCHANGED <<ring, batch, taken>>
  /\ UNCHANGED <<owner, here, forks, claims>>

Rest ==
  /\ NextIs(Worker, "rest")
  /\ ring' = [ring EXCEPT !.busy = FALSE]
  /\ batch' = <<>>
  /\ Done(Worker)
  /\ UNCHANGED <<owner, here, forks, claims, taken>>

(***************************************************************************)
(* The fork itself, seen from either side.  In the child the other threads *)
(* are gone, with their locks still held and their steps not taken.        *)
(***************************************************************************)
ForkStep(t) ==
  /\ NextIs(t, "fork")
  /\ \/ todo' = [todo EXCEPT ![t] = Parent] /\ UNCHANGED <<here, batch, forks>>
     \/ /\ todo' = [u \in AllThreads |-> IF u = t THEN Child ELSE <<>>]
        /\ here' = {t}
        /\ batch' = <<>>
        /\ forks' = [generation |-> forks.generation + 1, calls |-> 0]
  /\ UNCHANGED <<owner, ring, claims, taken>>

\* log_async_atfork_child_for: new semaphores and a new drain mutex, the positions from zero,
\* and a worker on the slots as they are; async_processing stays too.
Restart(t) ==
  /\ NextIs(t, "restart")
  /\ owner' = [owner EXCEPT !["drain"] = Nobody]
  /\ ring' = [ring EXCEPT !.head = 0, !.tail = 0]
  /\ here' = here \cup {Worker}
  /\ claims' = <<>>
  /\ taken' = <<>>
  /\ Done(t)
  /\ UNCHANGED <<batch, forks>>

ForkNext ==
  \/ \E t \in AllThreads :
       BeginCall(t) \/ TakeLock(t) \/ DropLock(t) \/ Claim(t) \/ Publish(t) \/ Quiet(t)
       \/ ForkStep(t) \/ Restart(t)
  \/ Wake \/ GetBatch \/ Rest

ForkSpec == ForkInit /\ [][ForkNext]_forkVars

Waits(t) == NextIs(t, "take") /\ owner[LockOf(t)] # Nobody

(***************************************************************************)
(* Forking does not deadlock with the library's own calls: no threads wait *)
(* for each other in a circle, although a fork takes three locks that the  *)
(* calls take in their own order.                                          *)
(***************************************************************************)
NoLockCycle ==
  \A s \in SUBSET here \ {{}} : \E t \in s : ~(Waits(t) /\ owner[LockOf(t)] \in s)

(***************************************************************************)
(* In a child nobody waits for one of the locks the handlers take care of  *)
(* (the three of log_atfork_prepare and the queue's drain mutex) because a *)
(* thread that exists only in the parent held it at the fork.              *)
(***************************************************************************)
NoOrphanWait ==
  \A t \in here : Waits(t) /\ LockOf(t) \in Handled => owner[LockOf(t)] \in here

(***************************************************************************)
(* No fork makes a thread, of the parent or of the child, wait for ever for *)
(* one of these locks.                                                     *)
(***************************************************************************)
NoForkDeadlock == NoLockCycle /\ NoOrphanWait

(***************************************************************************)
(* The worker reads a slot only after its producer has published it, also  *)
(* in a child: what it takes at a position is the record put there.  So    *)
(* every record a child logs is written, and none of its parent's is.      *)
(***************************************************************************)
TakenIsPut == \A i \in DOMAIN taken : taken[i] = claims[i]
=============================================================================
