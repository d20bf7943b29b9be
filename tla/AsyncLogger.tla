----------------------------- MODULE AsyncLogger -----------------------------
(***************************************************************************)
(* One logger_t: the write path of core/log.c, the worker and the fallback *)
(* of core/async.c, and the calls that start, stop, rebuild and flush them *)
(* (log_init, log_destroy, log_reload, log_flush).                         *)
(*                                                                         *)
(* The queue is taken at the level of LogChannel, which MpscQueue          *)
(* implements: a place is reserved, then filled or voided, and taken in    *)
(* order.  logger->queue is a plain pointer that every call loads again;   *)
(* a queue is named by the number of its creation and 0 is NULL, so that a *)
(* use of a destroyed queue can be told from a use of its successor.       *)
(*                                                                         *)
(* A step is one access to a field another thread writes, together with    *)
(* the accesses to fields only the lifecycle calls use.  A dispatch holds  *)
(* dispatcher_mutex from the first sink to the last and is one step.       *)
(***************************************************************************)
EXTENDS Naturals, Sequences, FiniteSets

CONSTANTS
  Writers,      \* threads that log
  Admins,       \* threads that call the lifecycle functions
  Ops,          \* the functions they call, of "init", "destroy", "reload", "flush"
  Capacity,     \* of the queue
  MaxBatch,     \* ASYNC_BATCH_SIZE
  MaxCalls,     \* bound: log calls per writer
  MaxOps,       \* bound: lifecycle calls per admin
  Quiesced,     \* the application logs only while no init, destroy or reload runs
  MayFail       \* subset of Faults: what can fail

\* A bad file, no sink, no queue or thread, no memory for a copy, a consumer
\* that stands still longer than a put waits.
Faults == {"config", "sinks", "queue", "clone", "stall"}

ASSUME LoggerAssumption ==
  /\ Ops \subseteq {"init", "destroy", "reload", "flush"}
  /\ Capacity \in Nat \ {0} /\ MaxBatch \in Nat \ {0}
  /\ MaxCalls \in Nat /\ MaxOps \in Nat
  /\ Quiesced \in BOOLEAN
  /\ MayFail \subseteq Faults

VARIABLES
  initialized, async, running, queue, processing, sinks,  \* fields of logger_t
  initLock,                     \* holder of g_init_mutex
  thread,                       \* logger->worker_thread
  chans, freed,                 \* every queue created, those destroyed
  wpc, wcalls, wq, wplace,      \* writers: control, calls, queue and place used
  kpc, kq, kbatch,              \* workers: control, queue of the wait, batch
  apc, aop, aops, aq,           \* admins: control, current call, calls, queue waited on
  goal,                         \* history: what a flush must see written
  accepted, logged,             \* history: records enqueued, records of returned log calls
  out                           \* what the sinks got

loggerVars == <<initialized, async, running, queue, processing, sinks, initLock, thread>>
chanVars   == <<chans, freed>>
writerVars == <<wpc, wcalls, wq, wplace>>
workerVars == <<kpc, kq, kbatch>>
adminVars  == <<apc, aop, aops, aq, goal>>
vars == <<loggerVars, chanVars, writerVars, workerVars, adminVars, accepted, logged, out>>

Null == 0
Free == "free"
Queues == 1..Len(chans)

Rec(w) == <<w, wcalls[w]>>
Fresh == [places |-> <<>>, next |-> 0, closed |-> FALSE]
Depth(q) == Len(chans[q].places) - chans[q].next

\* The settled places a get_batch_try takes: at most MaxBatch, up to the first
\* one that is still reserved.
Ready(q) ==
  LET settled == {n \in 0..MaxBatch :
                    /\ n <= Depth(q)
                    /\ \A i \in 1..n : chans[q].places[chans[q].next + i].state # "reserved"}
      most == CHOOSE n \in settled : \A m \in settled : m <= n
  IN  SubSeq(chans[q].places, chans[q].next + 1, chans[q].next + most)

Init ==
  /\ initialized = FALSE /\ async = FALSE /\ running = FALSE /\ queue = Null
  /\ processing = FALSE /\ sinks = FALSE /\ initLock = Free /\ thread = Null
  /\ chans = <<>> /\ freed = {}
  /\ wpc = [w \in Writers |-> "idle"] /\ wcalls = [w \in Writers |-> 0]
  /\ wq = [w \in Writers |-> Null] /\ wplace = [w \in Writers |-> 0]
  /\ kpc = <<>> /\ kq = <<>> /\ kbatch = <<>>
  /\ apc = [a \in Admins |-> "idle"] /\ aop = [a \in Admins |-> "flush"]
  /\ aops = [a \in Admins |-> 0] /\ aq = [a \in Admins |-> Null]
  /\ goal = [a \in Admins |-> {}]
  /\ accepted = {} /\ logged = {} /\ out = <<>>

\* log_dispatcher_dispatch_for: every sink, or none when there is none.
Emit(r) == out' = IF sinks THEN Append(out, r) ELSE out

-----------------------------------------------------------------------------
(***************************************************************************)
(* Writers: logger_writevprintf_internal and log_async_write_for           *)
(***************************************************************************)

Rebuilding(a) == apc[a] # "idle" /\ aop[a] # "flush"

WGoto(w, label) == wpc' = [wpc EXCEPT ![w] = label] /\ UNCHANGED <<wcalls, logged>>

WReturn(w) ==
  /\ wpc' = [wpc EXCEPT ![w] = "idle"]
  /\ wcalls' = [wcalls EXCEPT ![w] = @ + 1]
  /\ logged' = logged \cup {Rec(w)}

\* A logger that is not initialized drops the call.
LogCall(w) ==
  /\ wpc[w] = "idle" /\ wcalls[w] < MaxCalls
  /\ Quiesced => \A a \in Admins : ~Rebuilding(a)
  /\ initialized
  /\ WGoto(w, "mode")
  /\ UNCHANGED <<loggerVars, chanVars, wq, wplace, workerVars, adminVars, accepted, out>>

CheckMode(w) ==
  /\ wpc[w] = "mode"
  /\ WGoto(w, IF async THEN "load" ELSE "write")
  /\ UNCHANGED <<loggerVars, chanVars, wq, wplace, workerVars, adminVars, accepted, out>>

\* A NULL queue, or a failed clone, goes to the sinks directly.
LoadQueue(w) ==
  /\ wpc[w] = "load"
  /\ \/ queue # Null /\ WGoto(w, "put")
     \/ (queue = Null \/ "clone" \in MayFail) /\ WGoto(w, "write")
  /\ UNCHANGED <<loggerVars, chanVars, wq, wplace, workerVars, adminVars, accepted, out>>

Full(q) == Depth(q) >= Capacity

Refuses(q) == IF q = Null THEN TRUE ELSE chans[q].closed \/ Full(q)

\* try_put(logger->queue), loaded again: NULL, closed and full queues return -1.
TryPut(w) ==
  /\ wpc[w] = "put"
  /\ wq' = [wq EXCEPT ![w] = queue]
  /\ WGoto(w, IF Refuses(queue) THEN "write" ELSE "claim")
  /\ UNCHANGED <<loggerVars, chanVars, wplace, workerVars, adminVars, accepted, out>>

Claim(w) ==
  /\ wpc[w] = "claim"
  /\ chans' = [chans EXCEPT ![wq[w]].places = Append(@, [rec |-> Rec(w), state |-> "reserved"])]
  /\ wplace' = [wplace EXCEPT ![w] = Len(chans'[wq[w]].places)]
  /\ WGoto(w, "recheck")
  /\ UNCHANGED <<loggerVars, freed, wq, workerVars, adminVars, accepted, out>>

Room(w) == wplace[w] <= chans[wq[w]].next + Capacity

Recheck(w) ==
  /\ wpc[w] = "recheck"
  /\ WGoto(w, IF Room(w) THEN "fill" ELSE "tomb")
  /\ UNCHANGED <<loggerVars, chanVars, wq, wplace, workerVars, adminVars, accepted, out>>

Settle(w, how) == chans' = [chans EXCEPT ![wq[w]].places[wplace[w]].state = how]

\* The record is published, and log_async_write_for returns CLOG_OK.
Fill(w) ==
  /\ wpc[w] = "fill"
  /\ Settle(w, "full")
  /\ accepted' = accepted \cup {Rec(w)}
  /\ WReturn(w)
  /\ UNCHANGED <<loggerVars, freed, wq, wplace, workerVars, adminVars, out>>

\* The tombstone is published once the consumer has made room.
Void(w) ==
  /\ wpc[w] = "tomb"
  /\ Room(w)
  /\ Settle(w, "void")
  /\ WGoto(w, "write")
  /\ UNCHANGED <<loggerVars, freed, wq, wplace, workerVars, adminVars, accepted, out>>

\* A put gives its place up when the consumer stands still; the place stays
\* reserved for ever.
Abandon(w) ==
  /\ "stall" \in MayFail
  /\ wpc[w] = "tomb"
  /\ ~Room(w)
  /\ WGoto(w, "write")
  /\ UNCHANGED <<loggerVars, chanVars, wq, wplace, workerVars, adminVars, accepted, out>>

\* Synchronous mode, or the fallback of a record the queue did not take.
WriteSync(w) ==
  /\ wpc[w] = "write"
  /\ Emit(Rec(w))
  /\ WReturn(w)
  /\ UNCHANGED <<loggerVars, chanVars, wq, wplace, workerVars, adminVars, accepted>>

WriterStep(w) ==
  \/ CheckMode(w) \/ LoadQueue(w) \/ TryPut(w) \/ Claim(w) \/ Recheck(w) \/ Fill(w) \/ Void(w)
  \/ Abandon(w) \/ WriteSync(w)

-----------------------------------------------------------------------------
(***************************************************************************)
(* Workers: async_worker_for                                               *)
(***************************************************************************)

KGoto(k, label) == kpc' = [kpc EXCEPT ![k] = label]

\* mpsc_queue_wait_for_items(logger->queue); a NULL queue ends the worker.
EnterWait(k) ==
  /\ kpc[k] = "enter"
  /\ kq' = [kq EXCEPT ![k] = queue]
  /\ KGoto(k, IF queue = Null THEN "exit" ELSE "items")
  /\ UNCHANGED <<loggerVars, chanVars, writerVars, kbatch, adminVars, accepted, logged, out>>

\* The wait loop looks for claimed places first, then at closed.
CheckItems(k) ==
  /\ kpc[k] = "items"
  /\ KGoto(k, IF Depth(kq[k]) > 0 THEN "set" ELSE "closed")
  /\ UNCHANGED <<loggerVars, chanVars, writerVars, kq, kbatch, adminVars, accepted, logged, out>>

CheckClosed(k) ==
  /\ kpc[k] = "closed"
  /\ KGoto(k, IF chans[kq[k]].closed THEN "exit" ELSE "items")
  /\ UNCHANGED <<loggerVars, chanVars, writerVars, kq, kbatch, adminVars, accepted, logged, out>>

\* Mutant: the flag is not raised before the drain.
NotProcessing(k) ==
  /\ kpc[k] = "set"
  /\ KGoto(k, "drain")
  /\ UNCHANGED <<loggerVars, chanVars, writerVars, kq, kbatch, adminVars, accepted, logged, out>>

\* async_processing = 1, before the drain.
SetProcessing(k) ==
  /\ kpc[k] = "set"
  /\ processing' = TRUE
  /\ KGoto(k, "drain")
  /\ UNCHANGED <<initialized, async, running, queue, sinks, initLock, thread, chanVars, writerVars,
                 kq, kbatch, adminVars, accepted, logged, out>>

\* Mutant: the tail moves over every claimed place.
AdvanceAll(q, batch) == Len(chans[q].places)

Advance(q, batch) == chans[q].next + Len(batch)

\* get_batch_try(logger->queue).
Drain(k) ==
  /\ kpc[k] = "drain"
  /\ LET batch == IF queue = Null THEN <<>> ELSE Ready(queue)
     IN  /\ kbatch' = [kbatch EXCEPT ![k] = batch]
         /\ chans' = IF queue = Null THEN chans
                     ELSE [chans EXCEPT ![queue].next = Advance(queue, batch)]
         /\ KGoto(k, IF batch = <<>> THEN "clear" ELSE "dispatch")
  /\ UNCHANGED <<loggerVars, freed, writerVars, kq, adminVars, accepted, logged, out>>

\* Mutant: tombstones are dispatched like records.
IsRecordAlways(place) == TRUE

IsRecord(place) == place.state # "void"

\* One record of the batch; the last one is followed by the flush of the sinks.
Dispatch(k) ==
  /\ kpc[k] = "dispatch"
  /\ IF IsRecord(Head(kbatch[k])) THEN Emit(Head(kbatch[k]).rec) ELSE UNCHANGED out
  /\ kbatch' = [kbatch EXCEPT ![k] = Tail(@)]
  /\ KGoto(k, IF Tail(kbatch[k]) = <<>> THEN "clear" ELSE "dispatch")
  /\ UNCHANGED <<loggerVars, chanVars, writerVars, kq, adminVars, accepted, logged>>

\* Mutant: the flag stays up.
StillProcessing(k) ==
  /\ kpc[k] = "clear"
  /\ UNCHANGED processing
  /\ KGoto(k, "enter")
  /\ UNCHANGED <<initialized, async, running, queue, sinks, initLock, thread, chanVars, writerVars,
                 kq, kbatch, adminVars, accepted, logged, out>>

\* async_processing = 0, whatever the batch held.
ClearProcessing(k) ==
  /\ kpc[k] = "clear"
  /\ processing' = FALSE
  /\ KGoto(k, "enter")
  /\ UNCHANGED <<initialized, async, running, queue, sinks, initLock, thread, chanVars, writerVars,
                 kq, kbatch, adminVars, accepted, logged, out>>

WorkerStep(k) ==
  \/ EnterWait(k) \/ CheckItems(k) \/ CheckClosed(k) \/ SetProcessing(k) \/ Drain(k)
  \/ Dispatch(k) \/ ClearProcessing(k)

-----------------------------------------------------------------------------
(***************************************************************************)
(* Admins: log_init, log_destroy, log_reload and log_flush                 *)
(***************************************************************************)
adminFrame == <<writerVars, accepted, logged, out>>

AGoto(a, label) == apc' = [apc EXCEPT ![a] = label] /\ UNCHANGED <<aop, aops>>

\* The call returns, with or without an error; log_init gives g_init_mutex back.
AReturn(a) ==
  /\ AGoto(a, "idle")
  /\ initLock' = IF initLock = a THEN Free ELSE initLock

Begin(a, op, label) ==
  /\ op \in Ops
  /\ apc[a] = "idle" /\ aops[a] < MaxOps
  /\ op # "flush" /\ Quiesced => \A w \in Writers : wpc[w] = "idle"
  /\ apc' = [apc EXCEPT ![a] = label]
  /\ aop' = [aop EXCEPT ![a] = op]
  /\ aops' = [aops EXCEPT ![a] = @ + 1]

\* log_init holds g_init_mutex to its end; a second one returns at once.
BeginInit(a) ==
  /\ Begin(a, "init", "defaults")
  /\ initLock = Free /\ ~initialized
  /\ initLock' = a
  /\ UNCHANGED <<initialized, async, running, queue, processing, sinks, thread, chanVars,
                 workerVars, aq, goal, adminFrame>>

\* log_reload only looks at initialized under g_init_mutex.
BeginReload(a) ==
  /\ Begin(a, "reload", "defaults")
  /\ initLock = Free /\ initialized
  /\ UNCHANGED <<loggerVars, chanVars, workerVars, aq, goal, adminFrame>>

\* log_destroy only clears initialized under g_init_mutex.
BeginDestroy(a) ==
  /\ Begin(a, "destroy", "close")
  /\ initLock = Free /\ initialized
  /\ initialized' = FALSE
  /\ UNCHANGED <<async, running, queue, processing, sinks, initLock, thread, chanVars, workerVars,
                 aq, goal, adminFrame>>

\* History: what a flush has to wait for, the records of returned log calls that
\* the current queue took. A reload that fails after LoadDefaults leaves the
\* configuration synchronous beside a running queue, and log_flush then waits for
\* nothing.
Promised == {r \in logged \cap accepted :
               /\ async /\ queue # Null
               /\ \E i \in 1..Len(chans[queue].places) : chans[queue].places[i].rec = r}

\* log_flush: wait for the queue when the configuration says asynchronous.
BeginFlush(a) ==
  /\ Begin(a, "flush", IF async /\ queue # Null THEN "empty" ELSE "sync")
  /\ aq' = [aq EXCEPT ![a] = queue]
  /\ goal' = [goal EXCEPT ![a] = Promised]
  /\ UNCHANGED <<loggerVars, chanVars, workerVars, adminFrame>>

\* mpsc_queue_wait_empty returns.
FlushEmpty(a) ==
  /\ apc[a] = "empty"
  /\ Depth(aq[a]) = 0
  /\ AGoto(a, "busy")
  /\ UNCHANGED <<loggerVars, chanVars, workerVars, aq, goal, adminFrame>>

FlushIdle(a) ==
  /\ apc[a] = "busy"
  /\ ~processing
  /\ AGoto(a, "sync")
  /\ UNCHANGED <<loggerVars, chanVars, workerVars, aq, goal, adminFrame>>

\* log_dispatcher_flush_for, and the flush returns.
FlushSinks(a) ==
  /\ apc[a] = "sync"
  /\ AReturn(a)
  /\ UNCHANGED <<initialized, async, running, queue, processing, sinks, thread, chanVars,
                 workerVars, aq, goal, adminFrame>>

\* log_config_load_into writes the defaults into the live configuration ...
LoadDefaults(a) ==
  /\ apc[a] = "defaults"
  /\ async' = FALSE
  /\ AGoto(a, "parse")
  /\ UNCHANGED <<initialized, running, queue, processing, sinks, initLock, thread, chanVars,
                 workerVars, aq, goal, adminFrame>>

\* ... then what the file says, up to the first error.
Parse(a) ==
  /\ apc[a] = "parse"
  /\ async' \in BOOLEAN
  /\ \/ AGoto(a, "sinks") /\ UNCHANGED initLock
     \/ "config" \in MayFail /\ AReturn(a)
  /\ UNCHANGED <<initialized, running, queue, processing, sinks, thread, chanVars, workerVars, aq,
                 goal, adminFrame>>

\* log_dispatcher_init_for installs new sinks, build_snapshot_for keeps them aside.
BuildSinks(a) ==
  /\ apc[a] = "sinks"
  /\ \/ /\ sinks' = IF aop[a] = "init" THEN TRUE ELSE sinks
        /\ AGoto(a, IF aop[a] = "init" THEN "start" ELSE "close") /\ UNCHANGED initLock
     \/ "sinks" \in MayFail /\ AReturn(a) /\ UNCHANGED sinks
  /\ UNCHANGED <<initialized, async, running, queue, processing, thread, chanVars, workerVars, aq,
                 goal, adminFrame>>

\* log_async_shutdown_for: close, join, destroy and forget the queue.
Close(a) ==
  /\ apc[a] = "close"
  /\ IF running /\ queue # Null
     THEN chans' = [chans EXCEPT ![queue].closed = TRUE] /\ AGoto(a, "stop")
     ELSE UNCHANGED chans /\ AGoto(a, "swap")
  /\ UNCHANGED <<loggerVars, freed, workerVars, aq, goal, adminFrame>>

Stop(a) ==
  /\ apc[a] = "stop"
  /\ running' = FALSE
  /\ AGoto(a, "join")
  /\ UNCHANGED <<initialized, async, queue, processing, sinks, initLock, thread, chanVars,
                 workerVars, aq, goal, adminFrame>>

\* Mutant: the queue is destroyed without waiting for the worker.
NoJoin(a) == TRUE

\* Joining a thread that was never created returns at once.
Joined(a) == IF thread = Null THEN TRUE ELSE kpc[thread] = "exit"

Join(a) ==
  /\ apc[a] = "join"
  /\ Joined(a)
  /\ AGoto(a, "free")
  /\ UNCHANGED <<loggerVars, chanVars, workerVars, aq, goal, adminFrame>>

DestroyQueue(a) ==
  /\ apc[a] = "free"
  /\ freed' = freed \cup ({queue} \ {Null})
  /\ AGoto(a, "null")
  /\ UNCHANGED <<loggerVars, chans, workerVars, aq, goal, adminFrame>>

ForgetQueue(a) ==
  /\ apc[a] = "null"
  /\ queue' = Null
  /\ AGoto(a, "swap")
  /\ UNCHANGED <<initialized, async, running, processing, sinks, initLock, thread, chanVars,
                 workerVars, aq, goal, adminFrame>>

\* log_dispatcher_commit_snapshot_for, or log_dispatcher_destroy_for.
SwapSinks(a) ==
  /\ apc[a] = "swap"
  /\ sinks' = (aop[a] = "reload")
  /\ IF aop[a] = "reload" THEN AGoto(a, "start") /\ UNCHANGED initLock ELSE AReturn(a)
  /\ UNCHANGED <<initialized, async, running, queue, processing, thread, chanVars, workerVars, aq,
                 goal, adminFrame>>

\* log_async_init_for: a running worker is kept, else a queue is created, ...
Start(a) ==
  /\ apc[a] = "start"
  /\ IF async /\ ~running
     THEN /\ chans' = Append(chans, Fresh)
          /\ queue' = Len(chans')
          /\ AGoto(a, "run")
     ELSE UNCHANGED <<chans, queue>> /\ AGoto(a, "done")
  /\ UNCHANGED <<initialized, async, running, processing, sinks, initLock, thread, freed,
                 workerVars, aq, goal, adminFrame>>

Run(a) ==
  /\ apc[a] = "run"
  /\ running' = TRUE
  /\ AGoto(a, "spawn")
  /\ UNCHANGED <<initialized, async, queue, processing, sinks, initLock, thread, chanVars,
                 workerVars, aq, goal, adminFrame>>

\* ... and clog_thread_create starts a worker.
Spawn(a) ==
  /\ apc[a] = "spawn"
  /\ kpc' = Append(kpc, "enter") /\ kq' = Append(kq, Null) /\ kbatch' = Append(kbatch, <<>>)
  /\ thread' = Len(kpc')
  /\ AGoto(a, "done")
  /\ UNCHANGED <<initialized, async, running, queue, processing, sinks, initLock, chanVars, aq,
                 goal, adminFrame>>

\* It fails: the queue goes, and so do the sinks of a log_init.
SpawnFails(a) ==
  /\ "queue" \in MayFail
  /\ apc[a] = "spawn"
  /\ freed' = freed \cup ({queue} \ {Null})
  /\ queue' = Null
  /\ running' = FALSE
  /\ sinks' = (aop[a] = "reload" /\ sinks)
  /\ AReturn(a)
  /\ UNCHANGED <<initialized, async, processing, thread, chans, workerVars, aq, goal, adminFrame>>

Finish(a) ==
  /\ apc[a] = "done"
  /\ initialized' = (aop[a] = "init" \/ initialized)
  /\ AReturn(a)
  /\ UNCHANGED <<async, running, queue, processing, sinks, thread, chanVars, workerVars, aq, goal,
                 adminFrame>>

BeginCall(a) == BeginInit(a) \/ BeginReload(a) \/ BeginDestroy(a) \/ BeginFlush(a)

AdminStep(a) ==
  \/ FlushEmpty(a) \/ FlushIdle(a) \/ FlushSinks(a) \/ LoadDefaults(a) \/ Parse(a)
  \/ BuildSinks(a) \/ Close(a) \/ Stop(a) \/ Join(a) \/ DestroyQueue(a) \/ ForgetQueue(a)
  \/ SwapSinks(a) \/ Start(a) \/ Run(a) \/ Spawn(a) \/ SpawnFails(a) \/ Finish(a)

-----------------------------------------------------------------------------

Next ==
  \/ \E w \in Writers : LogCall(w) \/ WriterStep(w)
  \/ \E k \in 1..Len(kpc) : WorkerStep(k)
  \/ \E a \in Admins : BeginCall(a) \/ AdminStep(a)

Spec == Init /\ [][Next]_vars

\* The bound on the number of workers, for the fairness below.
Workers == 1..(MaxOps * Cardinality(Admins))

\* A thread inside a call, and a worker, keep running.
FairSpec ==
  /\ Spec
  /\ \A w \in Writers : WF_vars(WriterStep(w))
  /\ \A k \in Workers : WF_vars(k <= Len(kpc) /\ WorkerStep(k))
  /\ \A a \in Admins : WF_vars(AdminStep(a))

-----------------------------------------------------------------------------
(***************************************************************************)
(* Properties                                                              *)
(***************************************************************************)

\* Nobody is about to use a queue that mpsc_queue_destroy has freed: no writer
\* inside try_put, no worker, no flush, and no second shutdown. It is what the
\* comment of log_reload says of the log calls in flight while it runs.
NoFreedQueue ==
  /\ \A w \in Writers : wpc[w] \in {"claim", "recheck", "fill", "tomb"} => wq[w] \notin freed
  /\ \A w \in Writers : wpc[w] = "put" => queue \notin freed
  /\ \A k \in 1..Len(kpc) : /\ kpc[k] \in {"items", "closed"} => kq[k] \notin freed
                            /\ kpc[k] \in {"enter", "drain"} => queue \notin freed
  /\ \A a \in Admins : /\ apc[a] = "empty" => aq[a] \notin freed
                       /\ apc[a] = "close" /\ running => queue \notin freed
                       /\ apc[a] = "free" => queue \notin freed

\* No record reaches the sinks twice: once through the queue and once through
\* the fallback of a writer whose try_put failed.
WrittenOnce == \A i, j \in 1..Len(out) : i # j => out[i] # out[j]

Written(r) == \E i \in 1..Len(out) : out[i] = r
InBatch(r) == \E k \in 1..Len(kpc) : \E i \in 1..Len(kbatch[k]) : kbatch[k][i].rec = r
InQueue(r, q) == \E i \in (chans[q].next + 1)..Len(chans[q].places) : chans[q].places[i].rec = r

\* The record of a returned log call is never lost on its way through an
\* existing queue: it is written, in a worker's batch, or still to be taken.
HeldOrWritten ==
  \A r \in logged : \/ Written(r) \/ InBatch(r)
                    \/ r \in accepted /\ \E q \in Queues : InQueue(r, q)

\* A shutdown leaves no record of a returned log call behind in the queue it
\* destroys, as log.h says of log_destroy.
ShutdownDrains == \A q \in freed : \A r \in logged : r \in accepted => ~InQueue(r, q)

\* When log_flush returns, the records of log calls that had returned when it
\* began are written, as log.h says of it, also across failed puts, failed
\* starts and failed reloads, unless a failed reload has left the configuration
\* synchronous with the queue still running (Promised).
FlushDelivers ==
  \A a \in Admins : apc[a] = "idle" /\ aop[a] = "flush" => \A r \in goal[a] : Written(r)

\* A reserved place that no writer will settle any more.
Hole ==
  \E q \in Queues : \E i \in 1..Len(chans[q].places) :
    /\ chans[q].places[i].state = "reserved"
    /\ \A w \in Writers : wpc[w] \in {"recheck", "fill", "tomb"} => <<wq[w], wplace[w]>> # <<q, i>>

\* log_init, log_destroy, log_reload and log_flush return, unless a put has
\* abandoned its place.
CallsReturn == \A a \in Admins : apc[a] # "idle" ~> apc[a] = "idle" \/ Hole

\* Every record the queue accepts is written in the end, unless a place was
\* abandoned or the queue is destroyed with the record in it.
AcceptedIsWritten ==
  \A r \in Writers \X (0..(MaxCalls - 1)) :
    r \in accepted ~> Written(r) \/ Hole \/ \E q \in freed : InQueue(r, q)

=============================================================================
