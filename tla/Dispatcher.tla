----------------------------- MODULE Dispatcher -----------------------------
(***************************************************************************)
(* The dispatcher of one logger (core/dispatcher.c): the array of sinks,   *)
(* the mutex around it, the loop that writes a record to every sink, and   *)
(* the operations that build, swap, extend and destroy the array.  A sink  *)
(* is an identity with a life; what it was given is a sequence of pieces,  *)
(* because a full-size line goes out in two writes.                        *)
(***************************************************************************)
EXTENDS Integers, Sequences, FiniteSets

CONSTANTS
  Writers,         \* the threads that log
  Sinks,           \* the sinks that can ever be created: 1 .. n
  Levels,          \* the log levels, ordered: a set of naturals
  InitCapacity     \* the length of the array log_dispatcher_init_for collects sinks in

VARIABLES
  sinks,           \* logger->sinks[0 .. sink_count - 1]
  mutex,           \* dispatcher_mutex: its holder, or NoWriter
  sink,            \* of every sink: its life, who made it ("past": a plugin sink past the array), its min_level
  pieces,          \* what was written to every sink
  disp             \* of every writer: where it is in log_dispatcher_dispatch_for

dispatcherVars == <<sinks, mutex, sink, pieces, disp>>

NoWriter == "nobody"
NoRec == [id |-> 0, level |-> 0, long |-> FALSE, count |-> 0]
OutOfDispatch == [at |-> "out", rec |-> NoRec, i |-> 0, s |-> 0]

DispatcherInit ==
  /\ sinks = <<>>
  /\ mutex = NoWriter
  /\ sink = [s \in Sinks |-> [life |-> "free", by |-> "config", min |-> 0]]
  /\ pieces = [s \in Sinks |-> <<>>]
  /\ disp = [t \in Writers |-> OutOfDispatch]

Live(s) == sink[s].life = "live"
Free == {s \in Sinks : sink[s].life = "free"}
MutexFree == mutex = NoWriter

(***************************************************************************)
(* log_dispatcher_dispatch_for.  The level is tested and the line is       *)
(* formatted before the mutex is taken; a line that cannot be formatted is *)
(* not written.  The loop then holds the mutex from the first sink to the  *)
(* last.                                                                   *)
(***************************************************************************)
Dispatch(t, rec, level) ==
  /\ disp[t].at = "out"
  /\ disp' = [disp EXCEPT ![t] =
                IF rec.level < level THEN OutOfDispatch ELSE [at |-> "lock", rec |-> rec, i |-> 1, s |-> 0]]
  /\ UNCHANGED <<sinks, mutex, sink, pieces>>

FormatFails(t) ==
  /\ disp[t].at = "lock"
  /\ disp' = [disp EXCEPT ![t] = OutOfDispatch]
  /\ UNCHANGED <<sinks, mutex, sink, pieces>>

LockDispatcher(t) ==
  /\ disp[t].at = "lock"
  /\ MutexFree
  /\ mutex' = t
  /\ disp' = [disp EXCEPT ![t].at = "loop"]
  /\ UNCHANGED <<sinks, sink, pieces>>

Give(s, id, what) == pieces' = [pieces EXCEPT ![s] = Append(@, [id |-> id, what |-> what])]

\* A loop that takes the mutex anew for every sink.
LockPerSink(t) ==
  LET d == disp[t]  s == sinks[d.i] IN
  /\ d.at = "loop"
  /\ d.i <= Len(sinks)
  /\ Give(s, d.rec.id, "line")
  /\ disp' = [disp EXCEPT ![t].at = "lock", ![t].i = @ + 1]
  /\ mutex' = NoWriter
  /\ UNCHANGED <<sinks, sink>>

\* One turn of the loop: skip a sink that wants more severe records only, else write.
WriteSink(t) ==
  LET d == disp[t]  s == sinks[d.i] IN
  /\ d.at = "loop"
  /\ d.i <= Len(sinks)
  /\ \/ /\ d.rec.level < sink[s].min
        /\ disp' = [disp EXCEPT ![t].i = @ + 1]
        /\ UNCHANGED pieces
     \/ /\ d.rec.level >= sink[s].min
        /\ ~d.rec.long
        /\ Give(s, d.rec.id, "line")
        /\ disp' = [disp EXCEPT ![t].i = @ + 1]
     \/ /\ d.rec.level >= sink[s].min
        /\ d.rec.long
        /\ Give(s, d.rec.id, "text")
        /\ disp' = [disp EXCEPT ![t].at = "newline", ![t].s = s]
  /\ UNCHANGED <<sinks, mutex, sink>>

WriteNewline(t) ==
  /\ disp[t].at = "newline"
  /\ Give(disp[t].s, disp[t].rec.id, "newline")
  /\ disp' = [disp EXCEPT ![t].at = "loop", ![t].i = @ + 1, ![t].s = 0]
  /\ UNCHANGED <<sinks, mutex, sink>>

UnlockDispatcher(t) ==
  /\ disp[t].at = "loop"
  /\ disp[t].i > Len(sinks)
  /\ mutex' = NoWriter
  /\ disp' = [disp EXCEPT ![t] = OutOfDispatch]
  /\ UNCHANGED <<sinks, sink, pieces>>

DispatchStep(t) ==
  FormatFails(t) \/ LockDispatcher(t) \/ WriteSink(t) \/ WriteNewline(t) \/ UnlockDispatcher(t)

(***************************************************************************)
(* create_sinks_from_cfg and log_plugin_create_sinks_from_config: the      *)
(* configured sinks whose creation succeeds, built-in ones first.          *)
(***************************************************************************)
FirstFree(n) == CHOOSE q \in [1 .. n -> Free] :
                  \A i \in 1 .. n : Cardinality({s \in Free : s < q[i]}) = i - 1

Born(new, who, min, old) ==
  sink' = [s \in Sinks |->
             IF \E i \in DOMAIN new : new[i] = s THEN [life |-> "live", by |-> who, min |-> min]
             ELSE IF s \in old THEN [sink[s] EXCEPT !.life = "dead"] ELSE sink[s]]

Killed(old) == Born(<<>>, "config", 0, old)

InArray == {sinks[i] : i \in DOMAIN sinks}

\* log_dispatcher_init_for: the old sinks are destroyed, the new ones installed; plugin
\* sinks that find the array full are neither installed nor destroyed.
InitDispatcher(made) ==
  LET new == FirstFree(made)
      kept == IF made > InitCapacity THEN InitCapacity ELSE made IN
  /\ MutexFree
  /\ sinks' = SubSeq(new, 1, kept)
  /\ sink' = [s \in Sinks |->
                IF \E i \in 1 .. kept : new[i] = s THEN [life |-> "live", by |-> "config", min |-> 0]
                ELSE IF \E i \in 1 .. made : new[i] = s THEN [life |-> "live", by |-> "past", min |-> 0]
                ELSE IF s \in InArray THEN [sink[s] EXCEPT !.life = "dead"] ELSE sink[s]]
  /\ UNCHANGED <<mutex, pieces, disp>>

\* log_dispatcher_build_snapshot_for: sinks outside the array until the commit.
BuildSnapshot(new) == Born(new, "config", 0, {}) /\ UNCHANGED <<sinks, mutex, pieces, disp>>

\* log_dispatcher_commit_snapshot_for: the swap is under the mutex, ...
SwapUnlocked(snap) == sinks' = snap /\ UNCHANGED <<mutex, sink, pieces, disp>>

SwapSinks(snap) == MutexFree /\ sinks' = snap /\ UNCHANGED <<mutex, sink, pieces, disp>>

\* ... the old sinks are destroyed outside it.
DestroyOld(s) == Killed({s}) /\ UNCHANGED <<sinks, mutex, pieces, disp>>

\* log_dispatcher_destroy_for.
DestroySinks == MutexFree /\ Killed(InArray) /\ sinks' = <<>> /\ UNCHANGED <<mutex, pieces, disp>>

\* log_dispatcher_add_sink_for: at the end of the array; the sink is one the application made.
AddSink(s, min) ==
  /\ MutexFree
  /\ Born(<<s>>, "app", min, {})
  /\ sinks' = Append(sinks, s)
  /\ UNCHANGED <<mutex, pieces, disp>>

\* log_dispatcher_remove_sink_for: the first occurrence; the sink is not destroyed.
RemoveSink(s) ==
  /\ MutexFree
  /\ LET at == {i \in DOMAIN sinks : sinks[i] = s}
         first == CHOOSE i \in at : \A j \in at : i <= j IN
     sinks' = IF at = {} THEN sinks
              ELSE SubSeq(sinks, 1, first - 1) \o SubSeq(sinks, first + 1, Len(sinks))
  /\ UNCHANGED <<mutex, sink, pieces, disp>>

(***************************************************************************)
(* A reload destroys the sinks it replaced outside the mutex, while other  *)
(* threads log.  No write reaches a destroyed sink: the array holds live   *)
(* sinks only, and so is the sink a writer is in the middle of a line at.  *)
(***************************************************************************)
NoDeadSink ==
  /\ \A s \in InArray : Live(s)
  /\ \A t \in Writers : disp[t].at = "newline" => Live(disp[t].s)

(***************************************************************************)
(* A line that goes out in two writes is not cut by another thread's line: *)
(* its newline follows it at once, or its writer is about to write it.     *)
(***************************************************************************)
LinesWhole ==
  \A s \in Sinks : \A i \in DOMAIN pieces[s] :
    pieces[s][i].what = "text" =>
      IF i = Len(pieces[s])
        THEN \E t \in Writers : disp[t].at = "newline" /\ disp[t].s = s
        ELSE pieces[s][i + 1] = [id |-> pieces[s][i].id, what |-> "newline"]

Position(s, id) == {i \in DOMAIN pieces[s] : pieces[s][i].id = id /\ pieces[s][i].what # "newline"}

(***************************************************************************)
(* Two sinks see the records both of them get in the same order, and none  *)
(* twice, because one writer's loop over the sinks is not interleaved with *)
(* another's.                                                              *)
(***************************************************************************)
SinksAgree ==
  \A s, r \in Sinks : \A i, j \in DOMAIN pieces[s] :
    /\ i < j
    /\ pieces[s][i].what # "newline"
    /\ pieces[s][j].what # "newline"
    => /\ pieces[s][i].id # pieces[s][j].id
       /\ \A p \in Position(r, pieces[s][i].id), q \in Position(r, pieces[s][j].id) : p < q

(***************************************************************************)
(* The sinks get whole lines, in one order for all of them, whatever the   *)
(* threads that log and the thread that changes the sinks do meanwhile.    *)
(***************************************************************************)
OneStream == LinesWhole /\ SinksAgree
=============================================================================
