----------------------------- MODULE SyncLogger -----------------------------
(***************************************************************************)
(* A logger in synchronous mode (core/log.c): the write path of every      *)
(* logging thread, from the level test through the rate limiter to the     *)
(* dispatcher, while one controlling thread initialises, reloads and       *)
(* destroys the logger and adds and removes sinks.                         *)
(***************************************************************************)
EXTENDS RateLimiter, Dispatcher

CONSTANTS
  Configs,         \* the configurations a file can hold
  Warn,            \* LOG_LEVEL_WARN, the level of a summary
  MaxRecords,      \* bound on the log calls
  MaxOps           \* bound on the calls of the controlling thread

ASSUME ConfigsAssumption ==
  \A c \in Configs : c.limit \in BOOLEAN /\ c.perSec \in Int /\ c.burst \in Int

VARIABLES
  initialized,     \* logger->initialized
  config,          \* logger->config
  writer,          \* of every writer: where it is in its call, the records it has to dispatch
  ctl,             \* where the controlling thread is
  logged           \* total_logged, also the source of record identities

syncVars == <<initialized, config, writer, ctl, logged>>

CtlIdle == [at |-> "idle", ops |-> 0, snap |-> <<>>, old |-> <<>>]
NoConfig == [level |-> 0, limit |-> FALSE, perSec |-> 0, burst |-> 0, sinks |-> 0]

SyncInit ==
  /\ RlInit
  /\ DispatcherInit
  /\ initialized = FALSE
  /\ config = NoConfig
  /\ writer = [t \in Writers |-> [at |-> "send", todo |-> <<>>]]
  /\ ctl = CtlIdle
  /\ logged = 0

(***************************************************************************)
(* logger_writevprintf_internal and logger_write_kv_internal.              *)
(***************************************************************************)
Idle(t) == writer[t] = [at |-> "send", todo |-> <<>>] /\ disp[t].at = "out"

Write(t) ==
  /\ Idle(t)
  /\ initialized
  /\ logged < MaxRecords
  /\ \E level \in Levels, long \in BOOLEAN :
       /\ level >= config.level
       /\ writer' = [writer EXCEPT ![t] =
            [at |-> "enabled", todo |-> <<[id |-> logged + 1, level |-> level, long |-> long, count |-> 0]>>]]
  /\ logged' = logged + 1
  /\ UNCHANGED <<initialized, config, ctl, rlVars, dispatcherVars>>

\* The test of rl_enabled without the mutex.
LimitEnabled(t) ==
  /\ writer[t].at = "enabled"
  /\ writer' = [writer EXCEPT ![t].at = IF rl.enabled THEN "limit" ELSE "send"]
  /\ UNCHANGED <<initialized, config, ctl, logged, rlVars, dispatcherVars>>

Summary(rec) == [id |-> -rec.id, level |-> Warn, long |-> FALSE, count |-> rl.count]

\* The section under rl_mutex, which tests rl_enabled again.
Limit(t) ==
  /\ writer[t].at = "limit"
  /\ \/ /\ ~rl.enabled
        /\ writer' = [writer EXCEPT ![t].at = "send"]
        /\ UNCHANGED <<rl, passes, suppressed>>
     \/ /\ rl.enabled
        /\ Pass
        /\ writer' = [writer EXCEPT ![t] =
                        [at |-> "send",
                         todo |-> IF rl.count > 0 THEN <<Summary(@.todo[1])>> \o @.todo ELSE @.todo]]
     \/ /\ rl.enabled
        /\ Deny
        /\ writer' = [writer EXCEPT ![t] = [at |-> "send", todo |-> <<>>]]
  /\ UNCHANGED <<now, initialized, config, ctl, logged, dispatcherVars>>

\* The summary of what was suppressed, then the record.
Send(t) ==
  /\ writer[t].at = "send"
  /\ writer[t].todo # <<>>
  /\ Dispatch(t, Head(writer[t].todo), config.level)
  /\ writer' = [writer EXCEPT ![t].todo = Tail(@)]
  /\ UNCHANGED <<initialized, config, ctl, logged, rlVars>>

SendStep(t) == DispatchStep(t) /\ UNCHANGED <<syncVars, rlVars>>

(***************************************************************************)
(* log_init: the configuration, the bucket, the sinks; without a sink the  *)
(* initialisation fails and leaves the first two as they are.              *)
(***************************************************************************)
At(a) == ctl.at = a
Go(a) == ctl' = [ctl EXCEPT !.at = a]
Call(a) == At("idle") /\ ctl.ops < MaxOps /\ ctl' = [ctl EXCEPT !.at = a, !.ops = @ + 1]

LogInit ==
  /\ Call("init_limit")
  /\ ~initialized
  /\ config' \in Configs
  /\ UNCHANGED <<initialized, writer, logged, rlVars, dispatcherVars>>

SetLimit ==
  /\ ctl.at \in {"init_limit", "reload_limit"}
  /\ InitFor(config.limit, config.perSec, config.burst)
  /\ Go(IF At("init_limit") THEN "init_sinks" ELSE "reload_build")
  /\ UNCHANGED <<now, initialized, config, writer, logged, dispatcherVars>>

InitSinks ==
  /\ At("init_sinks")
  /\ \/ /\ UNCHANGED <<dispatcherVars, initialized>>
     \/ /\ \E made \in 1 .. config.sinks : made <= Cardinality(Free) /\ InitDispatcher(made)
        /\ initialized' = TRUE
  /\ Go("idle")
  /\ UNCHANGED <<config, writer, logged, rlVars>>

(***************************************************************************)
(* log_reload and logger_reload: the configuration is live as soon as it   *)
(* is read, also when reading it fails half-way; the new sinks replace the *)
(* old in one step under the mutex, the old are destroyed one by one after *)
(* it.                                                                     *)
(***************************************************************************)
LogReload ==
  /\ Call("reload_limit") \/ Call("idle")
  /\ initialized
  /\ config' \in Configs
  /\ UNCHANGED <<initialized, writer, logged, rlVars, dispatcherVars>>

ReloadBuild ==
  /\ At("reload_build")
  /\ \/ Go("idle") /\ UNCHANGED dispatcherVars
     \/ \E made \in 1 .. config.sinks :
          /\ made <= Cardinality(Free)
          /\ BuildSnapshot(FirstFree(made))
          /\ ctl' = [ctl EXCEPT !.at = "reload_commit", !.snap = FirstFree(made)]
  /\ UNCHANGED <<initialized, config, writer, logged, rlVars>>

ReloadCommit ==
  /\ At("reload_commit")
  /\ SwapSinks(ctl.snap)
  /\ ctl' = [ctl EXCEPT !.at = "reload_destroy", !.snap = <<>>, !.old = sinks]
  /\ UNCHANGED <<initialized, config, writer, logged, rlVars>>

ReloadDestroy ==
  /\ At("reload_destroy")
  /\ \/ ctl.old = <<>> /\ Go("idle") /\ UNCHANGED dispatcherVars
     \/ /\ ctl.old # <<>>
        /\ DestroyOld(Head(ctl.old))
        /\ ctl' = [ctl EXCEPT !.old = Tail(@)]
  /\ UNCHANGED <<initialized, config, writer, logged, rlVars>>

(***************************************************************************)
(* log_destroy: the flag first, then the sinks, then the bucket.           *)
(***************************************************************************)
LogDestroy ==
  /\ Call("destroy_sinks")
  /\ initialized
  /\ initialized' = FALSE
  /\ UNCHANGED <<config, writer, logged, rlVars, dispatcherVars>>

DestroyRest ==
  \/ /\ At("destroy_sinks")
     /\ DestroySinks
     /\ Go("destroy_limit")
     /\ UNCHANGED <<initialized, config, writer, logged, rlVars>>
  \/ /\ At("destroy_limit")
     /\ ResetFor
     /\ Go("idle")
     /\ UNCHANGED <<now, initialized, config, writer, logged, dispatcherVars>>

\* log_add_sink, with a sink the application made; the logger destroys it from then on.
LogAddSink ==
  /\ Call("idle")
  /\ initialized
  /\ Free # {}
  /\ \E min \in Levels : AddSink(FirstFree(1)[1], min)
  /\ UNCHANGED <<initialized, config, writer, logged, rlVars>>

\* log_remove_sink; the application then destroys the sink itself.
LogRemoveSink ==
  /\ At("idle")
  /\ ctl.ops < MaxOps
  /\ \E s \in InArray :
       /\ sink[s].by = "app"
       /\ RemoveSink(s)
       /\ ctl' = [ctl EXCEPT !.at = "reload_destroy", !.ops = @ + 1, !.old = <<s>>]
  /\ UNCHANGED <<initialized, config, writer, logged, rlVars>>

SyncNext ==
  \/ \E t \in Writers : Write(t) \/ LimitEnabled(t) \/ Limit(t) \/ Send(t) \/ SendStep(t)
  \/ LogInit \/ SetLimit \/ InitSinks
  \/ LogReload \/ ReloadBuild \/ ReloadCommit \/ ReloadDestroy
  \/ LogDestroy \/ DestroyRest \/ LogAddSink \/ LogRemoveSink
  \/ Tick /\ UNCHANGED <<syncVars, dispatcherVars>>

SyncSpec == SyncInit /\ [][SyncNext]_<<syncVars, rlVars, dispatcherVars>>

Holders == InArray \cup {ctl.snap[i] : i \in DOMAIN ctl.snap} \cup {ctl.old[i] : i \in DOMAIN ctl.old}

(***************************************************************************)
(* No sink is lost or freed twice across init, reload, failed reload,      *)
(* destroy, add and remove: every live sink is in the array or in the      *)
(* hands of the operation that is replacing it, except the plugin sinks    *)
(* that log_dispatcher_init_for made past the end of its array; and no     *)
(* sink is in two of these places.                                         *)
(***************************************************************************)
NoSinkLost ==
  /\ Holders \subseteq {s \in Sinks : Live(s)}
  /\ \A s \in Sinks : Live(s) => s \in Holders \/ sink[s].by = "past"
  /\ Cardinality(Holders) = Len(sinks) + Len(ctl.snap) + Len(ctl.old)

(***************************************************************************)
(* A sink lives exactly as long as somebody can write to it: no write      *)
(* reaches a destroyed sink, and no sink survives its last holder.         *)
(***************************************************************************)
SinkLifetimes == NoDeadSink /\ NoSinkLost
=============================================================================
