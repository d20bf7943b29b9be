----------------------------- MODULE Lifecycle -----------------------------
(***************************************************************************)
(* The life of the default logger (core/log.c): log_init, log_reload and   *)
(* log_destroy with the parts they bring up and take down in order, the    *)
(* signal handlers, the metrics server and the plugins, while application  *)
(* threads log, signals come and clients scrape.  A second thread creates  *)
(* and destroys a logger instance that uses the same plugins.              *)
(***************************************************************************)
EXTENDS SignalHandler, PrometheusExporter, PluginLoader

CONSTANTS
  Features,        \* the configurations: catch_signals, prometheus_enable, the plugin paths
  MaxLives         \* bound on the initialisations and reloads

VARIABLES
  up,              \* g_default_logger.initialized
  features,        \* its configuration
  life,            \* where the controlling thread is, the plugin it is at, the handle it got or
                   \* the worker it joins; history: an exporter started during a log_destroy
  instance         \* the same for the thread with the logger instance

lifeVars == <<up, features, life, instance>>

AtRest == [at |-> "rest", i |-> 0, k |-> 0, lives |-> 0, late |-> FALSE]

LifeInit ==
  /\ SignalInit
  /\ PromInit
  /\ PluginInit
  /\ up = FALSE
  /\ features \in Features
  /\ life = AtRest
  /\ instance = AtRest

LifeAt(a) == Running /\ life.at = a
LifeGo(a) == life' = [life EXCEPT !.at = a]
NewLife(a) == LifeAt("rest") /\ life.lives < MaxLives
              /\ life' = [life EXCEPT !.at = a, !.i = 1, !.lives = @ + 1]
OnlyLife == UNCHANGED <<instance, signalVars, promVars, pluginVars>>

(***************************************************************************)
(* log_init: the plugins of the configuration one by one (a plugin that    *)
(* fails is left out), then initialized, the signal handlers, the metrics  *)
(* server.  Any step before initialized may fail and end it.               *)
(***************************************************************************)
LogInit ==
  /\ NewLife("load")
  /\ ~up
  /\ features' \in Features
  /\ OnlyLife /\ UNCHANGED up

\* log_reload builds the new sinks the same way, and takes them over at the commit.
LogReload ==
  /\ NewLife("load")
  /\ up
  /\ features' \in Features
  /\ OnlyLife /\ UNCHANGED up

Owner == IF up THEN "snapshot" ELSE "default"

LoadPlugin ==
  /\ LifeAt("load")
  /\ life.i <= Len(features.plugins)
  /\ \E k \in Slots \cup {0} :
       /\ Load(features.plugins[life.i], k)
       /\ life' = IF k = 0 THEN [life EXCEPT !.i = @ + 1] ELSE [life EXCEPT !.at = "create", !.k = k]
  /\ UNCHANGED <<up, features, instance, signalVars, promVars>>

CreatePluginSink ==
  /\ LifeAt("create")
  /\ CreateSink(life.k, Owner) \/ UNCHANGED pluginVars
  /\ life' = [life EXCEPT !.at = "load", !.i = @ + 1, !.k = 0]
  /\ UNCHANGED <<up, features, instance, signalVars, promVars>>

LoadedAll == LifeAt("load") /\ life.i > Len(features.plugins)

InitFails ==
  /\ LoadedAll
  /\ ~up
  /\ DropSinks("default")
  /\ LifeGo("rest")
  /\ UNCHANGED <<up, features, instance, signalVars, promVars>>

Initialized ==
  /\ LoadedAll
  /\ ~up
  /\ up' = TRUE
  /\ LifeGo(IF features.signals THEN "pipe" ELSE "export")
  /\ OnlyLife /\ UNCHANGED features

ReloadCommit ==
  /\ LoadedAll
  /\ up
  /\ TakeSinks("snapshot", "default")
  /\ LifeGo("rest")
  /\ UNCHANGED <<up, features, instance, signalVars, promVars>>

\* A reload that makes no sink leaves the old ones; the new configuration stays.
ReloadFails ==
  /\ LoadedAll
  /\ up
  /\ \A s \in made : s.owner # "snapshot"
  /\ LifeGo("rest")
  /\ OnlyLife /\ UNCHANGED <<up, features>>

FirstSignal == CHOOSE s \in Signals : TRUE

InstallHandlers ==
  /\ \/ LifeAt("pipe") /\ OpenPipe /\ LifeGo("first")
     \/ LifeAt("first") /\ InstallOne(FirstSignal) /\ LifeGo("second")
     \/ /\ LifeAt("second")
        /\ \E s \in Signals \ {FirstSignal} : InstallOne(s)
        /\ LifeGo("noted")
     \/ LifeAt("noted") /\ EndInstall /\ LifeGo("export")
  /\ UNCHANGED <<up, features, instance, promVars, pluginVars>>

StartExporter ==
  /\ LifeAt("export")
  /\ IF features.prometheus THEN PromStart ELSE UNCHANGED promVars
  /\ LifeGo("rest")
  /\ UNCHANGED <<up, features, instance, signalVars, pluginVars>>

(***************************************************************************)
(* log_destroy: initialized first, then the exporter, the handlers, the    *)
(* sinks, the rate limiter with its counter, and at last the plugins.      *)
(***************************************************************************)
LogDestroy ==
  /\ LifeAt("rest")
  /\ up
  /\ up' = FALSE
  /\ LifeGo("stop")
  /\ OnlyLife /\ UNCHANGED features

StopExporter ==
  /\ \/ LifeAt("stop") /\ prom.running /\ PromStop /\ LifeGo("thread")
     \/ LifeAt("stop") /\ ~prom.running /\ UNCHANGED promVars /\ LifeGo("restore")
     \/ LifeAt("thread") /\ UNCHANGED promVars /\ life' = [life EXCEPT !.at = "join", !.k = prom.thread]
     \/ /\ LifeAt("join") /\ Joined(life.k) /\ UNCHANGED promVars
        /\ life' = [life EXCEPT !.at = "restore", !.k = 0]
  /\ UNCHANGED <<up, features, instance, signalVars, pluginVars>>

RestoreHandlers ==
  /\ \/ LifeAt("restore") /\ ~installed /\ UNCHANGED signalVars /\ LifeGo("sinks")
     \/ LifeAt("restore") /\ installed /\ RestoreAll /\ LifeGo("restored")
     \/ LifeAt("restored") /\ EndRestore /\ LifeGo("sinks")
  /\ UNCHANGED <<up, features, instance, promVars, pluginVars>>

UnloadUnderSinks ==
  /\ LifeAt("sinks")
  /\ ShutdownAll
  /\ LifeGo("limiter")
  /\ UNCHANGED <<up, features, instance, signalVars, promVars>>

\* Closing a sink flushes it.
DestroySinks ==
  /\ LifeAt("sinks")
  /\ DropSinks("default")
  /\ written' = [written EXCEPT !.flushed = written.all]
  /\ LifeGo("limiter")
  /\ UNCHANGED <<up, features, instance, promVars, action, saved, installed, pending, pipe, proc,
                 fate, owed, sentSignals>>

ResetLimiter ==
  /\ LifeAt("limiter")
  /\ MetricReset
  /\ LifeGo("plugins")
  /\ UNCHANGED <<up, features, instance, signalVars, pluginVars>>

UnloadPlugins ==
  /\ LifeAt("plugins")
  /\ ShutdownAll
  /\ LifeGo("rest")
  /\ UNCHANGED <<up, features, instance, signalVars, promVars>>

\* log_plugin_load called by the application, and every turn of log_plugin_scan.
AppLoad ==
  /\ LifeAt("rest")
  /\ \E p \in Paths, k \in Slots \cup {0} : Load(p, k)
  /\ UNCHANGED <<lifeVars, signalVars, promVars>>

\* log_destroy past the section in which it stops the exporter.
Stopped == life.at \in {"thread", "join", "restore", "restored", "sinks", "limiter"}

\* Any thread of the application starts the metrics server, at any time.
AppExport ==
  /\ Running
  /\ PromStart
  /\ life' = [life EXCEPT !.late = @ \/ (Stopped /\ prom'.running)]
  /\ UNCHANGED <<up, features, instance, signalVars, pluginVars>>

\* The application unloads a library it has no sink of.
AppUnload ==
  /\ LifeAt("rest")
  /\ \E k \in Slots : Unload(k)
  /\ UNCHANGED <<lifeVars, signalVars, promVars>>

(***************************************************************************)
(* logger_create and logger_destroy on another thread, with one plugin.    *)
(* Nothing orders them with log_destroy: the slot may be empty, or hold    *)
(* another library, when the sink is made from it.                         *)
(***************************************************************************)
InstanceAt(a) == Running /\ instance.at = a

InstanceStep ==
  /\ \/ /\ InstanceAt("rest")
        /\ instance.lives < MaxLives
        /\ \E p \in Paths, k \in Slots \cup {0} :
             /\ Load(p, k)
             /\ instance' = [instance EXCEPT !.at = IF k = 0 THEN "live" ELSE "create", !.k = k,
                                             !.lives = @ + 1]
     \/ /\ InstanceAt("create")
        /\ CreateSink(instance.k, "instance") \/ UNCHANGED pluginVars
        /\ instance' = [instance EXCEPT !.at = "live"]
     \/ /\ InstanceAt("live")
        /\ DropSinks("instance")
        /\ instance' = [instance EXCEPT !.at = "rest"]
  /\ UNCHANGED <<up, features, life, signalVars, promVars>>

(***************************************************************************)
(* The other threads.                                                      *)
(***************************************************************************)
AppStep(t) ==
  /\ \/ up /\ LogCall(t)
     \/ PipeReadable(t)
     \/ ProcessStep(t)
  /\ UNCHANGED <<lifeVars, promVars, pluginVars>>

SignalComes ==
  /\ \E s \in Signals : SendSignal(s)
  /\ UNCHANGED <<lifeVars, promVars, pluginVars>>

ExporterStep(w) == Running /\ WorkerStep(w) /\ UNCHANGED <<lifeVars, signalVars, pluginVars>>

WorldStep ==
  /\ Running
  /\ ClientConnects \/ (up /\ MessageSuppressed)
  /\ UNCHANGED <<lifeVars, signalVars, pluginVars>>

LifeStep ==
  \/ LoadPlugin \/ CreatePluginSink \/ InitFails \/ Initialized \/ ReloadCommit \/ ReloadFails
  \/ InstallHandlers \/ StartExporter
  \/ StopExporter \/ RestoreHandlers \/ DestroySinks \/ ResetLimiter \/ UnloadPlugins

LifeNext ==
  \/ LogInit \/ LogReload \/ LogDestroy \/ LifeStep
  \/ AppLoad \/ AppUnload \/ AppExport
  \/ InstanceStep
  \/ \E t \in AppThreads : AppStep(t)
  \/ SignalComes
  \/ \E w \in DOMAIN worker : ExporterStep(w)
  \/ WorldStep

allLifeVars == <<lifeVars, signalVars, promVars, pluginVars>>

(***************************************************************************)
(* The threads of the library run; a client's request comes or times out.  *)
(***************************************************************************)
LifeFairness ==
  /\ WF_allLifeVars(LifeStep)
  /\ \A w \in 1 .. MaxServers : WF_allLifeVars(w \in DOMAIN worker /\ ExporterStep(w))

LifeSpec == LifeInit /\ [][LifeNext]_allLifeVars /\ LifeFairness

(***************************************************************************)
(* The code of a plugin sink, of the default logger, of a snapshot under   *)
(* construction or of an instance, is mapped as long as the sink lives,    *)
(* except that of an instance's sink that outlives a log_destroy:          *)
(* log_destroy destroys the default logger's sinks before it closes the    *)
(* libraries, and those of instances, too, whose sinks it does not know.   *)
(***************************************************************************)
SinkCodeMapped == \A s \in made : ~s.outlived => refs[s.path] > 0

(***************************************************************************)
(* One worker at a time: a worker that is still on its way belongs to the  *)
(* server that runs now, or is being waited for.                           *)
(***************************************************************************)
NoStrayWorker ==
  \A w \in DOMAIN worker :
    worker[w].at # "exited" => w = prom.thread /\ (prom.running \/ life.at \in {"thread", "join"})

(***************************************************************************)
(* log_destroy gets past the exporter: closing the server socket releases  *)
(* a worker blocked in accept, and a client that is silent only delays it. *)
(* A start between the section of the stop and its join makes log_destroy  *)
(* join the new worker, which nobody stops; that case is left out.         *)
(***************************************************************************)
ExporterStops == (life.at = "join" /\ Running) ~> (life.at # "join" \/ ~Running \/ life.late)

(***************************************************************************)
(* The exporter of one life does not reach into the next: there is one     *)
(* worker at a time, and it ends before log_destroy resets the counter it  *)
(* reports, so that a counter scraped from one server never goes down.     *)
(* This is so whenever starts come, but not once one has come while        *)
(* log_destroy was past its stop: it revives the old worker beside the new *)
(* one, or the new worker sees the reset.                                  *)
(***************************************************************************)
ExporterConfined == ~life.late => NoStrayWorker /\ ScrapesMonotone

(***************************************************************************)
(* The libraries that are loaded are those the cache holds, once each, and *)
(* those of the live plugin sinks are among them, except of an instance's  *)
(* sink that outlives a log_destroy.                                       *)
(***************************************************************************)
PluginsMapped == CacheExact /\ SinkCodeMapped
=============================================================================
