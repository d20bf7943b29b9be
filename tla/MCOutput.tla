------------------------------ MODULE MCOutput ------------------------------
(***************************************************************************)
(* The output side for TLC, in five parts: the synchronous logger with its *)
(* rate limiter and a clock, the same with many sinks, the file sink, the  *)
(* socket sink, and the asynchronous socket sink with its ring.            *)
(***************************************************************************)
EXTENDS SyncLogger, FileSink, SocketSink, SocketWriter, TLC

VARIABLE part      \* which part this behaviour is about

loggerVars == <<syncVars, rlVars, dispatcherVars>>
outputVars == <<part, loggerVars, fileVars, socketVars, asyncVars>>

LimitConfigs == {[level |-> 0, limit |-> on, perSec |-> 400, burst |-> 1, sinks |-> 1] : on \in BOOLEAN}
SinkConfigs == {[level |-> l, limit |-> FALSE, perSec |-> 0, burst |-> 0, sinks |-> 3] : l \in {0, 1}}
MCConfigs == LimitConfigs \cup SinkConfigs

\* One short line at a time to a sink or two of the configuration; the clock runs.
LimitOnly ==
  /\ config' \in LimitConfigs \cup {NoConfig}
  /\ ctl'.ops <= 2
  /\ \A t \in Writers : \A i \in DOMAIN writer'[t].todo :
       ~writer'[t].todo[i].long /\ writer'[t].todo[i].level < 2
  /\ \A s \in Sinks : sink'[s].by = "config" /\ (s > 2 => sink'[s].life = "free")

\* Sinks come and go; the clock stands still.
SinksOnly ==
  /\ config' \in SinkConfigs \cup {NoConfig}
  /\ logged' <= 2
  /\ now' = now

OutputInit ==
  /\ part \in {"limit", "sinks", "file", "socket", "ring"}
  /\ SyncInit
  /\ FileInit
  /\ SocketInit
  /\ WriterInit
  /\ part # "file" => backups = 0

OutputNext ==
  /\ \/ /\ part \in {"limit", "sinks"}
        /\ SyncNext
        /\ part = "limit" => LimitOnly
        /\ part = "sinks" => SinksOnly
        /\ UNCHANGED <<fileVars, socketVars, asyncVars>>
     \/ part = "file" /\ FileNext /\ UNCHANGED <<loggerVars, socketVars, asyncVars>>
     \/ part = "socket" /\ SocketNext /\ UNCHANGED <<loggerVars, fileVars, asyncVars>>
     \/ part = "ring" /\ WriterNext /\ UNCHANGED <<loggerVars, fileVars, socketVars>>
  /\ UNCHANGED part

OutputSpec == OutputInit /\ [][OutputNext]_outputVars

Symmetry == Permutations(Writers) \cup Permutations(Producers)
=============================================================================
