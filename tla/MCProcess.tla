----------------------------- MODULE MCProcess -----------------------------
(***************************************************************************)
(* The process for TLC: the life of the default logger, or the forks of a  *)
(* process that logs.                                                      *)
(***************************************************************************)
EXTENDS Lifecycle, ForkHandlers

VARIABLE part      \* which of the two this behaviour is

processVars == <<part, allLifeVars, forkVars>>

MCFeatures ==
  {[signals |-> TRUE, prometheus |-> FALSE, plugins |-> <<>>],
   [signals |-> FALSE, prometheus |-> TRUE, plugins |-> <<>>],
   [signals |-> FALSE, prometheus |-> FALSE, plugins |-> <<"p">>],
   [signals |-> FALSE, prometheus |-> FALSE, plugins |-> <<"p", "q">>]}

(***************************************************************************)
(* In one behaviour the configurations differ in their plugins only, and   *)
(* what a feature is not configured for does not happen.                   *)
(***************************************************************************)
SameKind ==
  /\ features'.signals = features.signals
  /\ features'.prometheus = features.prometheus
  /\ (features'.plugins = <<>>) = (features.plugins = <<>>)
  /\ ~features.signals => sentSignals' = sentSignals /\ written'.all = written.all
  /\ features.signals => life'.lives = life.lives \/ (~up /\ life.lives < 2)
  /\ ~features.prometheus => metric' = metric /\ prom' = prom
  /\ features.plugins = <<>> => instance' = instance /\ handle' = handle

ProcessInit ==
  /\ LifeInit
  /\ ForkInit
  /\ part \in {"life", "fork"}
  /\ part = "life" => Len(features.plugins) < 2
  /\ part = "fork" => features.signals
  /\ action = [s \in Signals |-> IF s = "TERM" THEN "default" ELSE "app"]

ProcessNext ==
  /\ \/ part = "life" /\ LifeNext /\ SameKind /\ UNCHANGED forkVars
     \/ part = "fork" /\ ForkNext /\ UNCHANGED allLifeVars
  /\ UNCHANGED part

Spec == ProcessInit /\ [][ProcessNext]_processVars /\ LifeFairness
=============================================================================
