---------------------------- MODULE SignalHandler ----------------------------
(***************************************************************************)
(* The signal handling of the default logger (core/signal_handler.c, the   *)
(* POSIX build): a handler that only notes the signal, the processing of   *)
(* what was noted by whichever thread logs next or serves the self-pipe,   *)
(* and the installation and restoration of the dispositions.  Signals come *)
(* between any two steps.  The caught signal's disposition is back at the  *)
(* default (SA_RESETHAND) until it is installed again.                     *)
(***************************************************************************)
EXTENDS Integers, Sequences

CONSTANTS
  AppThreads,      \* the threads that log
  Signals,         \* SIGTERM and SIGINT
  OldActions,      \* the dispositions the application may have had: "default", "app"
  MaxSignals,      \* bound on the signals sent
  MaxCalls         \* bound on the log calls

VARIABLES
  action,          \* the disposition of each signal: "default", "app" or "ours"
  saved,           \* g_old_sigterm, g_old_sigint
  installed,       \* g_installed
  pending,         \* g_signal_pending, NoSignal: 0
  pipe,            \* g_signal_pipe: open, and the bytes in it
  proc,            \* of every thread: where it is in log_process_pending_signals
  fate,            \* how the process ended
  owed,            \* history: the signals caught and neither re-raised nor overwritten
  written,         \* history: records written, records flushed, written when a signal was caught
  sentSignals      \* history: the number of signals sent

signalVars == <<action, saved, installed, pending, pipe, proc, fate, owed, written, sentSignals>>

NoSignal == "none"
NotIn == [at |-> "out", sig |-> NoSignal, mark |-> 0]
NoPipe == [open |-> FALSE, bytes |-> <<>>]
Alive == [by |-> "nobody", mark |-> 0]

SignalInit ==
  /\ action \in [Signals -> OldActions]
  /\ saved = action
  /\ installed = FALSE
  /\ pending = NoSignal
  /\ pipe = NoPipe
  /\ proc = [t \in AppThreads |-> NotIn]
  /\ fate = Alive
  /\ owed = {}
  /\ written = [all |-> 0, flushed |-> 0, caught |-> [s \in Signals |-> 0]]
  /\ sentSignals = 0

Running == fate.by = "nobody"

\* log_signal_handler.
Handler(s) ==
  /\ pending' = s
  /\ pipe' = IF pipe.open THEN [pipe EXCEPT !.bytes = Append(@, s)] ELSE pipe
  /\ action' = [action EXCEPT ![s] = "default"]
  /\ written' = [written EXCEPT !.caught[s] = written.all]

\* What the kernel does with a signal, sent to the process or raised.
Delivered(s, by, mark) ==
  \/ /\ action[s] = "ours"
     /\ Handler(s)
     /\ owed' = (owed \ {pending}) \cup {s}
     /\ UNCHANGED fate
  \/ /\ action[s] = "app"
     /\ owed' = IF by = "raise" THEN owed \ {s} ELSE owed
     /\ UNCHANGED <<pending, pipe, action, written, fate>>
  \/ /\ action[s] = "default"
     /\ fate' = [by |-> by, mark |-> mark]
     /\ UNCHANGED <<pending, pipe, action, written, owed>>

SendSignal(s) ==
  /\ Running
  /\ sentSignals < MaxSignals
  /\ sentSignals' = sentSignals + 1
  /\ Delivered(s, "signal", 0)
  /\ UNCHANGED <<saved, installed, proc>>

Where(t, a) == Running /\ proc[t].at = a
Step(t, a) == proc' = [proc EXCEPT ![t].at = a]

(***************************************************************************)
(* A log call of the default logger (logger_writevprintf_internal) looks   *)
(* at the pending signal first; an event loop that watches                 *)
(* log_get_signal_fd calls log_process_pending_signals when it is readable.*)
(***************************************************************************)
LogCall(t) ==
  /\ Where(t, "out")
  /\ written.all < MaxCalls
  /\ \/ pending # NoSignal /\ Step(t, "read") /\ UNCHANGED written
     \/ pending = NoSignal /\ written' = [written EXCEPT !.all = @ + 1] /\ UNCHANGED proc
  /\ UNCHANGED <<action, saved, installed, pending, pipe, fate, owed, sentSignals>>

PipeReadable(t) ==
  /\ Where(t, "out")
  /\ pipe.bytes # <<>>
  /\ Step(t, "read")
  /\ UNCHANGED <<action, saved, installed, pending, pipe, fate, owed, written, sentSignals>>

(***************************************************************************)
(* log_process_pending_signals.                                            *)
(***************************************************************************)
ReadSignal(t) ==
  /\ Where(t, "read")
  /\ LET fromPipe == pending = NoSignal /\ pipe.bytes # <<>>
         sig == IF fromPipe THEN Head(pipe.bytes) ELSE pending IN
     /\ pipe' = IF fromPipe THEN [pipe EXCEPT !.bytes = Tail(@)] ELSE pipe
     /\ proc' = [proc EXCEPT ![t] = IF sig = NoSignal THEN NotIn
                                    ELSE [at |-> "clear", sig |-> sig, mark |-> written.caught[sig]]]
  /\ UNCHANGED <<action, saved, installed, pending, fate, owed, written, sentSignals>>

\* g_signal_pending = 0 also wipes a signal that came after the test above.
ClearPending(t) ==
  /\ Where(t, "clear")
  /\ pending' = NoSignal
  /\ owed' = IF pending = proc[t].sig THEN owed ELSE owed \ {pending}
  /\ Step(t, "drain")
  /\ UNCHANGED <<action, saved, installed, pipe, fate, written, sentSignals>>

DrainPipe(t) ==
  /\ Where(t, "drain")
  /\ pipe' = [pipe EXCEPT !.bytes = <<>>]
  /\ Step(t, "flush")
  /\ UNCHANGED <<action, saved, installed, pending, fate, owed, written, sentSignals>>

SkipFlush(t) ==
  /\ Where(t, "flush")
  /\ Step(t, "restore")
  /\ UNCHANGED <<action, saved, installed, pending, pipe, fate, owed, written, sentSignals>>

FlushAll(t) ==
  /\ Where(t, "flush")
  /\ written' = [written EXCEPT !.flushed = written.all]
  /\ Step(t, "restore")
  /\ UNCHANGED <<action, saved, installed, pending, pipe, fate, owed, sentSignals>>

RestoreOne(t) ==
  /\ Where(t, "restore")
  /\ action' = [action EXCEPT ![proc[t].sig] = IF installed THEN saved[proc[t].sig] ELSE "default"]
  /\ Step(t, "raise")
  /\ UNCHANGED <<saved, installed, pending, pipe, fate, owed, written, sentSignals>>

RaiseThenClear(t) ==
  /\ Where(t, "raise")
  /\ pending' = NoSignal
  /\ owed' = owed \ {proc[t].sig}
  /\ fate' = IF action[proc[t].sig] = "default" THEN [by |-> "raise", mark |-> proc[t].mark] ELSE fate
  /\ proc' = [proc EXCEPT ![t] = NotIn]
  /\ UNCHANGED <<action, saved, installed, pipe, written, sentSignals>>

Raise(t) ==
  /\ Where(t, "raise")
  /\ Delivered(proc[t].sig, "raise", proc[t].mark)
  /\ proc' = [proc EXCEPT ![t] = NotIn]
  /\ UNCHANGED <<saved, installed, sentSignals>>

ProcessStep(t) ==
  \/ ReadSignal(t) \/ ClearPending(t) \/ DrainPipe(t) \/ FlushAll(t) \/ RestoreOne(t) \/ Raise(t)

(***************************************************************************)
(* log_install_signal_handlers, one system call a step; the controlling    *)
(* thread of Lifecycle calls them in this order.                           *)
(***************************************************************************)
OpenPipe ==
  /\ pipe' = [pipe EXCEPT !.open = TRUE]
  /\ UNCHANGED <<action, saved, installed, pending, proc, fate, owed, written, sentSignals>>

InstallOne(s) ==
  /\ saved' = [saved EXCEPT ![s] = action[s]]
  /\ action' = [action EXCEPT ![s] = "ours"]
  /\ UNCHANGED <<installed, pending, pipe, proc, fate, owed, written, sentSignals>>

\* A signal caught since its handler is in place is wiped here too.
EndInstall ==
  /\ installed' = TRUE
  /\ pending' = NoSignal
  /\ owed' = owed \ {pending}
  /\ UNCHANGED <<action, saved, pipe, proc, fate, written, sentSignals>>

\* log_restore_signal_handlers: the dispositions, then the pipe and the flags.
RestoreAll ==
  /\ action' = saved
  /\ UNCHANGED <<saved, installed, pending, pipe, proc, fate, owed, written, sentSignals>>

EndRestore ==
  /\ pipe' = NoPipe
  /\ installed' = FALSE
  /\ pending' = NoSignal
  /\ owed' = owed \ {pending}
  /\ UNCHANGED <<action, saved, proc, fate, written, sentSignals>>

(***************************************************************************)
(* A caught signal is not forgotten: from the handler on it is pending, or *)
(* a thread is on its way to raise it, whatever other threads process      *)
(* meanwhile.  A signal is given up only when another one comes on top of  *)
(* it, when it falls between a thread's test of g_signal_pending and its   *)
(* clearing, or when the handlers are installed or restored under it.      *)
(***************************************************************************)
SignalHeld ==
  Running => \A s \in owed : \/ pending = s
                             \/ \E t \in AppThreads : proc[t].sig = s

(***************************************************************************)
(* A process that dies of the signal it re-raised has flushed, at least,   *)
(* every record written before that signal was caught.                     *)
(***************************************************************************)
DeathFlushed == fate.by = "raise" => written.flushed >= fate.mark
=============================================================================
