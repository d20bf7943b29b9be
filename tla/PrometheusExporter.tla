------------------------- MODULE PrometheusExporter -------------------------
(***************************************************************************)
(* The metrics server (core/prometheus_exporter.c): the worker thread that *)
(* accepts and answers one scrape at a time, clients, and the start and    *)
(* stop that a controlling thread performs.  A server socket and the       *)
(* worker made with it have the same number.  Of the metrics one counter   *)
(* is kept, the suppressed messages, which log_rate_limit_reset_for sets   *)
(* back to zero.                                                           *)
(***************************************************************************)
EXTENDS Integers, Sequences

CONSTANTS
  MaxServers,      \* bound on the servers started
  MaxClients,      \* bound on the clients that connect
  MaxMetric        \* bound on the counter

VARIABLES
  prom,            \* g_prom_running, g_prom_server_fd (0: invalid), g_prom_thread
  worker,          \* of every worker: where it is, the server it took from the shared state
  listening,       \* the server sockets that are open
  clients,         \* the clients waiting, and how many have come
  metric,          \* rl_total_suppressed
  scrapes          \* history: of every worker the values it has rendered

promVars == <<prom, worker, listening, clients, metric, scrapes>>

PromInit ==
  /\ prom = [running |-> FALSE, fd |-> 0, thread |-> 0]
  /\ worker = <<>>
  /\ listening = {}
  /\ clients = [waiting |-> 0, come |-> 0]
  /\ metric = 0
  /\ scrapes = <<>>

(***************************************************************************)
(* clog_prometheus_exporter_start, one section under g_prom_mutex: nothing *)
(* when it runs already, nothing but an error when the socket, bind,       *)
(* listen or the thread fails.                                             *)
(***************************************************************************)
Starts ==
  /\ ~prom.running
  /\ Len(worker) < MaxServers
  /\ LET n == Len(worker) + 1 IN
     /\ prom' = [running |-> TRUE, fd |-> n, thread |-> n]
     /\ worker' = Append(worker, [at |-> "snapshot", fd |-> 0])
     /\ listening' = listening \cup {n}
     /\ scrapes' = Append(scrapes, <<>>)
  /\ UNCHANGED <<clients, metric>>

StartFails == ~prom.running /\ prom' = [prom EXCEPT !.fd = 0] /\ UNCHANGED <<worker, listening, clients, metric, scrapes>>

PromStart == Starts \/ StartFails \/ (prom.running /\ UNCHANGED promVars)

(***************************************************************************)
(* clog_prometheus_exporter_stop: the flag and the socket under the mutex; *)
(* after it g_prom_thread is read and that thread joined.                  *)
(***************************************************************************)
CloseNothing ==
  /\ prom' = [prom EXCEPT !.running = FALSE, !.fd = 0]
  /\ UNCHANGED <<worker, listening, clients, metric, scrapes>>

PromStop ==
  /\ prom' = [prom EXCEPT !.running = FALSE, !.fd = 0]
  /\ listening' = listening \ {prom.fd}
  /\ clients' = [clients EXCEPT !.waiting = 0]
  /\ UNCHANGED <<worker, metric, scrapes>>

\* Mutant: the stop returns without the join.
JoinEarly(w) == TRUE

Joined(w) == worker[w].at = "exited"

(***************************************************************************)
(* prometheus_worker_thread.                                               *)
(***************************************************************************)
WorkerAt(w, a) == worker[w].at = a
WorkerGo(w, a) == worker' = [worker EXCEPT ![w].at = a]

Snapshot(w) ==
  /\ WorkerAt(w, "snapshot")
  /\ worker' = [worker EXCEPT ![w] = IF prom.running THEN [at |-> "accept", fd |-> prom.fd]
                                                     ELSE [at |-> "exited", fd |-> 0]]
  /\ UNCHANGED <<prom, listening, clients, metric, scrapes>>

\* accept blocks until a client comes or the socket is shut down.
Accept(w) ==
  /\ WorkerAt(w, "accept")
  /\ \/ /\ worker[w].fd \in listening
        /\ clients.waiting > 0
        /\ clients' = [clients EXCEPT !.waiting = @ - 1]
        /\ WorkerGo(w, "recv")
     \/ /\ worker[w].fd \notin listening
        /\ WorkerGo(w, IF prom.running THEN "snapshot" ELSE "exited")
        /\ UNCHANGED clients
  /\ UNCHANGED <<prom, listening, metric, scrapes>>

\* recv returns a request, or nothing after its timeout; the client is closed in either case.
Recv(w) ==
  /\ WorkerAt(w, "recv")
  /\ WorkerGo(w, "render") \/ WorkerGo(w, "snapshot")
  /\ UNCHANGED <<prom, listening, clients, metric, scrapes>>

\* clog_prometheus_render_metrics and send.
Render(w) ==
  /\ WorkerAt(w, "render")
  /\ scrapes' = [scrapes EXCEPT ![w] = Append(@, metric)]
  /\ WorkerGo(w, "snapshot")
  /\ UNCHANGED <<prom, listening, clients, metric>>

WorkerStep(w) == Snapshot(w) \/ Accept(w) \/ Recv(w) \/ Render(w)

ClientConnects ==
  /\ listening # {}
  /\ clients.come < MaxClients
  /\ clients' = [waiting |-> clients.waiting + 1, come |-> clients.come + 1]
  /\ UNCHANGED <<prom, worker, listening, metric, scrapes>>

MessageSuppressed ==
  /\ metric < MaxMetric
  /\ metric' = metric + 1
  /\ UNCHANGED <<prom, worker, listening, clients, scrapes>>

MetricReset == metric' = 0 /\ UNCHANGED <<prom, worker, listening, clients, scrapes>>

(***************************************************************************)
(* A counter scraped from one server never goes down: log_destroy resets   *)
(* it only after the exporter has been stopped and its worker joined.      *)
(***************************************************************************)
ScrapesMonotone ==
  \A w \in DOMAIN scrapes : \A i, j \in DOMAIN scrapes[w] : i < j => scrapes[w][i] <= scrapes[w][j]
=============================================================================
