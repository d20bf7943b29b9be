---------------------------- MODULE PluginLoader ----------------------------
(***************************************************************************)
(* The cache of plugin libraries (core/plugin_loader.c, the POSIX build)   *)
(* and the sinks made from them.  Every operation on the cache is one      *)
(* section under g_plugin_mutex; the creation of a sink from a handle is   *)
(* not.  The dynamic loader counts the references to a library and unmaps  *)
(* it when the last is closed.                                             *)
(***************************************************************************)
EXTENDS Integers, Sequences, FiniteSets

CONSTANTS
  Paths,           \* the paths of the plugin libraries
  Slots            \* the slots of g_handles: 1 .. CLOGX_MAX_LOADED_PLUGINS

VARIABLES
  handle,          \* g_handles: of every slot the path it holds, NoPath when it is not used
  handles,         \* g_handle_count
  refs,            \* external, of the dynamic loader: the references to each library
  made             \* the sinks that plugins have made and that live: their owner and library,
                   \* and (history) whether an instance's sink has outlived a shutdown

pluginVars == <<handle, handles, refs, made>>

NoPath == "none"

PluginInit ==
  /\ handle = [k \in Slots |-> NoPath]
  /\ handles = 0
  /\ refs = [p \in Paths |-> 0]
  /\ made = {}

Used == {k \in Slots : handle[k] # NoPath}
First(S) == CHOOSE k \in S : \A j \in S : k <= j
Holding(p) == {k \in Slots : handle[k] = p}

\* find_slot_locked.
Cached(p) == Holding(p)

(***************************************************************************)
(* log_plugin_load, with the slot it returns, 0 for NULL: the slot that    *)
(* holds the path, no free slot, a library that cannot be opened or is     *)
(* closed again for its descriptor or its ABI version, or a new slot.      *)
(***************************************************************************)
Load(p, k) ==
  \/ Cached(p) # {} /\ k = First(Cached(p)) /\ UNCHANGED pluginVars
  \/ Cached(p) = {} /\ k = 0 /\ UNCHANGED pluginVars
  \/ /\ Cached(p) = {}
     /\ Used # Slots
     /\ k = First(Slots \ Used)
     /\ handle' = [handle EXCEPT ![k] = p]
     /\ handles' = handles + 1
     /\ refs' = [refs EXCEPT ![p] = @ + 1]
     /\ UNCHANGED made

\* log_plugin_create_sink: the library in the slot now makes the sink; it may make none.
CreateSink(k, owner) ==
  /\ handle[k] # NoPath
  /\ made' = made \cup {[owner |-> owner, path |-> handle[k], outlived |-> FALSE]}
  /\ UNCHANGED <<handle, handles, refs>>

DropSinks(owner) ==
  made' = {s \in made : s.owner # owner} /\ UNCHANGED <<handle, handles, refs>>

\* The sinks of a committed snapshot are the logger's own.
TakeSinks(from, to) ==
  /\ made' = {s \in made : s.owner \notin {from, to}}
               \cup {[s EXCEPT !.owner = to] : s \in {r \in made : r.owner = from}}
  /\ UNCHANGED <<handle, handles, refs>>

\* log_plugin_unload, called by an application that has destroyed the library's sinks.
Unload(k) ==
  /\ handle[k] # NoPath
  /\ \A s \in made : s.path # handle[k]
  /\ handle' = [handle EXCEPT ![k] = NoPath]
  /\ handles' = handles - 1
  /\ refs' = [refs EXCEPT ![handle[k]] = @ - 1]
  /\ UNCHANGED made

\* log_plugin_shutdown_all.
ShutdownAll ==
  /\ handle' = [k \in Slots |-> NoPath]
  /\ handles' = 0
  /\ refs' = [p \in Paths |-> refs[p] - Cardinality(Holding(p))]
  /\ made' = {[s EXCEPT !.outlived = @ \/ s.owner = "instance"] : s \in made}

(***************************************************************************)
(* The cache and the dynamic loader agree over any sequence of loads,      *)
(* scans, failures, unloads and shutdowns: a library is held by one slot   *)
(* at most, has one reference for it and none otherwise (no leaked and no  *)
(* doubly closed handle), and g_handle_count is the number of used slots.  *)
(***************************************************************************)
CacheExact ==
  /\ handles = Cardinality(Used)
  /\ \A p \in Paths : refs[p] = Cardinality(Holding(p)) /\ refs[p] <= 1
=============================================================================
