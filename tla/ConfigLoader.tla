---------------------------- MODULE ConfigLoader ----------------------------
(***************************************************************************)
(* core/config.c: log_config_load_into, the event machine of               *)
(* parse_config_file, and log_config_set and log_set_level.                *)
(*                                                                         *)
(* libyaml is external: its event stream for a document whose root is a    *)
(* mapping is generated here, one event per step, from the stack of open   *)
(* collections.  The handler of each event is translated from the source   *)
(* and sees only the event.  cfgRef collects beside it what the document   *)
(* says, by the position of each pair, so that the two can be compared.    *)
(*                                                                         *)
(* Texts are opaque; a numeral or a size is the number it denotes.         *)
(***************************************************************************)
EXTENDS Integers, Sequences, TLC, FiniteSetsExt

CONSTANTS
  RootKeys,     \* keys of the documents' roots
  InnerKeys,    \* keys of their other mappings
  DocValues,    \* scalars they use as values
  MaxEvents,    \* bound: events of all documents together
  MaxNesting,   \* bound: open collections
  MaxLoads,     \* bound: loads, the first and the reloads
  MaxPlugins,   \* CLOG_MAX_PLUGINS
  SizeMax       \* stands for UINT64_MAX

ASSUME ConfigAssumption ==
  {MaxEvents, MaxNesting, MaxLoads, MaxPlugins, SizeMax} \subseteq Nat \ {0}

VARIABLES
  cfg,          \* logger->config
  formatStr,    \* logger->format_str
  parser,       \* the locals of parse_config_file
  cfgDoc,       \* open collections of the document, the innermost last
  cfgPhase,     \* "begin", "parse", "done"
  cfgEvents,    \* events so far
  loads,        \* loads begun
  cfgRef,       \* history: what the document says
  cfgPlain      \* history: no sequence inside log, and no plugin entry

cfgVars == <<cfg, formatStr, parser, cfgDoc, cfgPhase, cfgEvents, loads, cfgRef, cfgPlain>>

-----------------------------------------------------------------------------
(***************************************************************************)
(* Keys and values                                                         *)
(***************************************************************************)
Flag(f)           == [kind |-> "flag", field |-> f, lo |-> 0, hi |-> 0]
Number(f, lo, hi) == [kind |-> "number", field |-> f, lo |-> lo, hi |-> hi]
Unsigned(f)       == [kind |-> "unsigned", field |-> f, lo |-> 0, hi |-> 0]
Of(kind, f)       == [kind |-> kind, field |-> f, lo |-> 0, hi |-> 0]

Long == 2147483647     \* no upper bound but that of the type

\* g_config_keys: aliases share a handler.
KeyTable ==
  [async |-> Flag("async"), color |-> Flag("color"), catch_signals |-> Flag("catch_signals"),
   console_enable |-> Flag("console_enable"), console_stderr |-> Flag("console_stderr"),
   file_enable |-> Flag("file_enable"), socket_enable |-> Flag("socket_enable"),
   socket_tls |-> Flag("socket_tls"), tls_enable |-> Flag("socket_tls"),
   socket_tls_skip_verify |-> Flag("socket_tls_skip_verify"),
   tls_skip_verify |-> Flag("socket_tls_skip_verify"), socket_async |-> Flag("socket_async"),
   rate_limit_enable |-> Flag("rate_limit_enable"),
   prometheus_enable |-> Flag("prometheus_enable"),
   backup |-> Number("file_backups", 0, Long), backups |-> Number("file_backups", 0, Long),
   file_backups |-> Number("file_backups", 0, Long),
   queue_size |-> Number("queue_size", 1, Long), port |-> Number("socket_port", 1, 65535),
   prometheus_port |-> Number("prometheus_port", 1, 65535),
   rate_limit_burst |-> Number("rate_limit_burst", 1, Long),
   rate_limit_max_per_sec |-> Number("rate_limit_max_per_sec", 1, Long),
   socket_ring_capacity |-> Unsigned("socket_ring_capacity"),
   socket_backoff_min_ms |-> Unsigned("socket_backoff_min_ms"),
   socket_backoff_max_ms |-> Unsigned("socket_backoff_max_ms"),
   socket_connect_timeout_ms |-> Unsigned("socket_connect_timeout_ms"),
   level |-> Of("level", "level"), format |-> Of("format", "format"),
   time_format |-> Of("text", "time_format"),
   socket_tls_ca_file |-> Of("text", "socket_tls_ca_file"),
   tls_ca_file |-> Of("text", "socket_tls_ca_file"),
   path |-> Of("enabling", "file_path"), file_path |-> Of("enabling", "file_path"),
   host |-> Of("enabling", "socket_host"),
   max_size |-> Of("size", "file_max_size"), file_max_size |-> Of("size", "file_max_size")]

Levels == {"TRACE", "DEBUG", "INFO", "WARN", "ERROR", "FATAL"}

\* What strtol and strtoull read in a value; every other value is no number.
Numerals == ("0" :> 0) @@ ("7" :> 7) @@ ("70000" :> 70000)

\* A size is a number and a multiplier (K, KB, M, MB, G, GB in either case).
Sizes == ("7" :> <<7, 1>>) @@ ("63K" :> <<63, 1024>>) @@ ("64K" :> <<64, 1024>>)

StoreSize(c, f, v) ==
  IF v \in DOMAIN Sizes /\ Sizes[v][1] <= SizeMax \div Sizes[v][2]
  THEN [cfg |-> [c EXCEPT ![f] = Sizes[v][1] * Sizes[v][2]], bad |-> FALSE]
  ELSE [cfg |-> c, bad |-> TRUE]

\* The handlers of HANDLER_*: the new configuration, and whether the value is bad.
Store(c, k, v) ==
  LET h == KeyTable[k]
      ok(value) == [cfg |-> [c EXCEPT ![h.field] = value], bad |-> FALSE]
      refused == [cfg |-> c, bad |-> TRUE]
  IN  CASE h.kind = "flag" -> ok(v = "true")
        [] h.kind = "level" -> IF v \in Levels THEN ok(v) ELSE refused
        [] h.kind = "number" -> IF v \in DOMAIN Numerals /\ Numerals[v] \in h.lo..h.hi
                                THEN ok(Numerals[v]) ELSE refused
        [] h.kind = "unsigned" -> IF v \in DOMAIN Numerals THEN ok(Numerals[v]) ELSE refused
        [] h.kind = "text" -> ok(v)
        [] h.kind = "size" -> StoreSize(c, h.field, v)
        [] h.kind = "format" ->
             [cfg |-> [c EXCEPT !.format = v,
                                !.format_type = IF v \in {"json", "JSON"} THEN "JSON" ELSE "TEXT"],
              bad |-> FALSE]
        [] h.kind = "enabling" ->
             [cfg |-> [c EXCEPT ![h.field] = v, ![IF h.field = "file_path" THEN "file_enable"
                                                  ELSE "socket_enable"] = TRUE],
              bad |-> FALSE]

\* Unknown keys are skipped.
Apply(c, k, v) == IF k \in DOMAIN KeyTable THEN Store(c, k, v) ELSE [cfg |-> c, bad |-> FALSE]

NoPlugin == [path |-> "", json |-> <<>>]

\* The configuration of a logger nobody has loaded (static storage).
Zero ==
  [level |-> "TRACE", async |-> FALSE, queue_size |-> 0, color |-> FALSE, format_type |-> "TEXT",
   format |-> "", time_format |-> "", console_enable |-> FALSE, console_stderr |-> FALSE,
   file_enable |-> FALSE, file_path |-> "", file_max_size |-> 0, file_backups |-> 0,
   socket_enable |-> FALSE, socket_host |-> "", socket_port |-> 0, socket_tls |-> FALSE,
   socket_tls_ca_file |-> "", socket_tls_skip_verify |-> FALSE, socket_async |-> FALSE,
   socket_ring_capacity |-> 0, socket_backoff_min_ms |-> 0, socket_backoff_max_ms |-> 0,
   socket_connect_timeout_ms |-> 0, rate_limit_enable |-> FALSE, rate_limit_max_per_sec |-> 0,
   rate_limit_burst |-> 0, catch_signals |-> FALSE, prometheus_enable |-> FALSE,
   prometheus_port |-> 0, plugins |-> [i \in 1..MaxPlugins |-> NoPlugin], plugin_count |-> 0]

\* The fields log_config_load_into leaves alone before it parses.
Sticky == {"format_type", "prometheus_enable", "prometheus_port", "plugins", "plugin_count"}

\* The defaults; file_max_size stands for 100 MiB.
Defaults(c) ==
  [f \in DOMAIN Zero |->
     IF f \in Sticky THEN c[f]
     ELSE [Zero EXCEPT !.level = "INFO", !.queue_size = 8192, !.color = TRUE,
             !.console_enable = TRUE, !.file_max_size = 60000, !.file_backups = 10,
             !.catch_signals = TRUE, !.format = "[%time] [%level] %msg",
             !.time_format = "%Y-%m-%d %H:%M:%S"][f]]

-----------------------------------------------------------------------------
(***************************************************************************)
(* The document: libyaml's events (external)                               *)
(***************************************************************************)
top == cfgDoc[Len(cfgDoc)]
Settled(s) == IF s = <<>> THEN s ELSE [s EXCEPT ![Len(s)].atKey = (s[Len(s)].node = "map")]

\* A collection may start as the root, as a value, or inside a sequence.
DocOpen(node) ==
  /\ Len(cfgDoc) < MaxNesting
  /\ IF cfgDoc = <<>> THEN node = "map" /\ cfgPhase = "begin" ELSE ~top.atKey
  /\ cfgDoc' = Append(cfgDoc, [node |-> node, key |-> "", atKey |-> node = "map"])

DocClose(node) ==
  /\ cfgDoc # <<>> /\ top.node = node /\ (node = "map" => top.atKey)
  /\ cfgDoc' = Settled(SubSeq(cfgDoc, 1, Len(cfgDoc) - 1))

DocScalar(v) ==
  /\ cfgDoc # <<>>
  /\ v \in IF ~top.atKey THEN DocValues ELSE IF Len(cfgDoc) = 1 THEN RootKeys ELSE InnerKeys
  /\ cfgDoc' = IF top.atKey
               THEN [cfgDoc EXCEPT ![Len(cfgDoc)].key = v, ![Len(cfgDoc)].atKey = FALSE]
               ELSE Settled(cfgDoc)

\* Where the innermost collection stands: the root or its log mapping, inside
\* the log mapping, a plugin entry, the mapping of an entry.
InRoot(s) == Len(s) = 1
InLog(s)  == Len(s) = 2 /\ s[1].key = "log" /\ s[2].node = "map"
IsEntry(s) ==
  /\ Len(s) \in {3, 4} /\ s[Len(s)].node = "map" /\ s[Len(s) - 1].node = "seq"
  /\ s[Len(s) - 2].key = "plugins" /\ (InRoot(SubSeq(s, 1, Len(s) - 2)) \/ InLog(SubSeq(s, 1, Len(s) - 2)))
IsEntryConfig(s) == Len(s) > 1 /\ s[Len(s)].node = "map" /\ IsEntry(SubSeq(s, 1, Len(s) - 1))

\* cut: the log mapping has had a mapping inside.
\* flat: one plugins sequence, its entries and their mappings hold scalars only.
NoRef(c) == [cfg |-> c, bad |-> FALSE, cut |-> FALSE, plugins |-> <<>>, entry |-> NoPlugin,
             listed |-> FALSE, flat |-> TRUE]

\* What the pairs of the document mean, by their position.  Those of the root
\* count beside a log mapping, too, and those of log up to a mapping inside it.
RefScalar(v) ==
  IF top.node = "seq" \/ top.atKey THEN cfgRef
  ELSE IF InRoot(cfgDoc) \/ (InLog(cfgDoc) /\ ~cfgRef.cut)
  THEN LET r == Apply(cfgRef.cfg, top.key, v)
       IN  [cfgRef EXCEPT !.cfg = r.cfg, !.bad = @ \/ r.bad]
  ELSE IF IsEntry(cfgDoc) /\ top.key = "path" THEN [cfgRef EXCEPT !.entry.path = v]
  ELSE IF IsEntryConfig(cfgDoc)
  THEN [cfgRef EXCEPT !.entry.json = Append(@, <<top.key, v>>)]
  ELSE cfgRef

RefOpen(node) ==
  LET atList == InRoot(cfgDoc) \/ InLog(cfgDoc)
      plugins == node = "seq" /\ atList /\ top.key = "plugins"
      inner == Append(cfgDoc, [node |-> node])
  IN  [cfgRef EXCEPT !.listed = @ \/ plugins,
                     !.cut = ~InRoot(cfgDoc) /\ (@ \/ (node = "map" /\ InLog(cfgDoc))),
                     !.flat = @ /\ IF node = "seq" THEN atList /\ ~cfgRef.listed
                                   ELSE Len(cfgDoc) < 2 \/ IsEntry(inner) \/ IsEntry(cfgDoc),
                     !.entry.json = <<>>]

RefClose ==
  IF ~IsEntry(cfgDoc) THEN cfgRef
  ELSE [cfgRef EXCEPT !.plugins = IF cfgRef.entry.path = "" THEN @ ELSE Append(@, cfgRef.entry),
                      !.entry = NoPlugin]

-----------------------------------------------------------------------------
(***************************************************************************)
(* parse_config_file                                                       *)
(***************************************************************************)
FreshParser ==
  [depth |-> 0, expect_key |-> TRUE, in_log_section |-> FALSE, found_log_section |-> FALSE,
   current_key |-> "", in_plugins |-> FALSE, in_plugin_entry |-> FALSE,
   in_plugin_config |-> FALSE, plugin_index |-> 0, plugin_path |-> "", plugin_json |-> <<>>,
   plugin_cfg_key |-> "", has_errors |-> FALSE]

Event ==
  /\ cfgPhase # "done" /\ cfgEvents < MaxEvents
  /\ cfgPhase' = "parse" /\ cfgEvents' = cfgEvents + 1
  /\ UNCHANGED <<loads, formatStr>>

SequenceStart ==
  LET plugins == parser.current_key = "plugins"
                 /\ (parser.in_log_section \/ ~parser.found_log_section)
  IN  /\ Event /\ DocOpen("seq")
      /\ parser' = [parser EXCEPT !.depth = @ + 1, !.expect_key = TRUE,
                                  !.in_plugins = @ \/ plugins,
                                  !.plugin_index = IF plugins THEN 0 ELSE @]
      /\ cfgPlain' = (cfgPlain /\ ~InLog(cfgDoc)) /\ cfgRef' = RefOpen("seq")
      /\ UNCHANGED cfg

SequenceEnd ==
  /\ Event /\ DocClose("seq")
  /\ parser' = [parser EXCEPT !.depth = @ - 1, !.expect_key = TRUE, !.in_plugins = FALSE,
                              !.in_plugin_entry = FALSE, !.in_plugin_config = FALSE]
  /\ UNCHANGED <<cfg, cfgRef, cfgPlain>>

Scalar(v) == Event /\ DocScalar(v) /\ cfgRef' = RefScalar(v) /\ UNCHANGED cfgPlain

\* Scalars of a plugin entry bypass the guard of the log section.
PluginConfigScalar(v) ==
  /\ Scalar(v)
  /\ parser.in_plugin_entry /\ parser.in_plugin_config
  /\ parser' = IF parser.expect_key
               THEN [parser EXCEPT !.plugin_cfg_key = v, !.expect_key = FALSE]
               ELSE [parser EXCEPT !.plugin_json = Append(@, <<parser.plugin_cfg_key, v>>),
                                   !.expect_key = TRUE]
  /\ UNCHANGED cfg

PluginScalar(v) ==
  /\ Scalar(v)
  /\ parser.in_plugin_entry /\ ~parser.in_plugin_config
  /\ parser' = IF parser.expect_key
               THEN [parser EXCEPT !.current_key = v, !.expect_key = FALSE]
               ELSE [parser EXCEPT !.expect_key = TRUE,
                                   !.plugin_path = IF parser.current_key = "path" THEN v ELSE @]
  /\ UNCHANGED cfg


\* The pairs of the log section, and those of the root.
Relevant == parser.in_log_section \/ (~parser.found_log_section /\ parser.depth = 1)

SkippedScalar(v) ==
  /\ Scalar(v)
  /\ ~parser.in_plugin_entry /\ ~Relevant
  /\ UNCHANGED <<cfg, parser>>

KeyScalar(v) ==
  /\ Scalar(v)
  /\ ~parser.in_plugin_entry /\ Relevant /\ parser.expect_key
  /\ parser' = [parser EXCEPT !.current_key = v, !.expect_key = FALSE]
  /\ UNCHANGED cfg

ValueScalar(v) ==
  /\ Scalar(v)
  /\ ~parser.in_plugin_entry /\ Relevant /\ ~parser.expect_key
  /\ LET r == Apply(cfg, parser.current_key, v)
     IN  /\ cfg' = r.cfg
         /\ parser' = [parser EXCEPT !.expect_key = TRUE, !.has_errors = @ \/ r.bad]

\* A mapping inside a plugin entry holds its parameters, whatever its key.
PluginConfigStart ==
  /\ Event /\ DocOpen("map")
  /\ parser.in_plugins /\ parser.in_plugin_entry /\ ~parser.in_plugin_config
  /\ parser' = [parser EXCEPT !.depth = @ + 1, !.in_plugin_config = TRUE, !.plugin_json = <<>>,
                              !.expect_key = TRUE]
  /\ cfgRef' = RefOpen("map")
  /\ UNCHANGED <<cfg, cfgPlain>>

PluginEntryStart ==
  /\ Event /\ DocOpen("map")
  /\ parser.in_plugins /\ ~parser.in_plugin_entry
  /\ parser' = [parser EXCEPT !.depth = @ + 1, !.in_plugin_entry = TRUE, !.plugin_path = "",
                              !.expect_key = TRUE]
  /\ cfgPlain' = FALSE /\ cfgRef' = RefOpen("map")
  /\ UNCHANGED cfg

MappingStart ==
  LET d == parser.depth + 1
      entersLog == d \in {1, 2} /\ parser.current_key = "log"
  IN  /\ Event /\ DocOpen("map")
      /\ ~parser.in_plugins \/ parser.in_plugin_config
      /\ parser' = [parser EXCEPT !.depth = d, !.expect_key = TRUE, !.in_log_section = entersLog,
                                  !.found_log_section = @ \/ (d = 1 /\ entersLog)]
      /\ cfgRef' = RefOpen("map")
      /\ UNCHANGED <<cfg, cfgPlain>>

\* The ends of an entry and of its parameters leave depth as it is.
PluginConfigEnd ==
  /\ Event /\ DocClose("map") /\ cfgRef' = RefClose
  /\ parser.in_plugin_config
  /\ parser' = [parser EXCEPT !.in_plugin_config = FALSE, !.expect_key = TRUE]
  /\ UNCHANGED <<cfg, cfgPlain>>

EntryStored == parser.plugin_index < MaxPlugins /\ parser.plugin_path # ""

StoreEntry(c) ==
  [c EXCEPT !.plugins[parser.plugin_index + 1] =
              [path |-> parser.plugin_path, json |-> parser.plugin_json],
            !.plugin_count = parser.plugin_index + 1]

PluginEntryEnd ==
  /\ Event /\ DocClose("map") /\ cfgRef' = RefClose
  /\ parser.in_plugin_entry /\ ~parser.in_plugin_config
  /\ cfg' = IF EntryStored THEN StoreEntry(cfg) ELSE cfg
  /\ parser' = [parser EXCEPT !.in_plugin_entry = FALSE, !.expect_key = TRUE,
                              !.plugin_index = IF EntryStored THEN @ + 1 ELSE @]
  /\ UNCHANGED cfgPlain

MappingEnd ==
  /\ Event /\ DocClose("map") /\ cfgRef' = RefClose
  /\ ~parser.in_plugin_entry /\ ~parser.in_plugin_config
  /\ parser' = [parser EXCEPT !.in_log_section = @ /\ parser.depth > 2, !.depth = @ - 1,
                              !.expect_key = TRUE]
  /\ UNCHANGED <<cfg, cfgPlain>>

\* The stream ends after the root; a failed parse leaves format_str at its default.
StreamEnd ==
  /\ cfgPhase # "done" /\ cfgDoc = <<>>
  /\ cfgPhase' = "done"
  /\ formatStr' = IF parser.has_errors THEN formatStr ELSE cfg.format
  /\ UNCHANGED <<cfg, parser, cfgDoc, cfgEvents, loads, cfgRef, cfgPlain>>

\* libyaml reports a syntax error at any event.
SyntaxError ==
  /\ cfgPhase # "done"
  /\ cfgPhase' = "done"
  /\ parser' = [parser EXCEPT !.has_errors = TRUE]
  /\ cfgRef' = [cfgRef EXCEPT !.bad = TRUE]
  /\ UNCHANGED <<cfg, formatStr, cfgDoc, cfgEvents, loads, cfgPlain>>

-----------------------------------------------------------------------------
(***************************************************************************)
(* log_config_load_into, log_config_set, log_set_level                     *)
(***************************************************************************)
ConfigInit ==
  /\ cfg = Zero /\ formatStr = "" /\ parser = FreshParser /\ cfgDoc = <<>>
  /\ cfgPhase = "done" /\ cfgEvents = 0 /\ loads = 0
  /\ cfgRef = NoRef(Zero) /\ cfgPlain = FALSE

\* The defaults, then the file, which may be absent or may not open.
Load ==
  \E file \in {"readable", "absent", "unreadable"} :
    /\ cfgPhase = "done" /\ loads < MaxLoads
    /\ loads' = loads + 1
    /\ cfg' = Defaults(cfg)
    /\ formatStr' = Defaults(cfg).format
    /\ cfgPhase' = IF file = "readable" THEN "begin" ELSE "done"
    /\ parser' = [FreshParser EXCEPT !.has_errors = (file = "unreadable")]
    /\ cfgRef' = [NoRef(Defaults(cfg)) EXCEPT !.bad = (file = "unreadable")]
    /\ cfgDoc' = <<>> /\ cfgPlain' = TRUE
    /\ UNCHANGED cfgEvents

\* log_config_set: apply_config copies every field but format_type, and of the
\* plugins those the caller counts.
ConfigSet(c) ==
  /\ cfgPhase = "done"
  /\ cfg' = [c EXCEPT !.format_type = cfg.format_type,
                      !.plugins = [i \in 1..MaxPlugins |-> IF i <= c.plugin_count THEN c.plugins[i]
                                                           ELSE cfg.plugins[i]]]
  /\ formatStr' = c.format
  /\ cfgPlain' = FALSE /\ cfgRef' = NoRef(Zero)
  /\ UNCHANGED <<parser, cfgDoc, cfgPhase, cfgEvents, loads>>

SetLevel(level) ==
  /\ cfgPhase = "done"
  /\ cfg' = [cfg EXCEPT !.level = level]
  /\ cfgPlain' = FALSE
  /\ UNCHANGED <<formatStr, parser, cfgDoc, cfgPhase, cfgEvents, loads, cfgRef>>

ConfigNext ==
  \/ Load \/ StreamEnd \/ SyntaxError
  \/ SequenceStart \/ SequenceEnd
  \/ PluginConfigStart \/ PluginEntryStart \/ MappingStart
  \/ PluginConfigEnd \/ PluginEntryEnd \/ MappingEnd
  \/ \E v \in RootKeys \cup InnerKeys \cup DocValues :
       PluginConfigScalar(v) \/ PluginScalar(v) \/ SkippedScalar(v) \/ KeyScalar(v) \/ ValueScalar(v)
  \/ ConfigSet(Defaults(Zero)) \/ SetLevel("ERROR")

ConfigSpec == ConfigInit /\ [][ConfigNext]_cfgVars

-----------------------------------------------------------------------------
(***************************************************************************)
(* Properties                                                              *)
(***************************************************************************)

\* A load, first or repeated, of a document without a sequence inside log and
\* without plugin entries ends in what that document says, on top of the defaults
\* and, in the Sticky fields, of what was there before: the pairs of the root and
\* those of log up to a mapping inside it count, all others do not, nothing else
\* is left of the document before, and the load fails exactly when one of these
\* pairs has a bad value.
LoadMeansDocument ==
  cfgPhase = "done" /\ cfgPlain =>
    /\ cfg = cfgRef.cfg
    /\ parser.has_errors = cfgRef.bad
    /\ ~parser.has_errors => formatStr = cfgRef.cfg.format

\* After a document that lists plugins in flat entries, the plugins of the
\* configuration are the entries that have a path, in document order, up to
\* CLOG_MAX_PLUGINS, each with the parameters of its own mapping if it has one;
\* the depth, section and key the parser loses track of there do not matter.
PluginsAreEntries ==
  cfgPhase = "done" /\ cfgRef.flat /\ cfgRef.plugins # <<>> =>
    /\ cfg.plugin_count = Min({Len(cfgRef.plugins), MaxPlugins})
    /\ \A i \in 1..cfg.plugin_count :
         /\ cfg.plugins[i].path = cfgRef.plugins[i].path
         /\ cfgRef.plugins[i].json # <<>> => cfg.plugins[i].json = cfgRef.plugins[i].json

=============================================================================
