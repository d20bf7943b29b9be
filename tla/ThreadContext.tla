--------------------------- MODULE ThreadContext ----------------------------
(***************************************************************************)
(* What a thread attaches to its records (core/log.c): the span stack and  *)
(* the base trace context, and the MDC pairs.  Both are thread-local; two  *)
(* threads meet only in the traceparent header that one exports and        *)
(* another joins.                                                          *)
(*                                                                         *)
(* Ids are numbers, 0 the all-zero id; a fresh id is one never drawn       *)
(* before.  A header is its fields; well is FALSE for every text that the  *)
(* length, dash and hex checks refuse.  MDC keys keep within their         *)
(* documented length.                                                      *)
(***************************************************************************)
EXTENDS Integers, Sequences, FiniteSets

CONSTANTS
  CtxThreads,       \* threads
  SpanMaxDepth,     \* CLOG_SPAN_MAX_DEPTH
  MaxIds,           \* bound: ids drawn
  MdcKeys, MdcValues,
  MaxPairs,         \* MAX_THREAD_CONTEXT_PAIRS
  MaxMdcOps         \* bound: calls of log_set_thread_context

ASSUME CtxAssumption == {SpanMaxDepth, MaxIds, MaxPairs, MaxMdcOps} \subseteq Nat

VARIABLES
  g_span_stack,     \* frames of each thread, the innermost last
  base,             \* g_thread_trace_id, g_thread_span_id, g_has_thread_trace_context
  ids,              \* ids drawn so far
  header,           \* the traceparent that was last exported or received
  given,            \* history: the tokens each thread was given, with their frames
  lastEnd,          \* history: whose token just ended which span, and was its own live
  g_thread_context, \* pairs of each thread
  mdcMap,           \* history: the mapping the calls describe
  mdcOps

spanVars == <<g_span_stack, base, ids, header, given, lastEnd>>
mdcVars  == <<g_thread_context, mdcMap, mdcOps>>
ctxVars  == <<spanVars, mdcVars>>

NoHeader == [well |-> FALSE, trace |-> 0, span |-> 0, flags |-> 0]
NoEnd == [by |-> 0, ended |-> 0, live |-> TRUE]
NoBase == [has |-> FALSE, trace |-> 0, span |-> 0]

CtxInit ==
  /\ g_span_stack = [t \in CtxThreads |-> <<>>] /\ base = [t \in CtxThreads |-> NoBase]
  /\ ids = 0 /\ header = NoHeader
  /\ given = [t \in CtxThreads |-> {}] /\ lastEnd = NoEnd
  /\ g_thread_context = [t \in CtxThreads |-> <<>>]
  /\ mdcMap = [t \in CtxThreads |-> [k \in {} |-> k]] /\ mdcOps = 0

-----------------------------------------------------------------------------
(***************************************************************************)
(* Spans                                                                   *)
(***************************************************************************)
depth(t) == Len(g_span_stack[t])
frame(t) == g_span_stack[t][depth(t)]

\* span_current_ids
CurrentIds(t) ==
  IF depth(t) > 0 THEN [trace |-> frame(t).trace, span |-> frame(t).span]
  ELSE IF base[t].has THEN [trace |-> base[t].trace, span |-> base[t].span]
  ELSE [trace |-> 0, span |-> 0]

\* span_new_span_id: an id not drawn before, and not the zero id.
NewId(n) == ids + n

\* A new frame; its token is the new depth.
Push(t, f) ==
  /\ g_span_stack' = [g_span_stack EXCEPT ![t] = Append(@, f)]
  /\ given' = [given EXCEPT ![t] = @ \cup {[tok |-> depth(t) + 1, frame |-> f]}]
  /\ lastEnd' = NoEnd

\* clog_span_start: the trace of the parent, of the base context, or a new one.
SpanStart(t) ==
  /\ depth(t) < SpanMaxDepth
  /\ ids + 2 <= MaxIds
  /\ IF depth(t) = 0 /\ ~base[t].has
     THEN /\ Push(t, [trace |-> NewId(1), span |-> NewId(2), flags |-> 0])
          /\ ids' = ids + 2
     ELSE /\ Push(t, [trace |-> CurrentIds(t).trace, span |-> NewId(1),
                      flags |-> IF depth(t) > 0 THEN frame(t).flags ELSE 0])
          /\ ids' = ids + 1
  /\ UNCHANGED <<base, header, mdcVars>>

\* Mutant: any nonzero token ends the innermost span.
AnyToken(t, tok) == tok # 0 /\ depth(t) > 0

EndsInnermost(t, tok) == tok # 0 /\ tok = depth(t)

OnStack(t, f) == \E i \in 1..depth(t) : g_span_stack[t][i] = f

\* clog_span_end with any token the thread was ever given; a refused call
\* changes nothing.
SpanEnd(t) ==
  \E k \in given[t] :
    /\ EndsInnermost(t, k.tok)
    /\ g_span_stack' = [g_span_stack EXCEPT ![t] = SubSeq(@, 1, Len(@) - 1)]
    /\ lastEnd' = [by |-> k.frame.span, ended |-> frame(t).span, live |-> OnStack(t, k.frame)]
    /\ UNCHANGED <<base, ids, header, given, mdcVars>>

\* clog_span_export: without a trace there is nothing to export.
SpanExport(t) ==
  /\ CurrentIds(t).trace # 0
  /\ header' = [well |-> TRUE, trace |-> CurrentIds(t).trace, span |-> CurrentIds(t).span,
                flags |-> IF depth(t) > 0 THEN frame(t).flags ELSE 0]
  /\ UNCHANGED <<g_span_stack, base, ids, given, mdcVars>> /\ lastEnd' = NoEnd

\* A header of another service, or a text that is none.
Receive ==
  /\ header' \in {[well |-> TRUE, trace |-> MaxIds + 1, span |-> MaxIds + 2, flags |-> 1], NoHeader}
  /\ UNCHANGED <<g_span_stack, base, ids, given, mdcVars>> /\ lastEnd' = NoEnd

\* clog_span_join: trace and flags of the header, a span of its own.
SpanJoin(t) ==
  /\ header.well /\ depth(t) < SpanMaxDepth /\ ids < MaxIds
  /\ Push(t, [trace |-> header.trace, span |-> NewId(1), flags |-> header.flags])
  /\ ids' = ids + 1
  /\ UNCHANGED <<base, header, mdcVars>>

\* clog_set_trace_context
SetBase(t, trace, span) == base' = [base EXCEPT ![t] = [has |-> TRUE, trace |-> trace, span |-> span]]

\* clog_set_trace_context_hex refuses a malformed id; without ids both clear.
SetTraceContext(t) ==
  /\ header.well
  /\ SetBase(t, header.trace, header.span)
  /\ UNCHANGED <<g_span_stack, ids, header, given, mdcVars>> /\ lastEnd' = NoEnd

\* clog_clear_trace_context drops the spans too.
ClearTraceContext(t) ==
  /\ g_span_stack' = [g_span_stack EXCEPT ![t] = <<>>]
  /\ base' = [base EXCEPT ![t] = NoBase]
  /\ UNCHANGED <<ids, header, given, mdcVars>> /\ lastEnd' = NoEnd

-----------------------------------------------------------------------------
(***************************************************************************)
(* Mapped diagnostic context                                               *)
(***************************************************************************)
pairs(t) == g_thread_context[t]
SlotsOf(t, k) == {i \in DOMAIN pairs(t) : pairs(t)[i].key = k}
FirstSlot(t, k) == CHOOSE i \in SlotsOf(t, k) : \A j \in SlotsOf(t, k) : i <= j

\* log_get_thread_context
GetContext(t, k) == IF SlotsOf(t, k) = {} THEN "" ELSE pairs(t)[FirstSlot(t, k)].value

\* The last pair moves into the slot of the removed one.
Without(t, i) == SubSeq([pairs(t) EXCEPT ![i] = pairs(t)[Len(pairs(t))]], 1, Len(pairs(t)) - 1)

\* log_set_thread_context; an empty value removes the key.
SetContext(t, k, v) ==
  /\ mdcOps < MaxMdcOps /\ mdcOps' = mdcOps + 1
  /\ \/ /\ SlotsOf(t, k) # {}
        /\ g_thread_context' =
             [g_thread_context EXCEPT ![t] = IF v = "" THEN Without(t, FirstSlot(t, k))
                                             ELSE [@ EXCEPT ![FirstSlot(t, k)].value = v]]
     \/ /\ SlotsOf(t, k) = {} /\ v # "" /\ Len(pairs(t)) < MaxPairs
        /\ g_thread_context' = [g_thread_context EXCEPT ![t] = Append(@, [key |-> k, value |-> v])]
  /\ mdcMap' = [mdcMap EXCEPT ![t] =
                  [j \in (DOMAIN @ \cup {k}) \ (IF v = "" THEN {k} ELSE {}) |->
                     IF j = k THEN v ELSE @[j]]]
  /\ UNCHANGED spanVars

ClearContext(t) ==
  /\ g_thread_context' = [g_thread_context EXCEPT ![t] = <<>>]
  /\ mdcMap' = [mdcMap EXCEPT ![t] = [k \in {} |-> k]]
  /\ UNCHANGED <<mdcOps, spanVars>>

SpanNext ==
  \/ \E t \in CtxThreads : \/ SpanStart(t) \/ SpanEnd(t) \/ SpanExport(t) \/ SpanJoin(t)
                           \/ SetTraceContext(t) \/ ClearTraceContext(t)
  \/ Receive

MdcNext ==
  \E t \in CtxThreads :
    \/ \E k \in MdcKeys, v \in MdcValues \cup {""} : SetContext(t, k, v)
    \/ ClearContext(t)

-----------------------------------------------------------------------------
\* Tokens are depths.  A token names its span for as long as that span is on the
\* stack, and then ends that span and no other, whatever was ended or cleared
\* before.  A token whose span is gone, ended or cleared, is refused or ends a
\* span that was started later at the same depth, which the code cannot tell
\* from its own; it never ends an older one.
TokenNamesItsSpan ==
  /\ \A t \in CtxThreads : \A k \in given[t] :
       OnStack(t, k.frame) => g_span_stack[t][k.tok] = k.frame
  /\ IF lastEnd.live THEN lastEnd.ended = lastEnd.by ELSE lastEnd.by < lastEnd.ended

\* The pairs hold exactly the mapping the calls describe: one pair for each key
\* that was last set to a value, whatever was removed before or after it.
ContextIsMap ==
  \A t \in CtxThreads :
    /\ Len(pairs(t)) = Cardinality(DOMAIN mdcMap[t])
    /\ \A k \in MdcKeys :
         GetContext(t, k) = IF k \in DOMAIN mdcMap[t] THEN mdcMap[t][k] ELSE ""

\* A thread's spans and pairs are what its own calls, in their order, made them.
ContextIsHistory == TokenNamesItsSpan /\ ContextIsMap
=============================================================================
