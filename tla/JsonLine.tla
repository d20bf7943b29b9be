------------------------------ MODULE JsonLine ------------------------------
(***************************************************************************)
(* The JSON renderers (core/formatter.c, formatter_json.c,                 *)
(* formatter_otel.c) as programs of appends into a buffer of given size:   *)
(* fixed text that must fit, and escaped text that may be cut, after which *)
(* the line is closed at once.                                             *)
(*                                                                         *)
(* A line is a sequence of symbols: "q" is the quote, "b" the backslash,   *)
(* "x" any other byte of a string, "N" a fixed member name with its quotes *)
(* and colon, "0" a number or a fixed string.  A text is a sequence over   *)
(* "x" (a plain byte), "n" (a byte with a two-byte escape) and "u" (a      *)
(* control byte, six bytes).                                               *)
(* The buffer is represented by how a JSON reader stands after it.         *)
(***************************************************************************)
EXTENDS Integers, Sequences

CONSTANTS
  JsonTexts,     \* messages, keys and values
  JsonSizes      \* buffer sizes

VARIABLES
  line,          \* the call: renderer, record, TRACEPARENT, buffer size
  buf            \* its progress: appends to do, room, status, the reader

jsonVars == <<line, buf>>

-----------------------------------------------------------------------------
(***************************************************************************)
(* A reader of RFC 8259 objects whose members are strings, numbers and     *)
(* objects                                                                 *)
(***************************************************************************)
JsonRead(a, c) ==
  LET go(q) == [a EXCEPT !.q = q]
  IN  CASE a.q = "start" -> IF c = "{" THEN [q |-> "key", depth |-> 1] ELSE go("bad")
        [] a.q = "key" -> go(CASE c = "q" -> "name" [] c = "N" -> "value" [] OTHER -> "bad")
        [] a.q = "name" -> go(CASE c = "q" -> "colon" [] c = "b" -> "name_escape" [] OTHER -> "name")
        [] a.q = "name_escape" -> go("name")
        [] a.q = "colon" -> go(IF c = ":" THEN "value" ELSE "bad")
        [] a.q = "value" -> (CASE c = "q" -> go("string") [] c = "0" -> go("after")
                               [] c = "{" -> [q |-> "key", depth |-> a.depth + 1]
                               [] OTHER -> go("bad"))
        [] a.q = "string" -> go(CASE c = "q" -> "after" [] c = "b" -> "escape" [] OTHER -> "string")
        [] a.q = "escape" -> go("string")
        [] a.q = "after" -> (CASE c = "," -> go("key")
                               [] c = "}" -> [q |-> IF a.depth = 1 THEN "end" ELSE "after",
                                              depth |-> a.depth - 1]
                               [] OTHER -> go("bad"))
        [] OTHER -> go("bad")

-----------------------------------------------------------------------------
(***************************************************************************)
(* Appends                                                                 *)
(***************************************************************************)
\* JsonRead as a table.
Reader ==
  [r \in [q : {"start", "key", "name", "name_escape", "colon", "value", "string", "escape", "after",
               "end", "bad"}, depth : 0..3] |->
     [c \in {"{", "}", ",", ":", "q", "b", "x", "N", "0"} |-> JsonRead(r, c)]]

RECURSIVE ReadAll(_, _)
ReadAll(r, s) == IF s = <<>> THEN r ELSE ReadAll(Reader[r][Head(s)], Tail(s))

Emit(a, s) == [a EXCEPT !.read = ReadAll(@, s), !.remaining = @ - Len(s)]

Escape(c) == CASE c = "x" -> <<"x">>
               [] c = "n" -> <<"b", "x">>
               [] c = "u" -> <<"b", "x", "x", "x", "x", "x">>

\* append_json_escaped_string, one byte: a byte whose escape does not fit is
\* consumed before the loop ends.
EscapeByte(a, c) ==
  IF a.stop \/ a.remaining <= 1 THEN [a EXCEPT !.stop = TRUE]
  ELSE IF Len(Escape(c)) >= a.remaining THEN [a EXCEPT !.stop = TRUE, !.left = @ - 1]
  ELSE [Emit(a, Escape(c)) EXCEPT !.left = @ - 1]

RECURSIVE EscapeAll(_, _)
EscapeAll(a, s) == IF s = <<>> THEN a ELSE EscapeAll(EscapeByte(a, Head(s)), Tail(s))

\* append_buf_str and the append_buf_* of numbers
AppendText(a, s) ==
  IF Len(s) >= a.remaining THEN [a EXCEPT !.status = "dropped"] ELSE Emit(a, s)

\* json_close_object
CloseObject(a, suffix) ==
  IF a.remaining < Len(suffix) + 1 THEN [a EXCEPT !.status = "dropped"]
  ELSE [Emit(a, suffix) EXCEPT !.status = "closed"]

AppendEscaped(a, s, suffix) ==
  LET r == EscapeAll([a EXCEPT !.stop = FALSE, !.left = Len(s)], s)
  IN  IF r.left = 0 THEN r ELSE CloseObject(r, suffix)

-----------------------------------------------------------------------------
(***************************************************************************)
(* Programs                                                                *)
(***************************************************************************)
Text(s) == [op |-> "text", text |-> s, suffix |-> <<>>, key |-> FALSE]
Esc(s, suffix) == [op |-> "esc", text |-> s, suffix |-> suffix, key |-> FALSE]
Key(s, suffix) == [op |-> "esc", text |-> s, suffix |-> suffix, key |-> TRUE]
Root == <<"q", "}">>
Attributes == <<"q", "}", "}">>

\* append_json_kv, for a string or a number.
KvOps(kv, suffix) ==
  <<Text(<<",", "q">>), Key(kv.key, suffix), Text(<<"q", ":">>)>>
  \o IF kv.str THEN <<Text(<<"q">>), Esc(kv.val, suffix), Text(<<"q">>)>> ELSE <<Text(<<"0">>)>>

RECURSIVE AllKvs(_, _)
AllKvs(kvs, suffix) ==
  IF kvs = <<>> THEN <<>> ELSE KvOps(Head(kvs), suffix) \o AllKvs(Tail(kvs), suffix)

\* An id that is not all zero is written in hex.  In format_json_ex it comes
\* while the tag's string is open, in format_otel_json between two members.
IdInside(present) == IF present THEN <<Text(<<"q", ",", "N", "q", "x">>)>> ELSE <<>>
IdMember(present) == IF present THEN <<Text(<<",", "N", "0">>)>> ELSE <<>>

\* format_json_ex
JsonOps(r) ==
  <<Text(<<"{", "N", "0", ",", "N", "0", ",", "N", "q">>), Esc(r.module, Root),
    Text(<<"q", ",", "N", "q">>), Esc(r.file, Root),
    Text(<<"q", ",", "N", "0", ",", "N", "q">>), Esc(r.func, Root),
    Text(<<"q", ",", "N", "0", ",", "N", "0", ",", "N", "q">>), Esc(r.tag, Root)>>
  \o IdInside(r.trace) \o IdInside(r.span)
  \o <<Text(<<"q", ",", "N", "q">>), Esc(r.message, Root), Text(<<"q">>)>>
  \o AllKvs(r.kvs, Root) \o <<Text(<<"}">>)>>

\* Mutant: a cut inside attributes closes one object only.
RootSuffix == Root

\* What closes a string inside the attributes.
AttributesSuffix == Attributes

\* parse_traceparent: the environment replaces the ids; a bad trace id or a bad
\* rest zeroes what was read, a text too short for a trace id leaves the record.
Traceparent(r, env) ==
  CASE env \in {"unset", "short"} -> r
    [] env = "well" -> [r EXCEPT !.trace = TRUE, !.span = TRUE]
    [] env \in {"bad_trace", "no_span"} -> [r EXCEPT !.trace = FALSE]
    [] env = "bad_span" -> [r EXCEPT !.trace = FALSE, !.span = FALSE]

\* format_otel_json
OtelOps(rec, env) ==
  LET r == Traceparent(rec, env)
      close == AttributesSuffix
  IN  <<Text(<<"{", "N", "0", ",", "N", "0", ",", "N", "0">>)>>
      \o IdMember(r.trace) \o IdMember(r.span)
      \o <<Text(<<",", "N", "q">>), Esc(r.message, Root), Text(<<"q">>),
           Text(<<",", "N", "{", "N", "q">>), Esc(r.module, close),
           Text(<<"q", ",", "N", "q">>), Esc(r.file, close),
           Text(<<"q", ",", "N", "0", ",", "N", "q">>), Esc(r.func, close),
           Text(<<"q", ",", "N", "0", ",", "N", "0", ",", "N", "q">>), Esc(r.tag, close),
           Text(<<"q">>)>>
      \o AllKvs(r.kvs, close) \o <<Text(<<"}", "}">>)>>

Ops(l) == IF l.otel THEN OtelOps(l.record, l.env) ELSE JsonOps(l.record)

-----------------------------------------------------------------------------
(***************************************************************************)
(* Calls                                                                   *)
(***************************************************************************)
EmptyRecord == [module |-> <<>>, file |-> <<>>, func |-> <<>>, tag |-> <<>>, trace |-> FALSE,
                span |-> FALSE, message |-> <<>>, kvs |-> <<>>]
Buffer(size, ops) == [ops |-> ops, remaining |-> size, status |-> "open", stop |-> FALSE, left |-> 0,
                 read |-> [q |-> "start", depth |-> 0], keyCut |-> FALSE]

JsonInit ==
  /\ line = [otel |-> FALSE, env |-> "unset", record |-> EmptyRecord]
  /\ buf = [Buffer(0, <<>>) EXCEPT !.status = "idle"]

\* A call with any of the texts in its fields and any room.
FormatJson ==
  /\ buf.status = "idle"
  /\ \E otel, ids, str \in BOOLEAN, s, k, v \in JsonTexts, size \in JsonSizes,
        env \in {"unset", "short", "well", "bad_trace", "no_span", "bad_span"} :
       /\ env # "unset" => otel /\ s = k /\ s = v
       /\ line' = [otel |-> otel, env |-> env,
                   record |-> [module |-> s, file |-> <<"x">>, func |-> k, tag |-> v, trace |-> ids,
                               span |-> ids, message |-> s,
                               kvs |-> <<[key |-> k, str |-> str, val |-> v]>>]]
       /\ buf' = Buffer(size, Ops(line'))

\* The next append of the renderer.
AppendOp ==
  LET op == Head(buf.ops)
      new == IF op.op = "text" THEN AppendText(buf, op.text)
             ELSE AppendEscaped(buf, op.text, op.suffix)
  IN  /\ buf.status = "open"
      /\ buf' = [new EXCEPT !.ops = Tail(@), !.keyCut = op.key /\ new.status = "closed",
                            !.status = IF @ = "open" /\ Len(buf.ops) = 1 THEN "complete" ELSE @]
      /\ UNCHANGED line

JsonNext == FormatJson \/ AppendOp

-----------------------------------------------------------------------------
\* A line that is not dropped is one JSON object and leaves room for its NUL,
\* wherever the buffer ends, unless it ends inside the key of a pair: each cut
\* is closed with as many quotes and braces as are open there, and a renderer
\* never goes on after a failed append.
LineIsJson ==
  /\ buf.status \in {"closed", "complete"} /\ ~buf.keyCut => buf.read.q = "end"
  /\ buf.status \in {"open", "closed", "complete"} => buf.remaining >= 1

=============================================================================
