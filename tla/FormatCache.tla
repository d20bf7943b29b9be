---------------------------- MODULE FormatCache -----------------------------
(***************************************************************************)
(* Text formatting (core/formatter_fmt.c, formatter.c): every thread keeps *)
(* one compiled format and one formatted second, for all loggers together, *)
(* and revalidates both on each call by comparison.  format_str and        *)
(* time_format_str are read without fmt_mutex while log_formatter_init_for *)
(* or log_config_load_into may be writing them, so each is two halves that *)
(* are stored, compared, used and copied one at a time.                    *)
(*                                                                         *)
(* A format is a sequence of pieces, the percent sign, words and other     *)
(* text; the halves of a format are two such sequences.  The halves of a   *)
(* time format are two tokens: the text of a second is the second and the  *)
(* halves it was formatted with.  Formats have fewer operations than       *)
(* FMT_MAX_OPS and name the time once at most; those that name JSON are in *)
(* JsonLine.                                                               *)
(***************************************************************************)
EXTENDS Integers, Sequences, SequencesExt

CONSTANTS
  FmtThreads,     \* threads that format
  FmtLoggers,     \* loggers
  FmtTexts,       \* formats with time formats, two halves each
  Seconds,        \* timestamps
  LineRoom,       \* size of the caller's buffer
  MaxInits        \* bound: calls of log_formatter_init_for

VARIABLES
  strings,        \* of each logger, the halves of format_str and of time_format_str
  fmtInit,        \* the log_formatter_init_for in progress
  fmtInits,       \* calls so far
  fmtCache,       \* g_fmt_cache of each thread: fmt, and the text ops came from
  timeCache,      \* g_time_cache of each thread; torn is history
  fmtCall         \* the call of each thread

fmtVars == <<strings, fmtInit, fmtInits, fmtCache, timeCache, fmtCall>>

Words == {"time", "msg"}
NoFmt == <<<<>>, <<>>>>
Rendered(what, sec, halves) == [what |-> what, sec |-> sec, time_format |-> halves]
NoTime == Rendered("", 0, <<"", "">>)
NoFmtCall == [pc |-> "idle", logger |-> CHOOSE l \in FmtLoggers : TRUE, sec |-> 0, seen |-> {},
              line |-> <<>>]

FmtInit ==
  /\ strings = [l \in FmtLoggers |-> CHOOSE f \in FmtTexts : TRUE]
  /\ fmtInit = [logger |-> CHOOSE l \in FmtLoggers : TRUE, halves |-> <<>>] /\ fmtInits = 0
  /\ fmtCache = [t \in FmtThreads |-> [fmt |-> NoFmt, ops |-> <<>>]]
  /\ timeCache = [t \in FmtThreads |-> [key |-> NoTime, formatted |-> NoTime, torn |-> FALSE]]
  /\ fmtCall = [t \in FmtThreads |-> NoFmtCall]

\* log_formatter_init_for: the mutex keeps two of them apart, not a reader.
InitBegin(l, f) ==
  /\ fmtInit.halves = <<>> /\ fmtInits < MaxInits
  /\ fmtInit' = [logger |-> l, halves |-> f] /\ fmtInits' = fmtInits + 1
  /\ UNCHANGED <<strings, fmtCache, timeCache, fmtCall>>

\* The next half is stored, those of the format before those of the time format.
InitHalf ==
  /\ fmtInit.halves # <<>>
  /\ strings' = [strings EXCEPT ![fmtInit.logger][5 - Len(fmtInit.halves)] = Head(fmtInit.halves)]
  /\ fmtInit' = [fmtInit EXCEPT !.halves = Tail(@)]
  /\ fmtCall' = [t \in FmtThreads |->
                   IF fmtCall[t].logger # fmtInit.logger THEN fmtCall[t]
                   ELSE [fmtCall[t] EXCEPT !.seen = @ \cup {strings'[fmtInit.logger]}]]
  /\ UNCHANGED <<fmtInits, fmtCache, timeCache>>

-----------------------------------------------------------------------------
(***************************************************************************)
(* format_impl                                                             *)
(***************************************************************************)
Step(t, from, to) == fmtCall[t].pc = from /\ fmtCall' = [fmtCall EXCEPT ![t].pc = to]
shared(t) == strings[fmtCall[t].logger]

FormatCall(t, l, sec) ==
  /\ fmtCall[t].pc = "idle"
  /\ fmtCall' = [fmtCall EXCEPT ![t] = [NoFmtCall EXCEPT !.pc = "compare1", !.logger = l, !.sec = sec,
                                                         !.seen = {strings[l]}]]
  /\ UNCHANGED <<strings, fmtInit, fmtInits, fmtCache, timeCache>>

\* Mutant: the cache is trusted once it is filled.
FilledHalf(t, i) == fmtCache[t].fmt # NoFmt

\* strcmp of the shared format with the cached one, as far as half i.
SameHalf(t, i) == shared(t)[i] = fmtCache[t].fmt[i]

Compare(t, i, from, to) ==
  /\ Step(t, from, IF SameHalf(t, i) THEN to ELSE "copy1")
  /\ UNCHANGED <<strings, fmtInit, fmtInits, fmtCache, timeCache>>

Op(op, text) == [op |-> op, text |-> text]

\* token_match: a known word, and no letter after it.
TokenMatch(s) == Len(s) > 0 /\ s[1] \in Words /\ (Len(s) = 1 \/ s[2] \notin Words)

\* fmt_compile: a run without a percent sign is one literal, a percent sign and a
\* known word an operation; another percent sign stands for itself.
RECURSIVE fmt_compile(_)
fmt_compile(s) ==
  LET percent == SelectInSeq(s, LAMBDA p : p = "%")
      run == IF percent = 0 THEN Len(s) ELSE percent - 1
  IN  IF s = <<>> THEN <<>>
      ELSE IF run > 0 THEN <<Op("literal", SubSeq(s, 1, run))>> \o fmt_compile(SubSeq(s, run + 1, Len(s)))
      ELSE IF TokenMatch(Tail(s)) THEN <<Op(s[2], <<>>)>> \o fmt_compile(Tail(Tail(s)))
      ELSE <<Op("literal", <<"%">>)>> \o fmt_compile(Tail(s))

\* snprintf into the cache, and after the second half fmt_compile of the copy.
Copy(t, i, from, to) ==
  /\ Step(t, from, to)
  /\ fmtCache' = [fmtCache EXCEPT ![t].fmt[i] = shared(t)[i],
                                  ![t].ops = IF i = 2 THEN fmt_compile(fmtCache[t].fmt[1] \o shared(t)[2])
                                             ELSE @]
  /\ UNCHANGED <<strings, fmtInit, fmtInits, timeCache>>

Plain(text) == [i \in DOMAIN text |-> Rendered(text[i], 0, <<"", "">>)]

\* What an operation appends, given the text of the second; then the pair of the record.
OpText(op, time) ==
  CASE op.op = "literal" -> Plain(op.text)
    [] op.op = "time" -> <<time>>
    [] op.op = "msg" -> Plain(<<"m", "m">>)

LineTexts(ops, time) == [i \in DOMAIN ops |-> OpText(ops[i], time)] \o <<Plain(<<" ", "k", "=", "v">>)>>

\* append_token: as much as leaves room for the NUL.
AppendToken(out, text) == out \o SubSeq(text, 1, Min({Len(text), LineRoom - Len(out) - 1}))

namesTime(t) == \E i \in DOMAIN fmtCache[t].ops : fmtCache[t].ops[i].op = "time"

\* Mutant: a cached text of the same second will do.
SameSecond(t, i) == timeCache[t].key.sec = fmtCall[t].sec

\* format_sec_cached compares the second, and half i of the shared time format.
SameTime(t, i) ==
  /\ timeCache[t].key.sec = fmtCall[t].sec
  /\ shared(t)[2 + i] = timeCache[t].key.time_format[i]

CompareTime(t, i, from, to) ==
  /\ Step(t, from, IF namesTime(t) => SameTime(t, i) THEN to ELSE "strftime1")
  /\ UNCHANGED <<strings, fmtInit, fmtInits, fmtCache, timeCache>>

\* strftime reads half i of the time format ...
FormatTime(t, i, from, to) ==
  /\ Step(t, from, to)
  /\ timeCache' = [timeCache EXCEPT ![t].formatted =
                     Rendered("time", fmtCall[t].sec, [@.time_format EXCEPT ![i] = shared(t)[2 + i]])]
  /\ UNCHANGED <<strings, fmtInit, fmtInits, fmtCache>>

\* ... and the memcpy into the key of the cache reads it again.
KeepTime(t, i, from, to) ==
  /\ Step(t, from, to)
  /\ timeCache' = [timeCache EXCEPT
       ![t].key = Rendered("time", fmtCall[t].sec, [@.time_format EXCEPT ![i] = shared(t)[2 + i]]),
       ![t].torn = \E a, b \in fmtCall[t].seen : SubSeq(a, 3, 4) # SubSeq(b, 3, 4)]
  /\ UNCHANGED <<strings, fmtInit, fmtInits, fmtCache>>

\* The operations are rendered with the formatted second of the cache.
RenderOps(t) ==
  /\ fmtCall[t].pc = "render"
  /\ fmtCall' = [fmtCall EXCEPT
       ![t].pc = "done",
       ![t].line = FoldLeft(AppendToken, <<>>, LineTexts(fmtCache[t].ops, timeCache[t].formatted))]
  /\ UNCHANGED <<strings, fmtInit, fmtInits, fmtCache, timeCache>>

FormatReturn(t) ==
  /\ fmtCall[t].pc = "done"
  /\ fmtCall' = [fmtCall EXCEPT ![t] = NoFmtCall]
  /\ UNCHANGED <<strings, fmtInit, fmtInits, fmtCache, timeCache>>

FmtNext ==
  \/ \E l \in FmtLoggers, f \in FmtTexts : InitBegin(l, f)
  \/ InitHalf
  \/ \E t \in FmtThreads :
       \/ \E l \in FmtLoggers, sec \in Seconds : FormatCall(t, l, sec)
       \/ Compare(t, 1, "compare1", "compare2") \/ Compare(t, 2, "compare2", "time1")
       \/ Copy(t, 1, "copy1", "copy2") \/ Copy(t, 2, "copy2", "time1")
       \/ CompareTime(t, 1, "time1", "time2") \/ CompareTime(t, 2, "time2", "render")
       \/ FormatTime(t, 1, "strftime1", "strftime2") \/ FormatTime(t, 2, "strftime2", "keep1")
       \/ KeepTime(t, 1, "keep1", "keep2") \/ KeepTime(t, 2, "keep2", "render")
       \/ RenderOps(t) \/ FormatReturn(t)

-----------------------------------------------------------------------------
\* What a line should be: all of it, cut where the buffer ends.
Expected(s, time) ==
  LET all == FlattenSeq(LineTexts(fmt_compile(s[1] \o s[2]), time))
  IN  SubSeq(all, 1, Min({Len(all), LineRoom - 1}))

\* The time of a record, in the time format of its logger s; a text of the same
\* second that was formatted while the time format was being rewritten is
\* found again under the new one, whatever it looks like.
TimeOf(t, s) ==
  Rendered("time", fmtCall[t].sec,
       IF timeCache[t].torn THEN timeCache[t].formatted.time_format ELSE SubSeq(s, 3, 4))

\* A line is rendered with the formats its logger had during the call.  When
\* they were not written meanwhile, the cached program is the one of that very
\* format, whatever torn format an earlier call compiled and whichever logger
\* used the thread's cache before.  The time is the second of its own record,
\* and in the logger's time format unless an earlier call of the thread
\* formatted this second under a rewrite of the time format: strftime and the
\* copy of the key are two reads.  A line that is too long is cut, never mixed up.
LineUsesItsFormat ==
  \A t \in FmtThreads :
    fmtCall[t].pc = "done" =>
      \A s \in fmtCall[t].seen : fmtCall[t].seen = {s} => fmtCall[t].line = Expected(s, TimeOf(t, s))

=============================================================================
