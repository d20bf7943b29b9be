------------------------------ MODULE Redactor ------------------------------
(***************************************************************************)
(* Redaction (core/log.c): the rule table, the replacement in place that   *)
(* printf-style messages get, and the replacement into two alternating     *)
(* stack buffers or the heap that key-value records get.  Texts are        *)
(* sequences of symbols.  Masks share no symbol with patterns, so that a   *)
(* replacement makes no new occurrence.                                    *)
(***************************************************************************)
EXTENDS Integers, Sequences, FiniteSets, SequencesExt

CONSTANTS
  Loggers,      \* threads that log
  Texts,        \* messages
  Patterns, Masks,
  MaxRules,     \* CLOG_MAX_REDACT_RULES
  BufSize,      \* CLOG_MAX_MESSAGE_SIZE
  TmpSize       \* REDACT_KV_TMP_LEN

ASSUME RedactAssumption ==
  /\ \A p \in Patterns, m \in Masks : Len(p) > 0 /\ Len(m) > 0 /\ Range(p) \cap Range(m) = {}
  /\ BufSize \in Nat \ (0..3)
  /\ {MaxRules, TmpSize} \subseteq Nat

VARIABLES
  rules,        \* g_redact_rules up to g_redact_count
  call          \* the log call of each thread

redactVars == <<rules, call>>

-----------------------------------------------------------------------------
(***************************************************************************)
(* Replacement                                                             *)
(***************************************************************************)
Hits(s, p, from) ==
  {i \in from..(Len(s) - Len(p) + 1) : SubSeq(s, i, i + Len(p) - 1) = p}

\* strstr from a position, 0 when there is no hit.
strstr(s, p, from) == IF Hits(s, p, from) = {} THEN 0 ELSE Min(Hits(s, p, from))

Before(s, i) == SubSeq(s, 1, i - 1)
After(s, i)  == SubSeq(s, i, Len(s))

\* The message of a printf-style call: what does not fit ends in three dots.
Formatted(s) == IF Len(s) < BufSize THEN s ELSE SubSeq(s, 1, BufSize - 4) \o <<".", ".", ".">>

\* Mutant: the scan resumes a pattern's length after the hit.
ResumeByPattern(hit, p, m) == hit + Len(p)

\* The scan resumes after the mask.
Resume(hit, p, m) == hit + Len(m)

\* The loop of redact_apply_locked for one rule; cut when a result did not fit.
RECURSIVE InPlaceFrom(_, _, _, _)
InPlaceFrom(s, p, m, from) ==
  LET hit == strstr(s, p, from)
      tail == After(s, hit + Len(p))
  IN  IF hit = 0 THEN [text |-> s, cut |-> FALSE]
      ELSE IF (hit - 1) + Len(m) + Len(tail) < BufSize
      THEN InPlaceFrom(Before(s, hit) \o m \o tail, p, m, Resume(hit, p, m))
      ELSE [text |-> Before(s, hit) \o SubSeq(m, 1, Min({Len(m), BufSize - (hit - 1) - 1})),
            cut |-> TRUE]

\* redact_apply_locked: the rules in the order they were added.
InPlace(s, rs) ==
  FoldLeft(LAMBDA acc, r : LET one == InPlaceFrom(acc.text, r.pattern, r.mask, 1)
                           IN  [text |-> one.text, cut |-> acc.cut \/ one.cut],
           [text |-> s, cut |-> FALSE], rs)

\* redact_expand_copy
RECURSIVE ExpandCopy(_, _, _)
ExpandCopy(s, p, m) ==
  LET hit == strstr(s, p, 1)
  IN  IF hit = 0 THEN s ELSE Before(s, hit) \o m \o ExpandCopy(After(s, hit + Len(p)), p, m)

\* The buffer the next rule writes.
Alternate(alt) == 1 - alt

\* One rule of redact_apply_all_locked.  cur.at is where the text lives: the
\* caller's message, a stack buffer or the heap block; to read the buffer that
\* is being written gives nothing of the text.
ApplyRule(cur, r, mallocFails) ==
  LET new == ExpandCopy(cur.text, r.pattern, r.mask)
      onStack == Len(new) + 1 <= TmpSize
  IN  IF strstr(cur.text, r.pattern, 1) = 0 THEN cur
      ELSE IF onStack
      THEN [cur EXCEPT !.text = IF cur.at = cur.alt THEN <<>> ELSE new, !.at = cur.alt,
                       !.alt = Alternate(cur.alt)]
      ELSE IF mallocFails THEN cur
      ELSE [cur EXCEPT !.text = new, !.at = 3]

\* redact_apply_all_locked; at: 0 and 1 the stack buffers, 2 the message, 3 the heap.
ApplyAll(s, rs, mallocFails) ==
  FoldLeft(LAMBDA cur, r : ApplyRule(cur, r, mallocFails),
           [text |-> s, at |-> 2, alt |-> 0], rs).text

\* redact_apply_all_heap_locked: the values of STR pairs, one block per hit.
ApplyAllHeap(s, rs, mallocFails) ==
  IF mallocFails THEN s
  ELSE FoldLeft(LAMBDA cur, r : ExpandCopy(cur, r.pattern, r.mask), s, rs)

-----------------------------------------------------------------------------
(***************************************************************************)
(* The rule table and the calls                                            *)
(***************************************************************************)
NoCall == [pc |-> "idle", kv |-> FALSE, text |-> <<>>, out |-> <<>>, str |-> <<>>,
           since |-> {}, failed |-> FALSE, applied |-> <<>>]

RedactInit == rules = <<>> /\ call = [t \in Loggers |-> NoCall]

\* clog_redact_add: one hold of g_redact_mutex; a full table refuses.
RedactAdd(p, m) ==
  /\ Len(rules) < MaxRules
  /\ rules' = Append(rules, [pattern |-> p, mask |-> m])
  /\ UNCHANGED call

\* clog_redact_clear; no rule has been there since a call began any more.
RedactClear ==
  /\ rules' = <<>>
  /\ call' = [t \in Loggers |-> [call[t] EXCEPT !.since = {}]]

\* The check of g_redact_count without the mutex.
FastCheck(t, s, kv) ==
  LET message == IF kv THEN s ELSE Formatted(s) IN
  /\ call[t].pc = "idle"
  /\ call' = [call EXCEPT ![t] = [NoCall EXCEPT !.pc = IF rules = <<>> THEN "done" ELSE "lock",
                                                !.kv = kv, !.text = message, !.out = message,
                                                !.str = s, !.since = Range(rules)]]
  /\ UNCHANGED rules

\* redact_message_if_needed under the mutex.
RedactMessage(t) ==
  /\ call[t].pc = "lock" /\ ~call[t].kv
  /\ call' = [call EXCEPT ![t].pc = "done", ![t].out = InPlace(call[t].text, rules).text,
                          ![t].applied = rules]
  /\ UNCHANGED rules

\* redact_kv_record_if_needed under the mutex, for a message and a STR value
\* with one text.
RedactKv(t) ==
  \E mallocFails \in BOOLEAN :
    /\ call[t].pc = "lock" /\ call[t].kv
    /\ call' = [call EXCEPT ![t].pc = "done", ![t].out = ApplyAll(call[t].text, rules, mallocFails),
                            ![t].str = ApplyAllHeap(call[t].text, rules, mallocFails),
                            ![t].failed = mallocFails, ![t].applied = rules]
    /\ UNCHANGED rules

Dispatched(t) ==
  /\ call[t].pc = "done"
  /\ call' = [call EXCEPT ![t] = NoCall]
  /\ UNCHANGED rules

RedactNext ==
  \/ \E p \in Patterns, m \in Masks : RedactAdd(p, m)
  \/ RedactClear
  \/ \E t \in Loggers :
       \/ \E s \in Texts, kv \in BOOLEAN : FastCheck(t, s, kv)
       \/ RedactMessage(t) \/ RedactKv(t) \/ Dispatched(t)

RedactSpec == RedactInit /\ [][RedactNext]_redactVars

-----------------------------------------------------------------------------
\* A message leaves the call without the pattern of any rule that was there when
\* the call began and has not been cleared since, on the printf path and on the
\* key-value path, whatever the other rules and the truncation did to it; only a
\* failed allocation leaves a pattern in.
NoPatternSurvives ==
  \A t \in Loggers :
    call[t].pc = "done" /\ ~call[t].failed =>
      \A r \in call[t].since :
        /\ strstr(call[t].out, r.pattern, 1) = 0
        /\ call[t].kv => strstr(call[t].str, r.pattern, 1) = 0

\* The two stack buffers, the heap and the replacement in place give one result:
\* a key-value message becomes what the printf path makes of it when that fits
\* its buffer, and what the heap-only replacement makes of an equal STR value.
PathsAgree ==
  \A t \in Loggers :
    LET c == call[t]
        printf == InPlace(c.text, c.applied)
    IN  c.pc = "done" /\ c.kv /\ ~c.failed =>
          /\ c.out = c.str
          /\ Len(c.text) < BufSize /\ ~printf.cut => c.out = printf.text

\* A message is redacted completely, and the same way on every path it can take
\* through the buffers.
Redacted == NoPatternSurvives /\ PathsAgree
=============================================================================
