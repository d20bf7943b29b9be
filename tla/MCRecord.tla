------------------------------ MODULE MCRecord ------------------------------
(***************************************************************************)
(* What goes into a record and how it becomes a line.  The components      *)
(* share no variable, so each behaviour takes the steps of one of them:    *)
(* the product of their state spaces would show nothing more.              *)
(***************************************************************************)
EXTENDS ConfigLoader, ModuleName, ThreadContext, Redactor, JsonLine, FormatCache,
        RecordMemory

VARIABLE part

Parts == {"config", "module", "span", "mdc", "redact", "json", "format", "memory"}

MCTexts     == UNION {[1..n -> {"a", "b"}] : n \in 1..4}
               \cup {<<"a", "b", "a", "a", "a", "b">>, <<"b", "b", "a", "b", "b", "a", "b">>}
MCPatterns  == {<<"a", "b">>, <<"b">>, <<"a", "a">>}
MCMasks     == {<<"*">>, <<"*", "*", "*">>}
MCFmtTexts  == {<<<<"%">>, <<"time", "-">>, "A", "B">>, <<<<"%">>, <<"time", "-">>, "C", "D">>,
                <<<<"msg">>, <<"-", "%", "msg">>, "A", "B">>}
MCShapes    == {<<2, 1, 0, 0, 0>>, <<1, 1, 0, 1, 1>>, <<4, 2, 0, 0, 0>>}
MCJsonTexts == {<<"x">>, <<"u", "x">>, <<"n", "u">>}

vars == <<part, cfgVars, nameVars, ctxVars, redactVars, jsonVars, fmtVars, memVars>>

Init ==
  /\ part \in Parts
  /\ ConfigInit /\ NameInit /\ CtxInit /\ RedactInit /\ JsonInit /\ FmtInit /\ MemInit

Next ==
  /\ UNCHANGED part
  /\ \/ /\ part = "config" /\ ConfigNext
        /\ UNCHANGED <<nameVars, ctxVars, redactVars, jsonVars, fmtVars, memVars>>
     \/ /\ part = "module" /\ NameNext
        /\ UNCHANGED <<cfgVars, ctxVars, redactVars, jsonVars, fmtVars, memVars>>
     \/ /\ part = "span" /\ SpanNext
        /\ UNCHANGED <<cfgVars, nameVars, redactVars, jsonVars, fmtVars, memVars>>
     \/ /\ part = "mdc" /\ MdcNext
        /\ UNCHANGED <<cfgVars, nameVars, redactVars, jsonVars, fmtVars, memVars>>
     \/ /\ part = "redact" /\ RedactNext
        /\ UNCHANGED <<cfgVars, nameVars, ctxVars, jsonVars, fmtVars, memVars>>
     \/ /\ part = "json" /\ JsonNext
        /\ UNCHANGED <<cfgVars, nameVars, ctxVars, redactVars, fmtVars, memVars>>
     \/ /\ part = "format" /\ FmtNext
        /\ UNCHANGED <<cfgVars, nameVars, ctxVars, redactVars, jsonVars, memVars>>
     \/ /\ part = "memory" /\ MemNext
        /\ UNCHANGED <<cfgVars, nameVars, ctxVars, redactVars, jsonVars, fmtVars>>

Spec == Init /\ [][Next]_vars

=============================================================================
