--------------------------- MODULE MCSocketWriter ----------------------------
(***************************************************************************)
(* Model-checking instance of SocketWriter.  Idle producers have no local  *)
(* state and no property names a producer, so every behaviour is one of    *)
(* these up to the names: when all are idle, the next put is made by the   *)
(* chosen producer.  (Symmetry sets are not sound with liveness.)          *)
(***************************************************************************)
EXTENDS SocketWriter

First == CHOOSE p \in Producers : TRUE

FirstPuts ==
  (\A p \in Producers : ppc[p] = "idle") => \A p \in Producers \ {First} : ppc'[p] = "idle"

MCSpec == WriterInit /\ [][WriterNext /\ FirstPuts]_asyncVars /\ Fairness

=============================================================================
