-------------------------- MODULE ModuleNameProofs --------------------------
(***************************************************************************)
(* A log call never copies a torn or stale module name, for any number of  *)
(* threads and names: NameInv is inductive.                                *)
(***************************************************************************)
EXTENDS ModuleName, TLAPS

\* The name "main" is there before any thread runs.
LEMMA NameInitial == NameInit => NameInv
<1> SUFFICES ASSUME NameInit PROVE NameInv
  OBVIOUS
<1>1. NameTypeOK
  BY NameAssumption DEF NameInit, NameTypeOK, NoTmp, Whole
<1>2. WriterInv /\ ReaderInv /\ CopiedNameIsWhole
  BY DEF NameInit, WriterInv, ReaderInv, CopiedNameIsWhole, NoTmp, Whole, Storing, Holding, Copying
<1> QED
  BY <1>1, <1>2 DEF NameInv

\* At most one thread is between the increments, or holds the mutex for another reason.
LEMMA OneHolder ==
  ASSUME NameInv, NEW t \in NameThreads, NEW u \in NameThreads,
         namePc[t] \in Holding, namePc[u] \in Holding
  PROVE  t = u
BY DEF NameInv, WriterInv

\* A thread that gets the mutex finds nobody storing the name.
LEMMA FreeMeansNoHolder ==
  ASSUME NameInv, nameMutex = "free", NEW t \in NameThreads
  PROVE  namePc[t] \notin Holding
BY NameAssumption DEF NameInv, WriterInv

\* A thread that takes a step moves from one place to another, and no other thread does.
LEMMA GotoMoves ==
  ASSUME NameTypeOK, NEW t \in NameThreads, NEW from, NEW to, Goto(t, from, to)
  PROVE  /\ namePc[t] = from /\ namePc'[t] = to
         /\ \A u \in NameThreads \ {t} : namePc'[u] = namePc[u]
BY DEF NameTypeOK, Goto

\* Every step of a thread that sets the name keeps NameInv.
LEMMA WriterStep ==
  ASSUME NameInv, NEW t \in NameThreads,
         \/ SetLock(t) \/ SetEnter(t)
         \/ SetHalf(t, 1, "set_first", "set_second") \/ SetHalf(t, 2, "set_second", "set_even")
         \/ SetLeave(t) \/ SetUnlock(t)
  PROVE  NameInv'
<1> USE DEF NameInv
<1>1. CASE SetLock(t)
  <2>1. NameTypeOK'
    BY <1>1 DEF SetLock, Goto, LockName, NameTypeOK, Holding, Copying, Storing
  <2>2. WriterInv'
    BY <1>1, <2>1, GotoMoves, FreeMeansNoHolder, SMTT(30)
    DEF SetLock, Goto, LockName, NameTypeOK, WriterInv, Holding, Storing
  <2>3. ReaderInv' /\ CopiedNameIsWhole'
    BY <1>1, SMTT(30)
    DEF SetLock, Goto, NameTypeOK, ReaderInv, CopiedNameIsWhole, Copying
  <2> QED
    BY <2>1, <2>2, <2>3
<1>2. CASE SetEnter(t)
  <2>1. NameTypeOK'
    BY <1>2 DEF SetEnter, Goto, NameTypeOK, Holding, Copying, Storing
  <2>2. \A u \in NameThreads : namePc[u] \notin Storing
    BY <1>2, OneHolder DEF SetEnter, Goto, Holding, Storing
  <2>3. module_gen' % 2 = 1
    <3>1. module_gen \in Nat /\ module_gen % 2 = 0
      BY <2>2 DEF NameTypeOK, WriterInv
    <3> QED
      BY <1>2, <3>1 DEF SetEnter
  <2>4. WriterInv'
    BY <1>2, <2>2, <2>3, GotoMoves DEF SetEnter, WriterInv, Holding, Storing
  <2>5. ReaderInv' /\ CopiedNameIsWhole'
    BY <1>2, SMTT(30) DEF SetEnter, Goto, NameTypeOK, ReaderInv, CopiedNameIsWhole, Copying
  <2> QED
    BY <2>1, <2>4, <2>5
<1>3. CASE SetHalf(t, 1, "set_first", "set_second")
  <2>1. NameTypeOK'
    BY <1>3 DEF SetHalf, Goto, NameTypeOK, Holding, Copying, Storing
  <2>2. WriterInv'
    BY <1>3, <2>1, OneHolder, SMTT(30) DEF SetHalf, Goto, NameTypeOK, WriterInv, Holding, Storing
  <2>3. module_gen % 2 = 1 /\ \A u \in NameThreads \ {t} : namePc[u] \notin Holding
    BY <1>3, OneHolder DEF SetHalf, Goto, WriterInv, Holding, Storing
  <2>4. ReaderInv' /\ CopiedNameIsWhole'
    BY <1>3, <2>3, SMTT(30)
    DEF SetHalf, Goto, NameTypeOK, ReaderInv, CopiedNameIsWhole, Copying, Holding, Storing
  <2> QED
    BY <2>1, <2>2, <2>4
<1>4. CASE SetHalf(t, 2, "set_second", "set_even")
  <2>1. NameTypeOK'
    BY <1>4 DEF SetHalf, Goto, NameTypeOK, Holding, Copying, Storing
  <2>2. WriterInv'
    BY <1>4, <2>1, OneHolder, SMTT(30) DEF SetHalf, Goto, NameTypeOK, WriterInv, Holding, Storing
  <2>3. module_gen % 2 = 1 /\ \A u \in NameThreads \ {t} : namePc[u] \notin Holding
    BY <1>4, OneHolder DEF SetHalf, Goto, WriterInv, Holding, Storing
  <2>4. ReaderInv' /\ CopiedNameIsWhole'
    BY <1>4, <2>3, SMTT(30)
    DEF SetHalf, Goto, NameTypeOK, ReaderInv, CopiedNameIsWhole, Copying, Holding, Storing
  <2> QED
    BY <2>1, <2>2, <2>4
<1>5. CASE SetLeave(t)
  <2>1. NameTypeOK'
    BY <1>5 DEF SetLeave, Goto, NameTypeOK, Holding, Copying, Storing
  <2>2. \A u \in NameThreads \ {t} : namePc[u] \notin Holding
    BY <1>5, OneHolder DEF SetLeave, Goto, Holding, Storing
  <2>3. module_gen' % 2 = 0 /\ name'[1] = name'[2]
    <3>1. module_gen \in Nat /\ module_gen % 2 = 1 /\ name[1] = name[2]
      BY <1>5 DEF SetLeave, Goto, NameTypeOK, WriterInv, Storing
    <3> QED
      BY <1>5, <3>1 DEF SetLeave
  <2>4. \A u \in NameThreads : namePc'[u] \notin Storing
    BY <1>5, <2>2, GotoMoves DEF SetLeave, Holding, Storing
  <2>5. WriterInv'
    BY <1>5, <2>2, <2>3, <2>4, GotoMoves DEF SetLeave, WriterInv, Holding, Storing
  <2>6. ReaderInv' /\ CopiedNameIsWhole'
    BY <1>5, SMTT(30) DEF SetLeave, Goto, NameTypeOK, ReaderInv, CopiedNameIsWhole, Copying
  <2> QED
    BY <2>1, <2>5, <2>6
<1>6. CASE SetUnlock(t)
  <2>1. NameTypeOK'
    BY <1>6 DEF SetUnlock, UnlockName, Goto, NameTypeOK, Holding, Copying, Storing
  <2>2. WriterInv'
    BY <1>6, <2>1, OneHolder, SMTT(30)
    DEF SetUnlock, UnlockName, Goto, NameTypeOK, WriterInv, Holding, Storing
  <2>3. ReaderInv' /\ CopiedNameIsWhole'
    BY <1>6, SMTT(30) DEF SetUnlock, Goto, NameTypeOK, ReaderInv, CopiedNameIsWhole, Copying
  <2> QED
    BY <2>1, <2>2, <2>3
<1> QED
  BY <1>1, <1>2, <1>3, <1>4, <1>5, <1>6

\* Every step of a thread that copies the name without the mutex keeps NameInv.
LEMMA UnlockedStep ==
  ASSUME NameInv, NEW t \in NameThreads,
         \/ ReadGen(t) \/ CheckGen(t) \/ GetName(t) \/ UseCopy(t)
         \/ CopyHalf(t, 1, "copy_first", "copy_second") \/ CopyHalf(t, 2, "copy_second", "check")
  PROVE  NameInv'
<1> USE DEF NameInv
<1>1. CASE ReadGen(t)
  <2>1. NameTypeOK' /\ WriterInv'
    BY <1>1, SMTT(30) DEF ReadGen, Goto, NameTypeOK, WriterInv, Holding, Copying, Storing
  <2>2. ReaderInv' /\ CopiedNameIsWhole'
    BY <1>1, SMTT(30) DEF ReadGen, Goto, NameTypeOK, ReaderInv, CopiedNameIsWhole, Copying
  <2> QED
    BY <2>1, <2>2
<1>2. CASE CheckGen(t)
  <2>1. NameTypeOK' /\ WriterInv' /\ ReaderInv'
    BY <1>2, SMTT(30) DEF CheckGen, Goto, NameTypeOK, WriterInv, ReaderInv, Holding, Copying, Storing
  <2>2. ASSUME module_gen = nameTmp[t].gen1
        PROVE  nameTmp[t].copy = Whole(name[2]) /\ name[2] \in nameValid[t]
    <3>1. \A u \in NameThreads : namePc[u] \notin Storing
      BY <1>2, <2>2 DEF CheckGen, Goto, NameTypeOK, WriterInv, ReaderInv, Copying
    <3> QED
      BY <1>2, <2>2, <3>1 DEF CheckGen, Goto, NameTypeOK, WriterInv, ReaderInv, Copying, Whole
  <2>3. CopiedNameIsWhole'
    BY <1>2, <2>2 DEF CheckGen, Goto, NameTypeOK, CopiedNameIsWhole
  <2> QED
    BY <2>1, <2>3
<1>3. CASE GetName(t)
  BY <1>3, SMTT(30)
  DEF GetName, Goto, NameTypeOK, WriterInv, ReaderInv, CopiedNameIsWhole, Holding, Copying, Storing
<1>4. CASE UseCopy(t)
  <2>1. NoTmp \in [gen1 : Nat, set : Names, copy : [1 .. 2 -> Names]]
    BY NameAssumption DEF NoTmp, Whole
  <2> QED
    BY <1>4, <2>1, SMTT(30)
    DEF UseCopy, Goto, NameTypeOK, WriterInv, ReaderInv, CopiedNameIsWhole, Holding, Copying, Storing
<1>5. CASE CopyHalf(t, 1, "copy_first", "copy_second")
  BY <1>5, SMTT(30)
  DEF CopyHalf, Goto, NameTypeOK, WriterInv, ReaderInv, CopiedNameIsWhole, Holding, Copying, Storing
<1>6. CASE CopyHalf(t, 2, "copy_second", "check")
  BY <1>6, SMTT(30)
  DEF CopyHalf, Goto, NameTypeOK, WriterInv, ReaderInv, CopiedNameIsWhole, Holding, Copying, Storing
<1> QED
  BY <1>1, <1>2, <1>3, <1>4, <1>5, <1>6

\* Every step of a thread that copies the name under the mutex keeps NameInv.
LEMMA LockedStep ==
  ASSUME NameInv, NEW t \in NameThreads,
         \/ CopyLock(t) \/ CopyUnlock(t)
         \/ CopyHalf(t, 1, "held_first", "held_second") \/ CopyHalf(t, 2, "held_second", "held_unlock")
  PROVE  NameInv'
<1> USE DEF NameInv
<1>1. CASE CopyLock(t)
  <2>1. NameTypeOK' /\ WriterInv'
    BY <1>1, FreeMeansNoHolder, SMTT(30)
    DEF CopyLock, LockName, Goto, NameTypeOK, WriterInv, Holding, Copying, Storing
  <2>2. ReaderInv' /\ CopiedNameIsWhole'
    BY <1>1, SMTT(30) DEF CopyLock, Goto, NameTypeOK, ReaderInv, CopiedNameIsWhole, Copying
  <2> QED
    BY <2>1, <2>2
<1>2. CASE CopyUnlock(t)
  <2>1. NameTypeOK' /\ WriterInv' /\ ReaderInv'
    BY <1>2, OneHolder, SMTT(30)
    DEF CopyUnlock, UnlockName, Goto, NameTypeOK, WriterInv, ReaderInv, Holding, Copying, Storing
  <2>2. nameTmp[t].copy = Whole(name[2]) /\ name[2] \in nameValid[t]
    <3>1. \A u \in NameThreads : namePc[u] \notin Storing
      BY <1>2, OneHolder DEF CopyUnlock, Goto, Holding, Storing
    <3> QED
      BY <1>2, <3>1 DEF CopyUnlock, Goto, NameTypeOK, WriterInv, ReaderInv, Whole
  <2>3. CopiedNameIsWhole'
    BY <1>2, <2>2 DEF CopyUnlock, Goto, NameTypeOK, CopiedNameIsWhole
  <2> QED
    BY <2>1, <2>3
<1>3. CASE CopyHalf(t, 1, "held_first", "held_second")
  BY <1>3, SMTT(30)
  DEF CopyHalf, Goto, NameTypeOK, WriterInv, ReaderInv, CopiedNameIsWhole, Holding, Copying, Storing
<1>4. CASE CopyHalf(t, 2, "held_second", "held_unlock")
  BY <1>4, SMTT(30)
  DEF CopyHalf, Goto, NameTypeOK, WriterInv, ReaderInv, CopiedNameIsWhole, Holding, Copying, Storing
<1> QED
  BY <1>1, <1>2, <1>3, <1>4

\* A log call of logger_writevprintf_internal or logger_write_kv_internal copies a name
\* that was set as a whole and was current since the call began, for any number of
\* threads that log and set names.
THEOREM NeverTorn == NameSpec => []CopiedNameIsWhole
<1>1. NameInit => NameInv
  BY NameInitial
<1>2. NameInv /\ [NameNext]_nameVars => NameInv'
  <2>1. ASSUME NameInv, NameNext PROVE NameInv'
    BY <2>1, WriterStep, UnlockedStep, LockedStep DEF NameNext
  <2>2. ASSUME NameInv, UNCHANGED nameVars PROVE NameInv'
    BY <2>2
    DEF nameVars, NameInv, NameTypeOK, WriterInv, ReaderInv, CopiedNameIsWhole
  <2> QED
    BY <2>1, <2>2
<1>3. NameInv => CopiedNameIsWhole
  BY DEF NameInv
<1> QED
  BY <1>1, <1>2, <1>3, PTL DEF NameSpec
=============================================================================
