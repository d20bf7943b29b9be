----------------------------- MODULE ModuleName -----------------------------
(***************************************************************************)
(* The module name of a logger (core/log.c): logger_set_module_internal    *)
(* writes it under module_mutex between two increments of module_gen; a    *)
(* log call copies it without the mutex and takes the mutex only when      *)
(* module_gen is odd or has moved during the copy.  The name is two halves *)
(* that are stored and loaded one at a time, as snprintf and memcpy do;    *)
(* accesses are sequentially consistent (x86 keeps loads in order, and     *)
(* stores).                                                                *)
(***************************************************************************)
EXTENDS Integers

CONSTANTS
  NameThreads,   \* threads that set the name and log
  Names,         \* names they set
  MainName,      \* "main", also what an empty name sets
  MaxSets        \* bound: names set

ASSUME NameAssumption == MainName \in Names /\ MaxSets \in Nat /\ "free" \notin NameThreads

VARIABLES
  name,          \* logger->module, as two halves
  module_gen,
  nameMutex,     \* holder of module_mutex, or "free"
  namePc,        \* where a thread is
  nameTmp,       \* locals of a thread: gen1, the name to set, the copied halves
  nameSets,      \* names set so far
  nameValid      \* history: names current at some time since the call began

nameVars == <<name, module_gen, nameMutex, namePc, nameTmp, nameSets, nameValid>>

Whole(n) == [h \in 1 .. 2 |-> n]
NoTmp == [gen1 |-> 0, set |-> MainName, copy |-> Whole(MainName)]

NameInit ==
  /\ name = Whole(MainName) /\ module_gen = 0 /\ nameMutex = "free"
  /\ namePc = [t \in NameThreads |-> "idle"]
  /\ nameTmp = [t \in NameThreads |-> NoTmp]
  /\ nameSets = 0 /\ nameValid = [t \in NameThreads |-> {MainName}]

Goto(t, from, to) == namePc[t] = from /\ namePc' = [namePc EXCEPT ![t] = to]

LockName(t)   == nameMutex = "free" /\ nameMutex' = t
UnlockName(t) == nameMutex = t /\ nameMutex' = "free"

-----------------------------------------------------------------------------
(***************************************************************************)
(* logger_set_module_internal                                              *)
(***************************************************************************)
SetLock(t) ==
  \E n \in Names :
    /\ Goto(t, "idle", "set_odd") /\ LockName(t)
    /\ nameSets < MaxSets /\ nameSets' = nameSets + 1
    /\ nameTmp' = [nameTmp EXCEPT ![t].set = n]
    /\ UNCHANGED <<name, module_gen, nameValid>>

\* Mutant: the first increment is missing.
EnterQuietly(t) ==
  /\ Goto(t, "set_odd", "set_first")
  /\ UNCHANGED <<name, module_gen, nameMutex, nameTmp, nameSets, nameValid>>

SetEnter(t) ==
  /\ Goto(t, "set_odd", "set_first")
  /\ module_gen' = module_gen + 1
  /\ UNCHANGED <<name, nameMutex, nameTmp, nameSets, nameValid>>

SetHalf(t, i, from, to) ==
  /\ Goto(t, from, to)
  /\ name' = [name EXCEPT ![i] = nameTmp[t].set]
  /\ nameValid' = IF i = 1 THEN nameValid
                  ELSE [u \in NameThreads |-> nameValid[u] \cup {nameTmp[t].set}]
  /\ UNCHANGED <<module_gen, nameMutex, nameTmp, nameSets>>

SetLeave(t) ==
  /\ Goto(t, "set_even", "set_unlock")
  /\ module_gen' = module_gen + 1
  /\ UNCHANGED <<name, nameMutex, nameTmp, nameSets, nameValid>>

SetUnlock(t) ==
  /\ Goto(t, "set_unlock", "idle") /\ UnlockName(t)
  /\ UNCHANGED <<name, module_gen, nameTmp, nameSets, nameValid>>

-----------------------------------------------------------------------------
(***************************************************************************)
(* The copy of logger_writevprintf_internal and logger_write_kv_internal,  *)
(* and that of logger_get_module                                           *)
(***************************************************************************)
ReadGen(t) ==
  /\ Goto(t, "idle", IF module_gen % 2 = 0 THEN "copy_first" ELSE "lock")
  /\ nameTmp' = [nameTmp EXCEPT ![t].gen1 = module_gen]
  /\ nameValid' = [nameValid EXCEPT ![t] = {name[2]}]
  /\ UNCHANGED <<name, module_gen, nameMutex, nameSets>>

CopyHalf(t, i, from, to) ==
  /\ Goto(t, from, to)
  /\ nameTmp' = [nameTmp EXCEPT ![t].copy[i] = name[i]]
  /\ UNCHANGED <<name, module_gen, nameMutex, nameSets, nameValid>>

CheckGen(t) ==
  /\ Goto(t, "check", IF module_gen = nameTmp[t].gen1 THEN "copied" ELSE "lock")
  /\ UNCHANGED <<name, module_gen, nameMutex, nameTmp, nameSets, nameValid>>

GetName(t) ==
  /\ Goto(t, "idle", "lock")
  /\ nameValid' = [nameValid EXCEPT ![t] = {name[2]}]
  /\ UNCHANGED <<name, module_gen, nameMutex, nameTmp, nameSets>>

CopyLock(t) ==
  /\ Goto(t, "lock", "held_first") /\ LockName(t)
  /\ UNCHANGED <<name, module_gen, nameTmp, nameSets, nameValid>>

CopyUnlock(t) ==
  /\ Goto(t, "held_unlock", "copied") /\ UnlockName(t)
  /\ UNCHANGED <<name, module_gen, nameTmp, nameSets, nameValid>>

\* The record is dispatched with the copy.
UseCopy(t) ==
  /\ Goto(t, "copied", "idle")
  /\ nameTmp' = [nameTmp EXCEPT ![t] = NoTmp]
  /\ UNCHANGED <<name, module_gen, nameMutex, nameSets, nameValid>>

NameNext ==
  \E t \in NameThreads :
    \/ SetLock(t) \/ SetEnter(t)
    \/ SetHalf(t, 1, "set_first", "set_second") \/ SetHalf(t, 2, "set_second", "set_even")
    \/ SetLeave(t) \/ SetUnlock(t)
    \/ ReadGen(t) \/ CheckGen(t)
    \/ CopyHalf(t, 1, "copy_first", "copy_second") \/ CopyHalf(t, 2, "copy_second", "check")
    \/ GetName(t) \/ CopyLock(t)
    \/ CopyHalf(t, 1, "held_first", "held_second") \/ CopyHalf(t, 2, "held_second", "held_unlock")
    \/ CopyUnlock(t) \/ UseCopy(t)

NameSpec == NameInit /\ [][NameNext]_nameVars

-----------------------------------------------------------------------------
\* A log call gets a name that was set as a whole and was the name at some time
\* since the call began, however many threads set it meanwhile: a copy the
\* unlocked path keeps is never a mixture and never older than the call.
CopiedNameIsWhole ==
  \A t \in NameThreads :
    namePc[t] = "copied" => \E n \in nameValid[t] : nameTmp[t].copy = Whole(n)

-----------------------------------------------------------------------------
(***************************************************************************)
(* The invariant that makes it so.  Storing is the time between the two    *)
(* increments of module_gen, Holding that under module_mutex.              *)
(***************************************************************************)
Storing == {"set_first", "set_second", "set_even"}
Holding == Storing \cup {"set_odd", "set_unlock", "held_first", "held_second", "held_unlock"}
Copying == {"copy_first", "copy_second", "check"}

NameTypeOK ==
  /\ name \in [1 .. 2 -> Names]
  /\ module_gen \in Nat
  /\ nameMutex \in NameThreads \cup {"free"}
  /\ namePc \in [NameThreads -> Holding \cup Copying \cup {"idle", "lock", "copied"}]
  /\ nameTmp \in [NameThreads -> [gen1 : Nat, set : Names, copy : [1 .. 2 -> Names]]]
  /\ nameValid \in [NameThreads -> SUBSET Names]

\* module_gen is odd exactly while a thread stores the name.
WriterInv ==
  /\ \A t \in NameThreads : namePc[t] \in Holding => nameMutex = t
  /\ \A t \in NameThreads : namePc[t] \in Storing => module_gen % 2 = 1
  /\ (\A t \in NameThreads : namePc[t] \notin Storing) => module_gen % 2 = 0 /\ name[1] = name[2]
  /\ \A t \in NameThreads : namePc[t] = "set_second" => name[1] = nameTmp[t].set
  /\ \A t \in NameThreads : namePc[t] = "set_even" => name[1] = name[2]

\* What a reader has copied is the name, as long as module_gen has not moved.
ReaderInv ==
  \A t \in NameThreads :
    /\ name[2] \in nameValid[t]
    /\ namePc[t] \in Copying => nameTmp[t].gen1 % 2 = 0 /\ nameTmp[t].gen1 <= module_gen
    /\ \/ namePc[t] \in {"copy_second", "check"} /\ nameTmp[t].gen1 = module_gen
       \/ namePc[t] \in {"held_second", "held_unlock"}
       => nameTmp[t].copy[1] = name[1]
    /\ \/ namePc[t] = "check" /\ nameTmp[t].gen1 = module_gen
       \/ namePc[t] = "held_unlock"
       => nameTmp[t].copy[2] = name[2]

\* A copy is kept only after a time without a writer: module_gen did not move, or the
\* mutex was held.
NameInv == NameTypeOK /\ WriterInv /\ ReaderInv /\ CopiedNameIsWhole

=============================================================================
