------------------------------ MODULE FileSink ------------------------------
(***************************************************************************)
(* The file sink with its rotation (sinks/file_sink.c, core/rotate.c), one *)
(* system call a step, with the calls that can fail failing and with the   *)
(* process crashing and starting again between any two.  A line is a unit  *)
(* of size; the lines are numbered in the order in which they reach the    *)
(* disk, whichever sink's buffer they come from.  A reload opens the same  *)
(* path in a second sink before it destroys the first.                     *)
(***************************************************************************)
EXTENDS Integers, Sequences

CONSTANTS
  MaxSize,         \* file_max_size, in lines
  BackupChoices,   \* the values of file_backups tried
  MaxLines,        \* bound on the lines that reach the disk
  MaxFiles,        \* bound on the files ever created
  MaxFaults        \* bound on the failing calls and crashes

VARIABLES
  backups,         \* data->backups
  dir,             \* the directory: dir[0] is the file at path, dir[i] the one at path.i; 0: none
  data,            \* of every file its lines
  fsink,           \* the sink in the dispatcher's array
  fnext,           \* the sink a reload has built and not committed
  fold,            \* the sink a reload has replaced and not destroyed
  fstep,           \* where file_write is, and the index its rotation is at
  reached,         \* the number of lines that have reached the disk
  fhist            \* history: calls that failed, what a reload overlapped with, lines unlinked

fileVars == <<backups, dir, data, fsink, fnext, fold, fstep, reached, fhist>>

Closed == [open |-> FALSE, file |-> 0, buf |-> 0, size |-> 0]
Down == [at |-> "down", i |-> 0]
Resting == [at |-> "rest", i |-> 0]
MaxBackups == CHOOSE n \in BackupChoices : \A m \in BackupChoices : m <= n

FileInit ==
  /\ backups \in BackupChoices
  /\ dir = [i \in 0 .. MaxBackups |-> 0]
  /\ data = <<>>
  /\ fsink = Closed
  /\ fnext = Closed
  /\ fold = Closed
  /\ fstep = Down
  /\ reached = 0
  /\ fhist = [failed |-> 0, bad |-> FALSE, overlap |-> FALSE, crossed |-> FALSE,
              dropped |-> 0]

Lines(i) == IF dir[i] = 0 THEN <<>> ELSE data[dir[i]]

FileAt(a) == fstep.at = a
FileGo(a) == fstep' = [at |-> a, i |-> 0]

Faulty == fhist.failed < MaxFaults /\ fhist' = [fhist EXCEPT !.failed = @ + 1, !.bad = TRUE]

\* n lines of a buffer reach the file f.
Flushed(f, n) == [data EXCEPT ![f] = @ \o [i \in 1 .. n |-> reached + i]]

Reach(f, n) == reached + n <= MaxLines /\ data' = Flushed(f, n) /\ reached' = reached + n

\* fopen(path, "ab"): the file is created when it is not there.
OpenAmong(files) ==
  IF dir[0] # 0 THEN data' = files /\ UNCHANGED dir
  ELSE /\ Len(files) < MaxFiles
       /\ data' = Append(files, <<>>)
       /\ dir' = [dir EXCEPT ![0] = Len(files) + 1]

Open == OpenAmong(data)

Sized(n) == [open |-> TRUE, file |-> dir'[0], buf |-> 0, size |-> n]

(***************************************************************************)
(* file_sink_create, when the process starts or starts again: the size of  *)
(* what is already in the file counts.                                     *)
(***************************************************************************)
SizeFromZero == Sized(0)

SizeFromFile == Sized(Len(data'[dir'[0]]))

FileCreate ==
  /\ FileAt("down")
  /\ Open
  /\ fsink' = SizeFromFile
  /\ FileGo("rest")
  /\ UNCHANGED <<backups, fnext, fold, reached, fhist>>

(***************************************************************************)
(* file_write.  fwrite puts the line in the stdio buffer and may write any *)
(* number of the oldest lines of the buffer to the file.                   *)
(***************************************************************************)
FileWrite ==
  /\ FileAt("rest")
  /\ fsink.open
  /\ reached + fsink.buf < MaxLines
  /\ \E n \in 0 .. fsink.buf + 1 :
       /\ Reach(fsink.file, n)
       /\ fsink' = [fsink EXCEPT !.buf = @ + 1 - n, !.size = @ + 1]
  /\ FileGo(IF fsink.size + 1 >= MaxSize THEN "flush" ELSE "rest")
  /\ fhist' = [fhist EXCEPT !.overlap = @ \/ fnext.open]
  /\ UNCHANGED <<backups, dir, fnext, fold>>

\* fwrite fails: the line is gone and not counted, the error is cleared.
FileWriteFails ==
  /\ FileAt("rest")
  /\ fsink.open
  /\ Faulty
  /\ UNCHANGED <<backups, dir, data, fsink, fnext, fold, fstep, reached>>

\* fflush and fclose; a failing fflush ends the call with the file still open.
FlushAndClose ==
  /\ FileAt("flush")
  /\ \/ /\ Reach(fsink.file, fsink.buf)
        /\ fsink' = [fsink EXCEPT !.open = FALSE, !.buf = 0]
        /\ FileGo("unlink")
        /\ UNCHANGED fhist
     \/ /\ Faulty
        /\ FileGo("rest")
        /\ UNCHANGED <<data, reached, fsink>>
  /\ UNCHANGED <<backups, dir, fnext, fold>>

(***************************************************************************)
(* file_rotate_file: drop path.N, move every path.i to path.(i+1) from the *)
(* highest down, and at last path to path.1.  It stops at the first call   *)
(* that fails, and does nothing without backups.                           *)
(***************************************************************************)
UnlinkOldest ==
  /\ FileAt("unlink")
  /\ \/ /\ backups > 0
        /\ dir' = [dir EXCEPT ![backups] = 0]
        /\ fstep' = [at |-> "shift", i |-> backups - 1]
        /\ fhist' = [fhist EXCEPT !.dropped = @ + Len(Lines(backups))]
     \/ /\ backups <= 0
        /\ FileGo("reopen")
        /\ fhist' = [fhist EXCEPT !.bad = TRUE]
        /\ UNCHANGED dir
     \/ /\ backups > 0
        /\ Faulty
        /\ FileGo("reopen")
        /\ UNCHANGED dir
  /\ UNCHANGED <<backups, data, fsink, fnext, fold, reached>>

MoveUp(i) == dir' = [dir EXCEPT ![i + 1] = dir[i], ![i] = 0]

AfterShift(i) == IF i = 0 THEN [at |-> "reopen", i |-> 0] ELSE [at |-> "shift", i |-> i - 1]

\* The step for path.i; without a file at path the rotation fails.
ShiftAt(i) ==
  /\ FileAt("shift")
  /\ \/ /\ dir[i] # 0
        /\ MoveUp(i)
        /\ fstep' = AfterShift(fstep.i)
        /\ fhist' = [fhist EXCEPT !.crossed = @ \/ (i = 0 /\ (fnext.open \/ fold.open))]
     \/ /\ dir[i] = 0
        /\ fstep' = AfterShift(fstep.i)
        /\ fhist' = [fhist EXCEPT !.bad = @ \/ i = 0]
        /\ UNCHANGED dir
     \/ /\ dir[i] # 0
        /\ Faulty
        /\ FileGo("reopen")
        /\ UNCHANGED dir
  /\ UNCHANGED <<backups, data, fsink, fnext, fold, reached>>

\* Mutant: from the lowest up.
ShiftAscending == ShiftAt(backups - 1 - fstep.i)

Shift == ShiftAt(fstep.i)

\* The path is opened whether the rotation succeeded or not, and the size starts at zero;
\* when it cannot be opened the sink stays without a file.
Reopen ==
  /\ FileAt("reopen")
  /\ \/ Open /\ fsink' = Sized(0) /\ UNCHANGED fhist
     \/ Faulty /\ UNCHANGED <<dir, data, fsink>>
  /\ FileGo("rest")
  /\ UNCHANGED <<backups, fnext, fold, reached>>

\* file_flush.
FileFlush ==
  /\ FileAt("rest")
  /\ fsink.open
  /\ fsink.buf > 0
  /\ Reach(fsink.file, fsink.buf)
  /\ fsink' = [fsink EXCEPT !.buf = 0]
  /\ UNCHANGED <<backups, dir, fnext, fold, fstep, fhist>>

(***************************************************************************)
(* A reload: the new sink opens the path while the old one may still be    *)
(* written to, even be in the middle of a rotation; the commit waits for   *)
(* the write under way (the dispatcher's mutex); the old sink's buffer     *)
(* reaches the disk when it is destroyed.                                  *)
(***************************************************************************)
ReloadOpen ==
  /\ ~FileAt("down")
  /\ ~fnext.open
  /\ ~fold.open
  /\ Open
  /\ fnext' = SizeFromFile
  /\ fhist' = [fhist EXCEPT !.overlap = @ \/ fsink.buf > 0 \/ ~FileAt("rest"),
                            !.crossed = @ \/ ~FileAt("rest")]
  /\ UNCHANGED <<backups, fsink, fold, fstep, reached>>

ReloadSwap ==
  /\ FileAt("rest")
  /\ fnext.open
  /\ fsink' = fnext
  /\ fold' = fsink
  /\ fnext' = Closed
  /\ UNCHANGED <<backups, dir, data, fstep, reached, fhist>>

\* file_destroy of the sink the reload replaced.
FileDestroyOld ==
  /\ fold.open
  /\ Reach(fold.file, fold.buf)
  /\ fold' = Closed
  /\ UNCHANGED <<backups, dir, fsink, fnext, fstep, fhist>>

\* file_destroy of the live sink.
FileDestroy ==
  /\ FileAt("rest")
  /\ ~fnext.open
  /\ ~fold.open
  /\ IF fsink.open THEN Reach(fsink.file, fsink.buf) ELSE UNCHANGED <<data, reached>>
  /\ fsink' = Closed
  /\ FileGo("down")
  /\ UNCHANGED <<backups, dir, fnext, fold, fhist>>

(***************************************************************************)
(* file_atfork_child, between reloads: the child closes its copy of the    *)
(* stream, which writes its copy of the buffer, and opens the path anew,   *)
(* also when the sink had lost its file.  On the side of the child ...     *)
(***************************************************************************)
FileForkChild ==
  LET closed == IF fsink.open THEN Flushed(fsink.file, fsink.buf) ELSE data IN
  /\ FileAt("rest")
  /\ ~fnext.open
  /\ ~fold.open
  /\ reached + fsink.buf <= MaxLines
  /\ reached' = reached + fsink.buf
  /\ \/ /\ OpenAmong(closed)
        /\ LET size == Len(data'[dir'[0]]) IN fsink' = Sized(IF size > 0 THEN size ELSE fsink.size)
        /\ UNCHANGED fhist
     \/ /\ Faulty
        /\ data' = closed
        /\ fsink' = [fsink EXCEPT !.open = FALSE, !.buf = 0]
        /\ UNCHANGED dir
  /\ UNCHANGED <<backups, fnext, fold, fstep>>

\* ... and on the side of the parent, whose buffer keeps the lines the child has written.
FileForkParent ==
  /\ FileAt("rest")
  /\ ~fnext.open
  /\ ~fold.open
  /\ fsink.open
  /\ Reach(fsink.file, fsink.buf)
  /\ fhist' = [fhist EXCEPT !.overlap = @ \/ fsink.buf > 0]
  /\ UNCHANGED <<backups, dir, fsink, fnext, fold, fstep>>

\* The process dies: what the buffers hold is gone.
Crash ==
  /\ ~FileAt("down")
  /\ fhist.failed < MaxFaults
  /\ fhist' = [fhist EXCEPT !.failed = @ + 1]
  /\ fsink' = Closed
  /\ fnext' = Closed
  /\ fold' = Closed
  /\ FileGo("down")
  /\ UNCHANGED <<backups, dir, data, reached>>

FileNext ==
  \/ FileCreate \/ FileWrite \/ FileWriteFails \/ FlushAndClose \/ UnlinkOldest \/ Shift \/ Reopen \/ FileFlush
  \/ ReloadOpen \/ ReloadSwap \/ FileDestroyOld \/ FileDestroy
  \/ FileForkChild \/ FileForkParent \/ Crash

FileSpec == FileInit /\ [][FileNext]_fileVars

\* What the directory holds from the oldest backup to the file at path, up to backup n.
Kept[n \in 0 .. MaxBackups] == IF n = 0 THEN Lines(0) ELSE Lines(n) \o Kept[n - 1]

(***************************************************************************)
(* Rotation loses nothing but the oldest: at every moment, also in the     *)
(* middle of a rotation, after one that failed half-way and after a crash, *)
(* path.N .. path.1, path read one after the other are every line that     *)
(* reached the disk, in that order, but those of the files unlinked at     *)
(* path.N, which are older than all of them.  And as long as no call fails *)
(* and no process crashes, a file is unlinked only to make room: N backups *)
(* are kept from then on.  It is not promised when a rotation falls        *)
(* between a reload's opening of the path and its destruction of the old   *)
(* sink: one of the two then writes to a backup.                           *)
(***************************************************************************)
RetainedIsNewest ==
  ~fhist.crossed =>
    /\ Kept[MaxBackups] = [i \in 1 .. reached - fhist.dropped |-> fhist.dropped + i]
    /\ FileAt("rest") /\ fhist.dropped > 0 /\ fhist.failed = 0 /\ ~fhist.bad =>
         \A i \in 1 .. backups : dir[i] # 0

(***************************************************************************)
(* The file at path stays within the limit, over any sequence of rotations *)
(* and restarts: as long as no call fails, rotation has backups to rotate  *)
(* to and no reload opens the path while lines are on the way, it exceeds  *)
(* MaxSize by one line for each crash at most (a crash before a rotation   *)
(* leaves a full file, to which the next line is written before the size   *)
(* is looked at).                                                          *)
(***************************************************************************)
FileBounded ==
  ~fhist.bad /\ ~fhist.overlap /\ fsink.open => Len(data[fsink.file]) + fsink.buf <= MaxSize + fhist.failed
=============================================================================
