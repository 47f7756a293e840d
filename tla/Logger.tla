------------------------------- MODULE Logger -------------------------------
(***************************************************************************)
(* The log file.  Threads that log put lines into a queue, one thread      *)
(* writes them; the user turns the file on and off and sets how it is      *)
(* rotated.                                                                *)
(*                                                                         *)
(* Three mutexes: the path's, the queue's, the file's.  None is held       *)
(* together with another, so what was read under one may be old when it is *)
(* used under the next.  A full queue drops lines; an error is then        *)
(* written by the thread that logs it.  A fatal error ends the program     *)
(* without closing anything, after it has waited for the writer.           *)
(*                                                                         *)
(* A file is named for its day.  Sizes are counted in lines; files can be  *)
(* opened and renamed.                                                     *)
(***************************************************************************)
EXTENDS Naturals, Sequences, SequencesExt, FiniteSets, Functions

CONSTANTS
    Threads,    \* threads that log
    Fatal,      \* those whose errors are fatal
    MaxCmds,    \* kMaxAsyncCmds
    Backups,    \* numbers of backups the user may set
    MaxLines,   \* bound: lines
    MaxDays,    \* bound: days
    MaxOps      \* bound: what the user does

VARIABLES
    configured,     \* configured_path_ is not empty
    enabled,        \* file_output_enabled_
    cmds,           \* cmds_
    writing,        \* the command the writer has taken
    fs,             \* the file that is open, its buffer, and the files on the disk
    policy,         \* rotation_max_file_size_bytes_ and rotation_max_backup_files_
    logging,        \* by thread: its call of log
    ui,             \* the user's change: what is left of it
    today,
    lowered,        \* history: a lower number of backups was set
    before,         \* history: the lines on their way when the end was asked for, by who did
    ended,          \* the program
    ops

vars == <<configured, enabled, cmds, writing, fs, policy, logging, ui, today, lowered,
          before, ended, ops>>

NoFile == 0     \* the empty path
Idle == "idle"
Main == "main"  \* not a thread of Threads: it ends the program
NoCmd == [is |-> Idle]
NoCall == [at |-> Idle, level |-> "info", path |-> NoFile]

Put(disk, name, lines) ==
    [n \in DOMAIN disk \cup {name} |-> IF n = name THEN lines ELSE disk[n]]

\* As main leaves it: the settings have been read, the output is on or off.
Init ==
    /\ configured \in BOOLEAN /\ enabled = configured
    /\ fs = [open |-> IF configured THEN 1 ELSE NoFile, buffer |-> <<>>, gone |-> {},
             disk |-> IF configured THEN Put(<< >>, <<1, 0>>, <<>>) ELSE << >>]
    /\ cmds = <<>> /\ writing = NoCmd
    /\ policy = [size |-> 1, backups |-> 1]
    /\ logging = [t \in Threads |-> [nth |-> 0, call |-> NoCall]]
    /\ ui = <<>> /\ today = 1 /\ lowered = FALSE
    /\ before = [w \in Threads \cup {Main} |-> {}]
    /\ ended = "no" /\ ops = 0

-----------------------------------------------------------------------------
(* The files, under file_mutex_.                                           *)

Base(f) == <<f.open, 0>>

Flushed(f) ==
    IF f.open = NoFile THEN f
    ELSE [f EXCEPT !.disk = Put(@, Base(f), f.disk[Base(f)] \o f.buffer), !.buffer = <<>>]

\* Mutant of Closed: the buffer is not written.
ClosedUnwritten(f) == [f EXCEPT !.open = NoFile]

\* closeLogFileUnlocked
Closed(f) == [Flushed(f) EXCEPT !.open = NoFile]

\* reopenFileUnlocked: a file that is there is appended to.
Reopened(f, path) ==
    IF path = NoFile THEN Closed(f)
    ELSE [Closed(f) EXCEPT !.open = path,
            !.disk = IF <<path, 0>> \in DOMAIN @ THEN @ ELSE Put(@, <<path, 0>>, <<>>)]

\* The lines of a backup that is removed, with their day.
Removed(f, k) == IF <<f.open, k>> \in DOMAIN f.disk
                 THEN {<<f.open, line>> : line \in ToSet(f.disk[<<f.open, k>>])} ELSE {}

\* Mutant of Rotated: a backup that is there is kept, and the file discarded.
RotatedAway(f, backups) ==
    IF <<f.open, 1>> \in DOMAIN f.disk
    THEN [f EXCEPT !.gone = @ \cup {<<f.open, line>> : line \in ToSet(f.disk[Base(f)])},
                   !.disk = Put(@, Base(f), <<>>)]
    ELSE [f EXCEPT !.disk = Put(Put(@, <<f.open, 1>>, f.disk[Base(f)]), Base(f), <<>>)]

\* rotateFilesUnlocked: the backups move up by one, the last is removed, the
\* file becomes the first backup.  Backups past the number are left alone.
Rotated(f, backups) ==
    LET day == f.open
        kept == {n \in DOMAIN f.disk : n[1] # day \/ n[2] > backups}
        moved == {<<day, k>> : k \in {k \in 1..backups : <<day, k - 1>> \in DOMAIN f.disk}}
    IN  [f EXCEPT
           !.gone = @ \cup Removed(f, backups),
           !.disk = [n \in kept \cup moved \cup {Base(f)} |->
                       IF n = Base(f) THEN <<>>
                       ELSE IF n \in moved THEN f.disk[<<day, n[2] - 1>>] ELSE f.disk[n]]]

\* rotateIfNeededUnlocked: asking for the size writes the buffer out.
RotatedIfNeeded(f) ==
    IF policy.size = 0 \/ policy.backups = 0 THEN f
    ELSE IF Len(Flushed(f).disk[Base(f)]) + 1 <= policy.size THEN Flushed(f)
    ELSE Rotated(Flushed(f), policy.backups)

\* writeTextLineUnlocked, after the file of the line's day is opened.
Written(f, line, path, flush) ==
    LET at == IF path # f.open THEN Reopened(f, path) ELSE f
        to == RotatedIfNeeded(at)
        put == [to EXCEPT !.buffer = Append(@, line)]
    IN  IF flush THEN Flushed(put) ELSE put

-----------------------------------------------------------------------------
(* log and logFatal, in any thread.                                        *)

Call(t, c) == logging' = [logging EXCEPT ![t].call = c]
Path == IF configured THEN today ELSE NoFile
Lines == SumFunction([t \in Threads |-> logging[t].nth])
LineOf(t) == [by |-> t, nth |-> logging[t].nth, level |-> logging[t].call.level]
Cmd(t) == [is |-> "line", line |-> LineOf(t), path |-> logging[t].call.path]

\* isFileOutputEnabled; a fatal error does not ask.
Log(t) ==
    \E level \in {"info", IF t \in Fatal THEN "fatal" ELSE "error"} :
      /\ ended = "no" /\ logging[t].call.at = Idle /\ Lines < MaxLines
      /\ logging' = [logging EXCEPT ![t] =
            [nth |-> @.nth + 1,
             call |-> IF enabled \/ level = "fatal"
                      THEN [at |-> "path", level |-> level, path |-> NoFile] ELSE NoCall]]
      /\ UNCHANGED <<configured, enabled, cmds, writing, fs, policy, ui, today, lowered, before,
                     ended, ops>>

\* The path is read, under its mutex.
ReadPath(t) ==
    /\ logging[t].call.at = "path"
    /\ IF Path = NoFile
       THEN /\ Call(t, NoCall)
            /\ ended' = IF logging[t].call.level = "fatal" THEN "fatal" ELSE ended
       ELSE /\ Call(t, [logging[t].call EXCEPT !.at = "queue", !.path = Path])
            /\ UNCHANGED ended
    /\ UNCHANGED <<configured, enabled, cmds, writing, fs, policy, ui, today, lowered, before, ops>>

\* Where a call goes on after its line: a fatal error waits for the writer.
After(t) == IF logging[t].call.level = "fatal"
            THEN [logging[t].call EXCEPT !.at = "barrier"] ELSE NoCall

\* Mutant of Enqueue: an error is dropped like any other line.
EnqueueOrDrop(t) ==
    /\ logging[t].call.at = "queue"
    /\ cmds' = IF Len(cmds) < MaxCmds THEN Append(cmds, Cmd(t)) ELSE cmds
    /\ Call(t, After(t))
    /\ UNCHANGED <<configured, enabled, writing, fs, policy, ui, today, lowered, before, ended, ops>>

\* Mutant of Enqueue: every line is written by its thread if the queue is full.
EnqueueOrWrite(t) ==
    /\ logging[t].call.at = "queue"
    /\ IF Len(cmds) < MaxCmds
       THEN cmds' = Append(cmds, Cmd(t)) /\ Call(t, After(t))
       ELSE UNCHANGED cmds /\ Call(t, [logging[t].call EXCEPT !.at = "direct"])
    /\ UNCHANGED <<configured, enabled, writing, fs, policy, ui, today, lowered, before, ended, ops>>

\* tryEnqueueLineToFile; errors are written by the thread if the queue is full.
Enqueue(t) ==
    /\ logging[t].call.at = "queue"
    /\ IF Len(cmds) < MaxCmds
       THEN cmds' = Append(cmds, Cmd(t)) /\ Call(t, After(t))
       ELSE /\ UNCHANGED cmds
            /\ Call(t, IF logging[t].call.level = "info" THEN NoCall
                       ELSE [logging[t].call EXCEPT !.at = "direct"])
    /\ UNCHANGED <<configured, enabled, writing, fs, policy, ui, today, lowered, before, ended, ops>>

WriteDirectly(t) ==
    /\ logging[t].call.at = "direct"
    /\ fs' = Written(fs, LineOf(t), logging[t].call.path, TRUE)
    /\ Call(t, After(t))
    /\ UNCHANGED <<configured, enabled, cmds, writing, policy, ui, today, lowered, before, ended, ops>>

Queued == {cmds[i].line : i \in {j \in DOMAIN cmds : cmds[j].is = "line"}}
          \cup IF writing.is = "line" THEN {writing.line} ELSE {}
Asks(w) == before' = [before EXCEPT ![w] = Queued \cup ToSet(fs.buffer)]

\* waitUntilWriterIdle puts a barrier behind all that is queued.
PutBarrier(t) ==
    /\ logging[t].call.at = "barrier"
    /\ cmds' = Append(cmds, [is |-> "barrier", by |-> t])
    /\ Asks(t)
    /\ Call(t, [logging[t].call EXCEPT !.at = "wait"])
    /\ UNCHANGED <<configured, enabled, writing, fs, policy, ui, today, lowered, ended, ops>>

\* quick_exit: nothing is flushed or closed.
QuickExit(t) ==
    /\ logging[t].call.at = "exit" /\ ended' = "fatal"
    /\ Call(t, NoCall)
    /\ UNCHANGED <<configured, enabled, cmds, writing, fs, policy, ui, today, lowered, before, ops>>

-----------------------------------------------------------------------------
(* The writer.                                                             *)

TakeCmd ==
    /\ writing.is = Idle /\ cmds # <<>>
    /\ writing' = Head(cmds) /\ cmds' = Tail(cmds)
    /\ UNCHANGED <<configured, enabled, fs, policy, logging, ui, today, lowered, before, ended, ops>>

\* processOneCmd, a line.
WriteLine ==
    /\ writing.is = "line" /\ writing' = NoCmd
    /\ fs' = Written(fs, writing.line, writing.path, writing.line.level # "info")
    /\ UNCHANGED <<configured, enabled, cmds, policy, logging, ui, today, lowered, before, ended, ops>>

Reopen ==
    /\ writing.is = "reopen" /\ writing' = NoCmd
    /\ fs' = Reopened(fs, writing.path)
    /\ UNCHANGED <<configured, enabled, cmds, policy, logging, ui, today, lowered, before, ended, ops>>

\* Mutant of Barrier: the promise is set without a flush.
BarrierUnflushed ==
    /\ writing.is = "barrier" /\ writing' = NoCmd
    /\ Call(writing.by, [logging[writing.by].call EXCEPT !.at = "exit"])
    /\ UNCHANGED <<configured, enabled, cmds, fs, policy, ui, today, lowered, before, ended, ops>>

Barrier ==
    /\ writing.is = "barrier" /\ writing' = NoCmd
    /\ fs' = Flushed(fs)
    /\ Call(writing.by, [logging[writing.by].call EXCEPT !.at = "exit"])
    /\ UNCHANGED <<configured, enabled, cmds, policy, ui, today, lowered, before, ended, ops>>

\* writerLoop ends at a shutdown.
Shutdown ==
    /\ writing.is = "shutdown" /\ writing' = NoCmd
    /\ fs' = Closed(fs) /\ ended' = "closed"
    /\ UNCHANGED <<configured, enabled, cmds, policy, logging, ui, today, lowered, before, ops>>

-----------------------------------------------------------------------------
(* The user interface's thread, the clock, and the end of the program.     *)

\* setLogFilePath, then setFileOutputEnabled: the second has the file opened
\* or closed once more.
ChangeOutput ==
    \E on \in BOOLEAN :
      /\ ended = "no" /\ ui = <<>> /\ ops < MaxOps /\ ops' = ops + 1
      /\ ui' = <<"flag", "reopen", "reopen">>
      /\ configured' = on
      /\ UNCHANGED <<enabled, cmds, writing, fs, policy, logging, today, lowered, before, ended>>

\* The next step of it.  Turning the output on reads the path again.
UiStep ==
    /\ ui # <<>> /\ ui' = Tail(ui)
    /\ enabled' = IF Head(ui) = "flag" THEN configured ELSE enabled
    /\ cmds' = IF Head(ui) = "reopen"
               THEN Append(cmds, [is |-> "reopen", path |-> Path]) ELSE cmds
    /\ UNCHANGED <<configured, writing, fs, policy, logging, today, lowered, before, ended, ops>>

\* setRotationPolicy
SetPolicy ==
    \E size \in {0, 1}, backups \in Backups :
      /\ ended = "no" /\ ui = <<>> /\ ops < MaxOps /\ ops' = ops + 1
      /\ policy' = [size |-> size, backups |-> backups] /\ policy' # policy
      /\ lowered' = (lowered \/ backups < policy.backups)
      /\ UNCHANGED <<configured, enabled, cmds, writing, fs, logging, ui, today, before, ended>>

Midnight ==
    /\ ended = "no" /\ today < MaxDays /\ today' = today + 1
    /\ UNCHANGED <<configured, enabled, cmds, writing, fs, policy, logging, ui, lowered, before,
                   ended, ops>>

\* ~Logger, when the other threads have been joined.
Exit ==
    /\ ended = "no" /\ ui = <<>> /\ \A t \in Threads : logging[t].call.at = Idle
    /\ ended' = "asked"
    /\ Asks(Main)
    /\ cmds' = Append(cmds, [is |-> "shutdown"])
    /\ UNCHANGED <<configured, enabled, writing, fs, policy, logging, ui, today, lowered, ops>>

Running == ended \in {"no", "asked"}

Next ==
    /\ Running
    /\ \/ \E t \in Threads : Log(t) \/ ReadPath(t) \/ Enqueue(t) \/ WriteDirectly(t)
                             \/ PutBarrier(t) \/ QuickExit(t)
       \/ TakeCmd \/ WriteLine \/ Reopen \/ Barrier \/ Shutdown
       \/ ChangeOutput \/ UiStep \/ SetPolicy \/ Midnight \/ Exit

Spec == Init /\ [][Next]_vars

-----------------------------------------------------------------------------
(* Properties                                                              *)

OnDisk == UNION {ToSet(fs.disk[n]) : n \in DOMAIN fs.disk}
Gone == {g[2] : g \in fs.gone}
Everywhere == OnDisk \cup ToSet(fs.buffer) \cup Gone

\* The buffer belongs to the file that is open, which is on the disk.
TypeOK ==
    /\ fs.open = NoFile => fs.buffer = <<>>
    /\ fs.open # NoFile => Base(fs) \in DOMAIN fs.disk
    /\ \A n \in DOMAIN fs.disk : n[1] \in 1..MaxDays /\ n[2] \in Nat
    /\ \A i \in DOMAIN cmds : cmds[i].is \in {"line", "reopen", "barrier", "shutdown"}
    /\ Cardinality({i \in DOMAIN cmds : cmds[i].is = "line"}) <= MaxCmds

\* An error that found the output on is never dropped, however full the queue,
\* and no line on its way is: until the program ends it stays on its way or in the
\* files, unless a rotation has removed it since.
ErrorsKept ==
    [][/\ \A t \in Threads :
            /\ logging[t].call.at \in {"queue", "direct"} /\ logging[t].call.level # "info"
            /\ logging'[t].call.at \notin {"queue", "direct"}
            => LineOf(t) \in Queued' \cup Everywhere'
       /\ Queued \cup Everywhere \subseteq Queued' \cup Everywhere']_vars

\* The end of the program finds every line that was on its way before it in the
\* files, also a fatal error's own: the writer has worked through the queue
\* and the buffer is written out.
EndDrains ==
    /\ \A t \in Threads : logging[t].call.at = "exit" =>
            before[t] \cup {LineOf(t)} \subseteq OnDisk \cup Gone
    /\ ended = "closed" => before[Main] \subseteq OnDisk \cup Gone

\* Of one thread's lines the one that comes first was logged first; only an
\* error that overtook a full queue comes early.
Early(a, b) == a.by = b.by /\ a.level = "info" => a.nth < b.nth

\* The lines of a day, the oldest backup first, the file last.
Numbers(day) == {n[2] : n \in {m \in DOMAIN fs.disk : m[1] = day}}

\* Within a file and from backup to backup the lines of one thread are in the
\* order it logged them.
LinesInOrder ==
    \A day \in 1..MaxDays : \A k, l \in Numbers(day) :
      \A i \in DOMAIN fs.disk[<<day, k>>], j \in DOMAIN fs.disk[<<day, l>>] :
        k > l \/ (k = l /\ i < j) => Early(fs.disk[<<day, k>>][i], fs.disk[<<day, l>>][j])

\* What a rotation removes is older than all that stays, as long as the number
\* of backups was not lowered (then a gap appears in the middle).
OldestGo ==
    ~lowered => \A g \in fs.gone : \A k \in Numbers(g[1]) :
                  \A line \in ToSet(fs.disk[<<g[1], k>>]) : Early(g[2], line)

\* What the log's files promise whoever reads them.
FilesComplete == EndDrains /\ LinesInOrder /\ OldestGo

=============================================================================
