---------------------------- MODULE RotateLogger ----------------------------
(***************************************************************************)
(* nkit::RotateLogger (src/src/logger/rotate_logger.cpp): a logger that    *)
(* moves its file away when a time or a size is reached.                   *)
(*                                                                         *)
(* WriteLine runs under the mutex of Logger, so it is one step here.  Its  *)
(* argument "now" was read when the log statement began, before the mutex  *)
(* was taken, and may be older than the clock and than the one of the line *)
(* before.  A process that stops, or aborts in Rotate, is followed by a    *)
(* new one on the same files.                                              *)
(*                                                                         *)
(* A line counts for one unit of the file's size.  A day has DayLength     *)
(* seconds: changes of the clock's offset are left out.                    *)
(***************************************************************************)
EXTENDS Integers, Sequences

CONSTANTS
    Interval,   \* the rotate_interval arguments of Create
    Size,       \* the rotate_size arguments of Create
    DayLength,  \* seconds of a day
    Start,      \* the clock at first
    MaxClock,   \* bound: the clock
    MaxDelay,   \* bound: seconds a log statement waits for the mutex
    MaxLines,   \* bound: lines written
    MaxRuns,    \* bound: processes
    CounterMax  \* the largest size_t

IntervalDisabled == 0   \* ROTATE_INTERVAL_DISABLED
SizeDisabled == -1      \* ROTATE_SIZE_DISABLED

\* What an instance gives for the constants.
RotateAssumption ==
    /\ Interval \subseteq Nat
    /\ Size \subseteq Int
    /\ DayLength \in Nat \ {0}
    /\ Start \in Nat /\ Start >= DayLength
    /\ {MaxClock, MaxDelay, MaxLines, MaxRuns, CounterMax} \subseteq Nat
    /\ MaxLines < CounterMax

VARIABLES
    clock,      \* time()
    up,         \* a process runs
    interval,   \* rotate_interval_
    size,       \* rotate_size_
    prev,       \* prev_rotate_time_
    next,       \* next_rotate_time_
    counter,    \* rotate_by_size_counter_
    pos,        \* file_stream_.tellp()
    file,       \* the lines in the file at file_path_
    archive,    \* the files it was moved to: a function from their names
    made,       \* history: made[a] is the run, and its interval, that moved the file to a
    born,       \* history: the start of the day on which this run began
    lines,      \* lines written
    runs,       \* processes begun
    failed      \* history: a file operation failed

logger == <<interval, size, prev, next, counter, born, runs>>
files == <<file, archive, made, failed>>
rotateVars == <<clock, up, pos, lines, logger, files>>

\* Midnight before t: day_start of UpdateRotateTimes.
DayStart(t) == t - (t % DayLength)

SizeInc(n) == IF n = CounterMax THEN 0 ELSE n + 1

\* UpdateRotateTimes: prev_rotate_time_ and next_rotate_time_ from i, p and n.
UpdateRotateTimes(i, p, n) ==
    IF i = IntervalDisabled THEN <<p, n>>
    ELSE LET q == IF p = 0 THEN DayStart(clock) ELSE n
         IN  <<q, q + i>>

(***************************************************************************)
(* The constructor.  The file is opened to append: what is in it stays,    *)
(* but tellp() is 0 until the first write.  The counter is (size_t)-1.     *)
(***************************************************************************)
StartLogger(i, s) ==
    /\ interval' = i
    /\ size' = s
    /\ LET times == UpdateRotateTimes(i, 0, 0)
       IN  prev' = times[1] /\ next' = times[2]
    /\ counter' = CounterMax
    /\ pos' = 0
    /\ born' = DayStart(clock)

RotateInit ==
    /\ clock = Start
    /\ up = FALSE
    /\ interval = IntervalDisabled
    /\ size = SizeDisabled
    /\ prev = 0
    /\ next = 0
    /\ counter = CounterMax
    /\ pos = 0
    /\ file = <<>>
    /\ archive = <<>>
    /\ made = <<>>
    /\ born = 0
    /\ lines = 0
    /\ runs = 0
    /\ failed = FALSE

\* RotateLogger::Create in a new process; a file that cannot be opened gives
\* a null pointer.
Create(i, s) ==
    /\ ~up
    /\ runs < MaxRuns
    /\ StartLogger(i, s)
    /\ up' = TRUE
    /\ runs' = runs + 1
    /\ UNCHANGED <<clock, lines, files>>

\* The process ends between two lines.
Stop ==
    /\ up
    /\ up' = FALSE
    /\ UNCHANGED <<clock, pos, lines, logger, files>>

Tick ==
    /\ clock < MaxClock
    /\ clock' = clock + 1
    /\ UNCHANGED <<up, pos, lines, logger, files>>

RotateBySize == size # SizeDisabled /\ pos >= size
RotateByTime(now) == interval # IntervalDisabled /\ now >= next

\* Mutant: the counter is used before it is incremented.
ArchiveNamePostfix(now) ==
    IF interval = IntervalDisabled
    THEN [time |-> now, suffix |-> 0]
    ELSE [time |-> prev, suffix |-> IF counter = CounterMax THEN 0 ELSE counter]

\* The name Rotate moves the file to, from the arguments WriteLine gives it.
ArchiveName(now) ==
    IF interval = IntervalDisabled
    THEN [time |-> now, suffix |-> 0]
    ELSE [time |-> prev, suffix |-> SizeInc(counter)]

\* The archives once text is in a: what was there before is gone.
WithArchive(a, text) ==
    [b \in DOMAIN archive \cup {a} |-> IF b = a THEN text ELSE archive[b]]

MadeNow(a) ==
    [b \in DOMAIN archive \cup {a} |->
        IF b = a THEN [run |-> runs, interval |-> interval] ELSE made[b]]

(***************************************************************************)
(* move_file, when it returns true: the file was renamed, or it was copied *)
(* and deleted.  copy_file does not look at the result of fwrite, so a     *)
(* copy may have lost lines at its end.                                    *)
(***************************************************************************)
Moved(a) ==
    /\ \/ archive' = WithArchive(a, file) /\ UNCHANGED failed
       \/ /\ \E n \in 0..(Len(file) - 1) : archive' = WithArchive(a, SubSeq(file, 1, n))
          /\ failed' = TRUE
    /\ made' = MadeNow(a)

(***************************************************************************)
(* Rotate ends in abort_with_core.  Either move_file returned false: the   *)
(* copy was not made; or it was made, the file could not be deleted, and   *)
(* the copy was deleted again, which may have failed too.  Or the file was *)
(* moved and could not be opened again.                                    *)
(***************************************************************************)
Aborted(a) ==
    /\ \/ UNCHANGED <<file, archive, made>>
       \/ /\ archive' = [b \in DOMAIN archive \ {a} |-> archive[b]]
          /\ made' = [b \in DOMAIN archive \ {a} |-> made[b]]
          /\ UNCHANGED file
       \/ /\ archive' = WithArchive(a, file)
          /\ made' = MadeNow(a)
          /\ file' \in {file, <<>>}
    /\ failed' = TRUE

\* Mutant: the times are updated before Rotate.
RotatedLate(now) ==
    IF RotateByTime(now)
    THEN /\ Moved([time |-> next, suffix |-> SizeInc(counter)])
         /\ prev' = next /\ next' = next + interval
         /\ counter' = CounterMax
    ELSE /\ Moved(ArchiveName(now))
         /\ UNCHANGED <<prev, next>>
         /\ counter' = IF interval = IntervalDisabled THEN counter ELSE SizeInc(counter)

\* The part of WriteLine that rotates, when Rotate returns.
Rotated(now) ==
    /\ Moved(ArchiveName(now))
    /\ \/ /\ RotateByTime(now)
          /\ LET times == UpdateRotateTimes(interval, prev, next)
             IN  prev' = times[1] /\ next' = times[2]
          /\ counter' = CounterMax
       \/ /\ ~RotateByTime(now)
          /\ UNCHANGED <<prev, next>>
          /\ counter' = IF interval = IntervalDisabled THEN counter ELSE SizeInc(counter)

\* The part of WriteLine that writes, to a file that holds text.
WriteTo(text) ==
    /\ file' = Append(text, [number |-> lines + 1, at |-> clock, run |-> runs])
    /\ pos' = Len(text) + 1
    /\ lines' = lines + 1

WriteLine(now) ==
    /\ up
    /\ lines < MaxLines
    /\ \/ /\ ~RotateByTime(now) /\ ~RotateBySize
          /\ WriteTo(file)
          /\ UNCHANGED <<up, prev, next, counter, archive, made, failed>>
       \/ /\ RotateByTime(now) \/ RotateBySize
          /\ Rotated(now)
          /\ WriteTo(<<>>)
          /\ UNCHANGED up
       \/ /\ RotateByTime(now) \/ RotateBySize
          /\ Aborted(ArchiveName(now))
          /\ up' = FALSE
          /\ UNCHANGED <<prev, next, counter, pos, lines>>
    /\ UNCHANGED <<clock, interval, size, born, runs>>

RotateNext ==
    \/ \E i \in Interval, s \in Size : Create(i, s)
    \/ Stop
    \/ Tick
    \/ \E now \in Start..MaxClock :
          /\ now \in (clock - MaxDelay)..clock
          /\ WriteLine(now)

RotateSpec == RotateInit /\ [][RotateNext]_rotateVars

-----------------------------------------------------------------------------
(***************************************************************************)
(* Properties.                                                             *)
(***************************************************************************)

Line == [number : 1..MaxLines, at : Start..MaxClock, run : 1..MaxRuns]
Name == [time : Nat, suffix : 0..CounterMax]

\* Every variable has its type; while intervals are in use the next rotation
\* is one interval after the previous one, and never that one in the future.
RotateTypeOK ==
    /\ clock \in Start..(IF Start > MaxClock THEN Start ELSE MaxClock)
    /\ up \in BOOLEAN
    /\ interval \in Interval \cup {IntervalDisabled}
    /\ size \in Size \cup {SizeDisabled}
    /\ prev \in 0..clock
    /\ next = IF interval = IntervalDisabled THEN 0 ELSE prev + interval
    /\ counter \in 0..CounterMax
    /\ pos \in Nat /\ (up => pos <= Len(file))
    /\ file \in Seq(Line)
    /\ DOMAIN archive \subseteq Name
    /\ \A a \in DOMAIN archive : archive[a] \in Seq(Line)
    /\ made \in [DOMAIN archive -> [run : 1..MaxRuns, interval : Interval]]
    /\ born \in Nat
    /\ lines \in 0..MaxLines
    /\ runs \in 0..MaxRuns
    /\ failed \in BOOLEAN

Numbers(text) == {text[j].number : j \in DOMAIN text}
NumbersAscend(text) == \A j, k \in DOMAIN text : j < k => text[j].number < text[k].number

\* a is the name of an earlier archive than b.
Before(a, b) == a.time < b.time \/ (a.time = b.time /\ a.suffix < b.suffix)

\* In the first process, with an interval, and while no file operation fails,
\* rotation loses nothing and keeps the order, however the rotations by time
\* and by size follow each other and however old the time of a line is: the
\* archives in the order of their names, then the file, hold every line
\* written, once.
LinesInOrder ==
    runs = 1 /\ interval # IntervalDisabled /\ ~failed =>
        /\ Numbers(file) \cup UNION {Numbers(archive[a]) : a \in DOMAIN archive} = 1..lines
        /\ NumbersAscend(file)
        /\ \A a \in DOMAIN archive :
              /\ NumbersAscend(archive[a])
              /\ \A m \in Numbers(archive[a]), n \in Numbers(file) : m < n
              /\ \A b \in DOMAIN archive : Before(a, b) =>
                    \A m \in Numbers(archive[a]), n \in Numbers(archive[b]) : m < n

\* With an interval, an archive is named for a time its process had reached when it wrote the
\* lines in it: no line of that process is older than the archive's name.
NamedNoLater ==
    \A a \in DOMAIN archive : made[a].interval # IntervalDisabled =>
        \A j \in DOMAIN archive[a] :
            archive[a][j].run = made[a].run => a.time <= archive[a][j].at

\* No line is lost, repeated or out of order, and no line is older than the name of
\* the archive its process put it into.
ArchivesKeepLines == RotateTypeOK /\ LinesInOrder /\ NamedNoLater

\* The archives that a step which works replaces.
OverwritesOnlyOld ==
    \A a \in DOMAIN archive :
        ~failed' /\ archive'[a] # archive[a] =>
            IF interval = IntervalDisabled
            THEN a.time >= clock - MaxDelay
            ELSE made[a].run # runs /\ a.time >= born

\* What a rotation that works may destroy: with an interval, only an archive
\* an earlier process made, and of the day on which this process began or
\* later; with no interval, only one named for a time in the last MaxDelay
\* seconds.
OverwritesOnlyAfterRestart == [][OverwritesOnlyOld]_rotateVars
=============================================================================
