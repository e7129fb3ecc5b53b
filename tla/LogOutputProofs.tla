-------------------------- MODULE LogOutputProofs ---------------------------
(***************************************************************************)
(* What the loggers that write somewhere keep: RotateLogger, for every     *)
(* interval, size, length of a day, number of processes and number of      *)
(* lines, and RsyslogLogger, for lines of every length and integers of     *)
(* every width; and when a statement may meet a destroyed logger or wait   *)
(* in a circle, for any threads and loggers.                               *)
(***************************************************************************)
EXTENDS RotateLogger, RsyslogLogger, LoggerLifecycle, SequenceTheorems, TLAPS

-----------------------------------------------------------------------------
(***************************************************************************)
(* RotateLogger.                                                           *)
(***************************************************************************)

\* The name of the next archive, with an interval.
NextName == [time |-> prev, suffix |-> SizeInc(counter)]

\* Before the first process there is nothing.
NothingAtFirst ==
    /\ runs = 0 => ~up /\ lines = 0 /\ file = <<>> /\ DOMAIN archive = {}
    /\ runs > 0 => interval \in Interval

\* With an interval the times are set, and not before the day of this process.
TimesSet == interval # IntervalDisabled => prev > 0 /\ born <= prev

\* The counter is as it was at first or counts no more rotations than there were
\* lines written, so that it does not wrap around.
CounterBelowLines == counter = CounterMax \/ counter < lines

\* Lines and archives are of this process or of an earlier one.
RunsBegun ==
    /\ \A j \in DOMAIN file : file[j].run <= runs
    /\ \A a \in DOMAIN archive : made[a].run <= runs

\* No line this process wrote to the file is older than the name the file will
\* be moved to.
FileNoEarlier ==
    interval # IntervalDisabled =>
        \A j \in DOMAIN file : file[j].run = runs => prev <= file[j].at

\* The name of the next archive is later than that of every archive this process
\* made.
OwnNamesBefore ==
    up /\ interval # IntervalDisabled =>
        \A a \in DOMAIN archive : made[a].run = runs => Before(a, NextName)

\* The inductive invariant.
RotateIInv ==
    /\ ArchivesKeepLines
    /\ NothingAtFirst /\ TimesSet /\ CounterBelowLines /\ RunsBegun
    /\ FileNoEarlier /\ OwnNamesBefore

-----------------------------------------------------------------------------
(***************************************************************************)
(* The operators.                                                          *)
(***************************************************************************)

\* Midnight is not after the time it belongs to, and is not 0 after the first
\* day: 0 stands for a time that was not set.
LEMMA DayStartBounds ==
    ASSUME RotateAssumption, NEW t \in Nat, t >= DayLength
    PROVE  DayStart(t) \in Nat /\ 0 < DayStart(t) /\ DayStart(t) <= t
    BY DEF RotateAssumption, DayStart

\* The counter of suffixes is a size_t, wrapping from its largest value to 0.
LEMMA SizeIncType ==
    ASSUME RotateAssumption, NEW n \in 0..CounterMax
    PROVE  SizeInc(n) \in 0..CounterMax
    BY DEF RotateAssumption, SizeInc

\* Archives are named in the order Before.
LEMMA BeforeOrder ==
    ASSUME RotateAssumption, NEW a \in Name, NEW b \in Name
    PROVE  ~(Before(a, b) /\ Before(b, a)) /\ ~Before(a, a)
    BY DEF RotateAssumption, Name, Before

\* The order of names is transitive, which orders all archives of a process.
LEMMA BeforeTransitive ==
    ASSUME RotateAssumption, NEW a \in Name, NEW b \in Name, NEW c \in Name,
           Before(a, b), Before(b, c)
    PROVE  Before(a, c)
    BY DEF RotateAssumption, Name, Before

\* What a text that lines are written to becomes.
NewLine == [number |-> lines + 1, at |-> clock, run |-> runs]

\* What a line does to the file and to the count of lines.
LEMMA WriteToFile ==
    ASSUME NEW text \in Seq(Line), NewLine \in Line, WriteTo(text)
    PROVE  /\ file' \in Seq(Line) /\ pos' \in Nat /\ pos' = Len(file') /\ lines' = lines + 1
           /\ DOMAIN file' = DOMAIN text \cup {Len(text) + 1}
           /\ \A j \in DOMAIN text : file'[j] = text[j] /\ j < Len(text) + 1
           /\ file'[Len(text) + 1] = NewLine
<1>1. file' = Append(text, NewLine) /\ pos' = Len(text) + 1 /\ lines' = lines + 1
    BY DEF WriteTo, NewLine
<1>2. /\ file' \in Seq(Line) /\ Len(file') = Len(text) + 1
      /\ \A j \in 1 .. Len(text) : file'[j] = text[j]
      /\ file'[Len(text) + 1] = NewLine
    BY <1>1, AppendProperties
<1>3. Len(text) \in Nat /\ DOMAIN text = 1 .. Len(text) /\ DOMAIN file' = 1 .. Len(text) + 1
    BY <1>2, LenProperties
<1>4. \A n \in Nat : 1 .. n + 1 = (1 .. n) \cup {n + 1} /\ \A j \in 1 .. n : j < n + 1
    OBVIOUS
<1> QED
    BY <1>1, <1>2, <1>3, <1>4

\* The file, or a beginning of it, is in the archive a, and the other archives
\* are as they were.
ArchivedTo(a) ==
    /\ DOMAIN archive' = DOMAIN archive \cup {a}
    /\ \A b \in DOMAIN archive \ {a} : archive'[b] = archive[b] /\ made'[b] = made[b]
    /\ made' \in [DOMAIN archive \cup {a} -> [run : 1..MaxRuns, interval : Interval]]
    /\ made'[a] = [run |-> runs, interval |-> interval]
    /\ archive'[a] \in Seq(Line)
    /\ \A j \in DOMAIN archive'[a] : j \in DOMAIN file /\ archive'[a][j] = file[j]

\* Who made an archive is remembered with its name, and for no other name.
LEMMA MadeNowIs ==
    ASSUME RotateTypeOK, NEW a, runs \in 1..MaxRuns, interval \in Interval
    PROVE  /\ MadeNow(a) \in [DOMAIN archive \cup {a} -> [run : 1..MaxRuns, interval : Interval]]
           /\ MadeNow(a)[a] = [run |-> runs, interval |-> interval]
           /\ \A b \in DOMAIN archive \ {a} : MadeNow(a)[b] = made[b]
<1>1. \A b \in DOMAIN archive : made[b] \in [run : 1..MaxRuns, interval : Interval]
    BY DEF RotateTypeOK
<1>2. [run |-> runs, interval |-> interval] \in [run : 1..MaxRuns, interval : Interval]
    OBVIOUS
<1> QED
    BY <1>1, <1>2 DEF MadeNow

\* A beginning of a file has its lines.
LEMMA Beginning ==
    ASSUME NEW f \in Seq(Line), NEW n \in 0 .. Len(f) - 1
    PROVE  /\ SubSeq(f, 1, n) \in Seq(Line)
           /\ \A j \in DOMAIN SubSeq(f, 1, n) : j \in DOMAIN f /\ SubSeq(f, 1, n)[j] = f[j]
<1>1. Len(f) \in Nat /\ DOMAIN f = 1 .. Len(f) /\ \A i \in 1 .. Len(f) : f[i] \in Line
    BY LenProperties, ElementOfSeq
<1>2. n \in Int /\ n >= 0 /\ n <= Len(f)
    BY <1>1
<1>3. \A i \in 1 .. n : i \in 1 .. Len(f) /\ f[i] \in Line
    BY <1>1, <1>2
<1>4. /\ SubSeq(f, 1, n) \in Seq(Line) /\ Len(SubSeq(f, 1, n)) = n
      /\ \A i \in 1 .. n : SubSeq(f, 1, n)[i] = f[i]
    BY <1>2, <1>3, SubSeqProperties
<1>5. DOMAIN SubSeq(f, 1, n) = 1 .. n
    BY <1>4, LenProperties
<1> QED
    BY <1>1, <1>3, <1>4, <1>5

\* What move_file leaves: the archive under its name and the others as they
\* were.
LEMMA MovedIs ==
    ASSUME RotateTypeOK, NEW a, Moved(a), runs \in 1..MaxRuns, interval \in Interval
    PROVE  /\ ArchivedTo(a) /\ failed' \in BOOLEAN
           /\ ~failed' => ~failed /\ archive'[a] = file
<1>1. file \in Seq(Line) /\ failed \in BOOLEAN
    BY DEF RotateTypeOK
<1>2. /\ made' \in [DOMAIN archive \cup {a} -> [run : 1..MaxRuns, interval : Interval]]
      /\ made'[a] = [run |-> runs, interval |-> interval]
      /\ \A b \in DOMAIN archive \ {a} : made'[b] = made[b]
    BY MadeNowIs DEF Moved
<1>3. CASE archive' = WithArchive(a, file) /\ UNCHANGED failed
  <2>1. /\ DOMAIN archive' = DOMAIN archive \cup {a}
        /\ archive'[a] = file
        /\ \A b \in DOMAIN archive \ {a} : archive'[b] = archive[b]
      BY <1>3 DEF WithArchive
  <2>2. ArchivedTo(a)
      BY <1>1, <1>2, <2>1, Zenon DEF ArchivedTo
  <2> QED
      BY <1>1, <1>3, <2>1, <2>2
<1>4. CASE \E n \in 0..(Len(file) - 1) : archive' = WithArchive(a, SubSeq(file, 1, n)) /\ failed' = TRUE
  <2>1. PICK n \in 0..(Len(file) - 1) : archive' = WithArchive(a, SubSeq(file, 1, n))
      BY <1>4
  <2>2. /\ DOMAIN archive' = DOMAIN archive \cup {a}
        /\ archive'[a] = SubSeq(file, 1, n)
        /\ \A b \in DOMAIN archive \ {a} : archive'[b] = archive[b]
      BY <2>1 DEF WithArchive
  <2>3. /\ SubSeq(file, 1, n) \in Seq(Line)
        /\ \A j \in DOMAIN SubSeq(file, 1, n) : j \in DOMAIN file /\ SubSeq(file, 1, n)[j] = file[j]
      BY <1>1, Beginning
  <2>4. ArchivedTo(a)
      BY <1>2, <2>2, <2>3, Zenon DEF ArchivedTo
  <2> QED
      BY <1>4, <2>4
<1> QED
    BY <1>3, <1>4 DEF Moved

-----------------------------------------------------------------------------
(***************************************************************************)
(* Every step keeps the invariant.                                         *)
(***************************************************************************)

\* The initial state: no process, no file.
LEMMA RotateInitInv == RotateAssumption /\ RotateInit => RotateIInv
<1> SUFFICES ASSUME RotateAssumption, RotateInit PROVE RotateIInv
    OBVIOUS
<1>1. /\ clock = Start /\ interval = 0 /\ size = -1 /\ prev = 0 /\ next = 0
      /\ counter = CounterMax /\ pos = 0 /\ born = 0 /\ lines = 0 /\ runs = 0
    BY DEF RotateInit, IntervalDisabled, SizeDisabled
<1>2. up = FALSE /\ failed = FALSE
    BY DEF RotateInit
<1>3. file = <<>> /\ DOMAIN file = {} /\ file \in Seq(Line) /\ Len(file) = 0
    BY EmptySeq DEF RotateInit
<1>4. DOMAIN archive = {} /\ DOMAIN made = {} /\ made = [b \in {} |-> b]
    BY DEF RotateInit
<1>5. RotateTypeOK
  <2>1. clock \in Start..(IF Start > MaxClock THEN Start ELSE MaxClock)
      BY <1>1 DEF RotateAssumption
  <2>2. up \in BOOLEAN /\ failed \in BOOLEAN
      BY <1>2, Zenon
  <2>3. /\ interval \in Interval \cup {IntervalDisabled} /\ size \in Size \cup {SizeDisabled}
        /\ prev \in 0..clock /\ next = IF interval = IntervalDisabled THEN 0 ELSE prev + interval
        /\ counter \in 0..CounterMax
        /\ pos \in Nat /\ born \in Nat /\ lines \in 0..MaxLines /\ runs \in 0..MaxRuns
      BY <1>1 DEF RotateAssumption, IntervalDisabled, SizeDisabled
  <2>4. DOMAIN archive \subseteq Name /\ \A a \in DOMAIN archive : archive[a] \in Seq(Line)
      BY <1>4
  <2>5. made \in [DOMAIN archive -> [run : 1..MaxRuns, interval : Interval]]
      BY <1>4
  <2>6. up => pos <= Len(file)
      BY <1>2
  <2> QED
      BY <1>3, <2>1, <2>2, <2>3, <2>4, <2>5, <2>6 DEF RotateTypeOK
<1>6. LinesInOrder /\ NamedNoLater
    BY <1>1, <1>4 DEF LinesInOrder, NamedNoLater
<1>7. NothingAtFirst /\ TimesSet /\ CounterBelowLines /\ OwnNamesBefore
    BY <1>1, <1>2, <1>3, <1>4
       DEF NothingAtFirst, TimesSet, CounterBelowLines, OwnNamesBefore, IntervalDisabled
<1>8. RunsBegun /\ FileNoEarlier
    BY <1>3, <1>4 DEF RunsBegun, FileNoEarlier
<1> QED
    BY <1>5, <1>6, <1>7, <1>8 DEF RotateIInv, ArchivesKeepLines

\* A new process takes over the files.
LEMMA CreateInv ==
    ASSUME RotateAssumption, RotateIInv, NEW i \in Interval, NEW s \in Size, Create(i, s)
    PROVE  RotateIInv'
<1>1. /\ ~up /\ up' = TRUE /\ runs < MaxRuns /\ runs' = runs + 1
      /\ clock' = clock /\ lines' = lines /\ file' = file /\ archive' = archive
      /\ made' = made /\ failed' = failed
      /\ interval' = i /\ size' = s /\ counter' = CounterMax /\ pos' = 0
      /\ born' = DayStart(clock)
    BY DEF Create, StartLogger, files
<1>2. IF i = 0 THEN prev' = 0 /\ next' = 0
      ELSE prev' = DayStart(clock) /\ next' = DayStart(clock) + i
    BY DEF Create, StartLogger, UpdateRotateTimes, IntervalDisabled
<1>3. RotateTypeOK /\ runs \in Nat /\ i \in Nat
    BY DEF RotateIInv, ArchivesKeepLines, RotateTypeOK, RotateAssumption
<1>4. clock \in Nat /\ clock >= DayLength
    BY <1>3 DEF RotateTypeOK, RotateAssumption
<1>5. DayStart(clock) \in Nat /\ 0 < DayStart(clock) /\ DayStart(clock) <= clock
    BY <1>4, DayStartBounds
<1>6. Len(file) \in Nat /\ file \in Seq(Line)
    BY <1>3, LenProperties DEF RotateTypeOK
<1>7. RotateTypeOK'
  <2>1. up' \in BOOLEAN /\ failed' \in BOOLEAN
      BY <1>1, <1>3, Zenon DEF RotateTypeOK
  <2>2. /\ prev' \in 0..clock' /\ next' = IF interval' = IntervalDisabled THEN 0 ELSE prev' + interval'
        /\ pos' \in Nat /\ born' \in Nat /\ pos' <= Len(file')
        /\ runs' \in 0..MaxRuns /\ counter' \in 0..CounterMax
      BY <1>1, <1>2, <1>3, <1>4, <1>5, <1>6, SMTT(30) DEF RotateTypeOK, IntervalDisabled, RotateAssumption
  <2> QED
      BY <1>1, <1>3, <2>1, <2>2 DEF RotateTypeOK
<1>8. \A a \in DOMAIN archive : made[a].run <= runs /\ made[a].run \in Int
    BY <1>3 DEF RotateIInv, RunsBegun, RotateTypeOK
<1>9. \A j \in DOMAIN file : file[j].run <= runs /\ file[j].run \in Int
  <2>1. \A j \in DOMAIN file : file[j] \in Line
      BY <1>6, LenProperties, ElementOfSeq
  <2> QED
      BY <2>1 DEF RotateIInv, RunsBegun, Line
<1>10. LinesInOrder'
  <2>1. CASE runs = 0
    <3>1. DOMAIN file' = {} /\ DOMAIN archive' = {} /\ lines' = 0
        BY <2>1, <1>1, EmptySeq DEF RotateIInv, NothingAtFirst
    <3>2. Numbers(file') = {}
        BY <3>1 DEF Numbers
    <3>3. UNION {Numbers(archive'[a]) : a \in DOMAIN archive'} = {}
        BY <3>1
    <3>4. 1..lines' = {}
        BY <3>1
    <3>5. NumbersAscend(file')
        BY <3>1 DEF NumbersAscend
    <3> QED
        BY <3>1, <3>2, <3>3, <3>4, <3>5, Zenon DEF LinesInOrder
  <2>2. CASE runs # 0
      BY <2>2, <1>1, <1>3 DEF LinesInOrder
  <2> QED
      BY <2>1, <2>2
<1>11. NamedNoLater'
    BY <1>1 DEF RotateIInv, ArchivesKeepLines, NamedNoLater
<1>12. NothingAtFirst'
    BY <1>1, <1>3 DEF NothingAtFirst
<1>13. TimesSet'
    BY <1>1, <1>2, <1>5 DEF TimesSet, IntervalDisabled
<1>14. CounterBelowLines'
    BY <1>1 DEF CounterBelowLines
<1>15. RunsBegun' /\ FileNoEarlier' /\ OwnNamesBefore'
    BY <1>1, <1>3, <1>8, <1>9 DEF RunsBegun, FileNoEarlier, OwnNamesBefore
<1> QED
    BY <1>7, <1>10, <1>11, <1>12, <1>13, <1>14, <1>15 DEF RotateIInv, ArchivesKeepLines

\* The clock, the end of a process, and nothing.
LEMMA OtherInv ==
    ASSUME RotateAssumption, RotateIInv, Stop \/ Tick \/ UNCHANGED rotateVars
    PROVE  RotateIInv'
<1>1. /\ UNCHANGED <<pos, lines, logger, files>>
      /\ clock' \in {clock, clock + 1} /\ (clock' # clock => clock < MaxClock)
      /\ up' \in {up, FALSE}
    BY DEF Stop, Tick, rotateVars
<1>2. RotateTypeOK
    BY DEF RotateIInv, ArchivesKeepLines
<1>3. clock \in Nat
    BY <1>2 DEF RotateTypeOK, RotateAssumption
<1>4. RotateTypeOK'
  <2>1. up' \in BOOLEAN
    <3>1. CASE up' = up
        BY <3>1, <1>2 DEF RotateTypeOK
    <3>2. CASE up' = FALSE
        BY <3>2, Zenon
    <3> QED
        BY <1>1, <3>1, <3>2
  <2>3. up' => up
      BY <1>1, <1>2, Zenon DEF RotateTypeOK
  <2>2. clock' \in Start..(IF Start > MaxClock THEN Start ELSE MaxClock) /\ prev' \in 0..clock'
      BY <1>1, <1>2, <1>3, SMTT(30) DEF RotateTypeOK, RotateAssumption, logger
  <2> QED
      BY <1>1, <1>2, <2>1, <2>2, <2>3 DEF RotateTypeOK, logger, files
<1>5. LinesInOrder' /\ NamedNoLater'
    BY <1>1 DEF RotateIInv, ArchivesKeepLines, LinesInOrder, NamedNoLater, logger, files
<1>6. up' => up
    BY <1>1, <1>2, Zenon DEF RotateTypeOK
<1>7. NothingAtFirst' /\ TimesSet' /\ CounterBelowLines' /\ RunsBegun' /\ FileNoEarlier'
    BY <1>1, <1>6 DEF RotateIInv, NothingAtFirst, TimesSet, CounterBelowLines, RunsBegun, FileNoEarlier,
                 logger, files
<1>8. OwnNamesBefore'
    BY <1>1, <1>6 DEF RotateIInv, OwnNamesBefore, NextName, SizeInc, logger, files
<1> QED
    BY <1>4, <1>5, <1>7, <1>8 DEF RotateIInv, ArchivesKeepLines

\* What WriteLine finds: a clock within its bounds, and a process.
LEMMA WriteLineStarts ==
    ASSUME RotateAssumption, RotateIInv, NEW now \in Start..MaxClock, now \in (clock - MaxDelay)..clock,
           WriteLine(now)
    PROVE  /\ RotateTypeOK /\ up /\ runs \in 1..MaxRuns /\ interval \in Interval /\ interval \in Nat
           /\ clock \in Nat /\ clock \in Start..MaxClock /\ now \in Nat /\ now <= clock
           /\ prev \in Nat /\ prev <= clock /\ counter \in 0..CounterMax
           /\ lines \in Nat /\ lines < MaxLines /\ MaxLines \in Nat /\ MaxLines < CounterMax
           /\ CounterMax \in Nat /\ NewLine \in Line /\ file \in Seq(Line)
           /\ UNCHANGED <<clock, interval, size, born, runs>>
<1>1. RotateTypeOK /\ up /\ lines < MaxLines /\ UNCHANGED <<clock, interval, size, born, runs>>
    BY DEF WriteLine, RotateIInv, ArchivesKeepLines
<1>2. /\ clock \in Nat /\ clock \in Start..MaxClock /\ now \in Nat /\ now <= clock
      /\ prev \in Nat /\ prev <= clock /\ counter \in 0..CounterMax
      /\ lines \in Nat /\ MaxLines \in Nat /\ MaxLines < CounterMax /\ CounterMax \in Nat
      /\ file \in Seq(Line)
    BY <1>1 DEF RotateTypeOK, RotateAssumption
<1>3. runs # 0
    BY <1>1 DEF RotateIInv, NothingAtFirst
<1>4. runs \in 1..MaxRuns /\ runs > 0
    BY <1>1, <1>3 DEF RotateTypeOK, RotateAssumption
<1>5. interval \in Interval /\ interval \in Nat
    BY <1>4 DEF RotateIInv, NothingAtFirst, RotateAssumption
<1>6. NewLine \in Line
    BY <1>1, <1>2, <1>4 DEF NewLine, Line
<1> QED
    BY <1>1, <1>2, <1>4, <1>5, <1>6

\* The names of archives have their type.
LEMMA ArchiveNameType ==
    ASSUME RotateAssumption, NEW now \in Nat, prev \in Nat, counter \in 0..CounterMax
    PROVE  /\ ArchiveName(now) \in Name
           /\ interval # IntervalDisabled => ArchiveName(now) = NextName
    BY SizeIncType DEF ArchiveName, NextName, Name, RotateAssumption

\* The lines of a text that a line is added to.
LEMMA AddedNumbers ==
    ASSUME NEW text \in Seq(Line), NewLine \in Line, WriteTo(text), lines \in Nat
    PROVE  /\ Numbers(file') = Numbers(text) \cup {lines + 1}
           /\ NumbersAscend(text) /\ (\A m \in Numbers(text) : m <= lines) => NumbersAscend(file')
<1>1. /\ DOMAIN file' = DOMAIN text \cup {Len(text) + 1}
      /\ \A j \in DOMAIN text : file'[j] = text[j] /\ j < Len(text) + 1
      /\ file'[Len(text) + 1] = NewLine
    BY WriteToFile
<1>2. file'[Len(text) + 1].number = lines + 1
    BY <1>1 DEF NewLine
<1>3. Numbers(file') = Numbers(text) \cup {lines + 1}
    BY <1>1, <1>2, Zenon DEF Numbers
<1>4. ASSUME NumbersAscend(text), \A m \in Numbers(text) : m <= lines,
             NEW j \in DOMAIN file', NEW k \in DOMAIN file', j < k
      PROVE  file'[j].number < file'[k].number
  <2>1. Len(text) \in Nat /\ DOMAIN text = 1 .. Len(text)
      BY LenProperties
  <2>2. j \in DOMAIN text
    <3>1. j \in Int /\ k \in Int /\ k <= Len(text) + 1
        BY <1>1, <2>1
    <3> QED
        BY <1>1, <1>4, <2>1, <3>1
  <2>3. CASE k \in DOMAIN text
      BY <1>1, <1>4, <2>2, <2>3 DEF NumbersAscend
  <2>4. CASE k = Len(text) + 1
    <3>1. text[j].number \in Numbers(text)
        BY <2>2, Zenon DEF Numbers
    <3>2. text[j].number <= lines
        BY <3>1, <1>4
    <3>3. text[j] \in Line
        BY <2>1, <2>2, ElementOfSeq
    <3>4. text[j].number \in Int
        BY <3>3 DEF Line
    <3> QED
        BY <1>1, <1>2, <2>2, <2>4, <3>2, <3>4
  <2> QED
      BY <1>1, <2>3, <2>4
<1> QED
    BY <1>3, <1>4 DEF NumbersAscend

\* No rotation: the line is added to the file.
LEMMA PlainInv ==
    ASSUME RotateAssumption, RotateIInv, NEW now \in Start..MaxClock, now \in (clock - MaxDelay)..clock,
           WriteLine(now), WriteTo(file), UNCHANGED <<up, prev, next, counter, archive, made, failed>>
    PROVE  RotateIInv'
<1> USE WriteLineStarts
<1>1. /\ file' \in Seq(Line) /\ pos' \in Nat /\ pos' = Len(file') /\ lines' = lines + 1
      /\ DOMAIN file' = DOMAIN file \cup {Len(file) + 1}
      /\ \A j \in DOMAIN file : file'[j] = file[j]
      /\ file'[Len(file) + 1] = NewLine
    BY WriteToFile
<1>2. RotateTypeOK'
  <2>1. pos' <= Len(file') /\ lines' \in 0..MaxLines
      BY <1>1
  <2> QED
      BY <1>1, <2>1 DEF RotateTypeOK
<1>3. LinesInOrder'
  <2> SUFFICES ASSUME runs = 1, interval # IntervalDisabled, ~failed PROVE LinesInOrder'
      BY DEF LinesInOrder
  <2>1. /\ Numbers(file) \cup UNION {Numbers(archive[a]) : a \in DOMAIN archive} = 1..lines
        /\ NumbersAscend(file)
        /\ \A a \in DOMAIN archive :
              /\ NumbersAscend(archive[a])
              /\ \A m \in Numbers(archive[a]), n \in Numbers(file) : m < n
              /\ \A b \in DOMAIN archive : Before(a, b) =>
                    \A m \in Numbers(archive[a]), n \in Numbers(archive[b]) : m < n
      BY DEF RotateIInv, ArchivesKeepLines, LinesInOrder
  <2>2. (\A m \in Numbers(file) : m \in 1..lines)
        /\ \A a \in DOMAIN archive : \A m \in Numbers(archive[a]) : m \in 1..lines
      BY <2>1
  <2>3. \A m \in Numbers(file) : m <= lines
      BY <2>2
  <2>4. Numbers(file') = Numbers(file) \cup {lines + 1} /\ NumbersAscend(file')
      BY <2>1, <2>3, AddedNumbers
  <2>5. 1..lines' = (1..lines) \cup {lines + 1}
      BY <1>1
  <2>6. Numbers(file') \cup UNION {Numbers(archive'[a]) : a \in DOMAIN archive'} = 1..lines'
      BY <2>1, <2>4, <2>5
  <2>7. \A a \in DOMAIN archive : \A m \in Numbers(archive[a]), n \in Numbers(file') : m < n
      BY <2>1, <2>2, <2>4
  <2> QED
      BY <2>1, <2>4, <2>6, <2>7 DEF LinesInOrder
<1>4. NamedNoLater'
    BY DEF RotateIInv, ArchivesKeepLines, NamedNoLater
<1>5. NothingAtFirst' /\ TimesSet'
    BY DEF RotateIInv, NothingAtFirst, TimesSet
<1>6. CounterBelowLines'
    BY <1>1 DEF RotateIInv, CounterBelowLines
<1>7. RunsBegun'
    BY <1>1, SMTT(30) DEF RotateIInv, RunsBegun, NewLine
<1>8. FileNoEarlier'
    BY <1>1, SMTT(30) DEF RotateIInv, FileNoEarlier, NewLine
<1>9. OwnNamesBefore'
    BY DEF RotateIInv, OwnNamesBefore, NextName, SizeInc
<1> QED
    BY <1>2, <1>3, <1>4, <1>5, <1>6, <1>7, <1>8, <1>9 DEF RotateIInv, ArchivesKeepLines

\* What rotation does to the times and to the counter: the next name is a later
\* one.
LEMMA RotatedTimes ==
    ASSUME RotateAssumption, RotateIInv, NEW now \in Start..MaxClock, now \in (clock - MaxDelay)..clock,
           WriteLine(now), Rotated(now), lines' = lines + 1
    PROVE  /\ prev' \in 0..clock
           /\ next' = IF interval = IntervalDisabled THEN 0 ELSE prev' + interval
           /\ counter' \in 0..CounterMax /\ (counter' = CounterMax \/ counter' < lines')
           /\ interval # IntervalDisabled => /\ prev' >= prev
                                             /\ NextName' \in Name /\ Before(NextName, NextName')
<1> USE WriteLineStarts
<1>1. next = IF interval = IntervalDisabled THEN 0 ELSE prev + interval
    BY DEF RotateTypeOK
<1>2. interval # IntervalDisabled => prev > 0 /\ interval > 0
    BY DEF RotateIInv, TimesSet, IntervalDisabled
<1>3. counter = CounterMax \/ counter < lines
    BY DEF RotateIInv, CounterBelowLines
<1>4. CASE RotateByTime(now)
  <2>1. interval # IntervalDisabled /\ now >= next /\ prev' = next /\ next' = next + interval /\ counter' = CounterMax
      BY <1>2, <1>4 DEF Rotated, RotateByTime, UpdateRotateTimes
  <2>2. next \in Nat /\ next <= clock /\ next > prev
      BY <1>1, <1>2, <2>1, SMTT(30)
  <2>3. NextName' = [time |-> next, suffix |-> 0]
      BY <2>1 DEF NextName, SizeInc
  <2> QED
      BY <1>1, <2>1, <2>2, <2>3 DEF NextName, Before, Name
<1>5. CASE ~RotateByTime(now)
  <2>1. /\ prev' = prev /\ next' = next
        /\ counter' = IF interval = IntervalDisabled THEN counter ELSE SizeInc(counter)
      BY <1>5 DEF Rotated
  <2>2. SizeInc(counter) \in 0..lines /\ SizeInc(counter) \in 0..CounterMax
      BY <1>3 DEF SizeInc
  <2>3. SizeInc(SizeInc(counter)) = SizeInc(counter) + 1 /\ SizeInc(counter) + 1 \in 0..CounterMax
      BY <2>2 DEF SizeInc
  <2>4. interval # IntervalDisabled => NextName' = [time |-> prev, suffix |-> SizeInc(counter) + 1]
    <3> SUFFICES ASSUME interval # IntervalDisabled
                 PROVE  NextName' = [time |-> prev, suffix |-> SizeInc(counter) + 1]
        OBVIOUS
    <3>1. prev' = prev /\ counter' = SizeInc(counter)
        BY <2>1
    <3>2. SizeInc(counter)' = SizeInc(SizeInc(counter))
        BY <3>1 DEF SizeInc
    <3> QED
        BY <2>3, <3>1, <3>2 DEF NextName
  <2>5. counter' \in 0..CounterMax /\ (counter' = CounterMax \/ counter' < lines')
      BY <1>3, <2>1, <2>2
  <2>6. prev' \in 0..clock /\ prev' >= prev /\ prev \in Nat
        /\ next' = IF interval = IntervalDisabled THEN 0 ELSE prev' + interval
      BY <1>1, <2>1
  <2>7. interval # IntervalDisabled => NextName' \in Name /\ Before(NextName, NextName')
    <3> SUFFICES ASSUME interval # IntervalDisabled
                 PROVE  NextName' \in Name /\ Before(NextName, NextName')
        OBVIOUS
    <3>1. NextName'.time = prev /\ NextName'.suffix = SizeInc(counter) + 1
        BY <2>4
    <3>2. NextName.time = prev /\ NextName.suffix = SizeInc(counter)
        BY DEF NextName
    <3>3. NextName' \in Name
        BY <2>3, <2>4, <2>6 DEF Name
    <3>4. NextName.time = NextName'.time /\ NextName.suffix < NextName'.suffix
        BY <2>2, <3>1, <3>2
    <3> QED
        BY <3>3, <3>4 DEF Before
  <2> QED
      BY <2>5, <2>6, <2>7
<1> QED
    BY <1>4, <1>5

\* The archives after a step that put the file into a, which is named for prev
\* if there is an interval.
LEMMA ArchivedInv ==
    ASSUME RotateAssumption, RotateIInv, NEW a \in Name, ArchivedTo(a), UNCHANGED <<runs, interval>>,
           interval # IntervalDisabled => a.time = prev,
           runs \in 1..MaxRuns
    PROVE  /\ DOMAIN archive' \subseteq Name
           /\ \A b \in DOMAIN archive' : archive'[b] \in Seq(Line)
           /\ made' \in [DOMAIN archive' -> [run : 1..MaxRuns, interval : Interval]]
           /\ \A b \in DOMAIN archive' : made'[b].run <= runs
           /\ NamedNoLater'
<1>1. RotateTypeOK
    BY DEF RotateIInv, ArchivesKeepLines
<1>2. DOMAIN archive' \subseteq Name
    BY <1>1 DEF RotateTypeOK, ArchivedTo
<1>3. \A b \in DOMAIN archive' : archive'[b] \in Seq(Line)
  <2> SUFFICES ASSUME NEW b \in DOMAIN archive' PROVE archive'[b] \in Seq(Line)
      OBVIOUS
  <2>1. CASE b = a
      BY <2>1 DEF ArchivedTo
  <2>2. CASE b # a
    <3>1. b \in DOMAIN archive \ {a}
        BY <2>2 DEF ArchivedTo
    <3> QED
        BY <3>1, <1>1 DEF ArchivedTo, RotateTypeOK
  <2> QED
      BY <2>1, <2>2
<1>4. made' \in [DOMAIN archive' -> [run : 1..MaxRuns, interval : Interval]]
    BY DEF ArchivedTo
<1>5. \A b \in DOMAIN archive' : made'[b].run <= runs
    BY DEF ArchivedTo, RotateIInv, RunsBegun
<1>6. NamedNoLater'
  <2> SUFFICES ASSUME NEW b \in DOMAIN archive', made'[b].interval # IntervalDisabled,
                      NEW j \in DOMAIN archive'[b], archive'[b][j].run = made'[b].run
               PROVE  b.time <= archive'[b][j].at
      BY DEF NamedNoLater
  <2>1. CASE b = a
    <3>1. made'[a].run = runs /\ made'[a].interval = interval
        BY DEF ArchivedTo
    <3>2. j \in DOMAIN file /\ archive'[a][j] = file[j]
        BY <2>1 DEF ArchivedTo
    <3>3. prev <= file[j].at
        BY <2>1, <3>1, <3>2 DEF RotateIInv, FileNoEarlier
    <3> QED
        BY <2>1, <3>1, <3>2, <3>3
  <2>2. CASE b # a
    <3>1. b \in DOMAIN archive /\ archive'[b] = archive[b] /\ made'[b] = made[b]
        BY <2>2 DEF ArchivedTo
    <3> QED
        BY <3>1 DEF RotateIInv, ArchivesKeepLines, NamedNoLater
  <2> QED
      BY <2>1, <2>2
<1> QED
    BY <1>2, <1>3, <1>4, <1>5, <1>6

\* The file is moved and the line begins a new one.
LEMMA RotatedInv ==
    ASSUME RotateAssumption, RotateIInv, NEW now \in Start..MaxClock, now \in (clock - MaxDelay)..clock,
           WriteLine(now), Rotated(now), WriteTo(<<>>), UNCHANGED up
    PROVE  RotateIInv'
<1> USE WriteLineStarts
<1> DEFINE a == ArchiveName(now)
<1>1. a \in Name /\ (interval # IntervalDisabled => a = NextName /\ a.time = prev)
    BY ArchiveNameType DEF NextName
<1>2. ArchivedTo(a) /\ failed' \in BOOLEAN /\ (~failed' => ~failed /\ archive'[a] = file)
    BY MovedIs DEF Rotated
<1>3. <<>> \in Seq(Line) /\ DOMAIN <<>> = {} /\ Len(<<>>) = 0
    BY EmptySeq
<1>4. /\ file' \in Seq(Line) /\ pos' \in Nat /\ pos' = Len(file') /\ lines' = lines + 1
      /\ DOMAIN file' = DOMAIN <<>> \cup {Len(<<>>) + 1}
      /\ file'[Len(<<>>) + 1] = NewLine
    BY <1>3, WriteToFile
<1>5. DOMAIN file' = {1} /\ file'[1] = NewLine
    BY <1>3, <1>4
<1>6. /\ prev' \in 0..clock
      /\ next' = IF interval = IntervalDisabled THEN 0 ELSE prev' + interval
      /\ counter' \in 0..CounterMax /\ (counter' = CounterMax \/ counter' < lines')
      /\ interval # IntervalDisabled => /\ prev' >= prev
                                        /\ NextName' \in Name /\ Before(NextName, NextName')
    BY <1>4, RotatedTimes
<1>7. /\ DOMAIN archive' \subseteq Name
      /\ \A b \in DOMAIN archive' : archive'[b] \in Seq(Line)
      /\ made' \in [DOMAIN archive' -> [run : 1..MaxRuns, interval : Interval]]
      /\ \A b \in DOMAIN archive' : made'[b].run <= runs
      /\ NamedNoLater'
    BY <1>1, <1>2, ArchivedInv
<1> HIDE DEF a
<1>8. RotateTypeOK'
  <2>1. lines' \in 0..MaxLines /\ pos' <= Len(file')
      BY <1>4
  <2> QED
      BY <1>2, <1>4, <1>6, <1>7, <2>1 DEF RotateTypeOK
<1>9. OwnNamesBefore'
  <2> SUFFICES ASSUME interval # IntervalDisabled, NEW b \in DOMAIN archive', made'[b].run = runs
               PROVE  Before(b, NextName')
      BY DEF OwnNamesBefore
  <2>1. CASE b = a
      BY <1>1, <1>6, <2>1
  <2>2. CASE b # a
    <3>1. b \in DOMAIN archive /\ made'[b] = made[b] /\ b \in Name
        BY <2>2, <1>2, <1>7 DEF ArchivedTo
    <3>2. Before(b, NextName)
        BY <3>1 DEF RotateIInv, OwnNamesBefore
    <3> QED
        BY <1>1, <1>6, <3>1, <3>2, BeforeTransitive
  <2> QED
      BY <2>1, <2>2
<1>10. LinesInOrder'
  <2> SUFFICES ASSUME runs = 1, interval # IntervalDisabled, ~failed' PROVE LinesInOrder'
      BY DEF LinesInOrder
  <2>1. ~failed /\ archive'[a] = file
      BY <1>2
  <2>2. /\ Numbers(file) \cup UNION {Numbers(archive[b]) : b \in DOMAIN archive} = 1..lines
        /\ NumbersAscend(file)
        /\ \A b \in DOMAIN archive :
              /\ NumbersAscend(archive[b])
              /\ \A m \in Numbers(archive[b]), n \in Numbers(file) : m < n
              /\ \A c \in DOMAIN archive : Before(b, c) =>
                    \A m \in Numbers(archive[b]), n \in Numbers(archive[c]) : m < n
      BY <2>1 DEF RotateIInv, ArchivesKeepLines, LinesInOrder
  <2>3. \A b \in DOMAIN archive : b \in Name /\ Before(b, a)
    <3> SUFFICES ASSUME NEW b \in DOMAIN archive PROVE b \in Name /\ Before(b, a)
        OBVIOUS
    <3>1. made[b].run <= 1 /\ made[b].run \in 1..MaxRuns /\ b \in Name
        BY DEF RotateIInv, RunsBegun, RotateTypeOK
    <3>2. made[b].run = runs
        BY <3>1
    <3> QED
        BY <1>1, <3>1, <3>2 DEF RotateIInv, OwnNamesBefore
  <2>4. a \notin DOMAIN archive
      BY <1>1, <2>3, BeforeOrder
  <2>5. DOMAIN archive' = DOMAIN archive \cup {a} /\ \A b \in DOMAIN archive : archive'[b] = archive[b]
      BY <1>2, <2>4 DEF ArchivedTo
  <2>6. Numbers(<<>>) = {} /\ NumbersAscend(<<>>)
      BY <1>3 DEF Numbers, NumbersAscend
  <2>7. Numbers(file') = {lines + 1} /\ NumbersAscend(file')
      BY <1>3, <2>6, AddedNumbers
  <2>8. \A b \in DOMAIN archive' : \A m \in Numbers(archive'[b]) : m \in 1..lines
      BY <2>1, <2>2, <2>5
  <2>9. Numbers(file') \cup UNION {Numbers(archive'[b]) : b \in DOMAIN archive'} = 1..lines'
    <3>1. UNION {Numbers(archive'[b]) : b \in DOMAIN archive'}
            = Numbers(file) \cup UNION {Numbers(archive[b]) : b \in DOMAIN archive}
        BY <2>1, <2>5
    <3>2. 1..lines' = (1..lines) \cup {lines + 1}
        BY <1>4
    <3> QED
        BY <2>2, <2>7, <3>1, <3>2
  <2>10. \A b \in DOMAIN archive' : NumbersAscend(archive'[b])
      BY <2>1, <2>2, <2>5
  <2>11. \A b \in DOMAIN archive' : \A m \in Numbers(archive'[b]), n \in Numbers(file') : m < n
      BY <2>7, <2>8
  <2>12. ASSUME NEW b \in DOMAIN archive', NEW c \in DOMAIN archive', Before(b, c)
         PROVE  \A m \in Numbers(archive'[b]), n \in Numbers(archive'[c]) : m < n
    <3>1. CASE b \in DOMAIN archive /\ c \in DOMAIN archive
        BY <2>2, <2>5, <2>12, <3>1
    <3>2. CASE b \in DOMAIN archive /\ c = a
        BY <2>1, <2>2, <2>5, <3>2
    <3>3. b # a
      <4>1. CASE c = a
          BY <1>1, <2>12, <4>1, BeforeOrder
      <4>2. CASE c \in DOMAIN archive
          BY <1>1, <2>3, <2>12, <4>2, BeforeOrder
      <4> QED
          BY <2>5, <4>1, <4>2
    <3> QED
        BY <2>5, <3>1, <3>2, <3>3
  <2> QED
      BY <2>7, <2>9, <2>10, <2>11, <2>12 DEF LinesInOrder
<1>11. NothingAtFirst' /\ CounterBelowLines'
    BY <1>6 DEF RotateIInv, NothingAtFirst, CounterBelowLines
<1>12. TimesSet'
    BY <1>6 DEF RotateIInv, TimesSet, RotateTypeOK
<1>13. RunsBegun' /\ FileNoEarlier'
    BY <1>5, <1>6, <1>7 DEF RunsBegun, FileNoEarlier, NewLine
<1> QED
    BY <1>7, <1>8, <1>9, <1>10, <1>11, <1>12, <1>13 DEF RotateIInv, ArchivesKeepLines

\* Rotate aborts: whatever is left of the file and of its copies, the process is
\* over and a file operation failed.
LEMMA AbortedInv ==
    ASSUME RotateAssumption, RotateIInv, NEW now \in Start..MaxClock, now \in (clock - MaxDelay)..clock,
           WriteLine(now), Aborted(ArchiveName(now)), up' = FALSE,
           UNCHANGED <<prev, next, counter, pos, lines>>
    PROVE  RotateIInv'
<1> USE WriteLineStarts
<1> DEFINE a == ArchiveName(now)
<1>1. a \in Name /\ (interval # IntervalDisabled => a.time = prev)
    BY ArchiveNameType DEF NextName
<1>2. failed' = TRUE /\ failed' \in BOOLEAN /\ up' \in BOOLEAN
    BY Zenon DEF Aborted
<1>3. /\ file' \in Seq(Line)
      /\ \A j \in DOMAIN file' : j \in DOMAIN file /\ file'[j] = file[j]
  <2>1. file' = file \/ file' = <<>>
      BY DEF Aborted
  <2>2. <<>> \in Seq(Line) /\ DOMAIN <<>> = {}
      BY EmptySeq
  <2> QED
      BY <2>1, <2>2
<1>4. /\ DOMAIN archive' \subseteq Name
      /\ \A b \in DOMAIN archive' : archive'[b] \in Seq(Line)
      /\ made' \in [DOMAIN archive' -> [run : 1..MaxRuns, interval : Interval]]
      /\ \A b \in DOMAIN archive' : made'[b].run <= runs
      /\ NamedNoLater'
  <2>1. CASE UNCHANGED <<file, archive, made>>
      BY <2>1 DEF RotateIInv, ArchivesKeepLines, RotateTypeOK, RunsBegun, NamedNoLater
  <2>2. CASE /\ archive' = [b \in DOMAIN archive \ {a} |-> archive[b]]
             /\ made' = [b \in DOMAIN archive \ {a} |-> made[b]]
    <3>1. /\ DOMAIN archive' = DOMAIN archive \ {a}
          /\ \A b \in DOMAIN archive' : archive'[b] = archive[b] /\ made'[b] = made[b]
        BY <2>2
    <3>2. made' \in [DOMAIN archive' -> [run : 1..MaxRuns, interval : Interval]]
        BY <2>2, <3>1 DEF RotateTypeOK
    <3>3. /\ DOMAIN archive' \subseteq Name
          /\ \A b \in DOMAIN archive' : archive'[b] \in Seq(Line)
        BY <3>1 DEF RotateTypeOK
    <3>4. NamedNoLater' /\ \A b \in DOMAIN archive' : made'[b].run <= runs
        BY <3>1 DEF RotateIInv, ArchivesKeepLines, RunsBegun, NamedNoLater
    <3> QED
        BY <3>2, <3>3, <3>4
  <2>3. CASE archive' = WithArchive(a, file) /\ made' = MadeNow(a)
    <3>1. /\ made' \in [DOMAIN archive \cup {a} -> [run : 1..MaxRuns, interval : Interval]]
          /\ made'[a] = [run |-> runs, interval |-> interval]
          /\ \A b \in DOMAIN archive \ {a} : made'[b] = made[b]
        BY <2>3, MadeNowIs
    <3>2. /\ DOMAIN archive' = DOMAIN archive \cup {a}
          /\ archive'[a] = file
          /\ \A b \in DOMAIN archive \ {a} : archive'[b] = archive[b]
        BY <2>3 DEF WithArchive
    <3>3. ArchivedTo(a)
        BY <3>1, <3>2, Zenon DEF ArchivedTo
    <3> QED
        BY <1>1, <3>3, ArchivedInv
  <2> QED
      BY <2>1, <2>2, <2>3 DEF Aborted
<1> HIDE DEF a
<1>5. RotateTypeOK'
    BY <1>2, <1>3, <1>4 DEF RotateTypeOK
<1>6. LinesInOrder' /\ OwnNamesBefore'
    BY <1>2 DEF LinesInOrder, OwnNamesBefore
<1>7. NothingAtFirst' /\ TimesSet' /\ CounterBelowLines'
    BY DEF RotateIInv, NothingAtFirst, TimesSet, CounterBelowLines
<1>8. RunsBegun' /\ FileNoEarlier'
    BY <1>3, <1>4 DEF RotateIInv, RunsBegun, FileNoEarlier
<1> QED
    BY <1>4, <1>5, <1>6, <1>7, <1>8 DEF RotateIInv, ArchivesKeepLines

\* One line, whatever it does.
LEMMA WriteLineInv ==
    ASSUME RotateAssumption, RotateIInv, NEW now \in Start..MaxClock, now \in (clock - MaxDelay)..clock,
           WriteLine(now)
    PROVE  RotateIInv'
<1>1. CASE WriteTo(file) /\ UNCHANGED <<up, prev, next, counter, archive, made, failed>>
    BY <1>1, PlainInv
<1>2. CASE Rotated(now) /\ WriteTo(<<>>) /\ UNCHANGED up
    BY <1>2, RotatedInv
<1>3. CASE Aborted(ArchiveName(now)) /\ up' = FALSE /\ UNCHANGED <<prev, next, counter, pos, lines>>
    BY <1>3, AbortedInv
<1> QED
    BY <1>1, <1>2, <1>3 DEF WriteLine

\* RotateIInv is an invariant: every start, write, rotation, failure and tick keeps
\* it.
THEOREM RotateInvariant ==
    ASSUME RotateAssumption
    PROVE  RotateSpec => []RotateIInv
<1>1. RotateInit => RotateIInv
    BY RotateInitInv
<1>2. RotateIInv /\ [RotateNext]_rotateVars => RotateIInv'
  <2> SUFFICES ASSUME RotateIInv, [RotateNext]_rotateVars PROVE RotateIInv'
      OBVIOUS
  <2>1. ASSUME NEW i \in Interval, NEW s \in Size, Create(i, s) PROVE RotateIInv'
      BY <2>1, CreateInv
  <2>2. ASSUME NEW now \in Start..MaxClock, now \in (clock - MaxDelay)..clock, WriteLine(now)
        PROVE  RotateIInv'
      BY <2>2, WriteLineInv
  <2> QED
      BY <2>1, <2>2, OtherInv DEF RotateNext
<1> QED
    BY <1>1, <1>2, PTL DEF RotateSpec

-----------------------------------------------------------------------------
\* However rotations by time and by size follow each other, and however late a
\* line comes: in the first process, with an interval and without failures, the
\* archives in the order of their names and then the file hold every line, once;
\* and no line is older than the name of the archive its process put it into.
THEOREM ArchivesAlwaysKeepLines ==
    ASSUME RotateAssumption
    PROVE  RotateSpec => []ArchivesKeepLines
<1>1. RotateIInv => ArchivesKeepLines
    BY DEF RotateIInv
<1> QED
    BY <1>1, RotateInvariant, PTL

\* What a rotation that works may replace: with an interval only an archive of
\* an earlier process, of the day on which this one began or later, and without
\* one only an archive named for a time in the last MaxDelay seconds.
THEOREM OnlyOldArchivesReplaced ==
    ASSUME RotateAssumption
    PROVE  RotateSpec => OverwritesOnlyAfterRestart
<1>1. RotateIInv /\ [RotateNext]_rotateVars => [OverwritesOnlyOld]_rotateVars
  <2> SUFFICES ASSUME RotateIInv, RotateNext PROVE OverwritesOnlyOld
      OBVIOUS
  <2> SUFFICES ASSUME NEW a \in DOMAIN archive, ~failed', archive'[a] # archive[a]
               PROVE  IF interval = IntervalDisabled
                      THEN a.time >= clock - MaxDelay
                      ELSE made[a].run # runs /\ a.time >= born
      BY DEF OverwritesOnlyOld
  <2>1. PICK now \in Start..MaxClock : now \in (clock - MaxDelay)..clock /\ WriteLine(now)
      BY DEF RotateNext, Create, Stop, Tick, files
  <2>2. Rotated(now)
      BY <2>1 DEF WriteLine, Aborted
  <2>3. /\ RotateTypeOK /\ up /\ runs \in 1..MaxRuns /\ interval \in Interval
        /\ clock \in Nat /\ now \in Nat /\ now <= clock /\ prev \in Nat /\ counter \in 0..CounterMax
      BY <2>1, WriteLineStarts
  <2>4. ArchivedTo(ArchiveName(now))
      BY <2>2, <2>3, MovedIs DEF Rotated
  <2>5. a = ArchiveName(now)
      BY <2>4 DEF ArchivedTo
  <2>6. CASE interval = IntervalDisabled
    <3>1. a.time = now /\ now >= clock - MaxDelay
        BY <2>1, <2>3, <2>5, <2>6 DEF ArchiveName, RotateAssumption
    <3> QED
        BY <2>6, <3>1
  <2>7. CASE interval # IntervalDisabled
    <3>1. a = NextName /\ a \in Name /\ a.time = prev
        BY <2>3, <2>5, <2>7, ArchiveNameType DEF NextName
    <3>2. ~Before(a, a)
        BY <3>1, BeforeOrder
    <3>3. made[a].run # runs
        BY <2>3, <2>7, <3>1, <3>2 DEF RotateIInv, OwnNamesBefore
    <3>4. born <= prev /\ born \in Nat
        BY <2>3, <2>7 DEF RotateIInv, TimesSet, RotateTypeOK
    <3> QED
        BY <2>3, <2>7, <3>1, <3>3, <3>4
  <2> QED
      BY <2>6, <2>7
<1> QED
    BY <1>1, RotateInvariant, PTL DEF RotateSpec, OverwritesOnlyAfterRestart

-----------------------------------------------------------------------------
(***************************************************************************)
(* RsyslogLogger.                                                          *)
(***************************************************************************)

\* Until the first byte is sent the line is as WriteLine left it.
FreshLine == got = <<>> /\ ~sendFailed /\ sent = 0 /\ len = lineSize

\* What the send loop keeps.  While no first send failed, the wrong length is
\* too short, never too long: sent + len stays in the buffer.  After a failed
\* first send, sent falls by one in each round and len grows by what sent has
\* fallen, so that len is twice as far from zero as sent and an overflow of len
\* ends the loop, long before sent can overflow.
LoopInv ==
    /\ pc \in {"resolve", "connect", "console", "undefined"} => FreshLine
    /\ pc # "idle" => lineSize >= 1
    /\ pc = "send" =>
         /\ sent = 0 => FreshLine
         /\ sent >= 0 => len <= lineSize /\ sent + len <= lineSize /\ len >= -lineSize /\ sent <= lineSize
         /\ sent < 0 /\ sent < len => len >= -2 * sent
         /\ ~sendFailed => sent = Len(got)
         /\ ~sendFailed /\ sockfd = "dgram" => sent = 0 \/ (sent = lineSize /\ len = 0)

\* The inductive invariant.
RsyslogIInv == ServerGetsTheLine /\ LoopInv

-----------------------------------------------------------------------------
(***************************************************************************)
(* int arithmetic.                                                         *)
(***************************************************************************)

\* Arithmetic on int is exact as long as the result is an int.
LEMMA WrapInside ==
    ASSUME IntMax \in Nat, NEW x \in Int, -(IntMax + 1) <= x, x <= IntMax
    PROVE  Wrap(x) = x
    BY DEF Wrap

\* A result above the largest int comes out negative.
LEMMA WrapOver ==
    ASSUME IntMax \in Nat, NEW x \in Int, IntMax < x, x <= 3 * IntMax + 2
    PROVE  Wrap(x) = x - 2 * IntMax - 2
    BY DEF Wrap

-----------------------------------------------------------------------------
(***************************************************************************)
(* Every step keeps the invariant.                                         *)
(***************************************************************************)

\* The initial state: no line is under way.
LEMMA RsyslogInitInv == RsyslogAssumption /\ RsyslogInit => RsyslogIInv
<1> SUFFICES ASSUME RsyslogAssumption, RsyslogInit PROVE RsyslogIInv
    OBVIOUS
<1>1. RsyslogTypeOK
  <2>1. got \in Seq(Int)
      BY EmptySeq DEF RsyslogInit
  <2>2. sendFailed \in BOOLEAN /\ shown \in BOOLEAN
      BY Zenon DEF RsyslogInit
  <2>3. /\ sockfd \in {"closed", "dgram", "stream"}
        /\ pc \in {"idle", "resolve", "connect", "console", "send", "undefined"}
        /\ round \in {"dgram", "stream"}
      BY DEF RsyslogInit
  <2>4. lineSize = 0 /\ sent = 0 /\ len = 0
      BY DEF RsyslogInit
  <2> QED
      BY <2>1, <2>2, <2>3, <2>4 DEF RsyslogTypeOK, RsyslogAssumption
<1>2. SendsOnlyTheLine /\ PrefixWithoutFailure /\ FailureGivesUpTheSocket
    BY EmptySeq DEF RsyslogInit, SendsOnlyTheLine, PrefixWithoutFailure, FailureGivesUpTheSocket
<1>3. LoopInv
    BY DEF RsyslogInit, LoopInv, FreshLine
<1> QED
    BY <1>1, <1>2, <1>3 DEF RsyslogIInv, ServerGetsTheLine

\* The steps around the send loop.
LEMMA OutsideTheLoop ==
    ASSUME RsyslogAssumption, RsyslogIInv,
           \/ Resolve \/ Connect \/ ToConsole \/ Return \/ Destroy
           \/ \E n \in 1 .. MaxLen : RsyslogWriteLine(n)
           \/ UNCHANGED rsyslogVars
    PROVE  RsyslogIInv'
<1> USE DEF RsyslogAssumption, RsyslogIInv, ServerGetsTheLine, RsyslogTypeOK, SendsOnlyTheLine,
            PrefixWithoutFailure, FailureGivesUpTheSocket, LoopInv, FreshLine, line, rsyslogVars
<1>1. CASE Resolve
    BY <1>1 DEF Resolve
<1>2. CASE Connect
    BY <1>2 DEF Connect
<1>3. CASE ToConsole
    BY <1>3 DEF ToConsole
<1>4. CASE Return
    BY <1>4 DEF Return
<1>5. CASE Destroy
    BY <1>5 DEF Destroy
<1>6. ASSUME NEW n \in 1 .. MaxLen, RsyslogWriteLine(n) PROVE RsyslogIInv'
  <2>1. n \in Nat /\ n >= 1 /\ n <= MaxLen /\ len' = n /\ lineSize' = n /\ got' = <<>> /\ sent' = 0
      BY <1>6 DEF RsyslogWriteLine
  <2>2. RsyslogTypeOK'
    <3>1. got' \in Seq(Int)
        BY <2>1, EmptySeq
    <3>2. sendFailed' \in BOOLEAN /\ shown' \in BOOLEAN
        BY <1>6, Zenon DEF RsyslogWriteLine
    <3>3. pc' \in {"resolve", "send"} /\ round' = "dgram" /\ sockfd' = sockfd
        BY <1>6 DEF RsyslogWriteLine
    <3>4. sent' = 0 /\ len' = n /\ lineSize' = n /\ n \in Nat /\ n <= MaxLen
        BY <2>1
    <3> QED
        BY <3>1, <3>2, <3>3, <3>4
  <2>3. SendsOnlyTheLine' /\ PrefixWithoutFailure' /\ FailureGivesUpTheSocket'
      BY <2>1, EmptySeq
  <2>4. LoopInv'
      BY <1>6, <2>1 DEF RsyslogWriteLine
  <2> QED
      BY <2>2, <2>3, <2>4
<1>7. CASE UNCHANGED rsyslogVars
    BY <1>7
<1> QED
    BY <1>1, <1>2, <1>3, <1>4, <1>5, <1>6, <1>7

\* A send that takes r bytes: they are bytes of the line, and the next ones if
\* no send failed.
LEMMA SendTakes ==
    ASSUME RsyslogAssumption, RsyslogIInv, NEW r \in 1 .. len, Send(r),
           sockfd = "stream" \/ (sockfd = "dgram" /\ r = len)
    PROVE  RsyslogIInv'
<1> USE DEF RsyslogAssumption, RsyslogIInv, ServerGetsTheLine, RsyslogTypeOK
<1>1. /\ pc = "send" /\ sent < len /\ sent >= 0 /\ r \in Int /\ len \in Int /\ sent \in Int
      /\ lineSize \in Nat /\ lineSize <= MaxLen /\ MaxLen < IntMax /\ IntMax \in Int /\ lineSize >= 1
    BY DEF Send, FailureGivesUpTheSocket, LoopInv
<1>2. len <= lineSize /\ sent + len <= lineSize /\ len >= -lineSize /\ sent <= lineSize /\ (sent = 0 => FreshLine)
    BY <1>1 DEF LoopInv
<1>3. Wrap(sent + r) = sent + r
    BY <1>1, <1>2, WrapInside
<1>4. LenAfter(sent + r) = len - (sent + r)
    BY <1>1, <1>2, WrapInside DEF LenAfter
<1>5. /\ got' = got \o Taken(r) /\ sendFailed' = sendFailed /\ sent' = sent + r
      /\ sockfd' = sockfd /\ shown' = shown /\ pc' = pc /\ len' = len - (sent + r)
      /\ round' = round /\ lineSize' = lineSize
    BY <1>1, <1>3, <1>4 DEF Send, GivesUp
<1>6. /\ Taken(r) \in Seq(Int) /\ Len(Taken(r)) = r
      /\ \A i \in 1 .. r : Taken(r)[i] = sent + i - 1
    BY <1>1 DEF Taken
<1>7. /\ got' \in Seq(Int) /\ Len(got') = Len(got) + r
      /\ \A i \in 1 .. Len(got') :
            got'[i] = IF i <= Len(got) THEN got[i] ELSE sent + (i - Len(got)) - 1
  <2>1. /\ got \o Taken(r) \in Seq(Int) /\ Len(got \o Taken(r)) = Len(got) + r
        /\ \A i \in 1 .. Len(got) + r : (got \o Taken(r))[i] =
              IF i <= Len(got) THEN got[i] ELSE Taken(r)[i - Len(got)]
      BY <1>6, ConcatProperties, Zenon
  <2> QED
      BY <2>1, <1>1, <1>5, <1>6, LenProperties
<1>8. Len(got) \in Nat
    BY LenProperties
<1>9. RsyslogTypeOK'
    BY <1>1, <1>2, <1>5, <1>7
<1>10. SendsOnlyTheLine'
    BY <1>1, <1>2, <1>5, <1>7, <1>8 DEF SendsOnlyTheLine
<1>11. PrefixWithoutFailure'
  <2> SUFFICES ASSUME ~sendFailed'
               PROVE  /\ \A i \in 1 .. Len(got') : got'[i] = i - 1
                      /\ sockfd' = "dgram" => Len(got') \in {0, lineSize'}
      BY DEF PrefixWithoutFailure
  <2>1. ~sendFailed /\ sent = Len(got) /\ \A i \in 1 .. Len(got) : got[i] = i - 1
      BY <1>1, <1>5 DEF LoopInv, PrefixWithoutFailure
  <2>2. \A i \in 1 .. Len(got') : got'[i] = i - 1
      BY <2>1, <1>7, <1>8
  <2>3. ASSUME sockfd' = "dgram" PROVE Len(got') = lineSize'
      BY <2>1, <2>3, <1>1, <1>2, <1>5, <1>7 DEF LoopInv, FreshLine
  <2> QED
      BY <2>2, <2>3
<1>12. FailureGivesUpTheSocket'
    BY <1>1, <1>5 DEF FailureGivesUpTheSocket
<1>13. LoopInv'
  <2>1. sent' >= 1 /\ len' <= lineSize' /\ sent' + len' <= lineSize' /\ len' >= -lineSize' /\ sent' <= lineSize'
      BY <1>1, <1>2, <1>5
  <2>2. ASSUME ~sendFailed' PROVE sent' = Len(got')
      BY <2>2, <1>1, <1>5, <1>7 DEF LoopInv
  <2>3. ASSUME ~sendFailed', sockfd' = "dgram" PROVE sent' = lineSize' /\ len' = 0
      BY <2>3, <1>1, <1>2, <1>5 DEF LoopInv, FreshLine
  <2> QED
      BY <2>1, <2>2, <2>3, <1>1, <1>5 DEF LoopInv
<1> QED
    BY <1>9, <1>10, <1>11, <1>12, <1>13

\* A send that fails: the first one gives up the socket, a later one goes back
\* by a byte, one on a closed socket only counts.
LEMMA SendFailsInv ==
    ASSUME RsyslogAssumption, RsyslogIInv, SendFails
    PROVE  RsyslogIInv'
<1> USE DEF RsyslogAssumption, RsyslogIInv, ServerGetsTheLine, RsyslogTypeOK
<1>1. /\ pc = "send" /\ sent < len /\ len \in Int /\ sent \in Int
      /\ lineSize \in Nat /\ lineSize <= MaxLen /\ MaxLen < IntMax /\ IntMax \in Int /\ lineSize >= 1
      /\ -(IntMax + 1) <= sent /\ len <= IntMax
    BY DEF SendFails, Send, LoopInv
<1>2. got' = got /\ sendFailed' = TRUE /\ round' = round /\ lineSize' = lineSize /\ sent' = Wrap(sent + -1)
  <2>1. got' = got /\ round' = round /\ lineSize' = lineSize /\ sent' = Wrap(sent + -1)
      BY DEF SendFails, Send
  <2>2. sendFailed' = (sendFailed \/ -1 = -1)
      BY Zenon DEF SendFails, Send
  <2> QED
      BY <2>1, <2>2
<1>3. CASE sent > 0
  <2>1. len <= lineSize /\ sent + len <= lineSize /\ len >= -lineSize /\ sent <= lineSize
      BY <1>1, <1>3 DEF LoopInv
  <2>2. sent' = sent - 1
      BY <1>1, <1>2, <1>3, <2>1, WrapInside
  <2>3. LenAfter(sent - 1) = len - (sent - 1)
      BY <1>1, <1>3, <2>1, WrapInside DEF LenAfter
  <2>4. /\ sockfd' = sockfd /\ shown' = shown
        /\ IF sent - 1 = 0 THEN pc' = "idle" /\ len' = len
                           ELSE pc' = pc /\ len' = len - (sent - 1)
      BY <1>1, <1>2, <1>3, <2>2, <2>3 DEF SendFails, Send, GivesUp
  <2> QED
      BY <1>1, <1>2, <1>3, <2>1, <2>2, <2>4
         DEF SendsOnlyTheLine, PrefixWithoutFailure, FailureGivesUpTheSocket, LoopInv, FreshLine
<1>4. CASE sent = 0
  <2>1. got = <<>> /\ len = lineSize
      BY <1>1, <1>4 DEF LoopInv, FreshLine
  <2>2. sent' = -1
      BY <1>1, <1>2, <1>4, WrapInside
  <2>3. LenAfter(-1) = len + 1
      BY <1>1, <2>1, WrapInside DEF LenAfter
  <2>4. sockfd' = "closed" /\ shown' /\ pc' = pc /\ len' = len + 1
      BY <1>1, <1>2, <2>2, <2>3 DEF SendFails, Send, GivesUp
  <2> QED
      BY <1>1, <1>2, <2>1, <2>2, <2>4
         DEF SendsOnlyTheLine, PrefixWithoutFailure, FailureGivesUpTheSocket, LoopInv, FreshLine
<1>5. CASE sent < 0
  <2>1. sockfd = "closed" /\ shown /\ got = <<>> /\ len >= -2 * sent
      BY <1>1, <1>5 DEF LoopInv, FailureGivesUpTheSocket
  <2>2. sent' = sent - 1
      BY <1>1, <1>2, <1>5, <2>1, WrapInside
  <2>3. /\ LenAfter(sent - 1) \in -(IntMax + 1) .. IntMax
        /\ \/ LenAfter(sent - 1) = len - (sent - 1)
           \/ LenAfter(sent - 1) <= sent - 1
    <3>1. CASE len - (sent - 1) <= IntMax
        BY <3>1, <1>1, <1>5, <2>1, WrapInside DEF LenAfter
    <3>2. CASE len - (sent - 1) > IntMax
      <4>1. Wrap(len - (sent - 1)) = len - (sent - 1) - 2 * IntMax - 2
          BY <3>2, <1>1, <1>5, <2>1, WrapOver
      <4> QED
          BY <4>1, <3>2, <1>1, <1>5, <2>1 DEF LenAfter
    <3> QED
        BY <3>1, <3>2, <1>1
  <2>4. sockfd' = "closed" /\ shown' /\ pc' = pc /\ len' = LenAfter(sent - 1)
    <3>1. sent' # -1 /\ sent' # 0 /\ Wrap(sent + -1) = sent - 1
        BY <1>1, <1>2, <1>5, <2>2
    <3>2. sockfd' = sockfd /\ shown' = shown /\ pc' = pc /\ len' = LenAfter(sent - 1)
        BY <3>1, <1>2 DEF SendFails, Send, GivesUp
    <3> QED
        BY <3>2, <2>1
  <2> QED
      BY <1>1, <1>2, <1>5, <2>1, <2>2, <2>3, <2>4
         DEF SendsOnlyTheLine, PrefixWithoutFailure, FailureGivesUpTheSocket, LoopInv, FreshLine
<1> QED
    BY <1>1, <1>3, <1>4, <1>5

-----------------------------------------------------------------------------
\* The loop of WriteLine, with its wrong length and its late test for errors,
\* never leaves the line's buffer on an open socket: every byte the server gets
\* is one of the line, in order and once if no send failed, and a line whose
\* first send failed is printed and not sent.
THEOREM ServerAlwaysGetsTheLine ==
    ASSUME RsyslogAssumption
    PROVE  RsyslogSpec => []ServerGetsTheLine
<1>1. RsyslogInit => RsyslogIInv
    BY RsyslogInitInv
<1>2. RsyslogIInv /\ [RsyslogNext]_rsyslogVars => RsyslogIInv'
  <2> SUFFICES ASSUME RsyslogIInv, [RsyslogNext]_rsyslogVars PROVE RsyslogIInv'
      OBVIOUS
  <2>1. ASSUME NEW r \in 1 .. len, sockfd = "stream", Send(r) PROVE RsyslogIInv'
      BY <2>1, SendTakes
  <2>2. CASE SendAll
    <3>1. len \in 1 .. len
        BY <2>2 DEF SendAll, RsyslogIInv, ServerGetsTheLine, RsyslogTypeOK
    <3> QED
        BY <2>2, <3>1, SendTakes DEF SendAll
  <2>3. CASE SendFails
      BY <2>3, SendFailsInv
  <2> QED
      BY <2>1, <2>2, <2>3, OutsideTheLoop DEF RsyslogNext, Step, SendSome
<1>3. RsyslogIInv => ServerGetsTheLine
    BY DEF RsyslogIInv
<1> QED
    BY <1>1, <1>2, <1>3, PTL DEF RsyslogSpec

-----------------------------------------------------------------------------
(***************************************************************************)
(* The lifecycle of loggers.                                               *)
(***************************************************************************)

Frame == [pc : {"choose", "lock", "in"}, logger : Logger \cup {None}]

\* The types of the variables.
Types ==
    /\ instance \in Logger \cup {None} /\ kept \subseteq Logger
    /\ life \in [Logger -> {"alive", "dying", "locked", "unlocked", "dead"}]
    /\ owner \in [Logger -> Thread \cup {None}]
    /\ stack \in [Thread -> Seq(Frame)]
    /\ destroying \in [Thread -> Logger \cup {None}]
    /\ fault \in BOOLEAN /\ lost \in BOOLEAN

\* What a sequence holds.
Items(s) == {s[i] : i \in DOMAIN s}

\* The statements t is in.
Frames(t) == Items(stack[t])

\* A statement that waits for a logger, or is in one, has chosen it.
Chosen == \A t \in Thread : \A f \in Frames(t) : f.pc # "choose" => f.logger \in Logger

\* A mutex is held from BeginLine to EndLine of a statement, or by the guard of
\* ~Logger.
OwnerHolds ==
    \A l \in Logger : owner[l] # None =>
        \/ [pc |-> "in", logger |-> l] \in Frames(owner[l])
        \/ destroying[owner[l]] = l /\ life[l] = "locked"

\* A logger that a shared pointer leads to is alive, and the client keeps the
\* console's.
PointedAlive ==
    /\ Console \in kept
    /\ \A l \in Logger : l \in kept \/ l = instance => life[l] = "alive"

\* A thread that runs a destructor is in no statement, and what it destroys is
\* not alive any more.
DestroyersFree ==
    \A t \in Thread : destroying[t] # None =>
        stack[t] = <<>> /\ life[destroying[t]] # "alive"

\* Unless a logger was given up too early, statements are in living loggers.
UsedAlive ==
    ~lost => \A t \in Thread : \A f \in Frames(t) :
                f.logger # None => life[f.logger] = "alive"

\* The inductive invariant.
LifecycleIInv ==
    /\ Types /\ Chosen /\ OwnerHolds /\ PointedAlive /\ DestroyersFree /\ UsedAlive
    /\ GoneOnlyIfLost

-----------------------------------------------------------------------------
(***************************************************************************)
(* Stacks of statements: a push, a change of the top and a pop.            *)
(***************************************************************************)

\* A push adds the statement that is begun (LoggerAccessor of an operand).
LEMMA ItemsAppend ==
    ASSUME NEW S, NEW s \in Seq(S), NEW x \in S
    PROVE  Append(s, x) \in Seq(S) /\ Items(Append(s, x)) = Items(s) \cup {x}
<1>1. /\ Append(s, x) \in Seq(S) /\ Len(Append(s, x)) = Len(s) + 1
      /\ \A i \in 1 .. Len(s) : Append(s, x)[i] = s[i]
      /\ Append(s, x)[Len(s) + 1] = x
    BY AppendProperties
<1>2. /\ DOMAIN s = 1 .. Len(s) /\ Len(s) \in Nat
      /\ DOMAIN Append(s, x) = 1 .. Len(s) + 1
    BY <1>1, LenProperties
<1>3. ASSUME NEW i \in 1 .. Len(s) + 1 PROVE i \in 1 .. Len(s) \/ i = Len(s) + 1
    BY <1>2
<1>4. 1 .. Len(s) \subseteq 1 .. Len(s) + 1 /\ Len(s) + 1 \in 1 .. Len(s) + 1
    BY <1>2
<1> QED
    BY <1>1, <1>2, <1>3, <1>4, Zenon DEF Items

\* A change of the innermost statement leaves the others.
LEMMA ItemsSetLast ==
    ASSUME NEW S, NEW s \in Seq(S), NEW x \in S, s # <<>>
    PROVE  LET t == [s EXCEPT ![Len(s)] = x]
           IN  /\ t \in Seq(S)
               /\ Items(t) \subseteq Items(s) \cup {x} /\ x \in Items(t)
               /\ Items(s) \subseteq Items(t) \cup {s[Len(s)]}
<1> DEFINE t == [s EXCEPT ![Len(s)] = x]
<1>1. DOMAIN s = 1 .. Len(s) /\ Len(s) \in Nat \ {0} /\ \A i \in 1 .. Len(s) : s[i] \in S
    BY EmptySeq, LenProperties, ElementOfSeq
<1>2. Len(s) \in DOMAIN s
    BY <1>1
<1>3. /\ DOMAIN t = DOMAIN s /\ t[Len(s)] = x
      /\ \A i \in DOMAIN s : i # Len(s) => t[i] = s[i]
    BY <1>2
<1>5. t \in Seq(S)
    BY <1>1, ExceptSeq
<1>6. Items(t) \subseteq Items(s) \cup {x} /\ x \in Items(t)
    BY <1>2, <1>3, Zenon DEF Items
<1>7. Items(s) \subseteq Items(t) \cup {s[Len(s)]}
    BY <1>2, <1>3, Zenon DEF Items
<1> QED
    BY <1>5, <1>6, <1>7

\* A pop leaves the others.
LEMMA ItemsPop ==
    ASSUME NEW S, NEW s \in Seq(S), s # <<>>
    PROVE  LET t == SubSeq(s, 1, Len(s) - 1)
           IN  /\ t \in Seq(S)
               /\ Items(t) \subseteq Items(s)
               /\ Items(s) \subseteq Items(t) \cup {s[Len(s)]}
<1> DEFINE t == SubSeq(s, 1, Len(s) - 1)
<1>1. DOMAIN s = 1 .. Len(s) /\ Len(s) \in Nat \ {0} /\ \A i \in 1 .. Len(s) : s[i] \in S
    BY EmptySeq, LenProperties, ElementOfSeq
<1>2. /\ t \in Seq(S) /\ DOMAIN t = 1 .. Len(s) - 1
      /\ \A i \in 1 .. Len(s) - 1 : t[i] = s[i]
    BY <1>1
<1>3. 1 .. Len(s) - 1 \subseteq 1 .. Len(s)
    BY <1>1
<1>4. \A n \in Nat : \A i \in 1 .. n : i \in 1 .. n - 1 \/ i = n
    OBVIOUS
<1>5. Items(t) \subseteq Items(s)
    BY <1>1, <1>2, <1>3, Zenon DEF Items
<1>6. Items(s) \subseteq Items(t) \cup {s[Len(s)]}
  <2>1. \A i \in 1 .. Len(s) : i \in 1 .. Len(s) - 1 \/ i = Len(s)
      BY <1>1, <1>4, Zenon
  <2> QED
      BY <1>1, <1>2, <2>1, Zenon DEF Items
<1> QED
    BY <1>2, <1>5, <1>6

\* The last item is an item.
LEMMA TopIsFrame ==
    ASSUME Types, NEW t \in Thread, stack[t] # <<>>
    PROVE  Top(t) \in Frames(t) /\ Top(t) \in Frame
<1>1. stack[t] \in Seq(Frame)
    BY DEF Types
<1>2. DOMAIN stack[t] = 1 .. Len(stack[t]) /\ Len(stack[t]) \in Nat \ {0}
    BY <1>1, EmptySeq, LenProperties
<1>3. Len(stack[t]) \in DOMAIN stack[t] /\ stack[t][Len(stack[t])] \in Frame
    BY <1>1, <1>2, ElementOfSeq
<1> QED
    BY <1>3, Zenon DEF Top, Frames, Items

\* What a step that changes the stack of t does to the statements there are.
LEMMA PushFrames ==
    ASSUME Types, NEW t \in Thread, NEW f \in Frame,
           stack' = [stack EXCEPT ![t] = Append(@, f)]
    PROVE  /\ stack' \in [Thread -> Seq(Frame)]
           /\ \A u \in Thread : u # t => stack'[u] = stack[u] /\ Frames(u)' = Frames(u)
           /\ Frames(t)' = Frames(t) \cup {f}
<1>1. stack[t] \in Seq(Frame)
    BY DEF Types
<1>2. stack'[t] = Append(stack[t], f) /\ \A u \in Thread : u # t => stack'[u] = stack[u]
    BY DEF Types
<1>3. Append(stack[t], f) \in Seq(Frame) /\ Items(Append(stack[t], f)) = Items(stack[t]) \cup {f}
    BY <1>1, ItemsAppend
<1>4. stack' \in [Thread -> Seq(Frame)]
    BY <1>3 DEF Types
<1> QED
    BY <1>2, <1>3, <1>4 DEF Frames

\* The innermost statement of one thread changes, those of other threads do
\* not.
LEMMA TopFrames ==
    ASSUME Types, NEW t \in Thread, NEW f \in Frame, stack[t] # <<>>, SetTop(t, f)
    PROVE  /\ stack' \in [Thread -> Seq(Frame)]
           /\ \A u \in Thread : u # t => stack'[u] = stack[u] /\ Frames(u)' = Frames(u)
           /\ Frames(t)' \subseteq Frames(t) \cup {f} /\ f \in Frames(t)'
           /\ Frames(t) \subseteq Frames(t)' \cup {Top(t)}
<1>1. stack[t] \in Seq(Frame)
    BY DEF Types
<1> DEFINE new == [stack[t] EXCEPT ![Len(stack[t])] = f]
<1>2. stack'[t] = new /\ \A u \in Thread : u # t => stack'[u] = stack[u]
    BY DEF Types, SetTop
<1>3. /\ new \in Seq(Frame)
      /\ Items(new) \subseteq Items(stack[t]) \cup {f} /\ f \in Items(new)
      /\ Items(stack[t]) \subseteq Items(new) \cup {stack[t][Len(stack[t])]}
    BY <1>1, ItemsSetLast
<1>4. stack' \in [Thread -> Seq(Frame)]
    BY <1>2, <1>3 DEF Types, SetTop
<1> HIDE DEF new
<1> QED
    BY <1>2, <1>3, <1>4 DEF Frames, Top

\* The innermost statement of one thread ends, those of other threads stay.
LEMMA PopFrames ==
    ASSUME Types, NEW t \in Thread, stack[t] # <<>>,
           stack' = [stack EXCEPT ![t] = SubSeq(@, 1, Len(@) - 1)]
    PROVE  /\ stack' \in [Thread -> Seq(Frame)]
           /\ \A u \in Thread : u # t => stack'[u] = stack[u] /\ Frames(u)' = Frames(u)
           /\ Frames(t)' \subseteq Frames(t)
           /\ Frames(t) \subseteq Frames(t)' \cup {Top(t)}
<1>1. stack[t] \in Seq(Frame)
    BY DEF Types
<1> DEFINE new == SubSeq(stack[t], 1, Len(stack[t]) - 1)
<1>2. stack'[t] = new /\ \A u \in Thread : u # t => stack'[u] = stack[u]
    BY DEF Types
<1>3. /\ new \in Seq(Frame)
      /\ Items(new) \subseteq Items(stack[t])
      /\ Items(stack[t]) \subseteq Items(new) \cup {stack[t][Len(stack[t])]}
    BY <1>1, ItemsPop
<1>4. stack' \in [Thread -> Seq(Frame)]
    BY <1>2, <1>3 DEF Types
<1> HIDE DEF new
<1> QED
    BY <1>2, <1>3, <1>4 DEF Frames, Top

-----------------------------------------------------------------------------
(***************************************************************************)
(* Every step keeps the invariant.                                         *)
(***************************************************************************)

\* At first no thread is in a statement and every logger is alive.
LEMMA LifecycleInitInv == LoggerLifecycleAssumption /\ LifecycleInit => LifecycleIInv
<1> SUFFICES ASSUME LoggerLifecycleAssumption, LifecycleInit PROVE LifecycleIInv
    OBVIOUS
<1>1. Types
  <2>1. stack \in [Thread -> Seq(Frame)]
      BY EmptySeq DEF LifecycleInit
  <2>2. fault \in BOOLEAN /\ lost \in BOOLEAN
      BY Zenon DEF LifecycleInit
  <2>3. instance \in Logger \cup {None} /\ kept \subseteq Logger
      BY DEF LifecycleInit
  <2>4. /\ life \in [Logger -> {"alive", "dying", "locked", "unlocked", "dead"}]
        /\ owner \in [Logger -> Thread \cup {None}]
        /\ destroying \in [Thread -> Logger \cup {None}]
      BY DEF LifecycleInit
  <2> QED
      BY <2>1, <2>2, <2>3, <2>4 DEF Types
<1>2. \A t \in Thread : stack[t] = <<>> /\ destroying[t] = None
    BY DEF LifecycleInit
<1>3. \A t \in Thread : Frames(t) = {}
    BY <1>2, EmptySeq DEF Frames, Items
<1>4. Chosen /\ DestroyersFree /\ UsedAlive
    BY <1>2, <1>3, Zenon DEF Chosen, DestroyersFree, UsedAlive
<1>5. OwnerHolds /\ PointedAlive
    BY DEF LifecycleInit, OwnerHolds, PointedAlive, LoggerLifecycleAssumption
<1>6. GoneOnlyIfLost
    BY DEF LifecycleInit, GoneOnlyIfLost
<1> QED
    BY <1>1, <1>4, <1>5, <1>6 DEF LifecycleIInv

\* A step that changes no more than the stack of one thread, of which it takes
\* no statement that is in a logger, and adds none but a statement on a logger
\* that is alive.
LEMMA StackStep ==
    ASSUME LifecycleIInv, NEW t \in Thread,
           UNCHANGED <<instance, kept, life, destroying, fault, lost>>,
           stack' \in [Thread -> Seq(Frame)], owner' \in [Logger -> Thread \cup {None}],
           \A u \in Thread : u # t => stack'[u] = stack[u] /\ Frames(u)' = Frames(u),
           destroying[t] = None,
           \A f \in Frames(t)' : f \notin Frames(t) =>
               /\ f.pc # "choose" => f.logger \in Logger
               /\ ~lost /\ f.logger # None => life[f.logger] = "alive",
           \A l \in Logger : owner'[l] # None =>
               \/ owner'[l] = t /\ [pc |-> "in", logger |-> l] \in Frames(t)'
               \/ owner'[l] = owner[l] /\ owner[l] # t
               \/ /\ owner'[l] = owner[l] /\ owner[l] = t
                  /\ [pc |-> "in", logger |-> l] \in Frames(t) => [pc |-> "in", logger |-> l] \in Frames(t)'
    PROVE  LifecycleIInv'
<1>1. Types'
    BY DEF LifecycleIInv, Types
<1>2. Chosen'
    BY DEF LifecycleIInv, Chosen
<1>3. OwnerHolds'
  <2> SUFFICES ASSUME NEW l \in Logger, owner'[l] # None
               PROVE  \/ [pc |-> "in", logger |-> l] \in Items(stack'[owner'[l]])
                      \/ destroying'[owner'[l]] = l /\ life'[l] = "locked"
      BY DEF OwnerHolds, Frames
  <2>1. CASE owner'[l] = t /\ [pc |-> "in", logger |-> l] \in Frames(t)'
      BY <2>1 DEF Frames
  <2>2. CASE owner'[l] = owner[l] /\ owner[l] # t
    <3>1. owner[l] \in Thread /\ owner[l] # t /\ owner'[l] = owner[l]
        BY <2>2 DEF LifecycleIInv, Types
    <3>2. Frames(owner[l])' = Frames(owner[l])
        BY <3>1
    <3>3. \/ [pc |-> "in", logger |-> l] \in Frames(owner[l])
          \/ destroying[owner[l]] = l /\ life[l] = "locked"
        BY <2>2 DEF LifecycleIInv, OwnerHolds
    <3> QED
        BY <3>1, <3>2, <3>3 DEF Frames
  <2>3. CASE /\ owner'[l] = owner[l] /\ owner[l] = t
             /\ [pc |-> "in", logger |-> l] \in Frames(t) => [pc |-> "in", logger |-> l] \in Frames(t)'
      BY <2>3 DEF LifecycleIInv, OwnerHolds, Frames
  <2> QED
      BY <2>1, <2>2, <2>3
<1>4. PointedAlive' /\ GoneOnlyIfLost'
    BY DEF LifecycleIInv, PointedAlive, GoneOnlyIfLost
<1>5. DestroyersFree'
    BY DEF LifecycleIInv, DestroyersFree
<1>6. UsedAlive'
    BY DEF LifecycleIInv, UsedAlive
<1> QED
    BY <1>1, <1>2, <1>3, <1>4, <1>5, <1>6 DEF LifecycleIInv

\* A statement begins: it has chosen no logger yet.
LEMMA BeginInv ==
    ASSUME LoggerLifecycleAssumption, LifecycleIInv, NEW t \in Thread, Begin(t)
    PROVE  LifecycleIInv'
<1> DEFINE f == [pc |-> "choose", logger |-> None]
<1>1. f \in Frame
    BY DEF Frame
<1>2. stack' = [stack EXCEPT ![t] = Append(@, f)]
    BY DEF Begin
<1>3. /\ stack' \in [Thread -> Seq(Frame)]
      /\ \A u \in Thread : u # t => stack'[u] = stack[u] /\ Frames(u)' = Frames(u)
      /\ Frames(t)' = Frames(t) \cup {f}
    BY <1>1, <1>2, PushFrames DEF LifecycleIInv
<1>4. destroying[t] = None
    BY DEF Begin, Free, In, LifecycleIInv, DestroyersFree
<1>5. UNCHANGED <<instance, kept, life, owner, destroying, fault, lost>>
    BY DEF Begin
<1>6. owner' \in [Logger -> Thread \cup {None}]
    BY <1>5 DEF LifecycleIInv, Types
<1>7. f.pc = "choose" /\ f.logger = None
    OBVIOUS
<1> HIDE DEF f
<1> QED
    BY <1>3, <1>4, <1>5, <1>6, <1>7, StackStep

\* A statement chooses the installed logger or one the client keeps: a pointer
\* keeps either alive.
LEMMA ChooseInv ==
    ASSUME LoggerLifecycleAssumption, LifecycleIInv, NEW t \in Thread, NEW l \in Logger, Choose(t, l)
    PROVE  LifecycleIInv'
<1> DEFINE f == [pc |-> "lock", logger |-> l]
<1>1. f \in Frame /\ f.pc = "lock" /\ f.logger = l
    BY DEF Frame
<1>2. stack[t] # <<>> /\ SetTop(t, f) /\ Top(t).pc = "choose"
    BY DEF Choose, In
<1>3. /\ stack' \in [Thread -> Seq(Frame)]
      /\ \A u \in Thread : u # t => stack'[u] = stack[u] /\ Frames(u)' = Frames(u)
      /\ Frames(t)' \subseteq Frames(t) \cup {f}
      /\ Frames(t) \subseteq Frames(t)' \cup {Top(t)}
    BY <1>1, <1>2, TopFrames DEF LifecycleIInv
<1>4. destroying[t] = None
    BY <1>2 DEF LifecycleIInv, DestroyersFree
<1>5. UNCHANGED <<instance, kept, life, owner, destroying, fault, lost>>
    BY DEF Choose
<1>6. owner' \in [Logger -> Thread \cup {None}]
    BY <1>5 DEF LifecycleIInv, Types
<1>7. life[l] = "alive"
    BY DEF Choose, LifecycleIInv, PointedAlive, LoggerLifecycleAssumption
<1>8. \A m \in Logger : [pc |-> "in", logger |-> m] # Top(t)
    BY <1>2
<1>9. \A g \in Frames(t)' : g \notin Frames(t) => g = f
    BY <1>3
<1> HIDE DEF f
<1> QED
    BY <1>1, <1>3, <1>4, <1>5, <1>6, <1>7, <1>8, <1>9, StackStep

\* BeginLine gets the mutex, which nobody held.
LEMMA LockInv ==
    ASSUME LoggerLifecycleAssumption, LifecycleIInv, NEW t \in Thread, Lock(t), ~(life[Top(t).logger] = "dead")
    PROVE  LifecycleIInv'
<1> DEFINE l == Top(t).logger
           f == [Top(t) EXCEPT !.pc = "in"]
<1>1. stack[t] # <<>> /\ SetTop(t, f) /\ Top(t).pc = "lock"
    BY DEF Lock, In
<1>2. Top(t) \in Frames(t) /\ Top(t) \in Frame
    BY <1>1, TopIsFrame DEF LifecycleIInv
<1>3. l \in Logger
    BY <1>1, <1>2 DEF LifecycleIInv, Chosen
<1>4. f = [pc |-> "in", logger |-> l] /\ f \in Frame /\ f.logger = l
    BY <1>2 DEF Frame
<1>5. /\ stack' \in [Thread -> Seq(Frame)]
      /\ \A u \in Thread : u # t => stack'[u] = stack[u] /\ Frames(u)' = Frames(u)
      /\ Frames(t)' \subseteq Frames(t) \cup {f} /\ f \in Frames(t)'
      /\ Frames(t) \subseteq Frames(t)' \cup {Top(t)}
    BY <1>1, <1>4, TopFrames DEF LifecycleIInv
<1>6. destroying[t] = None
    BY <1>1 DEF LifecycleIInv, DestroyersFree
<1>7. /\ UNCHANGED <<instance, kept, life, destroying, fault, lost>>
      /\ owner' = [owner EXCEPT ![l] = t]
    BY DEF Lock
<1>8. /\ owner' \in [Logger -> Thread \cup {None}] /\ owner'[l] = t
      /\ \A m \in Logger : m # l => owner'[m] = owner[m]
    BY <1>3, <1>7 DEF LifecycleIInv, Types
<1>9. \A m \in Logger : [pc |-> "in", logger |-> m] # Top(t)
    BY <1>1
<1>10. ~lost => life[l] = "alive"
    BY <1>2, <1>3 DEF LifecycleIInv, UsedAlive, LoggerLifecycleAssumption
<1>11. \A g \in Frames(t)' : g \notin Frames(t) => g = f
    BY <1>5
<1> HIDE DEF f, l
<1>12. \A m \in Logger : owner'[m] # None =>
               \/ owner'[m] = t /\ [pc |-> "in", logger |-> m] \in Frames(t)'
               \/ owner'[m] = owner[m] /\ owner[m] # t
               \/ /\ owner'[m] = owner[m] /\ owner[m] = t
                  /\ [pc |-> "in", logger |-> m] \in Frames(t) => [pc |-> "in", logger |-> m] \in Frames(t)'
    BY <1>4, <1>5, <1>8, <1>9
<1> QED
    BY <1>3, <1>4, <1>5, <1>6, <1>7, <1>8, <1>10, <1>11, <1>12, StackStep

\* EndLine gives the mutex back and ends the statement.
LEMMA EndLineInv ==
    ASSUME LoggerLifecycleAssumption, LifecycleIInv, NEW t \in Thread, EndLine(t), ~(life[Top(t).logger] # "alive")
    PROVE  LifecycleIInv'
<1> DEFINE l == Top(t).logger
<1>1. stack[t] # <<>> /\ Top(t).pc = "in" /\ stack' = [stack EXCEPT ![t] = SubSeq(@, 1, Len(@) - 1)]
    BY DEF EndLine, In
<1>2. Top(t) \in Frames(t) /\ Top(t) \in Frame
    BY <1>1, TopIsFrame DEF LifecycleIInv
<1>3. l \in Logger
    BY <1>1, <1>2 DEF LifecycleIInv, Chosen
<1>4. /\ stack' \in [Thread -> Seq(Frame)]
      /\ \A u \in Thread : u # t => stack'[u] = stack[u] /\ Frames(u)' = Frames(u)
      /\ Frames(t)' \subseteq Frames(t)
      /\ Frames(t) \subseteq Frames(t)' \cup {Top(t)}
    BY <1>1, PopFrames DEF LifecycleIInv
<1>5. destroying[t] = None
    BY <1>1 DEF LifecycleIInv, DestroyersFree
<1>6. /\ UNCHANGED <<instance, kept, life, destroying, fault, lost>>
      /\ owner' = [owner EXCEPT ![l] = None]
    BY DEF EndLine
<1>7. /\ owner' \in [Logger -> Thread \cup {None}] /\ owner'[l] = None
      /\ \A m \in Logger : m # l => owner'[m] = owner[m]
    BY <1>3, <1>6 DEF LifecycleIInv, Types
<1>8. \A m \in Logger : m # l => [pc |-> "in", logger |-> m] # Top(t)
    OBVIOUS
<1> HIDE DEF l
<1>9. \A m \in Logger : owner'[m] # None =>
               \/ owner'[m] = t /\ [pc |-> "in", logger |-> m] \in Frames(t)'
               \/ owner'[m] = owner[m] /\ owner[m] # t
               \/ /\ owner'[m] = owner[m] /\ owner[m] = t
                  /\ [pc |-> "in", logger |-> m] \in Frames(t) => [pc |-> "in", logger |-> m] \in Frames(t)'
    BY <1>4, <1>7, <1>8
<1> QED
    BY <1>4, <1>5, <1>6, <1>7, <1>9, StackStep

\* A statement meets a logger that is gone: it was not alive, so a logger was
\* given up too early.
LEMMA FaultInv ==
    ASSUME LoggerLifecycleAssumption, LifecycleIInv, NEW t \in Thread, Lock(t) \/ EndLine(t), Fault,
           life[Top(t).logger] # "alive"
    PROVE  LifecycleIInv'
<1>1. stack[t] # <<>> /\ Top(t).pc # "choose"
    BY DEF Lock, EndLine, In
<1>2. Top(t) \in Frames(t)
    BY <1>1, TopIsFrame DEF LifecycleIInv
<1>3. Top(t).logger \in Logger
    BY <1>1, <1>2 DEF LifecycleIInv, Chosen
<1>4. lost
    BY <1>2, <1>3 DEF LifecycleIInv, UsedAlive, LoggerLifecycleAssumption
<1>5. UNCHANGED <<instance, kept, life, owner, stack, destroying, lost>> /\ fault' = TRUE
    BY DEF Fault
<1>6. Types'
    BY <1>5 DEF LifecycleIInv, Types
<1>7. Chosen' /\ OwnerHolds' /\ PointedAlive' /\ DestroyersFree' /\ UsedAlive'
    BY <1>5 DEF LifecycleIInv, Chosen, OwnerHolds, PointedAlive, DestroyersFree, UsedAlive, Frames
<1>8. GoneOnlyIfLost'
    BY <1>4, <1>5 DEF GoneOnlyIfLost
<1> QED
    BY <1>6, <1>7, <1>8 DEF LifecycleIInv

\* A pointer to l is given up: if it was the last one, l starts to die, and no
\* statement is in it unless it is lost.
LEMMA GiveUpInv ==
    ASSUME LoggerLifecycleAssumption, LifecycleIInv, NEW t \in Thread, Free(t), NEW l \in Logger,
           NEW last \in BOOLEAN, GiveUp(t, l, last), life[l] = "alive",
           kept' \subseteq kept, Console \in kept', instance' \in Logger \cup {None},
           instance' # None => instance' \in kept \/ instance' = instance,
           last => l \notin kept' /\ l # instance'
    PROVE  LifecycleIInv'
<1>1. /\ stack[t] = <<>> /\ destroying[t] = None
      /\ owner' = owner /\ stack' = stack /\ fault' = fault
      /\ \A u \in Thread : Frames(u)' = Frames(u)
    BY DEF Free, GiveUp, Frames
<1>2. Types'
  <2>1. lost' \in BOOLEAN
      BY Zenon DEF GiveUp
  <2> QED
      BY <1>1, <2>1 DEF LifecycleIInv, Types, GiveUp
<1>3. Chosen'
    BY <1>1 DEF LifecycleIInv, Chosen
<1>4. CASE last
  <2>1. /\ \A u \in Thread : u # t => destroying'[u] = destroying[u]
        /\ destroying'[t] = l /\ life'[l] = "dying"
        /\ \A m \in Logger : m # l => life'[m] = life[m]
        /\ lost' = (lost \/ Used(l))
      BY <1>4 DEF GiveUp, LifecycleIInv, Types
  <2>2. OwnerHolds'
    <3> SUFFICES ASSUME NEW m \in Logger, owner[m] # None
                 PROVE  \/ [pc |-> "in", logger |-> m] \in Frames(owner[m])
                        \/ destroying'[owner[m]] = m /\ life'[m] = "locked"
        BY <1>1 DEF OwnerHolds, Frames
    <3>1. \/ [pc |-> "in", logger |-> m] \in Frames(owner[m])
          \/ destroying[owner[m]] = m /\ life[m] = "locked"
        BY DEF LifecycleIInv, OwnerHolds
    <3>2. owner[m] \in Thread
        BY DEF LifecycleIInv, Types
    <3> QED
        BY <1>1, <2>1, <3>1, <3>2 DEF LoggerLifecycleAssumption
  <2>3. PointedAlive'
      BY <1>4, <2>1 DEF LifecycleIInv, PointedAlive, LoggerLifecycleAssumption
  <2>4. DestroyersFree'
    <3>1. l # None
        BY DEF LoggerLifecycleAssumption
    <3> SUFFICES ASSUME NEW u \in Thread, destroying'[u] # None
                 PROVE  stack[u] = <<>> /\ life'[destroying'[u]] # "alive"
        BY <1>1 DEF DestroyersFree
    <3>2. CASE u = t
        BY <3>2, <1>1, <2>1
    <3>3. CASE u # t
      <4>1. destroying[u] \in Logger /\ destroying'[u] = destroying[u]
          BY <3>3, <2>1 DEF LifecycleIInv, Types
      <4>2. stack[u] = <<>> /\ life[destroying[u]] # "alive"
          BY <4>1 DEF LifecycleIInv, DestroyersFree
      <4> QED
          BY <4>1, <4>2, <2>1
    <3> QED
        BY <3>2, <3>3
  <2>5. UsedAlive'
    <3> SUFFICES ASSUME ~lost', NEW u \in Thread, NEW f \in Frames(u), f.logger # None
                 PROVE  life'[f.logger] = "alive"
        BY <1>1 DEF UsedAlive
    <3>1. ~lost /\ ~Used(l)
        BY <2>1
    <3>2. f.logger # l
        BY <3>1, Zenon DEF Used, Frames, Items
    <3>3. f \in Frame
      <4>1. stack[u] \in Seq(Frame)
          BY DEF LifecycleIInv, Types
      <4>2. \A i \in DOMAIN stack[u] : stack[u][i] \in Frame
          BY <4>1, LenProperties, ElementOfSeq
      <4> QED
          BY <4>2, Zenon DEF Frames, Items
    <3>4. f.logger \in Logger /\ life[f.logger] = "alive"
        BY <3>1, <3>3 DEF LifecycleIInv, UsedAlive, Frame
    <3> QED
        BY <3>2, <3>4, <2>1
  <2>6. GoneOnlyIfLost'
    <3>1. lost => lost'
        BY <2>1
    <3> QED
        BY <1>1, <3>1 DEF LifecycleIInv, GoneOnlyIfLost
  <2> QED
      BY <1>2, <1>3, <2>2, <2>3, <2>4, <2>5, <2>6 DEF LifecycleIInv
<1>5. CASE ~last
  <2>1. destroying' = destroying /\ life' = life
      BY <1>1, <1>5 DEF GiveUp, LifecycleIInv, Types
  <2>2. lost' = lost
      BY <1>5 DEF GiveUp, LifecycleIInv, Types
  <2>3. Chosen' /\ OwnerHolds' /\ DestroyersFree' /\ UsedAlive' /\ GoneOnlyIfLost'
      BY <1>1, <2>1, <2>2 DEF LifecycleIInv, Chosen, OwnerHolds, DestroyersFree, UsedAlive, GoneOnlyIfLost, Frames
  <2>4. PointedAlive'
      BY <2>1 DEF LifecycleIInv, PointedAlive, LoggerLifecycleAssumption
  <2> QED
      BY <1>2, <2>3, <2>4 DEF LifecycleIInv
<1> QED
    BY <1>4, <1>5

\* Initialize installs a logger and gives up the pointer to the last one.
LEMMA InitializeInv ==
    ASSUME LoggerLifecycleAssumption, LifecycleIInv, NEW t \in Thread, NEW l \in Logger, Initialize(t, l)
    PROVE  LifecycleIInv'
<1>1. Free(t) /\ l \in kept /\ instance' = l /\ kept' = kept
    BY DEF Initialize
<1>2. CASE instance = None
  <2>1. UNCHANGED <<life, owner, stack, destroying, fault, lost>>
      BY <1>2 DEF Initialize
  <2>2. Types'
      BY <1>1, <2>1 DEF LifecycleIInv, Types
  <2>3. Chosen' /\ OwnerHolds' /\ DestroyersFree' /\ UsedAlive' /\ GoneOnlyIfLost'
      BY <2>1 DEF LifecycleIInv, Chosen, OwnerHolds, DestroyersFree, UsedAlive, GoneOnlyIfLost, Frames
  <2>4. PointedAlive'
      BY <1>1, <2>1 DEF LifecycleIInv, PointedAlive
  <2> QED
      BY <2>2, <2>3, <2>4 DEF LifecycleIInv
<1>3. CASE instance # None
  <2> DEFINE last == instance # l /\ instance \notin kept
  <2>1. instance \in Logger
      BY <1>3 DEF LifecycleIInv, Types
  <2>2. last \in BOOLEAN /\ GiveUp(t, instance, last)
      BY <1>3 DEF Initialize
  <2>3. life[instance] = "alive" /\ Console \in kept'
      BY <1>1, <2>1 DEF LifecycleIInv, PointedAlive
  <2>4. last => instance \notin kept' /\ instance # instance'
      BY <1>1
  <2> HIDE DEF last
  <2> QED
      BY <1>1, <2>1, <2>2, <2>3, <2>4, GiveUpInv
<1> QED
    BY <1>2, <1>3

\* The client gives up its pointer to a logger.
LEMMA DropInv ==
    ASSUME LoggerLifecycleAssumption, LifecycleIInv, NEW t \in Thread, NEW l \in Logger, Drop(t, l)
    PROVE  LifecycleIInv'
<1> DEFINE last == instance # l
<1>1. /\ Free(t) /\ l \in kept /\ l # Console
      /\ kept' = kept \ {l} /\ instance' = instance /\ GiveUp(t, l, last)
    BY DEF Drop
<1>2. last \in BOOLEAN /\ instance' \in Logger \cup {None}
    BY <1>1 DEF LifecycleIInv, Types
<1>3. life[l] = "alive" /\ Console \in kept'
    BY <1>1 DEF LifecycleIInv, PointedAlive
<1>4. last => l \notin kept' /\ l # instance'
    BY <1>1
<1> HIDE DEF last
<1> QED
    BY <1>1, <1>2, <1>3, <1>4, GiveUpInv

\* The steps of ~Logger change a logger that is not alive any more.
LEMMA DestructorInv ==
    ASSUME LoggerLifecycleAssumption, LifecycleIInv, NEW t \in Thread,
           DestructorLock(t) \/ DestructorUnlock(t) \/ DestroyMutex(t)
    PROVE  LifecycleIInv'
<1> DEFINE d == destroying[t]
<1>1. /\ d \in Logger /\ life[d] # "alive" /\ stack[t] = <<>>
      /\ UNCHANGED <<instance, kept, stack, fault, lost>>
      /\ \A u \in Thread : Frames(u)' = Frames(u)
    BY DEF DestructorLock, DestructorUnlock, DestroyMutex, LifecycleIInv, Types, DestroyersFree, Frames
<1>2. Types'
  <2> USE <1>1 DEF LifecycleIInv, Types
  <2>1. CASE DestructorLock(t)
      BY <2>1 DEF DestructorLock
  <2>2. CASE DestructorUnlock(t)
      BY <2>2 DEF DestructorUnlock
  <2>3. CASE DestroyMutex(t)
      BY <2>3 DEF DestroyMutex
  <2> QED
      BY <2>1, <2>2, <2>3
<1>3. /\ \A m \in Logger : m # d => life'[m] = life[m] /\ owner'[m] = owner[m]
      /\ \A u \in Thread : u # t => destroying'[u] = destroying[u]
      /\ destroying'[t] \in {d, None} /\ life'[d] # "alive"
      /\ \/ owner'[d] = t /\ destroying'[t] = d /\ life'[d] = "locked"
         \/ owner'[d] = None
         \/ owner'[d] = owner[d] /\ life[d] = "unlocked"
    BY <1>1 DEF LifecycleIInv, Types, DestructorLock, DestructorUnlock, DestroyMutex
<1>4. d \notin kept /\ d # instance /\ d # None
    BY <1>1 DEF LifecycleIInv, PointedAlive, LoggerLifecycleAssumption
<1>5. PointedAlive'
    BY <1>1, <1>3, <1>4 DEF LifecycleIInv, PointedAlive
<1>6. Chosen' /\ GoneOnlyIfLost'
    BY <1>1 DEF LifecycleIInv, Chosen, GoneOnlyIfLost
<1>7. OwnerHolds'
  <2> SUFFICES ASSUME NEW m \in Logger, owner'[m] # None
               PROVE  \/ [pc |-> "in", logger |-> m] \in Items(stack[owner'[m]])
                      \/ destroying'[owner'[m]] = m /\ life'[m] = "locked"
      BY <1>1 DEF OwnerHolds, Frames
  <2>1. owner[m] # None => \/ [pc |-> "in", logger |-> m] \in Items(stack[owner[m]])
                           \/ destroying[owner[m]] = m /\ life[m] = "locked"
      BY DEF LifecycleIInv, OwnerHolds, Frames
  <2>2. CASE m = d
      BY <2>1, <2>2, <1>3, <1>4
  <2>3. CASE m # d
    <3>1. owner'[m] = owner[m] /\ life'[m] = life[m] /\ owner[m] \in Thread
        BY <2>3, <1>3 DEF LifecycleIInv, Types
    <3>2. destroying[owner[m]] = m => owner[m] # t
        BY <2>3
    <3> QED
        BY <2>1, <3>1, <3>2, <1>3
  <2> QED
      BY <2>2, <2>3
<1>8. DestroyersFree'
  <2> SUFFICES ASSUME NEW u \in Thread, destroying'[u] # None
               PROVE  stack[u] = <<>> /\ life'[destroying'[u]] # "alive"
      BY <1>1 DEF DestroyersFree
  <2>1. destroying'[u] = destroying[u] /\ destroying[u] \in Logger
      BY <1>3 DEF LifecycleIInv, Types
  <2>2. stack[u] = <<>> /\ life[destroying[u]] # "alive"
      BY <2>1 DEF LifecycleIInv, DestroyersFree
  <2> QED
      BY <2>1, <2>2, <1>3
<1>9. UsedAlive'
  <2> SUFFICES ASSUME ~lost, NEW u \in Thread, NEW f \in Frames(u), f.logger # None
               PROVE  life'[f.logger] = "alive"
      BY <1>1 DEF UsedAlive
  <2>1. life[f.logger] = "alive"
      BY DEF LifecycleIInv, UsedAlive
  <2>2. stack[u] \in Seq(Frame)
      BY DEF LifecycleIInv, Types
  <2>3. \A i \in DOMAIN stack[u] : stack[u][i] \in Frame
      BY <2>2, LenProperties, ElementOfSeq
  <2>4. f \in Frame
      BY <2>3, Zenon DEF Frames, Items
  <2>5. f.logger \in Logger
      BY <2>4 DEF Frame
  <2> QED
      BY <2>1, <2>5, <1>1, <1>3
<1> QED
    BY <1>2, <1>5, <1>6, <1>7, <1>8, <1>9 DEF LifecycleIInv

\* LifecycleIInv is an invariant: every step of every thread keeps it.
THEOREM LifecycleInvariant ==
    ASSUME LoggerLifecycleAssumption
    PROVE  LifecycleSpec => []LifecycleIInv
<1>1. LifecycleInit => LifecycleIInv
    BY LifecycleInitInv
<1>2. LifecycleIInv /\ [LifecycleNext]_lifecycleVars => LifecycleIInv'
  <2> SUFFICES ASSUME LifecycleIInv, [LifecycleNext]_lifecycleVars PROVE LifecycleIInv'
      OBVIOUS
  <2>1. ASSUME NEW t \in Thread, NEW l \in Logger, Choose(t, l) PROVE LifecycleIInv'
      BY <2>1, ChooseInv
  <2>2. ASSUME NEW t \in Thread, Lock(t) PROVE LifecycleIInv'
    <3>1. CASE life[Top(t).logger] = "dead"
      <4>1. Fault
          BY <2>2, <3>1 DEF Lock
      <4> QED
          BY <2>2, <3>1, <4>1, FaultInv
    <3> QED
        BY <2>2, <3>1, LockInv
  <2>3. ASSUME NEW t \in Thread, EndLine(t) PROVE LifecycleIInv'
    <3>1. CASE life[Top(t).logger] # "alive"
      <4>1. Fault
          BY <2>3, <3>1 DEF EndLine
      <4> QED
          BY <2>3, <3>1, <4>1, FaultInv
    <3> QED
        BY <2>3, <3>1, EndLineInv
  <2>4. ASSUME NEW t \in Thread, DestructorLock(t) \/ DestructorUnlock(t) \/ DestroyMutex(t)
        PROVE  LifecycleIInv'
      BY <2>4, DestructorInv
  <2>5. ASSUME NEW t \in Thread, Begin(t) PROVE LifecycleIInv'
      BY <2>5, BeginInv
  <2>6. ASSUME NEW t \in Thread, NEW l \in Logger, Initialize(t, l) PROVE LifecycleIInv'
      BY <2>6, InitializeInv
  <2>7. ASSUME NEW t \in Thread, NEW l \in Logger, Drop(t, l) PROVE LifecycleIInv'
      BY <2>7, DropInv
  <2>8. CASE UNCHANGED lifecycleVars
    <3>1. Types'
        BY <2>8 DEF lifecycleVars, LifecycleIInv, Types
    <3>2. Chosen' /\ OwnerHolds' /\ PointedAlive' /\ DestroyersFree' /\ UsedAlive' /\ GoneOnlyIfLost'
        BY <2>8 DEF lifecycleVars, LifecycleIInv, Chosen, OwnerHolds, PointedAlive, DestroyersFree, UsedAlive,
                    GoneOnlyIfLost, Frames
    <3> QED
        BY <3>1, <3>2 DEF LifecycleIInv
  <2> QED
      BY <2>1, <2>2, <2>3, <2>4, <2>5, <2>6, <2>7, <2>8 DEF LifecycleNext, ContinueCall
<1> QED
    BY <1>1, <1>2, PTL DEF LifecycleSpec

-----------------------------------------------------------------------------
\* However many threads log, switch and give up loggers, and however deep the
\* operands of statements log themselves: only the owner of a mutex, which is in
\* a statement or in ~Logger, holds it, and a statement meets a logger that is
\* gone only if the last pointer to it was given up while it was in use.
THEOREM StatementsMeetLivingLoggers ==
    ASSUME LoggerLifecycleAssumption
    PROVE  LifecycleSpec => []FaultOnlyIfLost
<1>1. LifecycleIInv => LifecycleTypeOK
  <2> SUFFICES ASSUME LifecycleIInv PROVE LifecycleTypeOK
      OBVIOUS
  <2>1. instance \in Logger \cup {None} /\ kept \subseteq Logger
      BY DEF LifecycleIInv, Types
  <2>2. \A l \in Logger : life[l] \in {"alive", "dying", "locked", "unlocked", "dead"}
      BY DEF LifecycleIInv, Types
  <2>3. \A l \in Logger : owner[l] # None =>
            \/ \E i \in DOMAIN stack[owner[l]] : stack[owner[l]][i] = [pc |-> "in", logger |-> l]
            \/ destroying[owner[l]] = l
      BY Zenon DEF LifecycleIInv, OwnerHolds, Frames, Items
  <2> QED
      BY <2>1, <2>2, <2>3 DEF LifecycleTypeOK
<1>2. LifecycleIInv => FaultOnlyIfLost
    BY <1>1 DEF LifecycleIInv, FaultOnlyIfLost
<1> QED
    BY <1>2, LifecycleInvariant, PTL

\* No set of threads, however large, waits in a circle for each other's mutexes
\* unless one of them is in the operand of a statement that logs: a thread that
\* waits in BeginLine holds no other mutex then, and one that waits in ~Logger
\* is in no statement.
THEOREM CirclesComeFromOperands ==
    ASSUME LoggerLifecycleAssumption
    PROVE  LifecycleSpec => []CircleOnlyFromOperands
<1>1. LifecycleIInv => CircleOnlyFromOperands
  <2> SUFFICES ASSUME LifecycleIInv, NEW S \in SUBSET Thread, S # {},
                      \A t \in S : \E u \in S : Waits(t, u),
                      \A t \in S : ~(Len(stack[t]) > 1)
               PROVE  FALSE
      BY DEF CircleOnlyFromOperands
  <2>1. PICK t \in S : TRUE
      OBVIOUS
  <2>2. PICK u \in S : Waits(t, u)
      OBVIOUS
  <2>3. PICK l \in Logger : owner[l] = u
    <3>1. CASE In(t, "lock") /\ owner[Top(t).logger] = u
      <4>1. Top(t) \in Frames(t) /\ Top(t).pc = "lock"
          BY <3>1, TopIsFrame DEF LifecycleIInv, In
      <4> QED
          BY <3>1, <4>1 DEF LifecycleIInv, Chosen
    <3>2. CASE destroying[t] # None /\ owner[destroying[t]] = u
        BY <3>2 DEF LifecycleIInv, Types
    <3> QED
        BY <2>2, <3>1, <3>2 DEF Waits
  <2>4. u \in Thread /\ u # None
      BY DEF LoggerLifecycleAssumption
  <2>5. \/ [pc |-> "in", logger |-> l] \in Frames(u)
        \/ destroying[u] = l /\ life[l] = "locked"
      BY <2>3, <2>4 DEF LifecycleIInv, OwnerHolds
  <2>6. PICK v \in S : Waits(u, v)
      OBVIOUS
  <2>7. stack[u] \in Seq(Frame) /\ ~(Len(stack[u]) > 1)
      BY DEF LifecycleIInv, Types
  <2>8. stack[u] = <<>> => Frames(u) = {}
      BY EmptySeq DEF Frames, Items
  <2>9. CASE In(u, "lock")
    <3>1. stack[u] # <<>> /\ Top(u).pc = "lock"
        BY <2>9 DEF In
    <3>2. Len(stack[u]) = 1 /\ DOMAIN stack[u] = {1}
      <4>1. Len(stack[u]) \in Nat \ {0} /\ DOMAIN stack[u] = 1 .. Len(stack[u])
          BY <2>7, <3>1, EmptySeq, LenProperties
      <4>2. \A n \in Nat \ {0} : ~(n > 1) => n = 1
          OBVIOUS
      <4>3. Len(stack[u]) = 1
          BY <2>7, <4>1, <4>2, Zenon
      <4> QED
          BY <4>1, <4>3
    <3>3. Frames(u) = {Top(u)}
        BY <3>2 DEF Frames, Items, Top
    <3>4. destroying[u] # l
        BY <3>1, <2>4 DEF LifecycleIInv, DestroyersFree, LoggerLifecycleAssumption
    <3> QED
        BY <2>5, <3>1, <3>3, <3>4
  <2>10. CASE destroying[u] # None /\ life[destroying[u]] = "dying"
    <3>1. Frames(u) = {}
        BY <2>10, <2>4, <2>8 DEF LifecycleIInv, DestroyersFree
    <3> QED
        BY <2>5, <2>10, <3>1
  <2> QED
      BY <2>6, <2>9, <2>10 DEF Waits
<1> QED
    BY <1>1, LifecycleInvariant, PTL
=============================================================================
