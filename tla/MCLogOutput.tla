---------------------------- MODULE MCLogOutput -----------------------------
(***************************************************************************)
(* Where lines of the log go.  A rotating file of one process that may     *)
(* crash, with an interval of two seconds or none and files of one line,   *)
(* of two lines or of any length; the socket to the remote log, lines of   *)
(* up to eight bytes, and a sum that overflows at 127; three threads and   *)
(* three loggers that are initialized, used and destroyed, with operands   *)
(* that log and without; and the pointers that own loggers in a build with *)
(* ref_count_ptr, to three objects that have a pointer each.               *)
(***************************************************************************)
EXTENDS RotateLogger, RsyslogLogger, LoggerLifecycle, RefCountPtr

VARIABLE part

allVars == <<part, rotateVars, rsyslogVars, lifecycleVars, pointersVars>>

\* Files of any length, of one line and of two.
FileSizes == {SizeDisabled, 1, 2}

\* Loggers whose operands do not log themselves: one statement at a time.
Life == INSTANCE LoggerLifecycle WITH MaxDepth <- 1

ASSUME RotateAssumption
ASSUME RsyslogAssumption
ASSUME LoggerLifecycleAssumption
ASSUME Life!LoggerLifecycleAssumption
ASSUME RefCountPtrAssumption

\* A behaviour is about one part; the variables of the others keep the values
\* they have at first.
MCInit ==
    /\ part \in {"rotate", "rsyslog", "life", "nested", "pointers"}
    /\ RotateInit /\ RsyslogInit /\ LifecycleInit /\ PointersInit

\* A step of one part.
InRotate ==
    part = "rotate" /\ UNCHANGED <<part, rsyslogVars, lifecycleVars, pointersVars>>
InRsyslog ==
    part = "rsyslog" /\ UNCHANGED <<part, rotateVars, lifecycleVars, pointersVars>>
InLife ==
    part = "life" /\ UNCHANGED <<part, rotateVars, rsyslogVars, pointersVars>>
InNested ==
    part = "nested" /\ UNCHANGED <<part, rotateVars, rsyslogVars, pointersVars>>
InPointers ==
    part = "pointers" /\ UNCHANGED <<part, rotateVars, rsyslogVars, lifecycleVars>>

MCNext ==
    \/ InRotate /\ RotateNext
    \/ InRsyslog /\ RsyslogNext
    \/ InLife /\ Life!LifecycleNext
    \/ InNested /\ LifecycleNext
    \/ InPointers /\ PointersNext

\* Sending goes on, and threads go on with what they are in the middle of.
MCSpec ==
    /\ MCInit /\ [][MCNext]_allVars
    /\ WF_allVars(InRsyslog /\ Step)
    /\ \A t \in Thread : WF_allVars(InLife /\ Life!ContinueCall(t))
    /\ WF_allVars(InPointers /\ Continue)

-----------------------------------------------------------------------------
\* A line that is being sent ends, and the mutex of its logger is free again
\* (or the name was not resolved and the program is undefined); the destructor
\* of a logger waits only for the statements that had it and ends; a reset of
\* a pointer, however many objects it deletes, ends.
CallsEnd ==
    /\ (part = "rsyslog" /\ pc = "send") ~> (part = "rsyslog" /\ pc = "idle")
    /\ \A l \in Logger :
          (part = "life" /\ Dying(l)) ~> (part = "life" /\ Gone(l))
    /\ (part = "pointers" /\ resetting # NoPtr)
          ~> (part = "pointers" /\ resetting = NoPtr)

=============================================================================
