-------------------------- MODULE LoggerLifecycle --------------------------
(***************************************************************************)
(* The life of loggers (src/src/nkit/logger.h).  Logger::logger_ and the   *)
(* client share them; a LoggerAccessor keeps a bare pointer.  When the     *)
(* last shared pointer goes, the thread that dropped it runs the           *)
(* destructors: first the derived class's, then ~Logger, which waits for   *)
(* the mutex, releases it and destroys it.  The operands of a statement    *)
(* are put while the mutex is held, and an operand may log itself.         *)
(*                                                                         *)
(* Logger has the lines and the streams; here a statement is: choose a     *)
(* logger, lock, put operands, write and unlock.                           *)
(***************************************************************************)
EXTENDS Naturals, Sequences, FiniteSets

CONSTANTS
    Thread,
    Logger,
    Console,   \* console_logger, which is never destroyed
    None,
    MaxDepth   \* bound: statements within operands of statements

\* What an instance gives for the constants.
LoggerLifecycleAssumption ==
    Console \in Logger /\ None \notin Logger \cup Thread /\ MaxDepth \in Nat \ {0}

VARIABLES
    instance,    \* Logger::logger_
    kept,        \* loggers the client has a shared pointer to
    life,        \* life[l]: how far its destruction is
    owner,       \* owner[l]: who holds its mutex
    stack,       \* stack[t]: the statements t is in, outermost first
    destroying,  \* destroying[t]: the logger whose destructor t runs
    fault,       \* a thread used a part of a logger that was gone
    lost         \* history: a logger was given up while a statement was using it

lifecycleVars == <<instance, kept, life, owner, stack, destroying, fault, lost>>

LifecycleInit ==
    /\ instance = None /\ kept = Logger
    /\ life = [l \in Logger |-> "alive"]
    /\ owner = [l \in Logger |-> None]
    /\ stack = [t \in Thread |-> <<>>]
    /\ destroying = [t \in Thread |-> None]
    /\ fault = FALSE /\ lost = FALSE

Free(t) == ~fault /\ stack[t] = <<>> /\ destroying[t] = None

\* The statement t is in, and where it is
Top(t) == stack[t][Len(stack[t])]
In(t, pc) == ~fault /\ stack[t] # <<>> /\ Top(t).pc = pc
SetTop(t, frame) == stack' = [stack EXCEPT ![t][Len(stack[t])] = frame]

Used(l) == \E t \in Thread : \E i \in DOMAIN stack[t] : stack[t][i].logger = l

Fault == fault' = TRUE /\ UNCHANGED <<instance, kept, life, owner, stack, destroying, lost>>

-----------------------------------------------------------------------------
(* Statements.                                                             *)

\* The constructor of LoggerAccessor, also for an operand that logs
Begin(t) ==
    /\ Free(t) \/ (In(t, "in") /\ Len(stack[t]) < MaxDepth)
    /\ stack' = [stack EXCEPT ![t] = Append(@, [pc |-> "choose", logger |-> None])]
    /\ UNCHANGED <<instance, kept, life, owner, destroying, fault, lost>>

\* operator <<: the logger that was installed, or one the client passes and keeps
Choose(t, l) ==
    /\ In(t, "choose")
    /\ l \in kept \/ l = (IF instance = None THEN Console ELSE instance)
    /\ SetTop(t, [pc |-> "lock", logger |-> l])
    /\ UNCHANGED <<instance, kept, life, owner, destroying, fault, lost>>

\* BeginLine
Lock(t) ==
    /\ In(t, "lock")
    /\ IF life[Top(t).logger] = "dead" THEN Fault
       ELSE /\ owner[Top(t).logger] = None
            /\ owner' = [owner EXCEPT ![Top(t).logger] = t]
            /\ SetTop(t, [Top(t) EXCEPT !.pc = "in"])
            /\ UNCHANGED <<instance, kept, life, destroying, fault, lost>>

\* Mutant: EndLine does not unlock.
EndLineLocked(t) ==
    /\ In(t, "in")
    /\ IF life[Top(t).logger] # "alive" THEN Fault
       ELSE /\ stack' = [stack EXCEPT ![t] = SubSeq(@, 1, Len(@) - 1)]
            /\ UNCHANGED <<instance, kept, life, owner, destroying, fault, lost>>

\* EndLine: WriteLine is the derived class's
EndLine(t) ==
    /\ In(t, "in")
    /\ IF life[Top(t).logger] # "alive" THEN Fault
       ELSE /\ owner' = [owner EXCEPT ![Top(t).logger] = None]
            /\ stack' = [stack EXCEPT ![t] = SubSeq(@, 1, Len(@) - 1)]
            /\ UNCHANGED <<instance, kept, life, destroying, fault, lost>>

-----------------------------------------------------------------------------
(* Loggers.                                                                *)

\* t gave up a pointer to l; the last one runs the destructor of the derived class.
GiveUp(t, l, last) ==
    /\ destroying' = [destroying EXCEPT ![t] = IF last THEN l ELSE None]
    /\ life' = IF last THEN [life EXCEPT ![l] = "dying"] ELSE life
    /\ lost' = (lost \/ (last /\ Used(l)))
    /\ UNCHANGED <<owner, stack, fault>>

\* Mutant: the client's pointers are not counted.
InitializeUncounted(t, l) ==
    /\ Free(t) /\ l \in kept
    /\ instance' = l /\ UNCHANGED kept
    /\ IF instance \in {None, l, Console} THEN UNCHANGED <<life, owner, stack, destroying, fault, lost>>
       ELSE GiveUp(t, instance, TRUE)

\* Logger::Initialize
Initialize(t, l) ==
    /\ Free(t) /\ l \in kept
    /\ instance' = l /\ UNCHANGED kept
    /\ IF instance = None THEN UNCHANGED <<life, owner, stack, destroying, fault, lost>>
       ELSE GiveUp(t, instance, instance # l /\ instance \notin kept)

\* The client drops its pointer
Drop(t, l) ==
    /\ Free(t) /\ l \in kept \ {Console}
    /\ kept' = kept \ {l} /\ UNCHANGED instance
    /\ GiveUp(t, l, instance # l)

\* ~Logger: the guard locks and unlocks, and mutex_ goes after it
DestructorLock(t) ==
    /\ ~fault /\ destroying[t] # None /\ life[destroying[t]] = "dying"
    /\ owner[destroying[t]] = None
    /\ owner' = [owner EXCEPT ![destroying[t]] = t]
    /\ life' = [life EXCEPT ![destroying[t]] = "locked"]
    /\ UNCHANGED <<instance, kept, stack, destroying, fault, lost>>

\* Mutant: the guard is not released.
DestructorKeepsLock(t) ==
    /\ ~fault /\ destroying[t] # None /\ life[destroying[t]] = "locked"
    /\ life' = [life EXCEPT ![destroying[t]] = "locked"]
    /\ UNCHANGED <<instance, owner, kept, stack, destroying, fault, lost>>

DestructorUnlock(t) ==
    /\ ~fault /\ destroying[t] # None /\ life[destroying[t]] = "locked"
    /\ owner' = [owner EXCEPT ![destroying[t]] = None]
    /\ life' = [life EXCEPT ![destroying[t]] = "unlocked"]
    /\ UNCHANGED <<instance, kept, stack, destroying, fault, lost>>

DestroyMutex(t) ==
    /\ ~fault /\ destroying[t] # None /\ life[destroying[t]] = "unlocked"
    /\ life' = [life EXCEPT ![destroying[t]] = "dead"]
    /\ destroying' = [destroying EXCEPT ![t] = None]
    /\ UNCHANGED <<instance, kept, owner, stack, fault, lost>>

-----------------------------------------------------------------------------

\* What a thread does once it has begun something
ContinueCall(t) ==
    \/ \E l \in Logger : Choose(t, l)
    \/ Lock(t) \/ EndLine(t)
    \/ DestructorLock(t) \/ DestructorUnlock(t) \/ DestroyMutex(t)

LifecycleNext ==
    \E t \in Thread :
      \/ ContinueCall(t) \/ Begin(t)
      \/ \E l \in Logger : Initialize(t, l) \/ Drop(t, l)

\* A thread that is in a statement or in a destructor goes on.
LifecycleSpec ==
    /\ LifecycleInit /\ [][LifecycleNext]_lifecycleVars
    /\ \A t \in Thread : WF_lifecycleVars(ContinueCall(t))

-----------------------------------------------------------------------------
(* Properties.                                                             *)

\* Types; only a thread in a statement, or in ~Logger, holds a mutex.
LifecycleTypeOK ==
    /\ instance \in Logger \cup {None} /\ kept \subseteq Logger
    /\ \A l \in Logger :
         /\ life[l] \in {"alive", "dying", "locked", "unlocked", "dead"}
         /\ owner[l] # None => \/ \E i \in DOMAIN stack[owner[l]] :
                                    stack[owner[l]][i] = [pc |-> "in", logger |-> l]
                               \/ destroying[owner[l]] = l

\* A statement meets a logger whose parts are gone only if the last pointer to it was
\* given up while the statement had it: one that is installed or kept never is, and one
\* begun after the logger was replaced goes to another.
GoneOnlyIfLost == fault => lost
FaultOnlyIfLost == LifecycleTypeOK /\ GoneOnlyIfLost

Waits(t, u) ==
    \/ In(t, "lock") /\ owner[Top(t).logger] = u
    \/ destroying[t] # None /\ life[destroying[t]] = "dying" /\ owner[destroying[t]] = u

\* Threads wait for each other, or one for itself, only if the operand of a statement
\* logs: one statement at a time, a thread that switches or destroys loggers included,
\* is never part of a circle.
CircleOnlyFromOperands ==
    \A S \in SUBSET Thread :
      (S # {} /\ \A t \in S : \E u \in S : Waits(t, u)) => \E t \in S : Len(stack[t]) > 1

Dying(l) == life[l] = "dying"
Gone(l) == life[l] = "dead" \/ fault

=============================================================================
