------------------------------- MODULE Logger -------------------------------
(***************************************************************************)
(* nkit::Logger and nkit::LoggerAccessor (src/src/nkit/logger.h): threads  *)
(* that log through shared loggers.                                        *)
(*                                                                         *)
(* A log statement is an expression "accessor << item << item ...", where  *)
(* an item is a value or a logger the line goes to from here on.  The      *)
(* first item locks the logger's mutex; the mutex stays locked while the   *)
(* later items are put into the logger's stream, until the accessor goes   *)
(* or another logger is chosen.                                            *)
(*                                                                         *)
(* The client keeps a pointer to every logger, so none is destroyed.       *)
(***************************************************************************)
EXTENDS Integers, Sequences

CONSTANTS
    Thread,
    Logger,         \* the logger objects
    Console,        \* console_logger
    NoLogger,       \* a NULL logger pointer
    NoThread,       \* the owner of a free mutex
    Value,          \* what is logged
    MaxItems,       \* bound: items of a statement
    MaxStatements   \* bound: statements of a thread

ASSUME LoggerAssumption ==
    /\ Console \in Logger
    /\ NoLogger \notin Logger
    /\ NoThread \notin Thread
    /\ MaxItems \in Nat
    /\ MaxStatements \in Nat

VARIABLES
    instance,   \* Logger::logger_
    owner,      \* owner[l]: the thread that holds l's mutex_
    stream,     \* stream[l]: the values in l's stream_
    written,    \* written[l]: the last line l's WriteLine was called for
    pc,         \* pc[t]: where t is in its statement
    logger,     \* logger[t]: logger_ of t's accessor
    header,     \* header[t]: put_header_ of t's accessor
    pending,    \* pending[t]: the value to put once the mutex is held
    goal,       \* goal[t]: the logger to begin a line on after EndLine
    said,       \* history: the values t has put in the line it is writing
    items,      \* items[t]: items of the current statement so far
    statements  \* statements[t]: statements begun

accessor == <<logger, header, pending, goal, said>>
count == <<items, statements>>
vars == <<instance, owner, stream, written, pc, accessor, count>>

Init ==
    /\ instance = NoLogger
    /\ owner = [l \in Logger |-> NoThread]
    /\ stream = [l \in Logger |-> <<>>]
    /\ written = [l \in Logger |-> [header |-> FALSE, text |-> <<>>, said |-> <<>>]]
    /\ pc = [t \in Thread |-> "idle"]
    /\ logger = [t \in Thread |-> NoLogger]
    /\ header = [t \in Thread |-> FALSE]
    /\ pending = [t \in Thread |-> <<>>]
    /\ goal = [t \in Thread |-> NoLogger]
    /\ said = [t \in Thread |-> <<>>]
    /\ items = [t \in Thread |-> 0]
    /\ statements = [t \in Thread |-> 0]

Goto(t, label) == pc' = [pc EXCEPT ![t] = label]

\* Logger::Initialize; a null pointer is refused.
Initialize(l) ==
    /\ instance' = l
    /\ UNCHANGED <<owner, stream, written, pc, accessor, count>>

\* The constructor of LoggerAccessor.
Begin(t) ==
    /\ pc[t] = "idle"
    /\ statements[t] < MaxStatements
    /\ Goto(t, "open")
    /\ header' = [header EXCEPT ![t] = FALSE]
    /\ items' = [items EXCEPT ![t] = 0]
    /\ statements' = [statements EXCEPT ![t] = @ + 1]
    /\ UNCHANGED <<instance, owner, stream, written, logger, pending, goal, said>>

\* One more item of the statement.
Item(t) ==
    /\ pc[t] = "open"
    /\ items[t] < MaxItems
    /\ items' = [items EXCEPT ![t] = @ + 1]
    /\ UNCHANGED statements

\* Mutant: no console_logger when no logger is installed.
PutValueNoConsole(t, v) ==
    /\ Item(t)
    /\ pending' = [pending EXCEPT ![t] = <<v>>]
    /\ \/ /\ logger[t] = NoLogger
          /\ logger' = [logger EXCEPT ![t] = instance]
          /\ Goto(t, "lock")
       \/ /\ logger[t] # NoLogger
          /\ Goto(t, "put")
          /\ UNCHANGED logger
    /\ UNCHANGED <<instance, owner, stream, written, header, goal, said>>

\* operator << (const T & v): the first value chooses the logger.
PutValue(t, v) ==
    /\ Item(t)
    /\ pending' = [pending EXCEPT ![t] = <<v>>]
    /\ \/ /\ logger[t] = NoLogger
          /\ logger' = [logger EXCEPT ![t] = IF instance = NoLogger THEN Console ELSE instance]
          /\ header' = [header EXCEPT ![t] = @ \/ instance = NoLogger]
          /\ Goto(t, "lock")
       \/ /\ logger[t] # NoLogger
          /\ Goto(t, "put")
          /\ UNCHANGED <<logger, header>>
    /\ UNCHANGED <<instance, owner, stream, written, goal, said>>

\* operator << (Logger & logger): a line that was begun ends first.
Switch(t, l) ==
    /\ Item(t)
    /\ \/ /\ logger[t] = NoLogger
          /\ logger' = [logger EXCEPT ![t] = l]
          /\ header' = [header EXCEPT ![t] = l # Console]
          /\ Goto(t, "lock")
          /\ UNCHANGED goal
       \/ /\ logger[t] # NoLogger
          /\ goal' = [goal EXCEPT ![t] = l]
          /\ Goto(t, "write")
          /\ UNCHANGED <<logger, header>>
    /\ UNCHANGED <<instance, owner, stream, written, pending, said>>

\* The destructor of LoggerAccessor.
End(t) ==
    /\ pc[t] = "open"
    /\ Goto(t, IF logger[t] = NoLogger THEN "idle" ELSE "write")
    /\ UNCHANGED <<instance, owner, stream, written, accessor, count>>

\* BeginLine.
Lock(t) ==
    /\ pc[t] = "lock"
    /\ owner[logger[t]] = NoThread
    /\ owner' = [owner EXCEPT ![logger[t]] = t]
    /\ Goto(t, IF pending[t] = <<>> THEN "open" ELSE "put")
    /\ UNCHANGED <<instance, stream, written, accessor, count>>

\* logger_->stream_ << v.
Put(t) ==
    /\ pc[t] = "put"
    /\ stream' = [stream EXCEPT ![logger[t]] = @ \o pending[t]]
    /\ said' = [said EXCEPT ![t] = @ \o pending[t]]
    /\ pending' = [pending EXCEPT ![t] = <<>>]
    /\ Goto(t, "open")
    /\ UNCHANGED <<instance, owner, written, logger, header, goal, count>>

\* EndLine, its first statement: WriteLine takes what is in the stream.
WriteLine(t) ==
    /\ pc[t] = "write"
    /\ LET line == [header |-> header[t], text |-> stream[logger[t]], said |-> said[t]]
       IN  written' = [written EXCEPT ![logger[t]] = line]
    /\ Goto(t, "clear")
    /\ UNCHANGED <<instance, owner, stream, accessor, count>>

\* Mutant: the stream is not cleared.
SkipClear(t) ==
    /\ pc[t] = "clear"
    /\ said' = [said EXCEPT ![t] = <<>>]
    /\ Goto(t, "unlock")
    /\ UNCHANGED <<instance, owner, stream, written, logger, header, pending, goal, count>>

\* EndLine, its second statement: stream_.str("").
ClearStream(t) ==
    /\ pc[t] = "clear"
    /\ stream' = [stream EXCEPT ![logger[t]] = <<>>]
    /\ said' = [said EXCEPT ![t] = <<>>]
    /\ Goto(t, "unlock")
    /\ UNCHANGED <<instance, owner, written, logger, header, pending, goal, count>>

\* What follows the end of a line: the accessor is gone or takes the next logger.
NextLogger(t) ==
    /\ logger' = [logger EXCEPT ![t] = goal[t]]
    /\ goal' = [goal EXCEPT ![t] = NoLogger]
    /\ header' = [header EXCEPT ![t] = goal[t] \notin {NoLogger, Console}]
    /\ Goto(t, IF goal[t] = NoLogger THEN "idle" ELSE "lock")
    /\ UNCHANGED <<instance, stream, written, pending, said, count>>

\* Mutant: the mutex is kept when another logger is chosen.
UnlockAtEnd(t) ==
    /\ pc[t] = "unlock"
    /\ owner' = [owner EXCEPT ![logger[t]] = IF goal[t] = NoLogger THEN NoThread ELSE @]
    /\ NextLogger(t)

\* EndLine, its third statement.
Unlock(t) ==
    /\ pc[t] = "unlock"
    /\ owner' = [owner EXCEPT ![logger[t]] = NoThread]
    /\ NextLogger(t)

\* A thread that is in a statement goes on with it.
Continue(t) ==
    \/ \E v \in Value : PutValue(t, v)
    \/ \E l \in Logger : Switch(t, l)
    \/ End(t)
    \/ Lock(t)
    \/ Put(t)
    \/ WriteLine(t)
    \/ ClearStream(t)
    \/ Unlock(t)

Next ==
    \/ \E l \in Logger : Initialize(l)
    \/ \E t \in Thread : Begin(t) \/ Continue(t)

Spec == Init /\ [][Next]_vars

(***************************************************************************)
(* A statement has finitely many items and its thread is scheduled, so it  *)
(* goes on whenever it can; no thread has to begin one.                    *)
(***************************************************************************)
FairSpec == Spec /\ \A t \in Thread : WF_vars(Continue(t))

-----------------------------------------------------------------------------
(***************************************************************************)
(* Properties.                                                             *)
(***************************************************************************)

PC == {"idle", "open", "lock", "put", "write", "clear", "unlock"}

Line == [header : BOOLEAN, text : Seq(Value), said : Seq(Value)]

\* Every variable has its type, and a thread that uses the logger of its
\* accessor has chosen one: the code dereferences logger_ without a test.
TypeOK ==
    /\ instance \in Logger \cup {NoLogger}
    /\ owner \in [Logger -> Thread \cup {NoThread}]
    /\ stream \in [Logger -> Seq(Value)]
    /\ written \in [Logger -> Line]
    /\ pc \in [Thread -> PC]
    /\ logger \in [Thread -> Logger \cup {NoLogger}]
    /\ header \in [Thread -> BOOLEAN]
    /\ pending \in [Thread -> Seq(Value)]
    /\ goal \in [Thread -> Logger \cup {NoLogger}]
    /\ said \in [Thread -> Seq(Value)]
    /\ items \in [Thread -> 0..MaxItems]
    /\ statements \in [Thread -> 0..MaxStatements]
    /\ \A t \in Thread : logger[t] = NoLogger => pc[t] \in {"idle", "open"}

\* Every line a logger writes holds the values one thread put in it, all of
\* them, in order and nothing else: threads that share a logger, and change
\* between loggers within a statement, never mix or lose parts of lines.
LinesWhole ==
    \A l \in Logger : written[l].text = written[l].said

\* A thread that waits for a mutex holds none, whatever loggers its statement
\* went through: loggers cannot deadlock on each other.
WaitsEmptyHanded ==
    \A t \in Thread : pc[t] = "lock" => \A l \in Logger : owner[l] # t

\* Every log statement that is begun ends.
StatementsEnd == \A t \in Thread : pc[t] # "idle" ~> pc[t] = "idle"
=============================================================================
