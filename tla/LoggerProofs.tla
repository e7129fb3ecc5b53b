---------------------------- MODULE LoggerProofs ----------------------------
(***************************************************************************)
(* The safety properties of Logger for every set of threads and loggers.   *)
(***************************************************************************)
EXTENDS Logger, TLAPS

\* t is between BeginLine and the end of EndLine.
Holding(t) == logger[t] # NoLogger /\ pc[t] # "lock"

\* A logger's mutex is owned by the thread that is between BeginLine and
\* EndLine on it, and by no other.
OwnerHolds ==
    /\ \A t \in Thread : Holding(t) => owner[logger[t]] = t
    /\ \A t \in Thread : \A l \in Logger : owner[l] = t => Holding(t) /\ logger[t] = l
    /\ \A t \in Thread : pc[t] = "idle" => logger[t] = NoLogger

\* The stream of a free logger is empty; the stream of a locked one is what
\* its owner has put in the line.
StreamIsSaid ==
    /\ \A l \in Logger : owner[l] = NoThread => stream[l] = <<>>
    /\ \A t \in Thread : Holding(t) => stream[logger[t]] = said[t]
    /\ \A t \in Thread : ~Holding(t) \/ pc[t] = "unlock" => said[t] = <<>>

\* The inductive invariant.
IInv == TypeOK /\ OwnerHolds /\ StreamIsSaid /\ LinesWhole

-----------------------------------------------------------------------------
(***************************************************************************)
(* Every step keeps the invariant.                                         *)
(***************************************************************************)

\* The initial state: no thread is in a statement, every stream is empty.
LEMMA InitInv == Init => IInv
<1> SUFFICES ASSUME Init PROVE IInv
    OBVIOUS
<1> USE LoggerAssumption DEF Init
<1>1. TypeOK
    BY DEF TypeOK, PC, Line
<1>2. OwnerHolds
    BY DEF OwnerHolds, Holding
<1>3. StreamIsSaid
    BY DEF StreamIsSaid, Holding
<1>4. LinesWhole
    BY DEF LinesWhole
<1> QED
    BY <1>1, <1>2, <1>3, <1>4 DEF IInv

\* Every step keeps the types, and never uses a logger that was not chosen.
LEMMA NextType == IInv /\ Next => TypeOK'
<1> SUFFICES ASSUME IInv, Next PROVE TypeOK'
    OBVIOUS
<1> USE LoggerAssumption DEF IInv, TypeOK, PC, accessor, count, Goto
<1>1. ASSUME NEW l \in Logger, Initialize(l) PROVE TypeOK'
    BY <1>1 DEF Initialize
<1>2. ASSUME NEW t \in Thread, Begin(t) PROVE TypeOK'
    BY <1>2 DEF Begin
<1>3. ASSUME NEW t \in Thread, NEW v \in Value, PutValue(t, v) PROVE TypeOK'
  <2>1. /\ instance' \in Logger \cup {NoLogger} /\ owner' \in [Logger -> Thread \cup {NoThread}]
        /\ stream' \in [Logger -> Seq(Value)] /\ written' \in [Logger -> Line]
        /\ goal' \in [Thread -> Logger \cup {NoLogger}] /\ said' \in [Thread -> Seq(Value)]
        /\ items' \in [Thread -> 0..MaxItems] /\ statements' \in [Thread -> 0..MaxStatements]
      BY <1>3 DEF PutValue, Item
  <2>2. pc' \in [Thread -> PC] /\ logger' \in [Thread -> Logger \cup {NoLogger}]
    <3>1. pc' = [pc EXCEPT ![t] = "lock"] \/ pc' = [pc EXCEPT ![t] = "put"]
        BY <1>3 DEF PutValue
    <3>2. logger' = logger \/ \E m \in Logger : logger' = [logger EXCEPT ![t] = m]
        BY <1>3 DEF PutValue
    <3>3. pc' \in [Thread -> PC]
        BY <3>1
    <3>4. logger' \in [Thread -> Logger \cup {NoLogger}]
        BY <3>2
    <3> QED
        BY <3>3, <3>4
  <2>3. header' \in [Thread -> BOOLEAN]
    <3>1. CASE header' = [header EXCEPT ![t] = header[t] \/ instance = NoLogger]
        BY <3>1, Zenon
    <3>2. CASE header' = header
        BY <3>2
    <3> QED
        BY <1>3, <3>1, <3>2 DEF PutValue
  <2>4. pending' \in [Thread -> Seq(Value)]
    <3>1. <<v>> \in Seq(Value)
        OBVIOUS
    <3> QED
        BY <1>3, <3>1 DEF PutValue
  <2>5. \A u \in Thread : logger'[u] = NoLogger => pc'[u] \in {"idle", "open"}
      BY <1>3 DEF PutValue, Item
  <2> QED
      BY <2>1, <2>2, <2>3, <2>4, <2>5
<1>4. ASSUME NEW t \in Thread, NEW l \in Logger, Switch(t, l) PROVE TypeOK'
  <2>1. /\ instance' \in Logger \cup {NoLogger} /\ owner' \in [Logger -> Thread \cup {NoThread}]
        /\ stream' \in [Logger -> Seq(Value)] /\ written' \in [Logger -> Line]
        /\ pending' \in [Thread -> Seq(Value)] /\ said' \in [Thread -> Seq(Value)]
        /\ items' \in [Thread -> 0..MaxItems] /\ statements' \in [Thread -> 0..MaxStatements]
      BY <1>4 DEF Switch, Item
  <2>2. /\ pc' \in [Thread -> PC]
        /\ logger' \in [Thread -> Logger \cup {NoLogger}]
        /\ goal' \in [Thread -> Logger \cup {NoLogger}]
    <3>1. pc' = [pc EXCEPT ![t] = "lock"] \/ pc' = [pc EXCEPT ![t] = "write"]
        BY <1>4 DEF Switch
    <3>2. logger' = logger \/ logger' = [logger EXCEPT ![t] = l]
        BY <1>4 DEF Switch
    <3>3. goal' = goal \/ goal' = [goal EXCEPT ![t] = l]
        BY <1>4 DEF Switch
    <3>4. pc' \in [Thread -> PC]
        BY <3>1
    <3>5. logger' \in [Thread -> Logger \cup {NoLogger}]
        BY <3>2
    <3>6. goal' \in [Thread -> Logger \cup {NoLogger}]
        BY <3>3
    <3> QED
        BY <3>4, <3>5, <3>6
  <2>3. header' \in [Thread -> BOOLEAN]
    <3>1. CASE header' = [header EXCEPT ![t] = l # Console]
        BY <3>1, Zenon
    <3>2. CASE header' = header
        BY <3>2
    <3> QED
        BY <1>4, <3>1, <3>2 DEF Switch
  <2>4. \A u \in Thread : logger'[u] = NoLogger => pc'[u] \in {"idle", "open"}
      BY <1>4 DEF Switch, Item
  <2> QED
      BY <2>1, <2>2, <2>3, <2>4
<1>5. ASSUME NEW t \in Thread, End(t) PROVE TypeOK'
    BY <1>5 DEF End
<1>6. ASSUME NEW t \in Thread, Lock(t) PROVE TypeOK'
    BY <1>6 DEF Lock
<1>7. ASSUME NEW t \in Thread, Put(t) PROVE TypeOK'
  <2>1. logger[t] \in Logger /\ pending[t] \in Seq(Value)
      BY <1>7 DEF Put
  <2>2. /\ stream[logger[t]] \o pending[t] \in Seq(Value)
        /\ said[t] \o pending[t] \in Seq(Value)
        /\ <<>> \in Seq(Value)
      BY <2>1
  <2>3. /\ stream' \in [Logger -> Seq(Value)]
        /\ said' \in [Thread -> Seq(Value)]
        /\ pending' \in [Thread -> Seq(Value)]
      BY <1>7, <2>1, <2>2 DEF Put
  <2> QED
      BY <1>7, <2>1, <2>3 DEF Put
<1>8. ASSUME NEW t \in Thread, WriteLine(t) PROVE TypeOK'
    BY <1>8 DEF WriteLine, Line
<1>9. ASSUME NEW t \in Thread, ClearStream(t) PROVE TypeOK'
  <2>1. <<>> \in Seq(Value)
      OBVIOUS
  <2>2. stream' \in [Logger -> Seq(Value)] /\ said' \in [Thread -> Seq(Value)]
      BY <1>9, <2>1 DEF ClearStream
  <2> QED
      BY <1>9, <2>2 DEF ClearStream
<1>10. ASSUME NEW t \in Thread, Unlock(t) PROVE TypeOK'
    BY <1>10 DEF Unlock, NextLogger
<1> QED
    BY <1>1, <1>2, <1>3, <1>4, <1>5, <1>6, <1>7, <1>8, <1>9, <1>10 DEF Next, Continue

\* Every step keeps the mutexes with the threads that locked them.
LEMMA NextOwner == IInv /\ Next => OwnerHolds'
<1> SUFFICES ASSUME IInv, Next PROVE OwnerHolds'
    OBVIOUS
<1> USE LoggerAssumption DEF IInv, OwnerHolds, Holding, TypeOK, PC, accessor, count, Goto
<1>1. ASSUME NEW l \in Logger, Initialize(l) PROVE OwnerHolds'
    BY <1>1 DEF Initialize
<1>2. ASSUME NEW t \in Thread, Begin(t) PROVE OwnerHolds'
    BY <1>2 DEF Begin
<1>3. ASSUME NEW t \in Thread, NEW v \in Value, PutValue(t, v) PROVE OwnerHolds'
  <2>1. CASE logger[t] = NoLogger
    <3>1. /\ \E m \in Logger : logger' = [logger EXCEPT ![t] = m]
          /\ pc' = [pc EXCEPT ![t] = "lock"]
          /\ owner' = owner
        BY <1>3, <2>1 DEF PutValue
    <3> QED
        BY <2>1, <3>1
  <2>2. CASE logger[t] # NoLogger
      BY <1>3, <2>2 DEF PutValue, Item
  <2> QED
      BY <2>1, <2>2
<1>4. ASSUME NEW t \in Thread, NEW l \in Logger, Switch(t, l) PROVE OwnerHolds'
  <2>1. CASE logger[t] = NoLogger
    <3>1. /\ \E m \in Logger : logger' = [logger EXCEPT ![t] = m]
          /\ pc' = [pc EXCEPT ![t] = "lock"]
          /\ owner' = owner
        BY <1>4, <2>1 DEF Switch
    <3> QED
        BY <2>1, <3>1
  <2>2. CASE logger[t] # NoLogger
      BY <1>4, <2>2 DEF Switch, Item
  <2> QED
      BY <2>1, <2>2
<1>5. ASSUME NEW t \in Thread, End(t) PROVE OwnerHolds'
    BY <1>5 DEF End
<1>6. ASSUME NEW t \in Thread, Lock(t) PROVE OwnerHolds'
    BY <1>6 DEF Lock
<1>7. ASSUME NEW t \in Thread, Put(t) PROVE OwnerHolds'
    BY <1>7 DEF Put
<1>8. ASSUME NEW t \in Thread, WriteLine(t) PROVE OwnerHolds'
    BY <1>8 DEF WriteLine
<1>9. ASSUME NEW t \in Thread, ClearStream(t) PROVE OwnerHolds'
    BY <1>9 DEF ClearStream
<1>10. ASSUME NEW t \in Thread, Unlock(t) PROVE OwnerHolds'
    BY <1>10 DEF Unlock, NextLogger
<1> QED
    BY <1>1, <1>2, <1>3, <1>4, <1>5, <1>6, <1>7, <1>8, <1>9, <1>10 DEF Next, Continue

\* Every step keeps the stream of a logger with its owner.
LEMMA NextStream == IInv /\ Next => StreamIsSaid'
<1> SUFFICES ASSUME IInv, Next PROVE StreamIsSaid'
    OBVIOUS
<1> USE LoggerAssumption
    DEF IInv, StreamIsSaid, OwnerHolds, Holding, TypeOK, PC, accessor, count, Goto
<1>1. ASSUME NEW l \in Logger, Initialize(l) PROVE StreamIsSaid'
    BY <1>1 DEF Initialize
<1>2. ASSUME NEW t \in Thread, Begin(t) PROVE StreamIsSaid'
    BY <1>2 DEF Begin
<1>3. ASSUME NEW t \in Thread, NEW v \in Value, PutValue(t, v) PROVE StreamIsSaid'
  <2>1. CASE logger[t] = NoLogger
    <3>1. /\ \E m \in Logger : logger' = [logger EXCEPT ![t] = m]
          /\ pc' = [pc EXCEPT ![t] = "lock"]
          /\ owner' = owner /\ stream' = stream /\ said' = said
        BY <1>3, <2>1 DEF PutValue
    <3> QED
        BY <2>1, <3>1
  <2>2. CASE logger[t] # NoLogger
      BY <1>3, <2>2 DEF PutValue, Item
  <2> QED
      BY <2>1, <2>2
<1>4. ASSUME NEW t \in Thread, NEW l \in Logger, Switch(t, l) PROVE StreamIsSaid'
  <2>1. CASE logger[t] = NoLogger
    <3>1. /\ logger' = [logger EXCEPT ![t] = l]
          /\ pc' = [pc EXCEPT ![t] = "lock"]
          /\ owner' = owner /\ stream' = stream /\ said' = said
        BY <1>4, <2>1 DEF Switch
    <3> QED
        BY <2>1, <3>1
  <2>2. CASE logger[t] # NoLogger
      BY <1>4, <2>2 DEF Switch, Item
  <2> QED
      BY <2>1, <2>2
<1>5. ASSUME NEW t \in Thread, End(t) PROVE StreamIsSaid'
    BY <1>5 DEF End
<1>6. ASSUME NEW t \in Thread, Lock(t) PROVE StreamIsSaid'
    BY <1>6 DEF Lock
<1>7. ASSUME NEW t \in Thread, Put(t) PROVE StreamIsSaid'
    BY <1>7, SMTT(30) DEF Put
<1>8. ASSUME NEW t \in Thread, WriteLine(t) PROVE StreamIsSaid'
    BY <1>8 DEF WriteLine
<1>9. ASSUME NEW t \in Thread, ClearStream(t) PROVE StreamIsSaid'
    BY <1>9 DEF ClearStream
<1>10. ASSUME NEW t \in Thread, Unlock(t) PROVE StreamIsSaid'
    BY <1>10 DEF Unlock, NextLogger
<1> QED
    BY <1>1, <1>2, <1>3, <1>4, <1>5, <1>6, <1>7, <1>8, <1>9, <1>10 DEF Next, Continue

\* WriteLine is the only step that writes a line, and it writes what is in
\* the stream of a logger its thread holds.
LEMMA NextLines == IInv /\ Next => LinesWhole'
<1> SUFFICES ASSUME IInv, Next PROVE LinesWhole'
    OBVIOUS
<1> USE DEF IInv, LinesWhole
<1>1. CASE UNCHANGED written
    BY <1>1
<1>2. ASSUME NEW t \in Thread, WriteLine(t) PROVE LinesWhole'
  <2>1. Holding(t) /\ logger[t] \in Logger
      BY <1>2, LoggerAssumption DEF WriteLine, Holding, TypeOK
  <2>2. stream[logger[t]] = said[t]
      BY <2>1 DEF StreamIsSaid
  <2> QED
      BY <1>2, <2>1, <2>2 DEF WriteLine, TypeOK
<1> QED
    BY <1>1, <1>2 DEF Next, Continue, Initialize, Begin, PutValue, Switch, End, Lock, Put,
                      ClearStream, Unlock, NextLogger

\* The inductive invariant holds in every state.
THEOREM LoggerInvariant == Spec => []IInv
<1>1. Init => IInv
    BY InitInv
<1>2. IInv /\ [Next]_vars => IInv'
  <2> SUFFICES ASSUME IInv, [Next]_vars PROVE IInv'
      OBVIOUS
  <2>1. CASE Next
      BY <2>1, NextType, NextOwner, NextStream, NextLines DEF IInv
  <2>2. CASE UNCHANGED vars
      BY <2>2 DEF vars, accessor, count, IInv, TypeOK, OwnerHolds, StreamIsSaid, Holding,
                  LinesWhole
  <2> QED
      BY <2>1, <2>2
<1> QED
    BY <1>1, <1>2, PTL DEF Spec

-----------------------------------------------------------------------------
\* Type correctness, and no use of a null logger_ in operator <<, BeginLine or
\* EndLine.
THEOREM LoggerTypeCorrect == Spec => []TypeOK
<1>1. IInv => TypeOK
    BY DEF IInv
<1> QED
    BY <1>1, LoggerInvariant, PTL

\* Any number of threads may log through any number of shared loggers: each
\* line EndLine writes is one statement's own.
THEOREM LinesStayWhole == Spec => []LinesWhole
<1>1. IInv => LinesWhole
    BY DEF IInv
<1> QED
    BY <1>1, LoggerInvariant, PTL

\* BeginLine never waits for a mutex while its thread holds another one.
THEOREM LoggersDoNotDeadlock == Spec => []WaitsEmptyHanded
<1>1. IInv => WaitsEmptyHanded
    BY DEF IInv, OwnerHolds, Holding, WaitsEmptyHanded
<1> QED
    BY <1>1, LoggerInvariant, PTL
=============================================================================
