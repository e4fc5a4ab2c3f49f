------------------------- MODULE EventStoreProofs -------------------------
(***************************************************************************)
(* Theorems about EventStore for every set of processes, ids, versions and *)
(* data; at the end, that it implements EventLog.                          *)
(***************************************************************************)
EXTENDS MCEventStore, SequenceTheorems, TLAPS

\* What a push does to the row set: one new row under an id above all others.
LEMMA AttachEventRows ==
    ASSUME NEW p, NEW s \in StreamId, NEW v \in Version, NEW d \in Data,
           TypeOK, AttachEvent(p, s, v, d)
    PROVE  \E id \in EventId :
              /\ \A k \in DOMAIN events : k < id
              /\ DOMAIN events' = DOMAIN events \cup {id}
              /\ events'[id] = [stream_id |-> s, version |-> v, data |-> d]
              /\ \A e \in DOMAIN events : e # id /\ events'[e] = events[e]
<1>1. PICK id \in EventId :
          /\ IsNewRowid(DOMAIN events, id)
          /\ events' = [e \in DOMAIN events \cup {id} |->
                           IF e = id THEN [stream_id |-> s, version |-> v, data |-> d]
                                     ELSE events[e]]
  BY DEF AttachEvent, Accepts
<1>2. \A k \in DOMAIN events : k < id /\ k # id
  BY <1>1, ConstantsAssumption DEF IsNewRowid, TypeOK
<1>. QED
  BY <1>1, <1>2

\* ... and hence to the versions of each stream.
LEMMA AttachEventVersions ==
    ASSUME NEW p, NEW s \in StreamId, NEW v \in Version, NEW d \in Data,
           TypeOK, AttachEvent(p, s, v, d), NEW x \in StreamId
    PROVE  VersionsOf(x)' = IF x = s THEN VersionsOf(s) \cup {v} ELSE VersionsOf(x)
<1>1. PICK id \in EventId :
          /\ \A k \in DOMAIN events : k < id
          /\ DOMAIN events' = DOMAIN events \cup {id}
          /\ events'[id] = [stream_id |-> s, version |-> v, data |-> d]
          /\ \A e \in DOMAIN events : e # id /\ events'[e] = events[e]
  BY AttachEventRows
<1>2. events'[id].stream_id = s /\ events'[id].version = v
  BY <1>1
<1>3. EventsOf(x)' = EventsOf(x) \cup (IF x = s THEN {id} ELSE {})
  BY <1>1, <1>2 DEF EventsOf
<1>4. \A e \in EventsOf(x) : events'[e].version = events[e].version
  BY <1>1 DEF EventsOf
<1>5. VersionsOf(x)' = {events'[e].version : e \in EventsOf(x)'}
  BY DEF VersionsOf
<1>6. CASE x = s
  <2>1. EventsOf(x)' = EventsOf(x) \cup {id}
    BY <1>3, <1>6
  <2>. QED
    BY <1>2, <1>4, <1>5, <1>6, <2>1 DEF VersionsOf
<1>7. CASE x # s
  <2>1. EventsOf(x)' = EventsOf(x)
    BY <1>3, <1>7
  <2>. QED
    BY <1>4, <1>5, <1>7, <2>1 DEF VersionsOf
<1>. QED
  BY <1>6, <1>7

\* A committed deletion keeps exactly the rows of the other streams.
LEMMA RemoveCommitRows ==
    ASSUME NEW p, RemoveCommit(p)
    PROVE  /\ DOMAIN events' = {k \in DOMAIN events : events[k].stream_id \notin removing[p]}
           /\ \A e \in DOMAIN events' : events'[e] = events[e]
           /\ DOMAIN streams' = DOMAIN streams \ removing[p]
           /\ \A s \in DOMAIN streams' : streams'[s] = streams[s]
BY DEF RemoveCommit

LEMMA RemoveCommitVersions ==
    ASSUME NEW p, RemoveCommit(p), NEW x
    PROVE  VersionsOf(x)' = IF x \in removing[p] THEN {} ELSE VersionsOf(x)
<1>1. /\ DOMAIN events' = {k \in DOMAIN events : events[k].stream_id \notin removing[p]}
      /\ \A e \in DOMAIN events' : events'[e] = events[e]
  BY RemoveCommitRows
<1>2. EventsOf(x)' = {e \in DOMAIN events' : events'[e].stream_id = x}
  BY DEF EventsOf
<1>3. VersionsOf(x)' = {events'[e].version : e \in EventsOf(x)'}
  BY DEF VersionsOf
<1>4. CASE x \in removing[p]
  <2>1. EventsOf(x)' = {}
    BY <1>1, <1>2, <1>4
  <2>. QED
    BY <1>3, <1>4, <2>1
<1>5. CASE x \notin removing[p]
  <2>1. EventsOf(x)' = EventsOf(x)
    BY <1>1, <1>2, <1>5 DEF EventsOf
  <2>2. \A e \in EventsOf(x) : events'[e] = events[e]
    BY <1>1, <1>2, <2>1
  <2>. QED
    BY <1>3, <1>5, <2>1, <2>2 DEF VersionsOf
<1>. QED
  BY <1>4, <1>5

---------------------------------------------------------------------------
(* Type correctness.                                                       *)

LEMMA InitTypeOK == Init => TypeOK
<1>. SUFFICES ASSUME Init PROVE TypeOK
  OBVIOUS
<1>1. DOMAIN streams = {} /\ DOMAIN events = {}
  BY DEF Init
<1>2. streams \in [DOMAIN streams -> StreamRow] /\ events \in [DOMAIN events -> EventRow]
  BY <1>1 DEF Init
<1>3. removing \in [Proc -> {{}} \cup {{s} : s \in StreamId}]
  BY DEF Init
<1>. QED
  BY <1>1, <1>2, <1>3 DEF Init, TypeOK, ProcState

LEMMA InitDbTypeOK ==
    ASSUME NEW p \in Proc, TypeOK, InitDb(p)
    PROVE  TypeOK'
<1>1. CASE CheckFile(p)
  BY <1>1 DEF CheckFile, TypeOK, ProcState, db
<1>2. CASE OpenFile(p)
  BY <1>2 DEF OpenFile, TypeOK, ProcState, db
<1>3. CASE CreateTables(p)
  BY <1>3 DEF CreateTables, TypeOK, ProcState, db, FullSchema
<1>4. CASE CreateTrigger(p)
  BY <1>4 DEF CreateTrigger, TypeOK, ProcState, db, FullSchema
<1>5. CASE CreateProjections(p)
  BY <1>5 DEF CreateProjections, TypeOK, ProcState, db, FullSchema
<1>. QED
  BY <1>1, <1>2, <1>3, <1>4, <1>5 DEF InitDb

LEMMA WriteTypeOK ==
    ASSUME NEW p \in Proc, TypeOK, Write(p)
    PROVE  TypeOK'
<1>1. ASSUME NEW t \in Type, CreateStream(p, t) PROVE TypeOK'
  <2>1. PICK id \in StreamId :
            streams' = [s \in DOMAIN streams \cup {id} |->
                           IF s = id THEN [type |-> t] ELSE streams[s]]
    BY <1>1 DEF CreateStream
  <2>2. /\ DOMAIN streams' \subseteq StreamId
        /\ streams' \in [DOMAIN streams' -> StreamRow]
    BY <2>1 DEF TypeOK, StreamRow
  <2>. QED
    BY <1>1, <2>2 DEF CreateStream, TypeOK
<1>2. ASSUME NEW s \in StreamId, NEW v \in Version, NEW d \in Data, AttachEvent(p, s, v, d)
      PROVE  TypeOK'
  <2>1. PICK id \in EventId :
            events' = [e \in DOMAIN events \cup {id} |->
                          IF e = id THEN [stream_id |-> s, version |-> v, data |-> d]
                                    ELSE events[e]]
    BY <1>2 DEF AttachEvent, Accepts
  <2>2. /\ DOMAIN events' \subseteq EventId
        /\ events' \in [DOMAIN events' -> EventRow]
    BY <2>1 DEF TypeOK, EventRow
  <2>. QED
    BY <1>2, <2>2 DEF AttachEvent, TypeOK, Checks
<1>3. ASSUME NEW s \in StreamId, RemoveEvents(p, s) PROVE TypeOK'
  BY <1>3 DEF RemoveEvents, TypeOK, db
<1>4. CASE RemoveCommit(p)
  <2>1. removing' \in [Proc -> {{}} \cup {{s} : s \in StreamId}]
    BY <1>4 DEF RemoveCommit, TypeOK
  <2>2. /\ DOMAIN events' \subseteq EventId
        /\ events' \in [DOMAIN events' -> EventRow]
    BY <1>4 DEF RemoveCommit, TypeOK
  <2>3. /\ DOMAIN streams' \subseteq StreamId
        /\ streams' \in [DOMAIN streams' -> StreamRow]
    BY <1>4 DEF RemoveCommit, TypeOK
  <2>. QED
    BY <1>4, <2>1, <2>2, <2>3 DEF RemoveCommit, TypeOK
<1>5. CASE RemoveRollback(p)
  BY <1>5 DEF RemoveRollback, TypeOK, db
<1>. QED
  BY <1>1, <1>2, <1>3, <1>4, <1>5 DEF Write

LEMMA NextTypeOK == TypeOK /\ [Next]_vars => TypeOK'
<1>. SUFFICES ASSUME TypeOK, [Next]_vars PROVE TypeOK'
  OBVIOUS
<1>1. ASSUME NEW p \in Proc, Terminate(p) PROVE TypeOK'
  BY <1>1 DEF Terminate, TypeOK, ProcState, db
<1>2. CASE UNCHANGED vars
  BY <1>2 DEF vars, db, TypeOK
<1>. QED
  BY <1>1, <1>2, InitDbTypeOK, WriteTypeOK DEF Next

\* The tables keep their shape and every process is in a state of init_db.
THEOREM TypeCorrect == Spec => []TypeOK
BY InitTypeOK, NextTypeOK, PTL DEF Spec

---------------------------------------------------------------------------
(* The inductive invariant.                                                *)

\* A process that found a file, or has made one, has the trigger under it, if
\* the creation of the file is never disturbed.
TriggerBeforeUse ==
    Exclusive =>
        /\ \A p \in Proc : pc[p] \in {"exists", "projections", "ready"} => "ver_valid" \in schema
        /\ file => \/ "ver_valid" \in schema
                   \/ \E p \in Proc : pc[p] \in {"tables", "trigger"}

\* The process started first creates the file and enforces foreign keys.
FirstIsCreator ==
    /\ opens = 0 => ~file /\ \A p \in Proc : pc[p] = "down"
    /\ opens <= 1 =>
        \A p \in Proc :
            /\ pc[p] # "exists"
            /\ pc[p] \in {"tables", "trigger", "projections", "ready"} => fk[p]
            /\ pc[p] \in {"projections", "ready"} => "ver_valid" \in schema

IInv ==
    /\ TypeOK
    /\ TriggerBeforeUse
    /\ FirstIsCreator
    /\ TriggerSeesAll
    /\ FirstRunIsChecked
    /\ Contiguous
    /\ RowOrderIsVersionOrder
    /\ NoOrphansWhileEnforced

\* The start-up part: only the clauses about pc, schema, file and opens.
StartUp == TriggerBeforeUse /\ FirstIsCreator /\ TriggerSeesAll /\ FirstRunIsChecked

LEMMA InitDbStartUp ==
    ASSUME NEW p \in Proc, TypeOK, StartUp, InitDb(p)
    PROVE  StartUp'
<1>1. CASE CheckFile(p)
  BY <1>1 DEF CheckFile, Undisturbed, Creating, TypeOK, StartUp, TriggerBeforeUse,
              FirstIsCreator, TriggerSeesAll, FirstRunIsChecked
<1>2. CASE OpenFile(p)
  BY <1>2 DEF OpenFile, TypeOK, StartUp, TriggerBeforeUse,
              FirstIsCreator, TriggerSeesAll, FirstRunIsChecked
<1>3. CASE CreateTables(p)
  BY <1>3 DEF CreateTables, TypeOK, StartUp, TriggerBeforeUse,
              FirstIsCreator, TriggerSeesAll, FirstRunIsChecked
<1>4. CASE CreateTrigger(p)
  BY <1>4 DEF CreateTrigger, TypeOK, StartUp, TriggerBeforeUse,
              FirstIsCreator, TriggerSeesAll, FirstRunIsChecked
<1>5. CASE CreateProjections(p)
  BY <1>5 DEF CreateProjections, TypeOK, StartUp, TriggerBeforeUse,
              FirstIsCreator, TriggerSeesAll, FirstRunIsChecked
<1>. QED
  BY <1>1, <1>2, <1>3, <1>4, <1>5 DEF InitDb

LEMMA WriteStartUp ==
    ASSUME NEW p \in Proc, TypeOK, StartUp, Write(p)
    PROVE  StartUp'
<1>1. UNCHANGED <<file, schema, pc, fk, opens>>
  BY DEF Write, CreateStream, AttachEvent, Accepts, RemoveEvents, RemoveCommit, RemoveRollback
<1>2. (TriggerBeforeUse /\ FirstIsCreator)'
  BY <1>1 DEF StartUp, TriggerBeforeUse, FirstIsCreator
<1>3. CASE UNCHANGED lapsed
  BY <1>1, <1>2, <1>3 DEF StartUp, TriggerSeesAll, FirstRunIsChecked
<1>4. ASSUME NEW s \in StreamId, NEW v \in Version, NEW d \in Data, AttachEvent(p, s, v, d)
      PROVE  (TriggerSeesAll /\ FirstRunIsChecked)'
  <2>1. pc[p] = "ready"
    BY <1>4 DEF AttachEvent, Accepts, CanWrite
  <2>2. Exclusive => "ver_valid" \in schema
    BY <2>1 DEF StartUp, TriggerBeforeUse
  <2>3. opens <= 1 => "ver_valid" \in schema /\ fk[p]
    BY <2>1 DEF StartUp, FirstIsCreator
  <2>. QED
    BY <1>1, <1>4, <2>2, <2>3 DEF AttachEvent, StartUp, TriggerSeesAll, FirstRunIsChecked
<1>5. UNCHANGED lapsed \/ \E s \in StreamId, v \in Version, d \in Data : AttachEvent(p, s, v, d)
  BY DEF Write, CreateStream, RemoveEvents, RemoveCommit, RemoveRollback
<1>. QED
  BY <1>2, <1>3, <1>4, <1>5 DEF StartUp

LEMMA NextStartUp == TypeOK /\ StartUp /\ [Next]_vars => StartUp'
<1>. SUFFICES ASSUME TypeOK, StartUp, [Next]_vars PROVE StartUp'
  OBVIOUS
<1>1. ASSUME NEW p \in Proc, Terminate(p) PROVE StartUp'
  BY <1>1 DEF Terminate, Creating, TypeOK, StartUp, TriggerBeforeUse,
              FirstIsCreator, TriggerSeesAll, FirstRunIsChecked
<1>2. CASE UNCHANGED vars
  BY <1>2 DEF vars, StartUp, TriggerBeforeUse,
              FirstIsCreator, TriggerSeesAll, FirstRunIsChecked
<1>. QED
  BY <1>1, <1>2, InitDbStartUp, WriteStartUp DEF Next

---------------------------------------------------------------------------
(* The log part: a push, a committed deletion, and everything else.        *)

Logs == Contiguous /\ RowOrderIsVersionOrder /\ NoOrphansWhileEnforced

\* The trigger admits exactly the next version of a gap-free stream.
LEMMA NextVersion ==
    ASSUME NEW s \in StreamId, NEW v \in Version,
           NEW n \in Nat, VersionsOf(s) = 1..n, VersionValid(s, v)
    PROVE  v = n + 1
<1>1. v \in Nat
  BY ConstantsAssumption
<1>2. CASE n = 0
  <2>1. VersionsOf(s) = {}
    BY <1>2
  <2>. QED
    BY <1>2, <2>1 DEF VersionValid
<1>3. CASE n > 0
  <2>1. n \in VersionsOf(s)
    BY <1>3
  <2>2. v - 1 \in 1..n /\ n < v
    BY <2>1 DEF VersionValid
  <2>. QED
    BY <1>1, <1>3, <2>2
<1>. QED
  BY <1>2, <1>3

LEMMA AttachEventLogs ==
    ASSUME NEW p \in Proc, NEW s \in StreamId, NEW v \in Version, NEW d \in Data,
           TypeOK, Logs, AttachEvent(p, s, v, d)
    PROVE  Logs'
<1>1. PICK id \in EventId :
          /\ \A k \in DOMAIN events : k < id
          /\ DOMAIN events' = DOMAIN events \cup {id}
          /\ events'[id] = [stream_id |-> s, version |-> v, data |-> d]
          /\ \A e \in DOMAIN events : e # id /\ events'[e] = events[e]
  BY AttachEventRows
<1>2. events'[id].stream_id = s /\ events'[id].version = v
  BY <1>1
<1>3. /\ "ver_valid" \notin lapsed' => "ver_valid" \notin lapsed /\ VersionValid(s, v)
      /\ "foreign_keys" \notin lapsed' => "foreign_keys" \notin lapsed /\ s \in DOMAIN streams
      /\ streams' = streams
  BY DEF AttachEvent, Accepts, ForeignKeyHolds
<1>4. Contiguous'
  <2>. SUFFICES ASSUME "ver_valid" \notin lapsed', NEW x \in StreamId
                PROVE  \E n \in Version \cup {0} : VersionsOf(x)' = 1..n
    BY DEF Contiguous
  <2>1. PICK n \in Version \cup {0} : VersionsOf(x) = 1..n
    BY <1>3 DEF Logs, Contiguous
  <2>2. CASE x = s
    <3>1. v = n + 1
      BY <1>3, <2>1, <2>2, NextVersion, ConstantsAssumption
    <3>2. VersionsOf(x)' = (1..n) \cup {n + 1}
      BY <2>1, <2>2, <3>1, AttachEventVersions
    <3>3. (1..n) \cup {n + 1} = 1..v
      BY <3>1, ConstantsAssumption
    <3>. QED
      BY <3>2, <3>3
  <2>3. CASE x # s
    BY <2>1, <2>3, AttachEventVersions
  <2>. QED
    BY <2>2, <2>3
<1>5. RowOrderIsVersionOrder'
  <2>. SUFFICES ASSUME "ver_valid" \notin lapsed',
                       NEW e \in DOMAIN events', NEW f \in DOMAIN events',
                       events'[e].stream_id = events'[f].stream_id,
                       events'[e].version <= events'[f].version
                PROVE  e <= f
    BY DEF RowOrderIsVersionOrder
  <2>1. CASE e # id /\ f # id
    BY <1>1, <1>3, <2>1 DEF Logs, RowOrderIsVersionOrder
  <2>2. CASE f = id
    BY <1>1, <2>2, ConstantsAssumption DEF TypeOK
  <2>3. CASE e = id /\ f # id
    <3>1. f \in DOMAIN events /\ events[f].stream_id = s /\ v <= events[f].version
      BY <1>1, <1>2, <2>3
    <3>2. events[f].version \in VersionsOf(s)
      BY <3>1 DEF VersionsOf, EventsOf
    <3>3. events[f].version \in Version
      BY <3>1 DEF TypeOK, EventRow
    <3>4. events[f].version < v
      BY <1>3, <3>2 DEF VersionValid
    <3>5. v \in Nat /\ events[f].version \in Nat
      BY <3>3, ConstantsAssumption
    <3>. QED
      BY <3>1, <3>4, <3>5
  <2>. QED
    BY <2>1, <2>2, <2>3
<1>6. NoOrphansWhileEnforced'
  BY <1>1, <1>2, <1>3 DEF Logs, NoOrphansWhileEnforced
<1>. QED
  BY <1>4, <1>5, <1>6 DEF Logs

LEMMA RemoveCommitLogs ==
    ASSUME NEW p \in Proc, TypeOK, Logs, RemoveCommit(p)
    PROVE  Logs'
<1>1. /\ DOMAIN events' = {k \in DOMAIN events : events[k].stream_id \notin removing[p]}
      /\ \A e \in DOMAIN events' : events'[e] = events[e]
      /\ DOMAIN streams' = DOMAIN streams \ removing[p]
  BY RemoveCommitRows
<1>2. lapsed' = lapsed
  BY DEF RemoveCommit
<1>3. Contiguous'
  <2>. SUFFICES ASSUME "ver_valid" \notin lapsed, NEW x \in StreamId
                PROVE  \E n \in Version \cup {0} : VersionsOf(x)' = 1..n
    BY <1>2 DEF Contiguous
  <2>1. VersionsOf(x)' = IF x \in removing[p] THEN {} ELSE VersionsOf(x)
    BY RemoveCommitVersions
  <2>2. {} = 1..0
    OBVIOUS
  <2>. QED
    BY <2>1, <2>2 DEF Logs, Contiguous
<1>4. RowOrderIsVersionOrder'
  BY <1>1, <1>2 DEF Logs, RowOrderIsVersionOrder
<1>5. NoOrphansWhileEnforced'
  BY <1>1, <1>2 DEF Logs, NoOrphansWhileEnforced
<1>. QED
  BY <1>3, <1>4, <1>5 DEF Logs

LEMMA OtherLogs ==
    ASSUME Logs, events' = events, lapsed' = lapsed, DOMAIN streams \subseteq DOMAIN streams'
    PROVE  Logs'
<1>1. \A x : VersionsOf(x)' = VersionsOf(x)
  BY DEF VersionsOf, EventsOf
<1>. QED
  BY <1>1 DEF Logs, Contiguous, RowOrderIsVersionOrder, NoOrphansWhileEnforced

LEMMA NextLogs == TypeOK /\ Logs /\ [Next]_vars => Logs'
<1>. SUFFICES ASSUME TypeOK, Logs, [Next]_vars PROVE Logs'
  OBVIOUS
<1>1. ASSUME NEW p \in Proc, InitDb(p) \/ Terminate(p)
      PROVE  UNCHANGED <<streams, events, lapsed>>
  BY <1>1 DEF InitDb, CheckFile, OpenFile, CreateTables, CreateTrigger, CreateProjections,
              Terminate, db
<1>2. ASSUME NEW p \in Proc, Write(p) PROVE Logs'
  <2>1. ASSUME NEW t \in Type, CreateStream(p, t) PROVE Logs'
    <3>1. events' = events /\ lapsed' = lapsed /\ DOMAIN streams \subseteq DOMAIN streams'
      BY <2>1 DEF CreateStream
    <3>. QED
      BY <3>1, OtherLogs
  <2>2. ASSUME NEW s \in StreamId, RemoveEvents(p, s) PROVE Logs'
    BY <2>2, OtherLogs DEF RemoveEvents, db
  <2>3. CASE RemoveRollback(p)
    BY <2>3, OtherLogs DEF RemoveRollback, db
  <2>. QED
    BY <1>2, <2>1, <2>2, <2>3, AttachEventLogs, RemoveCommitLogs DEF Write
<1>3. CASE UNCHANGED vars
  BY <1>3, OtherLogs DEF vars, db
<1>. QED
  BY <1>1, <1>2, <1>3, OtherLogs DEF Next

---------------------------------------------------------------------------

LEMMA InitIInv == Init => IInv
<1>. SUFFICES ASSUME Init PROVE IInv
  OBVIOUS
<1>1. DOMAIN events = {} /\ \A x : VersionsOf(x) = {}
  BY DEF Init, VersionsOf, EventsOf
<1>2. {} = 1..0
  OBVIOUS
<1>3. Contiguous
  BY <1>1, <1>2 DEF Contiguous
<1>. QED
  BY <1>1, <1>3, InitTypeOK DEF Init, IInv, TriggerBeforeUse, FirstIsCreator,
     TriggerSeesAll, FirstRunIsChecked, RowOrderIsVersionOrder, NoOrphansWhileEnforced

LEMMA NextIInv == IInv /\ [Next]_vars => IInv'
BY NextTypeOK, NextStartUp, NextLogs DEF IInv, StartUp, Logs

\* Everything above holds in every reachable state.
THEOREM InductiveInvariant == Spec => []IInv
BY InitIInv, NextIInv, PTL DEF Spec

\* The versions of every stream are 1..n while the trigger saw every push, for
\* any number of processes, restarts, deletions and crashes.
THEOREM ContiguousHolds == Spec => []Contiguous
<1>1. IInv => Contiguous
  BY DEF IInv
<1>. QED
  BY <1>1, InductiveInvariant, PTL

\* Row ids follow versions along a stream, so the scan by row id and the walk of
\* the index return the same history.
THEOREM RowOrderHolds == Spec => []RowOrderIsVersionOrder
<1>1. IInv => RowOrderIsVersionOrder
  BY DEF IInv
<1>. QED
  BY <1>1, InductiveInvariant, PTL

\* No event is without a stream as long as nobody wrote through a connection
\* whose pragma was left off.
THEOREM NoOrphansHolds == Spec => []NoOrphansWhileEnforced
<1>1. IInv => NoOrphansWhileEnforced
  BY DEF IInv
<1>. QED
  BY <1>1, InductiveInvariant, PTL

\* A file made without a disturbance has its trigger before the first push.
THEOREM TriggerSeesAllHolds == Spec => []TriggerSeesAll
<1>1. IInv => TriggerSeesAll
  BY DEF IInv
<1>. QED
  BY <1>1, InductiveInvariant, PTL

\* Both checks are in force for the process that made the file.
THEOREM FirstRunIsCheckedHolds == Spec => []FirstRunIsChecked
<1>1. IInv => FirstRunIsChecked
  BY DEF IInv
<1>. QED
  BY <1>1, InductiveInvariant, PTL

---------------------------------------------------------------------------
(* What a step does to the log.                                            *)

\* The body of LogOnlyGrowsOrGoes.
KeptOrGone ==
    \A e \in DOMAIN events :
        \/ e \in DOMAIN events' /\ events'[e] = events[e]
        \/ /\ events[e].stream_id \notin DOMAIN streams'
           /\ \A f \in DOMAIN events' : events'[f].stream_id # events[e].stream_id

LEMMA NextKeptOrGone == TypeOK /\ [Next]_vars => KeptOrGone
<1>. SUFFICES ASSUME TypeOK, [Next]_vars PROVE KeptOrGone
  OBVIOUS
<1>1. CASE UNCHANGED events
  BY <1>1 DEF KeptOrGone
<1>2. ASSUME NEW p \in Proc, NEW s \in StreamId, NEW v \in Version, NEW d \in Data,
             AttachEvent(p, s, v, d)
      PROVE  KeptOrGone
  BY <1>2, AttachEventRows DEF KeptOrGone
<1>3. ASSUME NEW p \in Proc, RemoveCommit(p) PROVE KeptOrGone
  BY <1>3, RemoveCommitRows DEF KeptOrGone
<1>4. \/ UNCHANGED events
      \/ \E p \in Proc : \/ \E s \in StreamId, v \in Version, d \in Data : AttachEvent(p, s, v, d)
                         \/ RemoveCommit(p)
  BY DEF Next, InitDb, Write, CheckFile, OpenFile, CreateTables, CreateTrigger,
         CreateProjections, Terminate, CreateStream, RemoveEvents, RemoveRollback, vars, db
<1>. QED
  BY <1>1, <1>2, <1>3, <1>4

\* An event is never altered, and goes only with the whole of its stream.
THEOREM LogIsAppendOnly == Spec => LogOnlyGrowsOrGoes
<1>1. TypeOK /\ [Next]_vars => [KeptOrGone]_vars
  BY NextKeptOrGone
<1>. QED
  BY <1>1, TypeCorrect, PTL DEF Spec, LogOnlyGrowsOrGoes, KeptOrGone

\* The body of FreshStreamIsEmpty.
FreshIsEmpty ==
    \A s \in DOMAIN streams' \ DOMAIN streams :
        "foreign_keys" \notin lapsed =>
            \A f \in DOMAIN events' : events'[f].stream_id # s

LEMMA NextFreshIsEmpty == NoOrphansWhileEnforced /\ [Next]_vars => FreshIsEmpty
<1>. SUFFICES ASSUME NoOrphansWhileEnforced, [Next]_vars PROVE FreshIsEmpty
  OBVIOUS
<1>1. CASE DOMAIN streams' \subseteq DOMAIN streams
  BY <1>1 DEF FreshIsEmpty
<1>2. CASE UNCHANGED events
  BY <1>2 DEF FreshIsEmpty, NoOrphansWhileEnforced
<1>3. ASSUME NEW p \in Proc, RemoveCommit(p) PROVE DOMAIN streams' \subseteq DOMAIN streams
  BY <1>3, RemoveCommitRows
<1>4. UNCHANGED events \/ UNCHANGED streams \/ \E p \in Proc : RemoveCommit(p)
  BY DEF Next, InitDb, Write, CheckFile, OpenFile, CreateTables, CreateTrigger,
         CreateProjections, Terminate, CreateStream, AttachEvent, RemoveEvents,
         RemoveRollback, vars, db
<1>. QED
  BY <1>1, <1>2, <1>3, <1>4

\* A row id that comes back brings no events of its former stream with it.
THEOREM FreshStreamHolds == Spec => FreshStreamIsEmpty
<1>1. NoOrphansWhileEnforced /\ [Next]_vars => [FreshIsEmpty]_vars
  BY NextFreshIsEmpty
<1>. QED
  BY <1>1, NoOrphansHolds, PTL DEF Spec, FreshStreamIsEmpty, FreshIsEmpty

---------------------------------------------------------------------------
(* EventStore implements EventLog: if the making of the file is left alone, *)
(* every step of the database is a step of the abstract log or invisible in *)
(* it.                                                                      *)

\* Where the trigger is in force, at most one row has a given stream and version.
LEMMA OneRowPerVersion ==
    ASSUME RowOrderIsVersionOrder, TypeOK, "ver_valid" \notin lapsed,
           NEW s \in StreamId, NEW e \in EventsOf(s), NEW f \in EventsOf(s),
           events[e].version = events[f].version
    PROVE  e = f
<1>1. /\ e \in DOMAIN events /\ f \in DOMAIN events
      /\ events[e].stream_id = events[f].stream_id
  BY DEF EventsOf
<1>2. events[e].version \in Nat /\ events[f].version \in Nat
  BY <1>1, ConstantsAssumption DEF TypeOK, EventRow
<1>3. e <= f /\ f <= e
  BY <1>1, <1>2 DEF RowOrderIsVersionOrder
<1>4. e \in Nat /\ f \in Nat
  BY <1>1, ConstantsAssumption DEF TypeOK
<1>. QED
  BY <1>3, <1>4

\* The log at version v is what the row with this version carries.
LEMMA LogAt ==
    ASSUME RowOrderIsVersionOrder, TypeOK, "ver_valid" \notin lapsed,
           NEW s \in StreamId, NEW e \in EventsOf(s)
    PROVE  /\ events[e].version \in VersionsOf(s)
           /\ LogOf(s)[events[e].version] = events[e].data
<1>1. events[e].version \in VersionsOf(s)
  BY DEF VersionsOf
<1>2. PICK f \in EventsOf(s) :
          /\ f = (CHOOSE k \in EventsOf(s) : events[k].version = events[e].version)
          /\ events[f].version = events[e].version
  OBVIOUS
<1>3. f = e
  BY <1>2, OneRowPerVersion
<1>4. LogOf(s)[events[e].version] =
          events[CHOOSE k \in EventsOf(s) : events[k].version = events[e].version].data
  BY <1>1 DEF LogOf
<1>. QED
  BY <1>1, <1>2, <1>3, <1>4

\* A log of a gap-free stream is a sequence.
LEMMA LogIsSeq ==
    ASSUME TypeOK, RowOrderIsVersionOrder, "ver_valid" \notin lapsed,
           NEW s \in StreamId, NEW n \in Nat, VersionsOf(s) = 1..n
    PROVE  LogOf(s) \in Seq(Data) /\ Len(LogOf(s)) = n
<1>1. \A v \in 1..n : LogOf(s)[v] \in Data
  <2>. SUFFICES ASSUME NEW v \in 1..n PROVE LogOf(s)[v] \in Data
    OBVIOUS
  <2>1. PICK e \in EventsOf(s) : events[e].version = v
    BY DEF VersionsOf
  <2>2. events[e].data \in Data
    BY DEF TypeOK, EventRow, EventsOf
  <2>. QED
    BY <2>1, <2>2, LogAt
<1>2. LogOf(s) = [v \in 1..n |-> LogOf(s)[v]]
  BY DEF LogOf
<1>3. LogOf(s) \in [1..n -> Data]
  BY <1>1, <1>2
<1>4. LogOf(s) \in Seq(Data)
  BY <1>3, SeqDef
<1>5. DOMAIN LogOf(s) = 1..n
  BY <1>3
<1>. QED
  BY <1>4, <1>5, LenProperties

\* What the lemmas above say of every stream.
LogFacts ==
    \A s \in StreamId :
        /\ \A e \in EventsOf(s) : /\ events[e].version \in VersionsOf(s)
                                 /\ LogOf(s)[events[e].version] = events[e].data
        /\ \A n \in Nat : VersionsOf(s) = 1..n =>
                              LogOf(s) \in Seq(Data) /\ Len(LogOf(s)) = n
        /\ EventsOf(s) = {} => LogOf(s) = <<>>

\* The reachable states in which the trigger has seen every event.
Trusted == IInv /\ "ver_valid" \notin lapsed

LEMMA LogFactsHold == Trusted => LogFacts
<1>. SUFFICES ASSUME Trusted, NEW s \in StreamId
              PROVE  LogFacts!(s)
  BY DEF LogFacts
<1>1. \A e \in EventsOf(s) : /\ events[e].version \in VersionsOf(s)
                             /\ LogOf(s)[events[e].version] = events[e].data
  BY LogAt DEF IInv, Trusted
<1>2. \A n \in Nat : VersionsOf(s) = 1..n => LogOf(s) \in Seq(Data) /\ Len(LogOf(s)) = n
  BY LogIsSeq DEF IInv, Trusted
<1>3. ASSUME EventsOf(s) = {} PROVE LogOf(s) = <<>>
  <2>1. VersionsOf(s) = 1..0
    BY <1>3 DEF VersionsOf
  <2>. QED
    BY <1>2, <2>1, EmptySeq
<1>. QED
  BY <1>1, <1>2, <1>3

LEMMA LogFactsNext == Trusted' => LogFacts'
BY LogFactsHold, PTL

\* A push appends to the log of its stream.
LEMMA PushAppends ==
    ASSUME Trusted, Trusted',
           NEW p \in Proc, NEW s \in StreamId, NEW v \in Version, NEW d \in Data,
           AttachEvent(p, s, v, d)
    PROVE  LogOf(s)' = Append(LogOf(s), d)
<1>1. PICK id \in EventId :
          /\ \A k \in DOMAIN events : k < id
          /\ DOMAIN events' = DOMAIN events \cup {id}
          /\ events'[id] = [stream_id |-> s, version |-> v, data |-> d]
          /\ \A e \in DOMAIN events : e # id /\ events'[e] = events[e]
  BY AttachEventRows DEF IInv, Trusted
<1>2. LogFacts /\ LogFacts'
  BY LogFactsHold, LogFactsNext
<1>3. PICK n \in Nat : VersionsOf(s) = 1..n
  BY ConstantsAssumption DEF IInv, Contiguous, Trusted
<1>4. v = n + 1
  <2>1. VersionValid(s, v)
    BY DEF AttachEvent, Accepts, Trusted
  <2>. QED
    BY <1>3, <2>1, NextVersion
<1>5. VersionsOf(s)' = 1..(n + 1)
  <2>1. VersionsOf(s)' = VersionsOf(s) \cup {v}
    BY AttachEventVersions DEF IInv, Trusted
  <2>. QED
    BY <1>3, <1>4, <2>1
<1>6. LogOf(s) \in Seq(Data) /\ Len(LogOf(s)) = n
  BY <1>2, <1>3 DEF LogFacts
<1>7. LogOf(s)' \in Seq(Data) /\ Len(LogOf(s)') = n + 1
  BY <1>2, <1>5 DEF LogFacts
<1>8. ASSUME NEW i \in 1..n PROVE LogOf(s)'[i] = LogOf(s)[i]
  <2>1. PICK e \in EventsOf(s) : events[e].version = i
    BY <1>3 DEF VersionsOf
  <2>2. e \in EventsOf(s)' /\ events'[e] = events[e]
    BY <1>1 DEF EventsOf
  <2>3. LogOf(s)[i] = events[e].data
    BY <1>2, <2>1 DEF LogFacts
  <2>4. LogOf(s)'[i] = events'[e].data
    BY <1>2, <2>1, <2>2 DEF LogFacts
  <2>. QED
    BY <2>2, <2>3, <2>4
<1>9. LogOf(s)'[n + 1] = d
  <2>1. id \in EventsOf(s)'
    BY <1>1 DEF EventsOf
  <2>2. events'[id].version = n + 1 /\ events'[id].data = d
    BY <1>1, <1>4
  <2>. QED
    BY <1>2, <2>1, <2>2 DEF LogFacts
<1>10. Append(LogOf(s), d) \in Seq(Data)
       /\ Len(Append(LogOf(s), d)) = n + 1
       /\ \A i \in 1..n : Append(LogOf(s), d)[i] = LogOf(s)[i]
       /\ Append(LogOf(s), d)[n + 1] = d
  BY <1>6, AppendProperties
<1>11. \A i \in 1..(n + 1) : LogOf(s)'[i] = Append(LogOf(s), d)[i]
  BY <1>8, <1>9, <1>10
<1>. QED
  BY <1>7, <1>10, <1>11, SeqEqual
---------------------------------------------------------------------------
(* What a step does to the logs.                                           *)

\* A stream whose events stay keeps its log.
LEMMA LogKept ==
    ASSUME Trusted, Trusted', NEW x \in StreamId,
           EventsOf(x)' = EventsOf(x), \A e \in EventsOf(x) : events'[e] = events[e]
    PROVE  LogOf(x)' = LogOf(x)
<1>1. LogFacts /\ LogFacts'
  BY LogFactsHold, LogFactsNext
<1>2. PICK n \in Nat : VersionsOf(x) = 1..n
  BY ConstantsAssumption DEF IInv, Contiguous, Trusted
<1>3. VersionsOf(x)' = VersionsOf(x)
  BY DEF VersionsOf
<1>4. /\ LogOf(x) \in Seq(Data) /\ Len(LogOf(x)) = n
      /\ LogOf(x)' \in Seq(Data) /\ Len(LogOf(x)') = n
  BY <1>1, <1>2, <1>3 DEF LogFacts
<1>5. ASSUME NEW i \in 1..n PROVE LogOf(x)'[i] = LogOf(x)[i]
  <2>1. PICK e \in EventsOf(x) : events[e].version = i
    BY <1>2 DEF VersionsOf
  <2>. QED
    BY <1>1, <2>1 DEF LogFacts
<1>. QED
  BY <1>4, <1>5, SeqEqual

LEMMA PushLeavesOthers ==
    ASSUME Trusted, Trusted', NEW p \in Proc, NEW s \in StreamId, NEW v \in Version,
           NEW d \in Data, AttachEvent(p, s, v, d), NEW x \in StreamId, x # s
    PROVE  LogOf(x)' = LogOf(x)
<1>1. PICK id \in EventId :
          /\ \A k \in DOMAIN events : k < id
          /\ DOMAIN events' = DOMAIN events \cup {id}
          /\ events'[id] = [stream_id |-> s, version |-> v, data |-> d]
          /\ \A e \in DOMAIN events : e # id /\ events'[e] = events[e]
  BY AttachEventRows DEF IInv, Trusted
<1>2. EventsOf(x)' = EventsOf(x) /\ \A e \in EventsOf(x) : events'[e] = events[e]
  BY <1>1 DEF EventsOf
<1>. QED
  BY <1>2, LogKept

LEMMA RemoveLeavesOthers ==
    ASSUME Trusted, Trusted', NEW p \in Proc, RemoveCommit(p),
           NEW x \in StreamId, x \notin removing[p]
    PROVE  LogOf(x)' = LogOf(x)
<1>1. DOMAIN events' = {k \in DOMAIN events : events[k].stream_id \notin removing[p]}
  BY DEF RemoveCommit
<1>2. \A e \in DOMAIN events' : events'[e] = events[e]
  BY DEF RemoveCommit
<1>3. EventsOf(x)' = EventsOf(x) /\ \A e \in EventsOf(x) : events'[e] = events[e]
  BY <1>1, <1>2 DEF EventsOf
<1>. QED
  BY <1>3, LogKept

\* The three steps that the abstract log sees.
LEMMA CreateStep ==
    ASSUME Trusted, Trusted', NEW p \in Proc, NEW t \in Type, CreateStream(p, t)
    PROVE  Log!Next
<1>1. PICK id \in StreamId :
          /\ IsNewRowid(DOMAIN streams, id)
          /\ streams' = [s \in DOMAIN streams \cup {id} |->
                            IF s = id THEN [type |-> t] ELSE streams[s]]
  BY DEF CreateStream
<1>2. id \notin DOMAIN streams /\ DOMAIN streams' = DOMAIN streams \cup {id}
  BY <1>1, ConstantsAssumption DEF IsNewRowid
<1>3. ASSUME NEW x \in StreamId PROVE LogOf(x)' = LogOf(x)
  <2>1. EventsOf(x)' = EventsOf(x) /\ \A e \in EventsOf(x) : events'[e] = events[e]
    BY DEF CreateStream, EventsOf
  <2>. QED
    BY <2>1, LogKept
<1>4. "foreign_keys" \notin lapsed => LogOf(id) = <<>>
  <2>. SUFFICES ASSUME "foreign_keys" \notin lapsed PROVE LogOf(id) = <<>>
    OBVIOUS
  <2>1. EventsOf(id) = {}
    BY <1>2 DEF IInv, NoOrphansWhileEnforced, EventsOf, Trusted
  <2>. QED
    BY <2>1, LogFactsHold DEF LogFacts
<1>5. lapsed' = lapsed
  BY DEF CreateStream
<1>6. Log!Create(id)
  BY <1>2, <1>3, <1>4, <1>5 DEF Log!Create
<1>. QED
  BY <1>6 DEF Log!Next

LEMMA PushStep ==
    ASSUME Trusted, Trusted', NEW p \in Proc, NEW s \in StreamId, NEW v \in Version,
           NEW d \in Data, AttachEvent(p, s, v, d)
    PROVE  Log!Next
<1>1. LogOf(s)' = Append(LogOf(s), d)
  BY PushAppends
<1>2. ASSUME NEW x \in StreamId, x # s PROVE LogOf(x)' = LogOf(x)
  BY <1>2, PushLeavesOthers
<1>3. [x \in StreamId |-> LogOf(x)]' =
          [[x \in StreamId |-> LogOf(x)] EXCEPT ![s] = Append(@, d)]
  BY <1>1, <1>2
<1>4. DOMAIN streams' = DOMAIN streams
  BY DEF AttachEvent
<1>5. "foreign_keys" \notin lapsed' => "foreign_keys" \notin lapsed /\ s \in DOMAIN streams
  BY DEF AttachEvent, Accepts, ForeignKeyHolds
<1>6. Log!Extend(s, d)
  BY <1>3, <1>4, <1>5 DEF Log!Extend
<1>. QED
  BY <1>6 DEF Log!Next

LEMMA RemoveStep ==
    ASSUME Trusted, Trusted', NEW p \in Proc, RemoveCommit(p)
    PROVE  Log!Next
<1>1. PICK s \in StreamId : removing[p] = {s}
  BY DEF RemoveCommit, IInv, TypeOK, Trusted
<1>2. LogOf(s)' = <<>>
  <2>1. \A e \in DOMAIN events' : e \in DOMAIN events /\ events[e].stream_id # s
    BY <1>1, RemoveCommitRows
  <2>2. \A e \in DOMAIN events' : events'[e] = events[e]
    BY RemoveCommitRows
  <2>3. EventsOf(s)' = {}
    BY <2>1, <2>2 DEF EventsOf
  <2>. QED
    BY <2>3, LogFactsNext DEF LogFacts
<1>3. ASSUME NEW x \in StreamId, x # s PROVE LogOf(x)' = LogOf(x)
  BY <1>1, <1>3, RemoveLeavesOthers
<1>4. [x \in StreamId |-> LogOf(x)]' = [[x \in StreamId |-> LogOf(x)] EXCEPT ![s] = <<>>]
  BY <1>2, <1>3
<1>5. DOMAIN streams' = DOMAIN streams \ {s} /\ lapsed' = lapsed
  BY <1>1, RemoveCommitRows DEF RemoveCommit
<1>6. Log!Drop(s)
  BY <1>4, <1>5 DEF Log!Drop
<1>. QED
  BY <1>6 DEF Log!Next

\* All the others leave it alone.
LEMMA HiddenStep ==
    ASSUME Trusted, Trusted', UNCHANGED <<streams, events, lapsed>>
    PROVE  UNCHANGED Log!vars
<1>1. ASSUME NEW x \in StreamId PROVE LogOf(x)' = LogOf(x)
  <2>1. EventsOf(x)' = EventsOf(x) /\ \A e \in EventsOf(x) : events'[e] = events[e]
    BY DEF EventsOf
  <2>. QED
    BY <2>1, LogKept
<1>. QED
  BY <1>1 DEF Log!vars

---------------------------------------------------------------------------
(* The refinement.                                                         *)

LEMMA InitLog == Init => Log!Init
<1>. SUFFICES ASSUME Init PROVE Log!Init
  OBVIOUS
<1>1. Trusted
  BY InitIInv DEF Init, Trusted
<1>2. \A s \in StreamId : LogOf(s) = <<>>
  <2>1. \A s \in StreamId : EventsOf(s) = {}
    BY DEF Init, EventsOf
  <2>. QED
    BY <1>1, <2>1, LogFactsHold DEF LogFacts
<1>. QED
  BY <1>2 DEF Init, Log!Init

LEMMA NextLog == Trusted /\ Trusted' /\ [Next]_vars => [Log!Next]_(Log!vars)
<1>. SUFFICES ASSUME Trusted, Trusted', [Next]_vars
              PROVE  Log!Next \/ UNCHANGED Log!vars
  OBVIOUS
<1>1. ASSUME NEW p \in Proc, InitDb(p) \/ Terminate(p)
      PROVE  UNCHANGED <<streams, events, lapsed>>
  BY <1>1 DEF InitDb, CheckFile, OpenFile, CreateTables, CreateTrigger, CreateProjections,
              Terminate, db
<1>2. ASSUME NEW p \in Proc, Write(p) PROVE Log!Next \/ UNCHANGED Log!vars
  <2>1. ASSUME (\E s \in StreamId : RemoveEvents(p, s)) \/ RemoveRollback(p)
        PROVE  UNCHANGED <<streams, events, lapsed>>
    BY <2>1 DEF RemoveEvents, RemoveRollback, db
  <2>. QED
    BY <1>2, <2>1, CreateStep, PushStep, RemoveStep, HiddenStep DEF Write
<1>3. CASE UNCHANGED vars
  BY <1>3, HiddenStep DEF vars, db
<1>. QED
  BY <1>1, <1>2, <1>3, HiddenStep DEF Next

\* However many servers and shells open the file, restart, crash, push and
\* delete, what clients see is a log per stream id, provided that the making of
\* the file was left alone.
THEOREM StoreImplementsLog ==
    ASSUME Exclusive
    PROVE  Spec => ImplementsLog
<1>1. IInv => Trusted
  BY DEF IInv, TriggerSeesAll, Trusted
<1>. QED
  BY <1>1, InductiveInvariant, InitLog, NextLog, PTL DEF Spec, ImplementsLog, Log!Spec
===========================================================================
