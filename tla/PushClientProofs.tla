------------------------ MODULE PushClientProofs ------------------------
(***************************************************************************)
(* Theorems about PushClient where the making of the file is left alone:   *)
(* for any clients, servers, shells, streams, attempts, crashes and        *)
(* deletions.  They rest on the logs of EventStoreProofs.                  *)
(***************************************************************************)
EXTENDS PushClient, EventStoreProofs, FiniteSetTheorems

---------------------------------------------------------------------------
(* The inductive invariant.                                                *)

Known == [at : {"idle", "knows", "found", "waiting", "unsure", "refused", "acked"},
          stream : StreamId \cup {0}, seen : Seq(Data), try : Nat, live : BOOLEAN,
          stale : BOOLEAN]

Call == [from : Client, try : Nat, stream : StreamId, version : Version,
         seen : Seq(Data), stale : BOOLEAN]

Outcome == [to : Client, status : {0, 1}]

PushTypes ==
    /\ client \in [Client -> Known]
    /\ calls \subseteq Call
    /\ answers \subseteq Outcome

\* The tables are made before the trigger.
TablesFirst ==
    /\ \A p \in Proc : pc[p] \in {"trigger", "projections"} => Tables \subseteq schema
    /\ "ver_valid" \in schema => Tables \subseteq schema

Extends(log, seen) == Len(seen) <= Len(log) /\ \A i \in 1..Len(seen) : log[i] = seen[i]

\* No stream has gone in this step.
StreamsStay == DOMAIN streams \subseteq DOMAIN streams'

Unseen(c, seen) == \A i \in 1..Len(seen) : seen[i] # c

\* What a client knows of its stream is true until the stream is deleted.
ClientKnows(c, k) ==
    k.at # "idle" =>
        /\ k.stream \in StreamId
        /\ ~k.stale => Extends(LogOf(k.stream), k.seen)
        /\ ~k.stale /\ k.live => k.stream \in DOMAIN streams
        /\ k.at # "found" => Unseen(c, k.seen)
        /\ k.at = "acked" /\ ~k.stale => Extends(LogOf(k.stream), Append(k.seen, c))

\* A call says what its client knew, and the last one what it still knows.
CallKnows(r) ==
    /\ client[r.from].at # "idle"
    /\ r.stream = client[r.from].stream
    /\ r.try \in 1..client[r.from].try
    /\ r.version = Len(r.seen) + 1
    /\ Unseen(r.from, r.seen)
    /\ ~r.stale => Extends(LogOf(r.stream), r.seen)
    /\ Awaited(r) => r.seen = client[r.from].seen /\ (r.stale => client[r.from].stale)

AnswerKnows(a) ==
    LET k == client[a.to] IN
    /\ k.at = "waiting"
    /\ a.status = 0 /\ ~k.stale => Extends(LogOf(k.stream), Append(k.seen, a.to))

\* An attempt is one call, and then at most one answer.
OncePerTry ==
    /\ \A q, r \in calls : q.from = r.from /\ q.try = r.try => q = r
    /\ \A a, b \in answers : a.to = b.to => a = b
    /\ \A a \in answers, r \in calls : r.from = a.to => r.try # client[a.to].try

\* What is stored was sent, to the stream of its client, and only once.
Sent ==
    \A e \in DOMAIN events :
        events[e].data \in Client =>
            /\ client[events[e].data].at # "idle"
            /\ events[e].stream_id = client[events[e].data].stream

Once ==
    ~abused => \A e, f \in DOMAIN events :
                  events[e].data \in Client /\ events[f].data = events[e].data => e = f

PushInv ==
    /\ PushTypes
    /\ TablesFirst
    /\ \A c \in Client : ClientKnows(c, client[c])
    /\ \A r \in calls : CallKnows(r)
    /\ \A a \in answers : AnswerKnows(a)
    /\ OncePerTry
    /\ Sent
    /\ Once

---------------------------------------------------------------------------
(* Logs and what extends them.                                             *)

LEMMA LogTyped ==
    ASSUME Trusted, NEW s \in StreamId
    PROVE  LogOf(s) \in Seq(Data) /\ VersionsOf(s) = 1..Len(LogOf(s))
<1>1. PICK n \in Nat : VersionsOf(s) = 1..n
  BY ConstantsAssumption DEF IInv, Contiguous, Trusted
<1>2. LogOf(s) \in Seq(Data) /\ Len(LogOf(s)) = n
  BY <1>1, LogFactsHold DEF LogFacts
<1>. QED
  BY <1>1, <1>2

LEMMA SameLogs ==
    ASSUME UNCHANGED events
    PROVE  \A s : LogOf(s)' = LogOf(s)
BY DEF LogOf, VersionsOf, EventsOf

LEMMA AppendExtends ==
    ASSUME NEW log \in Seq(Data), NEW d \in Data, NEW seen \in Seq(Data), Extends(log, seen)
    PROVE  /\ Extends(Append(log, d), seen)
           /\ Len(seen) = Len(log) => Extends(Append(log, d), Append(seen, d))
<1>1. Len(log) \in Nat /\ Len(seen) \in Nat
  BY LenProperties
<1>2. /\ Len(Append(log, d)) = Len(log) + 1 /\ Append(log, d)[Len(log) + 1] = d
      /\ \A i \in 1..Len(log) : Append(log, d)[i] = log[i]
  BY AppendProperties
<1>3. /\ Len(Append(seen, d)) = Len(seen) + 1 /\ Append(seen, d)[Len(seen) + 1] = d
      /\ \A i \in 1..Len(seen) : Append(seen, d)[i] = seen[i]
  BY AppendProperties
<1>4. Extends(Append(log, d), seen)
  BY <1>1, <1>2 DEF Extends
<1>5. ASSUME Len(seen) = Len(log) PROVE Extends(Append(log, d), Append(seen, d))
  <2>1. \A i \in 1..(Len(seen) + 1) : i \in 1..Len(seen) \/ i = Len(seen) + 1
    BY <1>1
  <2>. QED
    BY <1>1, <1>2, <1>3, <1>5, <2>1 DEF Extends
<1>. QED
  BY <1>4, <1>5

LEMMA EqualLogs ==
    ASSUME NEW log \in Seq(Data), NEW seen \in Seq(Data), Extends(log, seen)
    PROVE  log = seen <=> Len(log) = Len(seen)
BY SeqEqual DEF Extends

\* The version of an accepted push, and of one that would be accepted.
LEMMA NextIsOnTop ==
    ASSUME Trusted, NEW s \in StreamId, NEW v \in Version
    PROVE  VersionValid(s, v) <=> v = Len(LogOf(s)) + 1
<1>1. PICK n \in Nat : VersionsOf(s) = 1..n /\ n = Len(LogOf(s))
  BY LogTyped, LenProperties
<1>2. VersionValid(s, v) => v = n + 1
  BY <1>1, NextVersion
<1>3. v = n + 1 => VersionValid(s, v)
  BY <1>1 DEF VersionValid
<1>. QED
  BY <1>1, <1>2, <1>3

\* No event of the client is in a log in which it was not seen.
LEMMA NotInLog ==
    ASSUME Trusted, NEW c, NEW e \in DOMAIN events, events[e].data = c,
           Unseen(c, LogOf(events[e].stream_id))
    PROVE  FALSE
<1>. DEFINE s == events[e].stream_id
<1>1. s \in StreamId /\ e \in EventsOf(s)
  BY DEF Trusted, IInv, TypeOK, EventRow, EventsOf
<1>2. events[e].version \in 1..Len(LogOf(s))
  BY <1>1, LogTyped DEF VersionsOf
<1>3. LogOf(s)[events[e].version] = c
  BY <1>1, LogFactsHold DEF LogFacts
<1>. QED
  BY <1>2, <1>3 DEF Unseen

---------------------------------------------------------------------------
(* Steps that leave the events alone.                                      *)

LEMMA TablesFirstNext ==
    ASSUME TablesFirst, [Next]_vars, TypeOK
    PROVE  TablesFirst'
<1>1. ASSUME NEW p \in Proc, InitDb(p) PROVE TablesFirst'
  <2>1. CASE CheckFile(p)
    BY <2>1 DEF TablesFirst, TypeOK, CheckFile
  <2>2. CASE OpenFile(p)
    BY <2>2 DEF TablesFirst, TypeOK, OpenFile
  <2>3. CASE CreateTables(p)
    BY <2>3 DEF TablesFirst, TypeOK, CreateTables, Tables
  <2>4. CASE CreateTrigger(p)
    BY <2>4 DEF TablesFirst, TypeOK, CreateTrigger, Tables
  <2>5. CASE CreateProjections(p)
    BY <2>5 DEF TablesFirst, TypeOK, CreateProjections, Tables
  <2>. QED
    BY <1>1, <2>1, <2>2, <2>3, <2>4, <2>5 DEF InitDb
<1>2. ASSUME NEW p \in Proc, Write(p) PROVE TablesFirst'
  BY <1>2 DEF TablesFirst, Write, CreateStream, AttachEvent, RemoveEvents, RemoveCommit,
              RemoveRollback
<1>3. ASSUME NEW p \in Proc, Terminate(p) PROVE TablesFirst'
  BY <1>3 DEF TablesFirst, TypeOK, Terminate
<1>4. CASE UNCHANGED vars
  BY <1>4 DEF TablesFirst, vars
<1>. QED
  BY <1>1, <1>2, <1>3, <1>4 DEF Next

\* Calls and answers get lost, or nothing happens at all.
LEMMA LossInv ==
    ASSUME PushInv, TablesFirst', StreamsStay, UNCHANGED <<events, client, abused>>,
           calls' \subseteq calls, answers' \subseteq answers
    PROVE  PushInv'
<1>1. \A s : LogOf(s)' = LogOf(s)
  BY SameLogs
<1>2. PushTypes' /\ OncePerTry' /\ Sent' /\ Once'
  BY DEF PushInv, PushTypes, OncePerTry, Sent, Once
<1>3. ASSUME NEW c \in Client PROVE ClientKnows(c, client[c])'
  BY <1>1 DEF PushInv, ClientKnows, StreamsStay
<1>4. ASSUME NEW r \in calls' PROVE CallKnows(r)'
  BY <1>1 DEF PushInv, CallKnows, Awaited
<1>5. ASSUME NEW a \in answers' PROVE AnswerKnows(a)'
  BY <1>1 DEF PushInv, AnswerKnows
<1>. QED
  BY <1>2, <1>3, <1>4, <1>5 DEF PushInv

---------------------------------------------------------------------------
(* Steps of the clients.                                                   *)

\* A client that reads, gives up or is answered: it waits for nothing any more.
LEMMA ClientStep ==
    ASSUME PushInv, TablesFirst', UNCHANGED <<streams, events, abused, calls>>,
           NEW c \in Client, NEW k \in Known,
           client' = [client EXCEPT ![c] = k],
           answers' = {a \in answers : a.to # c},
           ClientKnows(c, k), k.at \notin {"idle", "waiting"}, k.try = client[c].try,
           client[c].at # "idle" => k.stream = client[c].stream
    PROVE  PushInv'
<1>1. \A s : LogOf(s)' = LogOf(s)
  BY SameLogs
<1>2. client'[c] = k /\ \A d \in Client \ {c} : client'[d] = client[d]
  BY DEF PushInv, PushTypes
<1>3. PushTypes'
  BY DEF PushInv, PushTypes
<1>4. ASSUME NEW d \in Client PROVE ClientKnows(d, client[d])'
  BY <1>1, <1>2 DEF PushInv, ClientKnows
<1>5. ASSUME NEW r \in calls PROVE CallKnows(r)'
  <2>1. r.from \in Client /\ CallKnows(r)
    BY DEF PushInv, PushTypes, Call
  <2>2. CASE r.from = c
    BY <1>1, <1>2, <2>1, <2>2 DEF CallKnows, Awaited
  <2>3. CASE r.from # c
    BY <1>1, <1>2, <2>1, <2>3 DEF CallKnows, Awaited
  <2>. QED
    BY <2>2, <2>3
<1>6. ASSUME NEW a \in answers' PROVE AnswerKnows(a)'
  <2>1. a \in answers /\ a.to \in Client \ {c} /\ AnswerKnows(a)
    BY DEF PushInv, PushTypes, Outcome
  <2>. QED
    BY <1>1, <1>2, <2>1 DEF AnswerKnows
<1>7. OncePerTry'
  <2>1. \A a \in answers' : a \in answers /\ client'[a.to].try = client[a.to].try
    BY <1>2 DEF PushInv, PushTypes, Outcome
  <2>. QED
    BY <2>1 DEF PushInv, OncePerTry
<1>8. Sent' /\ Once'
  BY <1>2 DEF PushInv, Sent, Once
<1>. QED
  BY <1>3, <1>4, <1>5, <1>6, <1>7, <1>8 DEF PushInv

\* A client's history is as much of the log as it can see.
LEMMA HistoryExtends ==
    ASSUME Trusted, NEW s \in StreamId
    PROVE  History(s) \in Seq(Data) /\ Extends(LogOf(s), History(s))
<1>1. LogOf(s) \in Seq(Data) /\ Len(LogOf(s)) \in Nat
  BY LogTyped, LenProperties
<1>2. Extends(LogOf(s), LogOf(s))
  BY <1>1 DEF Extends
<1>3. <<>> \in Seq(Data) /\ Len(<<>>) = 0
  BY EmptySeq
<1>4. Extends(LogOf(s), <<>>)
  BY <1>1, <1>3 DEF Extends
<1>. QED
  BY <1>1, <1>2, <1>3, <1>4 DEF History

LEMMA ReadStep ==
    ASSUME Trusted, PushInv, TablesFirst', NEW c \in Client, NEW s \in StreamId, Read(c, s)
    PROVE  PushInv'
<1>1. PICK h : h = History(s)
  OBVIOUS
<1>2. h \in Seq(Data) /\ Extends(LogOf(s), h)
  BY <1>1, HistoryExtends
<1>3. PICK at \in {"found", "knows"} :
          at = IF \E i \in DOMAIN h : h[i] = c THEN "found" ELSE "knows"
  OBVIOUS
<1>4. at = "knows" => Unseen(c, h)
  <2>1. DOMAIN h = 1..Len(h)
    BY <1>2, LenProperties
  <2>. QED
    BY <1>3, <2>1 DEF Unseen
<1>5. client[c] \in Known
  BY DEF PushInv, PushTypes
<1>6. PICK live \in BOOLEAN : live <=> s \in DOMAIN streams
  OBVIOUS
<1>7. PICK k \in Known :
          /\ k.at = at /\ k.stream = s /\ k.seen = h /\ k.live = live /\ k.stale = FALSE
          /\ k.try = client[c].try
          /\ client' = [client EXCEPT ![c] = k]
  <2>1. PICK j \in Known : j = client[c]
    BY <1>5
  <2>2. PICK i \in Known : i = [j EXCEPT !.at = at, !.stream = s]
    BY DEF Known
  <2>3. i.at = at /\ i.stream = s /\ i.try = j.try
    BY <2>2 DEF Known
  <2>4. PICK m \in Known : m = [i EXCEPT !.seen = h]
    BY <1>2 DEF Known
  <2>5. m.at = at /\ m.stream = s /\ m.try = j.try /\ m.seen = h
    BY <1>2, <2>3, <2>4 DEF Known
  <2>6. PICK n \in Known : n = [m EXCEPT !.live = live]
    BY DEF Known
  <2>7. n.at = at /\ n.stream = s /\ n.try = j.try /\ n.seen = h /\ n.live = live
    BY <2>5, <2>6 DEF Known
  <2>8. PICK p \in Known : p = [n EXCEPT !.stale = FALSE]
    BY DEF Known
  <2>9. /\ p.at = at /\ p.stream = s /\ p.try = j.try /\ p.seen = h /\ p.live = live
        /\ p.stale = FALSE
    BY <2>7, <2>8 DEF Known
  <2>10. [j EXCEPT !.at = at, !.stream = s, !.seen = h, !.live = live, !.stale = FALSE] = p
    BY <2>2, <2>4, <2>6, <2>8
  <2>11. client' = [client EXCEPT ![c] = p]
    BY <1>1, <1>3, <1>6, <2>1, <2>10 DEF Read
  <2>. QED
    BY <2>1, <2>9, <2>11
<1>8. ClientKnows(c, k)
  BY <1>2, <1>4, <1>6, <1>7 DEF ClientKnows
<1>9. answers' = {a \in answers : a.to # c}
  <2>1. \A a \in answers : a.to # c
    BY DEF Read, PushInv, AnswerKnows
  <2>. QED
    BY <2>1 DEF Read
<1>10. client[c].at # "idle" => k.stream = client[c].stream
  BY <1>7 DEF Read
<1>11. UNCHANGED <<streams, events, abused, calls>>
  BY DEF Read, vars, db
<1>12. k.at \notin {"idle", "waiting"}
  BY <1>7
<1>. QED
  BY <1>7, <1>8, <1>9, <1>10, <1>11, <1>12, ClientStep

LEMMA TimeoutStep ==
    ASSUME PushInv, TablesFirst', NEW c \in Client, Timeout(c)
    PROVE  PushInv'
<1>1. client[c] \in Known /\ ClientKnows(c, client[c])
  BY DEF PushInv, PushTypes
<1>2. PICK k : k = [client[c] EXCEPT !.at = "unsure"]
  OBVIOUS
<1>3. /\ k \in Known /\ k.at = "unsure" /\ k.stream = client[c].stream
      /\ k.seen = client[c].seen /\ k.stale = client[c].stale /\ k.try = client[c].try
      /\ k.live = client[c].live
  BY <1>1, <1>2 DEF Known
<1>4. client' = [client EXCEPT ![c] = k]
  BY <1>2 DEF Timeout
<1>5. ClientKnows(c, k)
  BY <1>1, <1>3 DEF ClientKnows, Timeout
<1>6. answers' = {a \in answers : a.to # c} /\ UNCHANGED <<streams, events, abused, calls>>
  BY DEF Timeout, vars, db
<1>7. k.at \notin {"idle", "waiting"}
  BY <1>3
<1>. QED
  BY <1>3, <1>4, <1>5, <1>6, <1>7, ClientStep

LEMMA ReceiveStep ==
    ASSUME PushInv, TablesFirst', NEW c \in Client, Receive(c)
    PROVE  PushInv'
<1>1. client[c] \in Known /\ ClientKnows(c, client[c])
  BY DEF PushInv, PushTypes
<1>2. PICK a \in answers :
          /\ a.to = c
          /\ client' = [client EXCEPT ![c].at = IF a.status = 0 THEN "acked" ELSE "refused"]
          /\ answers' = answers \ {a}
  BY DEF Receive
<1>3. AnswerKnows(a)
  BY DEF PushInv
<1>4. PICK k : k = [client[c] EXCEPT !.at = IF a.status = 0 THEN "acked" ELSE "refused"]
  OBVIOUS
<1>5. /\ k \in Known /\ k.at = (IF a.status = 0 THEN "acked" ELSE "refused")
      /\ k.stream = client[c].stream /\ k.seen = client[c].seen
      /\ k.stale = client[c].stale /\ k.try = client[c].try /\ k.live = client[c].live
  BY <1>1, <1>4 DEF Known
<1>6. client' = [client EXCEPT ![c] = k]
  BY <1>2, <1>4
<1>7. ClientKnows(c, k)
  BY <1>1, <1>2, <1>3, <1>5 DEF ClientKnows, AnswerKnows
<1>8. answers' = {b \in answers : b.to # c}
  BY <1>2 DEF PushInv, OncePerTry
<1>9. UNCHANGED <<streams, events, abused, calls>>
  BY DEF Receive, vars, db
<1>10. k.at \notin {"idle", "waiting"}
  BY <1>5
<1>. QED
  BY <1>5, <1>6, <1>7, <1>8, <1>9, <1>10, ClientStep

LEMMA SendStep ==
    ASSUME PushInv, TablesFirst', NEW c \in Client, Send(c)
    PROVE  PushInv'
<1>1. client[c] \in Known /\ ClientKnows(c, client[c])
  BY DEF PushInv, PushTypes
<1>2. PICK n : n = [from |-> c, try |-> client[c].try + 1, stream |-> client[c].stream,
                    version |-> Len(client[c].seen) + 1, seen |-> client[c].seen,
                    stale |-> client[c].stale]
  OBVIOUS
<1>3. calls' = calls \cup {n} /\ UNCHANGED <<streams, events, answers, abused>>
  BY <1>2 DEF Send, vars, db
<1>4. PICK k : k = [at |-> "waiting", stream |-> client[c].stream, seen |-> client[c].seen,
                    try |-> client[c].try + 1, live |-> client[c].live,
                    stale |-> client[c].stale]
  OBVIOUS
<1>5. /\ k \in Known /\ k.at = "waiting" /\ k.stream = client[c].stream
      /\ k.seen = client[c].seen /\ k.stale = client[c].stale /\ k.try = client[c].try + 1
      /\ k.live = client[c].live
  BY <1>1, <1>4 DEF Known
<1>6. client' = [client EXCEPT ![c] = k]
  <2>1. PICK j \in Known : j = client[c]
    BY <1>1
  <2>2. PICK i \in Known : i = [j EXCEPT !.at = "waiting"]
    BY <2>1 DEF Known
  <2>3. /\ i.at = "waiting" /\ i.stream = j.stream /\ i.seen = j.seen
        /\ i.try = j.try /\ i.live = j.live /\ i.stale = j.stale
    BY <2>1, <2>2 DEF Known
  <2>4. [i EXCEPT !.try = i.try + 1] = k
    BY <1>4, <2>1, <2>3 DEF Known
  <2>. QED
    BY <2>1, <2>2, <2>3, <2>4 DEF Send
<1>7. client'[c] = k /\ \A d \in Client \ {c} : client'[d] = client[d]
  BY <1>6 DEF PushInv, PushTypes
<1>8. /\ client[c].stream \in StreamId /\ Unseen(c, client[c].seen)
      /\ ~client[c].stale => Extends(LogOf(client[c].stream), client[c].seen)
      /\ ~client[c].stale /\ client[c].live => client[c].stream \in DOMAIN streams
  BY <1>1 DEF ClientKnows, Send
<1>9. n \in Call
  BY <1>1, <1>2, <1>8 DEF Call, Known, Send
<1>10. \A s : LogOf(s)' = LogOf(s)
  BY <1>3, SameLogs
<1>11. PushTypes'
  BY <1>3, <1>5, <1>6, <1>9 DEF PushInv, PushTypes
<1>12. ASSUME NEW d \in Client PROVE ClientKnows(d, client[d])'
  <2>1. CASE d = c
    BY <1>3, <1>5, <1>7, <1>8, <1>10, <2>1 DEF ClientKnows
  <2>2. CASE d # c
    BY <1>3, <1>7, <1>10, <2>2 DEF PushInv, ClientKnows
  <2>. QED
    BY <2>1, <2>2
<1>13. ASSUME NEW r \in calls
       PROVE  CallKnows(r)' /\ (r.from = c => r.try # k.try)
  <2>1. r.from \in Client /\ r.try \in Nat /\ CallKnows(r)
    BY DEF PushInv, PushTypes, Call
  <2>2. CASE r.from = c
    <3>1. r.try \in 1..client[c].try /\ client[c].try \in Nat
      BY <1>1, <2>1, <2>2 DEF CallKnows, Known
    <3>2. r.try # k.try /\ r.try \in 1..k.try
      BY <1>5, <3>1
    <3>. QED
      BY <1>5, <1>7, <1>10, <2>1, <2>2, <3>2 DEF CallKnows, Awaited
  <2>3. CASE r.from # c
    BY <1>7, <1>10, <2>1, <2>3 DEF CallKnows, Awaited
  <2>. QED
    BY <2>2, <2>3
<1>14. CallKnows(n)'
  <2>1. k.try \in 1..k.try
    BY <1>1, <1>5 DEF Known
  <2>2. /\ n.from = c /\ n.try = k.try /\ n.stream = k.stream
        /\ n.version = Len(n.seen) + 1 /\ n.seen = k.seen /\ n.stale = k.stale
    BY <1>2, <1>5
  <2>. QED
    BY <1>5, <1>7, <1>8, <1>10, <2>1, <2>2 DEF CallKnows, Awaited
<1>15. \A a \in answers : a.to \in Client \ {c}
  BY DEF PushInv, PushTypes, Outcome, AnswerKnows, Send
<1>16. ASSUME NEW a \in answers PROVE AnswerKnows(a)'
  BY <1>7, <1>10, <1>15 DEF PushInv, AnswerKnows
<1>17. OncePerTry'
  <2>1. n.from = c /\ n.try = k.try
    BY <1>2, <1>5
  <2>2. \A q, r \in calls' : q.from = r.from /\ q.try = r.try => q = r
    BY <1>3, <1>13, <2>1 DEF PushInv, OncePerTry
  <2>3. \A a \in answers, r \in calls' : r.from = a.to => r.try # client'[a.to].try
    BY <1>3, <1>7, <1>15, <2>1 DEF PushInv, OncePerTry
  <2>. QED
    BY <1>3, <2>2, <2>3 DEF PushInv, OncePerTry
<1>18. Sent' /\ Once'
  BY <1>3, <1>5, <1>7 DEF PushInv, Sent, Once
<1>. QED
  BY <1>3, <1>11, <1>12, <1>13, <1>14, <1>16, <1>17, <1>18 DEF PushInv

---------------------------------------------------------------------------
(* Steps of the servers and of the shells.                                 *)

\* A call is answered, at most once, and only to the attempt that made it.
LEMMA AnswerOnce ==
    ASSUME PushInv, UNCHANGED client, NEW r \in calls, calls' = calls \ {r},
           NEW status \in {0, 1}, Answer(r, status)
    PROVE  OncePerTry' /\ answers' \subseteq Outcome
<1>1. CASE ~Awaited(r)
  BY <1>1 DEF Answer, PushInv, PushTypes, OncePerTry
<1>2. CASE Awaited(r)
  <2>1. PICK n : n = [to |-> r.from, status |-> status]
    OBVIOUS
  <2>2. n \in Outcome /\ n.to = r.from
    BY <2>1 DEF Outcome, PushInv, PushTypes, Call
  <2>3. answers' = answers \cup {n}
    BY <1>2, <2>1 DEF Answer
  <2>4. \A a \in answers : a.to # n.to
    BY <1>2, <2>2 DEF Awaited, PushInv, OncePerTry
  <2>5. \A q \in calls' : q.from = n.to => q.try # client[n.to].try
    BY <1>2, <2>2 DEF Awaited, PushInv, OncePerTry
  <2>. QED
    BY <2>2, <2>3, <2>4, <2>5 DEF PushInv, PushTypes, OncePerTry
<1>. QED
  BY <1>1, <1>2

LEMMA AcceptStep ==
    ASSUME Trusted, Trusted', PushInv, TablesFirst', NEW p \in Proc, NEW r \in calls,
           AttachEvent(p, r.stream, r.version, r.from), UNCHANGED client,
           calls' = calls \ {r}, Answer(r, 0), abused' = (abused \/ r.stale)
    PROVE  PushInv'
<1>1. PICK s \in StreamId, v \in Version, c \in Client :
          s = r.stream /\ v = r.version /\ c = r.from
  BY DEF PushInv, PushTypes, Call
<1>2. c \in Data /\ AttachEvent(p, s, v, c)
  BY <1>1, ClientAssumption
<1>3. PICK log \in Seq(Data) : log = LogOf(s)
  BY LogTyped
<1>4. LogOf(s)' = Append(log, c) /\ \A x \in StreamId \ {s} : LogOf(x)' = LogOf(x)
  BY <1>2, <1>3, PushAppends, PushLeavesOthers
<1>5. CallKnows(r) /\ r.seen \in Seq(Data)
  BY DEF PushInv, PushTypes, Call
<1>6. Len(r.seen) = Len(log)
  <2>1. v = Len(log) + 1
    BY <1>2, <1>3, NextIsOnTop DEF AttachEvent, Accepts, Trusted
  <2>2. Len(log) \in Nat /\ Len(r.seen) \in Nat
    BY <1>5, LenProperties
  <2>. QED
    BY <1>1, <1>5, <2>1, <2>2 DEF CallKnows
<1>7. \A x \in StreamId, seen \in Seq(Data) :
          Extends(LogOf(x), seen) => Extends(LogOf(x)', seen)
  <2>. SUFFICES ASSUME NEW x \in StreamId, NEW seen \in Seq(Data), Extends(LogOf(x), seen)
                PROVE  Extends(LogOf(x)', seen)
    OBVIOUS
  <2>1. CASE x = s
    BY <1>2, <1>3, <1>4, <2>1, AppendExtends
  <2>2. CASE x # s
    BY <1>4, <2>2
  <2>. QED
    BY <2>1, <2>2
<1>8. \A d \in Client :
          client[d].seen \in Seq(Data) /\ Append(client[d].seen, d) \in Seq(Data)
  BY ClientAssumption, AppendProperties DEF PushInv, PushTypes, Known
<1>9. OncePerTry' /\ PushTypes'
  BY AnswerOnce DEF PushInv, PushTypes
<1>10. ASSUME NEW d \in Client PROVE ClientKnows(d, client[d])'
  <2>1. UNCHANGED streams
    BY DEF AttachEvent
  <2>. QED
    BY <1>7, <1>8, <2>1 DEF PushInv, ClientKnows
<1>11. ASSUME NEW q \in calls' PROVE CallKnows(q)'
  BY <1>7 DEF PushInv, PushTypes, Call, CallKnows, Awaited
<1>12. ASSUME NEW a \in answers' PROVE AnswerKnows(a)'
  <2>1. CASE a \in answers
    <3>1. a.to \in Client /\ AnswerKnows(a) /\ ClientKnows(a.to, client[a.to])
      BY <2>1 DEF PushInv, PushTypes, Outcome
    <3>. QED
      BY <1>7, <1>8, <3>1 DEF AnswerKnows, ClientKnows
  <2>2. CASE a \notin answers
    <3>1. Awaited(r) /\ a.to = c
      BY <1>1, <2>2 DEF Answer
    <3>2. client[c].at = "waiting" /\ client[c].stream = s /\ client[c].seen = r.seen
      BY <1>1, <1>5, <3>1 DEF CallKnows, Awaited
    <3>3. ASSUME ~client[c].stale PROVE Extends(LogOf(s)', Append(r.seen, c))
      <4>1. Extends(log, r.seen)
        BY <1>1, <1>3, <1>5, <3>1, <3>3 DEF CallKnows
      <4>. QED
        BY <1>2, <1>4, <1>5, <1>6, <4>1, AppendExtends
    <3>. QED
      BY <3>1, <3>2, <3>3 DEF AnswerKnows
  <2>. QED
    BY <2>1, <2>2
<1>13. PICK id \in EventId :
           /\ \A k \in DOMAIN events : k < id
           /\ DOMAIN events' = DOMAIN events \cup {id}
           /\ events'[id] = [stream_id |-> s, version |-> v, data |-> c]
           /\ \A e \in DOMAIN events : e # id /\ events'[e] = events[e]
  BY <1>2, AttachEventRows DEF IInv, Trusted
<1>14. client[c].at # "idle" /\ client[c].stream = s
  BY <1>1, <1>5 DEF CallKnows
<1>15. Sent'
  BY <1>13, <1>14 DEF PushInv, Sent
<1>16. ASSUME ~r.stale, NEW e \in DOMAIN events, events[e].data = c PROVE FALSE
  <2>1. log = r.seen
    BY <1>1, <1>3, <1>5, <1>6, <1>16, EqualLogs DEF CallKnows
  <2>2. events[e].stream_id = s
    BY <1>14, <1>16 DEF PushInv, Sent
  <2>3. Unseen(c, LogOf(events[e].stream_id))
    BY <1>1, <1>3, <1>5, <2>1, <2>2 DEF CallKnows
  <2>. QED
    BY <1>16, <2>3, NotInLog
<1>17. Once'
  <2>. SUFFICES ASSUME ~abused', NEW e \in DOMAIN events', NEW f \in DOMAIN events',
                       events'[e].data \in Client, events'[f].data = events'[e].data
                PROVE  e = f
    BY DEF Once
  <2>1. ~abused /\ ~r.stale
    OBVIOUS
  <2>2. CASE e = id \/ f = id
    BY <1>13, <1>16, <2>1, <2>2
  <2>3. CASE e # id /\ f # id
    BY <1>13, <2>1, <2>3 DEF PushInv, Once
  <2>. QED
    BY <2>2, <2>3
<1>. QED
  BY <1>9, <1>10, <1>11, <1>12, <1>15, <1>17 DEF PushInv

LEMMA RefuseStep ==
    ASSUME PushInv, TablesFirst', NEW r \in calls,
           UNCHANGED <<streams, events, client, abused>>,
           calls' = calls \ {r}, Answer(r, 1)
    PROVE  PushInv'
<1>1. \A s : LogOf(s)' = LogOf(s)
  BY SameLogs
<1>2. OncePerTry' /\ PushTypes'
  BY AnswerOnce DEF PushInv, PushTypes
<1>3. ASSUME NEW d \in Client PROVE ClientKnows(d, client[d])'
  BY <1>1 DEF PushInv, ClientKnows
<1>4. ASSUME NEW q \in calls' PROVE CallKnows(q)'
  BY <1>1 DEF PushInv, CallKnows, Awaited
<1>5. ASSUME NEW a \in answers' PROVE AnswerKnows(a)'
  BY <1>1 DEF PushInv, AnswerKnows, Answer, Awaited
<1>6. Sent' /\ Once'
  BY DEF PushInv, Sent, Once
<1>. QED
  BY <1>2, <1>3, <1>4, <1>5, <1>6 DEF PushInv

\* A deletion makes stale what is known of its stream, and changes nothing else.
LEMMA DeletionMarks ==
    ASSUME PushTypes, NEW p \in Proc, DeleteStream(p)
    PROVE  /\ client' \in [Client -> Known]
           /\ \A c \in Client :
                 /\ client'[c].at = client[c].at /\ client'[c].stream = client[c].stream
                 /\ client'[c].seen = client[c].seen /\ client'[c].try = client[c].try
                 /\ client'[c].live = client[c].live
                 /\ client'[c].stale <=> client[c].stale \/ client[c].stream \in removing[p]
           /\ calls' \subseteq Call
           /\ \A q \in calls' : \E r \in calls :
                 /\ q.from = r.from /\ q.try = r.try /\ q.stream = r.stream
                 /\ q.version = r.version /\ q.seen = r.seen
                 /\ q.stale <=> r.stale \/ r.stream \in removing[p]
                 /\ q = [r EXCEPT !.stale = @ \/ r.stream \in removing[p]]
<1>1. ASSUME NEW c \in Client
      PROVE  /\ client'[c] \in Known
             /\ client'[c].at = client[c].at /\ client'[c].stream = client[c].stream
             /\ client'[c].seen = client[c].seen /\ client'[c].try = client[c].try
             /\ client'[c].live = client[c].live
             /\ client'[c].stale <=> client[c].stale \/ client[c].stream \in removing[p]
  <2>1. PICK k \in Known : k = client[c]
    BY DEF PushTypes
  <2>2. PICK b \in BOOLEAN : b <=> k.stale \/ k.stream \in removing[p]
    OBVIOUS
  <2>3. client'[c] = [k EXCEPT !.stale = b]
    BY <2>1, <2>2 DEF DeleteStream, Known
  <2>4. /\ [k EXCEPT !.stale = b] \in Known
        /\ [k EXCEPT !.stale = b].at = k.at /\ [k EXCEPT !.stale = b].stream = k.stream
        /\ [k EXCEPT !.stale = b].seen = k.seen /\ [k EXCEPT !.stale = b].try = k.try
        /\ [k EXCEPT !.stale = b].live = k.live /\ [k EXCEPT !.stale = b].stale = b
    BY DEF Known
  <2>. QED
    BY <2>1, <2>2, <2>3, <2>4
<1>2. ASSUME NEW r \in calls, NEW q, q = [r EXCEPT !.stale = @ \/ r.stream \in removing[p]]
      PROVE  /\ q \in Call
             /\ q.from = r.from /\ q.try = r.try /\ q.stream = r.stream
             /\ q.version = r.version /\ q.seen = r.seen
             /\ q.stale <=> r.stale \/ r.stream \in removing[p]
  <2>1. r \in Call
    BY DEF PushTypes
  <2>2. PICK b \in BOOLEAN : b <=> r.stale \/ r.stream \in removing[p]
    OBVIOUS
  <2>3. q = [r EXCEPT !.stale = b]
    BY <1>2, <2>1, <2>2 DEF Call
  <2>4. /\ [r EXCEPT !.stale = b] \in Call
        /\ [r EXCEPT !.stale = b].from = r.from /\ [r EXCEPT !.stale = b].try = r.try
        /\ [r EXCEPT !.stale = b].stream = r.stream /\ [r EXCEPT !.stale = b].seen = r.seen
        /\ [r EXCEPT !.stale = b].version = r.version /\ [r EXCEPT !.stale = b].stale = b
    BY <2>1 DEF Call
  <2>. QED
    BY <2>2, <2>3, <2>4
<1>3. \A q \in calls' : \E r \in calls :
          q = [r EXCEPT !.stale = @ \/ r.stream \in removing[p]]
  BY DEF DeleteStream
<1>4. client' \in [Client -> Known]
  BY <1>1 DEF DeleteStream
<1>. QED
  BY <1>1, <1>2, <1>3, <1>4

LEMMA DeletionStep ==
    ASSUME Trusted, Trusted', PushInv, TablesFirst', NEW p \in Proc, DeleteStream(p)
    PROVE  PushInv'
<1>1. PICK D : D = removing[p]
  OBVIOUS
<1>2. /\ client' \in [Client -> Known]
      /\ \A c \in Client :
            /\ client'[c].at = client[c].at /\ client'[c].stream = client[c].stream
            /\ client'[c].seen = client[c].seen /\ client'[c].try = client[c].try
            /\ client'[c].live = client[c].live
            /\ client'[c].stale <=> client[c].stale \/ client[c].stream \in D
      /\ calls' \subseteq Call
      /\ \A q \in calls' : \E r \in calls :
            /\ q.from = r.from /\ q.try = r.try /\ q.stream = r.stream
            /\ q.version = r.version /\ q.seen = r.seen
            /\ q.stale <=> r.stale \/ r.stream \in D
            /\ q = [r EXCEPT !.stale = @ \/ r.stream \in D]
  BY <1>1, DeletionMarks DEF PushInv
<1>3. RemoveCommit(p) /\ answers' = answers /\ abused' = abused
  BY DEF DeleteStream
<1>4. \A x \in StreamId \ D : LogOf(x)' = LogOf(x)
  BY <1>1, <1>3, RemoveLeavesOthers
<1>5. ASSUME NEW c \in Client PROVE ClientKnows(c, client[c])'
  <2>1. ClientKnows(c, client[c])
    BY DEF PushInv
  <2>2. DOMAIN streams \ D \subseteq DOMAIN streams'
    BY <1>1, <1>3 DEF RemoveCommit
  <2>. QED
    BY <1>2, <1>4, <2>1, <2>2 DEF ClientKnows
<1>6. ASSUME NEW q \in calls' PROVE CallKnows(q)'
  <2>1. PICK r \in calls :
            /\ q.from = r.from /\ q.try = r.try /\ q.stream = r.stream
            /\ q.version = r.version /\ q.seen = r.seen
            /\ q.stale <=> r.stale \/ r.stream \in D
    BY <1>2
  <2>2. CallKnows(r) /\ r.from \in Client /\ r.stream \in StreamId
    BY DEF PushInv, PushTypes, Call
  <2>. QED
    BY <1>2, <1>4, <2>1, <2>2 DEF CallKnows, Awaited
<1>7. ASSUME NEW a \in answers' PROVE AnswerKnows(a)'
  <2>1. a.to \in Client /\ AnswerKnows(a) /\ ClientKnows(a.to, client[a.to])
    BY <1>3 DEF PushInv, PushTypes, Outcome
  <2>. QED
    BY <1>2, <1>4, <2>1 DEF AnswerKnows, ClientKnows
<1>8. OncePerTry'
  <2>1. \A q, t \in calls' : q.from = t.from /\ q.try = t.try => q = t
    BY <1>2 DEF PushInv, OncePerTry
  <2>2. \A a \in answers : a.to \in Client
    BY DEF PushInv, PushTypes, Outcome
  <2>3. \A a \in answers, q \in calls' : q.from = a.to => q.try # client'[a.to].try
    BY <1>2, <2>2 DEF PushInv, OncePerTry
  <2>. QED
    BY <1>3, <2>1, <2>3 DEF PushInv, OncePerTry
<1>9. Sent' /\ Once'
  <2>1. /\ DOMAIN events' \subseteq DOMAIN events
        /\ \A e \in DOMAIN events' : events'[e] = events[e]
    BY <1>3, RemoveCommitRows
  <2>. QED
    BY <1>2, <1>3, <2>1 DEF PushInv, Sent, Once
<1>. QED
  BY <1>2, <1>3, <1>5, <1>6, <1>7, <1>8, <1>9 DEF PushInv, PushTypes

---------------------------------------------------------------------------
(* The invariant holds.                                                    *)

\* What clients and servers do to the database is what EventStore describes.
LEMMA StepsOfTheStore == PushTypes /\ [PushNext]_pushVars => [Next]_vars
<1>. SUFFICES ASSUME PushTypes, PushNext PROVE [Next]_vars
  BY DEF pushVars
<1>1. ASSUME NEW c \in Client,
             (\E s \in StreamId : Read(c, s)) \/ Send(c) \/ Timeout(c) \/ Receive(c)
      PROVE  UNCHANGED vars
  BY <1>1 DEF Read, Send, Timeout, Receive
<1>2. ASSUME NEW p \in Proc, NEW r \in calls, PushEvent(p, r) PROVE [Next]_vars
  <2>1. r.stream \in StreamId /\ r.version \in Version /\ r.from \in Data
    BY ClientAssumption DEF PushTypes, Call
  <2>. QED
    BY <1>2, <2>1 DEF PushEvent, Next, Write
<1>3. ASSUME NEW p \in Proc, DeleteStream(p) \/ Store(p) \/ End(p) PROVE Next
  BY <1>3 DEF DeleteStream, Store, End, Next, Write
<1>. QED
  BY <1>1, <1>2, <1>3 DEF PushNext

LEMMA TriggerTrusted == Exclusive /\ IInv => Trusted
BY DEF IInv, TriggerSeesAll, Trusted

LEMMA NextPushInv ==
    ASSUME Exclusive, IInv, PushInv, [PushNext]_pushVars
    PROVE  IInv' /\ PushInv'
<1>1. [Next]_vars
  BY StepsOfTheStore DEF PushInv
<1>2. Trusted /\ IInv'
  BY <1>1, NextIInv, TriggerTrusted
<1>3. Trusted'
  BY <1>2 DEF IInv, TriggerSeesAll, Trusted
<1>4. TablesFirst'
  BY <1>1, TablesFirstNext DEF PushInv, IInv
<1>5. ASSUME NEW c \in Client,
             (\E s \in StreamId : Read(c, s)) \/ Send(c) \/ Timeout(c) \/ Receive(c)
      PROVE  PushInv'
  BY <1>2, <1>4, <1>5, ReadStep, SendStep, TimeoutStep, ReceiveStep
<1>6. ASSUME NEW p \in Proc, NEW r \in calls, PushEvent(p, r) PROVE PushInv'
  <2>1. calls' = calls \ {r} /\ UNCHANGED client
    BY <1>6 DEF PushEvent
  <2>2. CASE AttachEvent(p, r.stream, r.version, r.from) /\ Answer(r, 0)
             /\ abused' = (abused \/ r.stale)
    BY <1>2, <1>3, <1>4, <2>1, <2>2, AcceptStep
  <2>3. CASE Answer(r, 1) /\ UNCHANGED <<vars, abused>>
    BY <1>4, <2>1, <2>3, RefuseStep DEF vars, db
  <2>. QED
    BY <1>6, <2>2, <2>3 DEF PushEvent
<1>7. ASSUME NEW p \in Proc, Store(p) \/ End(p) PROVE PushInv'
  <2>1. UNCHANGED events
    BY <1>7 DEF Store, End, InitDb, CheckFile, OpenFile, CreateTables, CreateTrigger,
                CreateProjections, CreateStream, RemoveEvents, RemoveRollback, Terminate, db
  <2>2. calls' \subseteq calls /\ answers' \subseteq answers /\ UNCHANGED <<client, abused>>
    BY <1>7 DEF Store, End, clientVars
  <2>3. StreamsStay
    BY <1>7 DEF Store, End, InitDb, CheckFile, OpenFile, CreateTables, CreateTrigger,
                CreateProjections, CreateStream, RemoveEvents, RemoveRollback, Terminate, db,
                StreamsStay
  <2>. QED
    BY <1>4, <2>1, <2>2, <2>3, LossInv
<1>8. CASE UNCHANGED pushVars
  BY <1>2, <1>4, <1>8, LossInv DEF pushVars, vars, db, clientVars, StreamsStay
<1>. QED
  BY <1>2, <1>3, <1>4, <1>5, <1>6, <1>7, <1>8, DeletionStep DEF PushNext

LEMMA InitPushInv == PushInit => IInv /\ PushInv
<1>. SUFFICES ASSUME PushInit PROVE IInv /\ PushInv
  OBVIOUS
<1>1. IInv
  BY InitIInv DEF PushInit
<1>2. Stranger \in Known /\ Stranger.at = "idle"
  <2>1. <<>> \in Seq(Data)
    BY EmptySeq
  <2>. QED
    BY <2>1 DEF Stranger, Known
<1>3. PushTypes
  BY <1>2 DEF PushInit, PushTypes
<1>4. TablesFirst
  BY DEF PushInit, Init, TablesFirst
<1>5. \A c \in Client : ClientKnows(c, client[c])
  BY <1>2 DEF PushInit, ClientKnows
<1>6. OncePerTry
  BY DEF PushInit, OncePerTry
<1>7. Sent /\ Once
  BY DEF PushInit, Init, Sent, Once
<1>. QED
  BY <1>1, <1>3, <1>4, <1>5, <1>6, <1>7 DEF PushInv, PushInit

\* What clients know, what is under way and what is stored agree in every reachable
\* state, if the making of the file is left alone.
THEOREM PushInvariant ==
    ASSUME Exclusive
    PROVE  PushSpec => [](IInv /\ PushInv)
<1>1. IInv /\ PushInv /\ [PushNext]_pushVars => (IInv /\ PushInv)'
  BY NextPushInv
<1>. QED
  BY <1>1, InitPushInv, PTL DEF PushSpec

\* Every call belongs to an attempt, every answer to a client that waits for one.
THEOREM PushTypeCorrect ==
    ASSUME Exclusive
    PROVE  PushSpec => []PushTypeOK
<1>1. IInv /\ PushInv => PushTypeOK
  BY DEF PushInv, PushTypes, Call, CallKnows, AnswerKnows, OncePerTry, PushTypeOK
<1>. QED
  BY <1>1, PushInvariant, PTL

\* No event is stored twice, for any number of clients that repeat their requests and
\* servers that lose them, unless a request outlived a deletion of its stream.
THEOREM StoredOnceHolds ==
    ASSUME Exclusive
    PROVE  PushSpec => []StoredOnce
<1>1. ASSUME PushInv, ~abused, NEW c \in Client
      PROVE  Cardinality({e \in DOMAIN events : events[e].data = c}) <= 1
  <2>. DEFINE E == {e \in DOMAIN events : events[e].data = c}
  <2>1. CASE E = {}
    <3>1. Cardinality(E) = 0
      BY <2>1, FS_EmptySet
    <3>. QED
      BY <3>1
  <2>2. CASE E # {}
    <3>1. PICK e : e \in E
      BY <2>2
    <3>2. E = {e}
      BY <1>1, <3>1 DEF PushInv, Once
    <3>3. Cardinality(E) = 1
      BY <3>2, FS_Singleton
    <3>. QED
      BY <3>3
  <2>. QED
    BY <2>1, <2>2
<1>2. IInv /\ PushInv => StoredOnce
  BY <1>1 DEF StoredOnce
<1>. QED
  BY <1>2, PushInvariant, PTL

\* What a client was told is stored is stored right behind what it had seen, whatever
\* crashed and whoever enforced the foreign key in the meantime, until somebody deletes
\* the stream; and if it read a stream that existed, every reader finds its event there.
THEOREM AckedIsOnTopHolds ==
    ASSUME Exclusive
    PROVE  PushSpec => []AckedIsOnTop
<1>1. ASSUME IInv, PushInv, NEW c \in Client, client[c].at = "acked", ~client[c].stale
      PROVE  LET k   == client[c]
                 log == LogOf(k.stream)
             IN  /\ Len(log) > Len(k.seen)
                 /\ SubSeq(log, 1, Len(k.seen) + 1) = Append(k.seen, c)
                 /\ k.live => History(k.stream) = log
  <2>1. PICK s \in StreamId, seen \in Seq(Data) :
            /\ s = client[c].stream /\ seen = client[c].seen
            /\ Extends(LogOf(s), Append(seen, c))
    BY <1>1 DEF PushInv, PushTypes, Known, ClientKnows
  <2>2. PICK log \in Seq(Data) : log = LogOf(s)
    BY TriggerTrusted, LogTyped, <1>1
  <2>3. PICK n \in Nat : n = Len(seen)
    BY LenProperties
  <2>4. /\ Append(seen, c) \in Seq(Data) /\ Len(Append(seen, c)) = n + 1
    BY <2>3, ClientAssumption, AppendProperties
  <2>5. /\ Len(log) \in Nat /\ n + 1 <= Len(log)
        /\ \A i \in 1..(n + 1) : log[i] = Append(seen, c)[i]
    BY <2>1, <2>2, <2>4, LenProperties DEF Extends
  <2>6. /\ SubSeq(log, 1, n + 1) \in Seq(Data) /\ Len(SubSeq(log, 1, n + 1)) = n + 1
        /\ \A i \in 1..(n + 1) : SubSeq(log, 1, n + 1)[i] = log[i]
    BY <2>3, <2>5, SubSeqProperties
  <2>7. SubSeq(log, 1, n + 1) = Append(seen, c)
    BY <2>4, <2>5, <2>6, SeqEqual
  <2>8. Len(log) > n
    BY <2>3, <2>5
  <2>9. client[c].live => s \in DOMAIN streams
    BY <1>1, <2>1 DEF PushInv, ClientKnows
  <2>. QED
    BY <2>1, <2>2, <2>3, <2>7, <2>8, <2>9 DEF History
<1>2. ASSUME Exclusive PROVE IInv /\ PushInv => AckedIsOnTop
  BY <1>1 DEF AckedIsOnTop
<1>. QED
  BY <1>2, PushInvariant, PTL

\* A call that is handled was accepted if and only if nobody had come before it.
LEMMA HandledCall ==
    ASSUME Exclusive, IInv, PushInv, NEW p \in Proc, NEW r \in calls, PushEvent(p, r),
           ~r.stale, r.stream \in DOMAIN streams, Unlocked
    PROVE  events' # events <=> LogOf(r.stream) = r.seen
<1>1. Trusted
  BY TriggerTrusted
<1>2. PICK s \in StreamId, v \in Version, c \in Client :
          s = r.stream /\ v = r.version /\ c = r.from
  BY DEF PushInv, PushTypes, Call
<1>3. PICK log \in Seq(Data) : log = LogOf(s) /\ VersionsOf(s) = 1..Len(log)
  BY <1>1, LogTyped
<1>4. CallKnows(r) /\ r.seen \in Seq(Data)
  BY DEF PushInv, PushTypes, Call
<1>5. log = r.seen <=> v = Len(log) + 1
  <2>1. Extends(log, r.seen) /\ v = Len(r.seen) + 1
    BY <1>2, <1>3, <1>4 DEF CallKnows
  <2>2. Len(log) \in Nat /\ Len(r.seen) \in Nat
    BY <1>4, LenProperties
  <2>. QED
    BY <1>4, <2>1, <2>2, EqualLogs
<1>6. pc[p] = "ready" /\ "ver_valid" \in schema /\ Tables \subseteq schema
  BY DEF PushEvent, IInv, TriggerBeforeUse, PushInv, TablesFirst
<1>7. CASE AttachEvent(p, s, v, c)
  <2>1. v = Len(log) + 1
    BY <1>1, <1>3, <1>6, <1>7, NextIsOnTop DEF AttachEvent, Accepts
  <2>2. events' # events
    <3>1. c \in Data
      BY ClientAssumption
    <3>2. \E id : id \notin DOMAIN events /\ id \in DOMAIN events'
      BY <1>1, <1>7, <3>1, AttachEventRows DEF IInv, Trusted
    <3>. QED
      BY <3>2
  <2>. QED
    BY <1>2, <1>3, <1>5, <2>1, <2>2
<1>8. CASE ~Accepts(p, s, v) /\ UNCHANGED vars
  <2>1. ASSUME v = Len(log) + 1 PROVE FALSE
    <3>1. VersionValid(s, v)
      BY <1>1, <1>3, <2>1, NextIsOnTop
    <3>2. VersionFree(s, v)
      BY <1>3, <2>1, LenProperties DEF VersionFree
    <3>. QED
      BY <1>2, <1>6, <1>8, <3>1, <3>2 DEF Accepts, CanWrite, ForeignKeyHolds
  <2>. QED
    BY <1>2, <1>3, <1>5, <1>8, <2>1 DEF vars, db
<1>. QED
  BY <1>2, <1>7, <1>8 DEF PushEvent

\* A push is a compare-and-append on the log of its stream.
THEOREM CompareAndAppendHolds ==
    ASSUME Exclusive
    PROVE  PushSpec => CompareAndAppend
<1>. DEFINE Compare ==
         \A r \in calls :
             Handled(r) /\ ~r.stale /\ r.stream \in DOMAIN streams /\ Unlocked =>
                 (events' # events) = (LogOf(r.stream) = r.seen)
<1>1. ASSUME IInv, PushInv, PushNext PROVE Compare
  <2>. SUFFICES ASSUME NEW r \in calls, Handled(r), ~r.stale, r.stream \in DOMAIN streams,
                       Unlocked
                PROVE  events' # events <=> LogOf(r.stream) = r.seen
    OBVIOUS
  <2>1. calls' # calls /\ r \notin calls' /\ pc' = pc
    BY DEF Handled
  <2>2. ASSUME NEW c \in Client,
               (\E s \in StreamId : Read(c, s)) \/ Send(c) \/ Timeout(c) \/ Receive(c)
        PROVE  FALSE
    BY <2>1, <2>2 DEF Read, Send, Timeout, Receive
  <2>3. ASSUME NEW p \in Proc, DeleteStream(p) \/ Store(p) \/ End(p) PROVE FALSE
    <3>1. ~DeleteStream(p)
      BY DEF DeleteStream, RemoveCommit, Unlocked
    <3>2. ~Store(p)
      BY <2>1 DEF Store, clientVars
    <3>3. ~End(p)
      BY <1>1, <2>1 DEF End, Terminate, IInv, TypeOK
    <3>. QED
      BY <2>3, <3>1, <3>2, <3>3
  <2>4. PICK p \in Proc, q \in calls : PushEvent(p, q)
    BY <1>1, <2>2, <2>3 DEF PushNext
  <2>5. q = r
    BY <2>1, <2>4 DEF PushEvent, Handled
  <2>. QED
    BY <1>1, <2>4, <2>5, HandledCall
<1>2. IInv /\ PushInv /\ [PushNext]_pushVars => [Compare]_pushVars
  BY <1>1
<1>. QED
  BY <1>2, PushInvariant, PTL DEF PushSpec, CompareAndAppend
===========================================================================
