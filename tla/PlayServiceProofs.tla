------------------------- MODULE PlayServiceProofs -------------------------
(***************************************************************************)
(* Theorems about PlayService, for any sources, types, streams, events and *)
(* bounds, and for any number of threads where plays may overlap.  They    *)
(* rest on what DukContextProofs and ProjectionStoreProofs prove of the    *)
(* parts.                                                                  *)
(***************************************************************************)
EXTENDS PlayService, ProjectionStoreProofs, SequenceTheorems

\* The engine of PlayService, with what is proved about it.
E == INSTANCE DukContextProofs WITH
    Script <- Script \cup Type \cup {Empty},
    Broken <- Broken \cup Type,
    MaxEvents <- 0

\* Plays do not overlap.
OneThread == E!OneThread

---------------------------------------------------------------------------
(* The inductive invariant.  What needs plays that do not overlap is in it *)
(* under that condition.                                                   *)

Keys == StreamId \X Nat

Request == [at : {"asked", "reading", "playing"}, id : ProjId, target : Targets,
            script : Text, rows : Seq(Keys), events : Seq(Event),
            wanted : Asked \cup {Unknown}, from : SUBSET Keys, dropped : BOOLEAN,
            first : BOOLEAN]

LogsOK ==
    /\ DOMAIN kind \subseteq StreamId
    /\ log \in [StreamId -> Seq(Event)]
    /\ \A s \in StreamId : Len(log[s]) <= MaxLog[s]

RequestsOK ==
    /\ plays \in Nat
    /\ request \in [Thread -> {Idle} \cup Request]

\* What the list of projections said is true until the projection is fetched, and then
\* the source is the one that the engine gets for it.
SourceOf(r) ==
    r.at # "idle" /\ r.wanted # Unknown =>
        IF r.at = "asked"
        THEN r.id \in DOMAIN asked /\ asked[r.id] = r.wanted
        ELSE r.script = IF r.wanted.type = Empty THEN r.wanted.data ELSE r.wanted.type

\* The first play finds an empty stack, and it does not fail for want of anything else,
\* if no other one comes in between.
FirstOf(r, j) ==
    OneThread /\ r.at # "idle" /\ r.first =>
        IF r.at = "playing"
        THEN /\ j.base = <<>>
             /\ E!Sound(j) /\ Len(j.events) <= 2 => up /\ j.at # "failed"
        ELSE stack = <<>>

\* The engine works on the source that was read, for the requests that are playing.
EngineOf(r, j) ==
    IF r.at = "playing" THEN j # Idle /\ j.script = r.script ELSE j = Idle

\* What is true of the cursor of a request r, when M is the set of the keys it is about:
\* its rows come in order and leave no gap in a stream, and what was there when the
\* client asked has been returned or lies ahead.
Remaining(M, rs) == {k \in M : rs # <<>> => Before(Last(rs), k)}
Sorted(rs) == \A i, j \in 1..Len(rs) : i < j => Before(rs[i], rs[j])
Gapless(R) == \A s \in StreamId : \E n \in Nat : \A v \in Nat : <<s, v>> \in R <=> v \in 1..n

ScanOf(M, r) ==
    /\ Sorted(r.rows)
    /\ ToSet(r.rows) \subseteq M
    /\ Gapless(ToSet(r.rows))
    /\ ~r.dropped => r.from \subseteq ToSet(r.rows) \cup Remaining(M, r.rows)

\* The events that are put into the result are still stored where they were read.
Copied(r) ==
    /\ Len(r.events) = Len(r.rows)
    /\ \A i \in 1..Len(r.rows) : r.events[i] = At(r.rows[i])

Pending(r) == r.at \in {"asked", "reading"}

CursorOf(r) ==
    up /\ Pending(r) =>
        /\ r.at = "asked" => r.rows = <<>>
        /\ ScanOf(Positions(Selected(r.target)), r)
        /\ Copied(r)

\* The events of a play are events of its streams.
PlayedFrom(r, j) ==
    r.at = "playing" /\ ~r.dropped =>
        \A i \in 1..Len(j.events) :
            \E s \in Selected(r.target) : j.events[i] \in ToSet(log[s])

ReadsOf(r, j) == CursorOf(r) /\ PlayedFrom(r, j)

Served(t) ==
    /\ SourceOf(request[t])
    /\ EngineOf(request[t], job[t])
    /\ FirstOf(request[t], job[t])
    /\ ReadsOf(request[t], job[t])

EngineOK == E!SharedInv /\ (OneThread => E!HeapInv)
SoleFault == OneThread => AbortHasReason

ServeInv ==
    /\ IInv
    /\ EngineOK
    /\ LogsOK
    /\ RequestsOK
    /\ plays = 0 => stack = <<>> /\ \A t \in Thread : request[t] = Idle
    /\ \A t \in Thread : Served(t)
    /\ SoleFault

---------------------------------------------------------------------------
(* The engine of PlayService is the one of the proofs.                     *)

LEMMA Assumed ==
    /\ Defining \subseteq Script \cup Type \cup {Empty}
    /\ Broken \cup Type \subseteq Script \cup Type \cup {Empty}
    /\ Failing \subseteq Defining
    /\ BadPayload \subseteq Event
    /\ 0 \in Nat
    /\ StackLimit \in Nat
BY ServiceAssumption

LEMMA SamePlay ==
    ASSUME NEW t \in Thread, NEW s, NEW es, Engine!Play(t, s, es)
    PROVE  E!Play(t, s, es)
BY DEF Engine!Play, E!Play, Engine!Answered, E!Answered

LEMMA SameWork ==
    ASSUME NEW t \in Thread,
           \/ Engine!Read(t) \/ Engine!Lookup(t) \/ Engine!PushArguments(t)
           \/ Engine!CallReturns(t) \/ Engine!CallFails(t) \/ Engine!Finish(t)
    PROVE  E!Works(t)
<1>1. ASSUME Engine!Read(t) PROVE E!Read(t)
  BY <1>1 DEF E!Read, Engine!Read, Engine!Fits, E!Fits, Engine!Goto, E!Goto,
              Engine!Global, E!Global, Engine!Error, E!Error, Engine!Text, E!Text,
              Engine!Need, E!Need, Engine!Found, E!Found
<1>2. ASSUME Engine!Lookup(t) PROVE E!Lookup(t)
  BY <1>2 DEF E!Lookup, Engine!Lookup, Engine!Fits, E!Fits, Engine!Goto, E!Goto,
              Engine!Global, E!Global, Engine!Undefined, E!Undefined,
              Engine!Function, E!Function, Engine!Need, E!Need, Engine!Found, E!Found
<1>3. ASSUME Engine!PushArguments(t) PROVE E!PushArguments(t)
  BY <1>3 DEF E!PushArguments, Engine!PushArguments, Engine!Fits, E!Fits, Engine!Goto,
              E!Goto, Engine!Global, E!Global, Engine!EventArg, E!EventArg,
              Engine!StateArg, E!StateArg, Engine!NextEvent, E!NextEvent,
              Engine!Need, E!Need, Engine!Found, E!Found
<1>4. ASSUME Engine!CallReturns(t) PROVE E!CallReturns(t)
  BY <1>4 DEF E!CallReturns, Engine!CallReturns, Engine!Callee, E!Callee,
              Engine!Arguments, E!Arguments, Engine!BelowCall, E!BelowCall,
              Engine!IsFunction, E!IsFunction, Engine!Applied, E!Applied,
              Engine!Last, E!Last
<1>5. ASSUME Engine!CallFails(t) PROVE E!CallFails(t)
  BY <1>5 DEF E!CallFails, Engine!CallFails, Engine!Callee, E!Callee, Engine!Goto, E!Goto,
              Engine!BelowCall, E!BelowCall, Engine!IsFunction, E!IsFunction,
              Engine!MayFail, E!MayFail, Engine!Error, E!Error, Engine!Text, E!Text,
              Engine!Undefined, E!Undefined
<1>6. ASSUME Engine!Finish(t) PROVE E!Finish(t)
  BY <1>6 DEF E!Finish, Engine!Finish, Engine!Goto, E!Goto, Engine!Front, E!Front
<1>. QED
  BY <1>1, <1>2, <1>3, <1>4, <1>5, <1>6 DEF E!Works

LEMMA SameAbort ==
    ASSUME NEW t \in Thread, Engine!Abort(t)
    PROVE  E!Abort(t)
BY DEF E!Abort, Engine!Abort, Engine!Fits, E!Fits, Engine!Need, E!Need, Engine!Found,
       E!Found, Engine!Global, E!Global, Engine!Undefined, E!Undefined, Engine!Callee,
       E!Callee, Engine!IsFunction, E!IsFunction, Engine!NextEvent, E!NextEvent

LEMMA SameTypes == E!TypeOK => Engine!TypeOK
BY DEF E!TypeOK, Engine!TypeOK, E!Slots, Engine!Slots, E!Places, Engine!Places,
       E!Answered, Engine!Answered, E!Global, Engine!Global, E!Error, Engine!Error,
       E!Text, Engine!Text, E!Undefined, Engine!Undefined, E!Function, Engine!Function,
       E!EventArg, Engine!EventArg

\* What a step of the engine does to the job of its thread, and to nothing else.
LEMMA WorkOf ==
    ASSUME EngineOK, NEW t \in Thread, E!Works(t)
    PROVE  \E k : /\ EngineOK' /\ up /\ up' = up
                  /\ job[t].at \notin {"idle", "ok", "failed"}
                  /\ job' = [job EXCEPT ![t] = k]
                  /\ k # Idle /\ k.at # "idle"
                  /\ k.script = job[t].script
                  /\ k.events = job[t].events
                  /\ k.base = job[t].base
<1>1. OneThread => E!HeapInv'
  BY Assumed, E!WorkKeepsHeap DEF OneThread, EngineOK
<1>2. PICK k : /\ E!SharedInv' /\ up /\ UNCHANGED up
               /\ job[t].at \notin {"idle", "ok", "failed"}
               /\ job' = [job EXCEPT ![t] = k] /\ E!JobOK(k)
               /\ k.script = job[t].script /\ k.events = job[t].events
               /\ k.base = job[t].base
  BY Assumed, E!WorkKeepsShared DEF EngineOK
<1>3. k.at # "idle" /\ k # Idle
  BY <1>2, Assumed, E!JobFacts DEF E!Idle, Idle
<1>. QED
  BY <1>1, <1>2, <1>3 DEF EngineOK

\* The job of one thread changes, and of no other.
LEMMA JobOfOne ==
    ASSUME EngineOK, NEW t \in Thread, NEW k, job' = [job EXCEPT ![t] = k]
    PROVE  job'[t] = k /\ \A u \in Thread : u # t => job'[u] = job[u]
BY DEF EngineOK, E!SharedInv

---------------------------------------------------------------------------
(* Keys of rows, and sequences of them.                                    *)

LEMMA KeysAreNumbers ==
    \A k \in Keys : /\ k = <<k[1], k[2]>>
                    /\ k[1] \in StreamId /\ k[1] \in Nat
                    /\ k[2] \in Nat
<1>1. \A k \in Keys : k = <<k[1], k[2]>> /\ k[1] \in StreamId /\ k[2] \in Nat
  BY DEF Keys
<1>. QED
  BY <1>1, ServiceAssumption

LEMMA BeforeIsStrictOrder ==
    /\ \A k \in Keys : ~Before(k, k)
    /\ \A k, l, m \in Keys : Before(k, l) /\ Before(l, m) => Before(k, m)
BY KeysAreNumbers DEF Before

LEMMA AppendedRow ==
    ASSUME NEW rs \in Seq(Keys), NEW k \in Keys
    PROVE  /\ Append(rs, k) \in Seq(Keys)
           /\ Append(rs, k) # <<>>
           /\ Last(Append(rs, k)) = k
           /\ ToSet(Append(rs, k)) = ToSet(rs) \cup {k}
<1>1. /\ Append(rs, k) \in Seq(Keys)
      /\ Append(rs, k) # <<>>
      /\ Len(Append(rs, k)) = Len(rs) + 1
      /\ \A i \in 1..Len(rs) : Append(rs, k)[i] = rs[i]
      /\ Append(rs, k)[Len(rs) + 1] = k
  BY AppendProperties
<1>2. DOMAIN Append(rs, k) = 1..(Len(rs) + 1) /\ DOMAIN rs = 1..Len(rs) /\ Len(rs) \in Nat
  BY <1>1, LenProperties
<1>3. ToSet(Append(rs, k)) = ToSet(rs) \cup {k}
  BY <1>1, <1>2 DEF ToSet
<1>4. Last(Append(rs, k)) = k
  BY <1>1 DEF Last
<1>. QED
  BY <1>1, <1>3, <1>4

LEMMA LastIsGreatest ==
    ASSUME NEW rs \in Seq(Keys), Sorted(rs), NEW k \in ToSet(rs)
    PROVE  /\ Last(rs) \in Keys /\ Last(rs) \in ToSet(rs)
           /\ k = Last(rs) \/ Before(k, Last(rs))
<1>1. Len(rs) \in Nat /\ DOMAIN rs = 1..Len(rs)
  BY LenProperties
<1>2. PICK i \in 1..Len(rs) : k = rs[i]
  BY <1>1 DEF ToSet
<1>3. Len(rs) \in 1..Len(rs) /\ Last(rs) = rs[Len(rs)]
  BY <1>1, <1>2 DEF Last
<1>4. Last(rs) \in Keys /\ Last(rs) \in ToSet(rs)
  BY <1>1, <1>3, ElementOfSeq DEF ToSet
<1>5. CASE i = Len(rs)
  BY <1>2, <1>3, <1>4, <1>5
<1>6. CASE i < Len(rs)
  <2>1. Before(rs[i], rs[Len(rs)])
    BY <1>3, <1>6 DEF Sorted
  <2>2. Before(k, Last(rs))
    BY <1>2, <1>3, <2>1
  <2>. QED
    BY <1>4, <2>2
<1>7. i = Len(rs) \/ i < Len(rs)
  <2>1. \A n \in Nat : \A j \in 1..n : j = n \/ j < n
    OBVIOUS
  <2>. QED
    BY <1>1, <2>1
<1>. QED
  BY <1>4, <1>5, <1>6, <1>7

\* The row that comes next is after all others.
LEMMA NextIsLast ==
    ASSUME NEW M \in SUBSET Keys, NEW rs \in Seq(Keys), Sorted(rs),
           NEW k \in Remaining(M, rs), NEW l \in ToSet(rs)
    PROVE  Before(l, k)
<1>1. rs # <<>>
  BY DEF ToSet
<1>2. k \in Keys /\ Before(Last(rs), k)
  BY <1>1 DEF Remaining
<1>3. l \in Keys
  <2>1. DOMAIN rs = 1..Len(rs)
    BY LenProperties
  <2>. QED
    BY <2>1, ElementOfSeq DEF ToSet
<1>. QED
  BY <1>2, <1>3, LastIsGreatest, BeforeIsStrictOrder

\* And it leaves no gap behind it.
LEMMA AdvanceGapless ==
    ASSUME NEW M \in SUBSET Keys, Gapless(M), NEW rs \in Seq(Keys), Sorted(rs),
           ToSet(rs) \subseteq M, Gapless(ToSet(rs)),
           NEW k \in Remaining(M, rs), \A l \in Remaining(M, rs) : l = k \/ Before(k, l)
    PROVE  Gapless(ToSet(rs) \cup {k})
<1>1. /\ k \in M /\ k \in Keys /\ k = <<k[1], k[2]>>
      /\ k[1] \in StreamId /\ k[1] \in Nat /\ k[2] \in Nat
      /\ rs # <<>> => Before(Last(rs), k)
  BY KeysAreNumbers DEF Remaining
<1>2. \A l \in ToSet(rs) : Before(l, k)
  BY NextIsLast
<1>0. PICK R : R = ToSet(rs) \cup {k}
  OBVIOUS
<1>. SUFFICES ASSUME NEW s \in StreamId
              PROVE  \E n \in Nat : \A v \in Nat : <<s, v>> \in R <=> v \in 1..n
  BY <1>0 DEF Gapless
<1>3. PICK n \in Nat : \A v \in Nat : <<s, v>> \in ToSet(rs) <=> v \in 1..n
  BY DEF Gapless
<1>4. CASE s # k[1]
  <2>1. \A v \in Nat : <<s, v>> # k
    BY <1>1, <1>4
  <2>2. \A v \in Nat : <<s, v>> \in R <=> v \in 1..n
    BY <1>0, <1>3, <2>1
  <2>. QED
    BY <2>2
<1>5. CASE s = k[1]
  <2>1. PICK m \in Nat : \A v \in Nat : <<s, v>> \in M <=> v \in 1..m
    BY DEF Gapless
  <2>2. k[2] \in 1..m
    BY <1>1, <1>5, <2>1
  <2>3. k[2] \notin 1..n
    <3>. SUFFICES ASSUME k[2] \in 1..n PROVE FALSE
      OBVIOUS
    <3>1. k \in ToSet(rs)
      BY <1>1, <1>3, <1>5
    <3>. QED
      BY <1>1, <1>2, <3>1, BeforeIsStrictOrder
  <2>4. k[2] = n + 1
    <3>. SUFFICES ASSUME k[2] > n + 1 PROVE FALSE
      BY <1>1, <2>2, <2>3
    <3>1. <<s, n + 1>> \in M /\ n + 1 \in Nat
      BY <1>1, <2>1, <2>2
    <3>2. rs # <<>> => Before(Last(rs), <<s, n + 1>>)
      <4>. SUFFICES ASSUME rs # <<>> PROVE Before(Last(rs), <<s, n + 1>>)
        OBVIOUS
      <4>. DEFINE last == Last(rs)
      <4>1. last \in ToSet(rs)
        BY LenProperties, EmptySeq DEF Last, ToSet
      <4>2. last \in Keys
        BY <4>1, LastIsGreatest
      <4>3. last = <<last[1], last[2]>> /\ last[1] \in Nat /\ last[2] \in Nat
        BY <4>2, KeysAreNumbers
      <4>4. last[1] = s => last[2] \in 1..n
        BY <1>3, <4>1, <4>3
      <4>5. last[1] < k[1] \/ last[1] = k[1]
        BY <1>1 DEF Before
      <4>. QED
        BY <1>1, <1>5, <4>3, <4>4, <4>5 DEF Before
    <3>3. <<s, n + 1>> \in Remaining(M, rs)
      BY <3>1, <3>2 DEF Remaining
    <3>. QED
      BY <1>1, <1>5, <3>3 DEF Before
  <2>5. PICK m1 \in Nat : m1 = n + 1
    OBVIOUS
  <2>6. \A v \in Nat : v \in 1..m1 <=> v \in 1..n \/ v = m1
    BY <2>5
  <2>7. \A v \in Nat : <<s, v>> = k <=> v = m1
    BY <1>1, <1>5, <2>4, <2>5
  <2>8. \A v \in Nat : <<s, v>> \in R <=> v \in 1..m1
    BY <1>0, <1>3, <2>6, <2>7
  <2>. QED
    BY <2>8
<1>. QED
  BY <1>4, <1>5

---------------------------------------------------------------------------
(* The cursor of a request.                                                *)

\* One row more.
LEMMA Advance ==
    ASSUME NEW M \in SUBSET Keys, Gapless(M), NEW q \in Request, ScanOf(M, q),
           NEW k \in Remaining(M, q.rows),
           \A l \in Remaining(M, q.rows) : l = k \/ Before(k, l),
           NEW r \in Request, r.rows = Append(q.rows, k), r.from = q.from,
           r.dropped = q.dropped
    PROVE  ScanOf(M, r)
<1>1. PICK rs \in Seq(Keys) : rs = q.rows
  BY DEF Request
<1>2. k \in M /\ k \in Keys
  BY DEF Remaining
<1>3. PICK new \in Seq(Keys) : new = Append(rs, k)
  BY <1>2, AppendedRow
<1>4. Last(new) = k /\ ToSet(new) = ToSet(rs) \cup {k} /\ r.rows = new
  BY <1>1, <1>2, <1>3, AppendedRow
<1>5. Sorted(rs) /\ ToSet(rs) \subseteq M /\ Gapless(ToSet(rs))
  BY <1>1 DEF ScanOf
<1>6. Sorted(new)
  <2>1. /\ Len(rs) \in Nat /\ Len(new) = Len(rs) + 1 /\ new[Len(rs) + 1] = k
        /\ \A i \in 1..Len(rs) : new[i] = rs[i] /\ rs[i] \in ToSet(rs)
    BY <1>2, <1>3, AppendProperties, LenProperties DEF ToSet
  <2>2. \A i \in 1..Len(rs) : Before(rs[i], k)
    BY <1>1, <1>5, <2>1, NextIsLast
  <2>3. \A i, j \in 1..Len(rs) : i < j => Before(rs[i], rs[j])
    BY <1>5 DEF Sorted
  <2>. QED
    BY <2>1, <2>2, <2>3 DEF Sorted
<1>7. Remaining(M, rs) \subseteq {k} \cup Remaining(M, new)
  BY <1>1, <1>4 DEF Remaining
<1>8. Gapless(ToSet(new))
  BY <1>1, <1>4, <1>5, AdvanceGapless
<1>. QED
  BY <1>1, <1>2, <1>4, <1>5, <1>6, <1>7, <1>8 DEF ScanOf

\* Rows that are added anywhere.
LEMMA Grown ==
    ASSUME NEW M, NEW N, M \subseteq N, NEW r, ScanOf(M, r)
    PROVE  ScanOf(N, r)
<1>1. Remaining(M, r.rows) \subseteq Remaining(N, r.rows)
  BY DEF Remaining
<1>. QED
  BY <1>1 DEF ScanOf

\* A cursor that has returned nothing.
LEMMA Unstarted ==
    ASSUME NEW M, NEW r, r.rows = <<>>, ~r.dropped => r.from \subseteq M
    PROVE  ScanOf(M, r)
<1>1. ToSet(r.rows) = {} /\ Len(r.rows) = 0
  BY EmptySeq DEF ToSet
<1>2. PICK S : S = ToSet(r.rows)
  OBVIOUS
<1>3. Gapless(S)
  <2>1. \A v \in Nat : v \notin 1..0
    OBVIOUS
  <2>. QED
    BY <1>1, <1>2, <2>1 DEF Gapless
<1>4. Sorted(r.rows)
  BY <1>1 DEF Sorted
<1>. QED
  BY <1>1, <1>2, <1>3, <1>4 DEF ScanOf, Remaining

\* What there is to read.
LEMMA PositionsAreKeys ==
    ASSUME LogsOK, NEW S \in SUBSET StreamId
    PROVE  /\ Positions(S) \in SUBSET Keys
           /\ Gapless(Positions(S))
           /\ \A k \in Positions(S) : /\ k[1] \in S /\ k[2] \in DOMAIN log[k[1]]
                                      /\ At(k) \in ToSet(log[k[1]]) /\ At(k) \in Event
<1>1. \A s \in StreamId : /\ Len(log[s]) \in Nat /\ DOMAIN log[s] = 1..Len(log[s])
                          /\ \A i \in 1..Len(log[s]) : log[s][i] \in Event
  BY LenProperties, ElementOfSeq DEF LogsOK
<1>2. \A k : k \in Positions(S) <=> \E s \in S : \E i \in DOMAIN log[s] : k = <<s, i>>
  BY DEF Positions
<1>3. Positions(S) \in SUBSET Keys
  BY <1>1, <1>2 DEF Keys
<1>4. \A k \in Positions(S) : /\ k[1] \in S /\ k[2] \in DOMAIN log[k[1]]
                              /\ At(k) \in ToSet(log[k[1]]) /\ At(k) \in Event
  BY <1>1, <1>2 DEF At, ToSet
<1>5. Gapless(Positions(S))
  <2>. SUFFICES ASSUME NEW s \in StreamId
                PROVE  \E n \in Nat : \A v \in Nat : <<s, v>> \in Positions(S) <=> v \in 1..n
    BY DEF Gapless
  <2>1. CASE s \in S
    <3>1. \A v \in Nat : <<s, v>> \in Positions(S) <=> v \in DOMAIN log[s]
      BY <1>2, <2>1
    <3>. QED
      BY <1>1, <3>1
  <2>2. CASE s \notin S
    <3>1. \A v \in Nat : <<s, v>> \notin Positions(S) /\ v \notin 1..0
      BY <1>2, <2>2
    <3>. QED
      BY <3>1
  <2>. QED
    BY <2>1, <2>2
<1>. QED
  BY <1>3, <1>4, <1>5

\* The streams of a target are streams.
LEMMA SelectedAreStreams ==
    ASSUME LogsOK, NEW target
    PROVE  Selected(target) \in SUBSET StreamId
BY DEF Selected, LogsOK

---------------------------------------------------------------------------
(* Requests.                                                               *)

LEMMA RequestOf ==
    ASSUME RequestsOK, NEW t \in Thread
    PROVE  /\ request[t].at = "idle" <=> request[t] = Idle
           /\ request[t] # Idle =>
                 /\ request[t] \in Request
                 /\ request[t].at \in {"asked", "reading", "playing"}
                 /\ request[t].id \in ProjId /\ request[t].target \in Targets
                 /\ request[t].script \in Text
                 /\ request[t].rows \in Seq(Keys) /\ request[t].events \in Seq(Event)
                 /\ request[t].wanted \in Asked \cup {Unknown}
<1>1. request[t] \in {Idle} \cup Request
  BY DEF RequestsOK
<1>2. Idle.at = "idle"
  BY DEF Idle
<1>3. \A r \in Request :
          /\ r.at \in {"asked", "reading", "playing"}
          /\ r.id \in ProjId /\ r.target \in Targets /\ r.script \in Text
          /\ r.rows \in Seq(Keys) /\ r.events \in Seq(Event)
          /\ r.wanted \in Asked \cup {Unknown}
  BY DEF Request
<1>. QED
  BY <1>1, <1>2, <1>3

\* The source that is read is the one of the client's request, if it has no type.
LEMMA SourceRead ==
    ASSUME IInv, NEW id \in DOMAIN rows
    PROVE  /\ ProjectionById(id).data \in Text
           /\ asked[id] \in Asked
           /\ ProjectionById(id).data =
                  IF asked[id].type = Empty THEN asked[id].data ELSE asked[id].type
<1>1. rows[id] \in Row /\ asked[id] \in Asked /\ id \in DOMAIN asked
  BY DEF IInv, TypeOK
<1>2. rows[id] = RowOf(asked[id].data, asked[id].type)
  BY DEF IInv, RowsAreRequests
<1>3. ProjectionById(id).data = rows[id].type
  BY DEF ProjectionById, Projection
<1>4. rows[id].type =
          IF asked[id].type = Empty THEN asked[id].data ELSE asked[id].type
  BY <1>2 DEF RowOf, Requested, Untyped, Typed, Projection
<1>. QED
  BY <1>1, <1>3, <1>4 DEF Row

\* What a step leaves alone stays as it was.
LEMMA PartsStay ==
    /\ IInv /\ UNCHANGED vars => IInv'
    /\ LogsOK /\ UNCHANGED logVars => LogsOK'
    /\ EngineOK /\ UNCHANGED engineVars => EngineOK'
<1>1. IInv /\ UNCHANGED vars => IInv'
  BY NextIInv
<1>2. LogsOK /\ UNCHANGED logVars => LogsOK'
  BY DEF LogsOK, logVars
<1>3. ASSUME EngineOK, UNCHANGED engineVars PROVE EngineOK'
  <2>1. up' \in BOOLEAN /\ UNCHANGED <<stack, defined, job>>
    BY <1>3 DEF engineVars, EngineOK, E!SharedInv
  <2>2. E!SharedInv'
    BY <1>3, <2>1, Assumed, E!SameShared DEF EngineOK
  <2>3. OneThread => E!HeapInv'
    BY <1>3, <2>1, Assumed, E!SameHeap DEF EngineOK
  <2>. QED
    BY <2>2, <2>3 DEF EngineOK
<1>. QED
  BY <1>1, <1>2, <1>3

\* What is read stays as long as the streams do.
LEMMA ReadsAlike ==
    ASSUME NEW r, NEW j, UNCHANGED <<kind, log>>, up' => up, ReadsOf(r, j)
    PROVE  ReadsOf(r, j)'
<1>1. Selected(r.target)' = Selected(r.target)
  BY DEF Selected
<1>2. Positions(Selected(r.target))' = Positions(Selected(r.target))
  BY <1>1 DEF Positions
<1>3. CursorOf(r)'
  BY <1>2 DEF ReadsOf, CursorOf, ScanOf, Copied, At
<1>4. PlayedFrom(r, j)'
  BY <1>1 DEF ReadsOf, PlayedFrom
<1>. QED
  BY <1>3, <1>4 DEF ReadsOf

\* What was selected, read and faulty is so as long as nothing of it changes.
LEMMA ServedAlike ==
    ASSUME NEW r, NEW j, UNCHANGED <<asked, logVars, engineVars>>
    PROVE  /\ SourceOf(r) => SourceOf(r)'
           /\ EngineOf(r, j) => EngineOf(r, j)'
           /\ FirstOf(r, j) => FirstOf(r, j)'
           /\ ReadsOf(r, j) => ReadsOf(r, j)'
<1>1. ReadsOf(r, j) => ReadsOf(r, j)'
  BY ReadsAlike DEF logVars, engineVars
<1>. QED
  BY <1>1 DEF SourceOf, EngineOf, FirstOf, engineVars, E!Sound

\* The request of another thread, when plays may overlap.
LEMMA ServedBeside ==
    ASSUME NEW t \in Thread, NEW u \in Thread, u # t, Served(u),
           request'[u] = request[u], job'[u] = job[u], UNCHANGED <<asked, kind, log>>,
           up' => up
    PROVE  Served(u)'
<1>1. ~OneThread
  BY DEF OneThread, E!OneThread
<1>2. PICK r, j : r = request[u] /\ j = job[u] /\ r = request'[u] /\ j = job'[u]
  OBVIOUS
<1>3. SourceOf(r) /\ EngineOf(r, j) /\ ReadsOf(r, j)
  BY <1>2 DEF Served
<1>4. SourceOf(r)' /\ EngineOf(r, j)' /\ ReadsOf(r, j)'
  BY <1>3, ReadsAlike DEF SourceOf, EngineOf
<1>5. FirstOf(r, j)'
  BY <1>1 DEF FirstOf
<1>. QED
  BY <1>2, <1>4, <1>5 DEF Served

---------------------------------------------------------------------------
(* The steps of a request.                                                 *)

LEMMA AskStep ==
    ASSUME ServeInv, NEW t \in Thread, NEW id \in ProjId, NEW target \in Targets,
           Ask(t, id, target)
    PROVE  ServeInv'
<1>1. PICK r : r = [at |-> "asked", id |-> id, target |-> target, script |-> Empty,
                    rows |-> <<>>, events |-> <<>>,
                    wanted |-> IF id \in DOMAIN asked THEN asked[id] ELSE Unknown,
                    from |-> Positions(Selected(target)),
                    dropped |-> FALSE, first |-> plays = 0]
  OBVIOUS
<1>2. /\ request' = [request EXCEPT ![t] = r] /\ request[t] = Idle /\ up
      /\ plays' = plays + 1 /\ UNCHANGED <<vars, logVars, engineVars>>
  BY <1>1 DEF Ask
<1>3. plays \in Nat /\ request \in [Thread -> {Idle} \cup Request]
  BY DEF ServeInv, RequestsOK
<1>4. r \in Request
  <2>1. PICK w \in Asked \cup {Unknown} : w = IF id \in DOMAIN asked THEN asked[id] ELSE Unknown
    BY DEF ServeInv, IInv, TypeOK
  <2>2. PICK M \in SUBSET Keys : M = Positions(Selected(target))
    BY SelectedAreStreams, PositionsAreKeys DEF ServeInv
  <2>3. <<>> \in Seq(Keys) /\ <<>> \in Seq(Event) /\ Empty \in Text
    BY EmptySeq DEF Text
  <2>. QED
    BY <1>1, <2>1, <2>2, <2>3 DEF Request
<1>5. RequestsOK' /\ plays' # 0 /\ request'[t] = r
      /\ \A u \in Thread : u # t => request'[u] = request[u]
  BY <1>2, <1>3, <1>4 DEF RequestsOK
<1>6. SourceOf(r) /\ EngineOf(r, job[t]) /\ FirstOf(r, job[t]) /\ ReadsOf(r, job[t])
  <2>1. r.at = "asked" /\ r.id = id /\ r.first = (plays = 0)
        /\ r.wanted = IF id \in DOMAIN asked THEN asked[id] ELSE Unknown
    BY <1>1
  <2>2. job[t] = Idle
    BY <1>2 DEF ServeInv, Served, EngineOf, Idle
  <2>3. /\ r.rows = <<>> /\ r.events = <<>> /\ r.target = target
        /\ r.from = Positions(Selected(target))
    BY <1>1
  <2>4. ReadsOf(r, job[t])
    <3>1. ScanOf(Positions(Selected(r.target)), r)
      BY <2>3, Unstarted
    <3>2. Copied(r)
      BY <2>3, EmptySeq DEF Copied
    <3>. QED
      BY <2>1, <2>3, <3>1, <3>2 DEF ReadsOf, CursorOf, PlayedFrom
  <2>. QED
    BY <2>1, <2>2, <2>4 DEF SourceOf, EngineOf, FirstOf, ServeInv
<1>7. ASSUME NEW u \in Thread PROVE Served(u)'
  <2>1. job' = job /\ asked' = asked
    BY <1>2 DEF engineVars, vars
  <2>2. Served(u)
    BY DEF ServeInv
  <2>. QED
    BY <1>2, <1>5, <1>6, <2>1, <2>2, ServedAlike DEF Served
<1>8. SoleFault'
  BY <1>2 DEF SoleFault, AbortHasReason, engineVars
<1>. QED
  BY <1>2, <1>5, <1>7, <1>8, PartsStay DEF ServeInv

LEMMA ReadProjectionStep ==
    ASSUME ServeInv, NEW t \in Thread, ReadProjection(t)
    PROVE  ServeInv'
<1>1. PICK q : q = request[t]
  OBVIOUS
<1>2. PICK r : r = IF q.id \in DOMAIN rows
                   THEN [q EXCEPT !.at = "reading", !.script = ProjectionById(q.id).data]
                   ELSE Idle
  OBVIOUS
<1>3. /\ request' = [request EXCEPT ![t] = r] /\ up /\ q.at = "asked"
      /\ UNCHANGED <<vars, logVars, engineVars, plays>>
  BY <1>1, <1>2 DEF ReadProjection
<1>4. RequestsOK /\ IInv /\ Served(t)
  BY DEF ServeInv
<1>5. q # Idle /\ q \in Request
  BY <1>1, <1>3, <1>4, RequestOf DEF Idle
<1>6. SourceOf(q) /\ EngineOf(q, job[t]) /\ FirstOf(q, job[t]) /\ ReadsOf(q, job[t])
  BY <1>1, <1>4 DEF Served
<1>7. /\ r \in {Idle} \cup Request
      /\ SourceOf(r) /\ EngineOf(r, job[t]) /\ FirstOf(r, job[t]) /\ ReadsOf(r, job[t])
  <2>1. CASE q.id \in DOMAIN rows
    <3>1. /\ ProjectionById(q.id).data \in Text
          /\ ProjectionById(q.id).data =
                IF asked[q.id].type = Empty THEN asked[q.id].data ELSE asked[q.id].type
      BY <1>4, <2>1, SourceRead
    <3>2. /\ r \in Request /\ r.at = "reading" /\ r.script = ProjectionById(q.id).data
          /\ r.wanted = q.wanted /\ r.first = q.first /\ r.rows = q.rows
          /\ r.events = q.events /\ r.from = q.from /\ r.dropped = q.dropped
          /\ r.target = q.target
      BY <1>2, <1>5, <2>1, <3>1 DEF Request
    <3>3. ReadsOf(r, job[t])
      BY <1>3, <1>6, <3>2 DEF ReadsOf, CursorOf, Pending, ScanOf, Copied, PlayedFrom
    <3>. QED
      BY <1>3, <1>6, <3>1, <3>2, <3>3 DEF SourceOf, EngineOf, FirstOf
  <2>2. CASE q.id \notin DOMAIN rows
    BY <1>2, <1>3, <1>6, <2>2
    DEF SourceOf, EngineOf, FirstOf, ReadsOf, CursorOf, Pending, PlayedFrom, Idle
  <2>. QED
    BY <2>1, <2>2
<1>8. /\ RequestsOK' /\ request'[t] = r
      /\ \A u \in Thread : u # t => request'[u] = request[u]
  BY <1>3, <1>4, <1>7 DEF RequestsOK
<1>9. ASSUME NEW u \in Thread PROVE Served(u)'
  <2>1. job' = job /\ asked' = asked
    BY <1>3 DEF engineVars, vars
  <2>2. Served(u)
    BY DEF ServeInv
  <2>. QED
    BY <1>3, <1>7, <1>8, <2>1, <2>2, ServedAlike DEF Served
<1>10. plays' # 0 /\ SoleFault'
  BY <1>1, <1>3, <1>5 DEF ServeInv, SoleFault, AbortHasReason, engineVars
<1>. QED
  BY <1>3, <1>8, <1>9, <1>10, PartsStay DEF ServeInv

LEMMA ReadRowStep ==
    ASSUME ServeInv, NEW t \in Thread, ReadRow(t)
    PROVE  ServeInv'
<1>1. PICK q : q = request[t]
  OBVIOUS
<1>2. PICK M : M = Positions(Selected(q.target))
  OBVIOUS
<1>3. PICK k \in Remaining(M, q.rows) :
          /\ \A l \in Remaining(M, q.rows) : l = k \/ Before(k, l)
          /\ request' = [request EXCEPT ![t].rows = Append(@, k),
                                        ![t].events = Append(@, At(k))]
  BY <1>1, <1>2 DEF ReadRow, Ahead, Remaining
<1>4. up /\ q.at = "reading" /\ UNCHANGED <<vars, logVars, engineVars, plays>>
  BY <1>1 DEF ReadRow
<1>5. RequestsOK /\ LogsOK /\ Served(t)
  BY DEF ServeInv
<1>6. q # Idle /\ q \in Request /\ q.rows \in Seq(Keys) /\ q.events \in Seq(Event)
  BY <1>1, <1>4, <1>5, RequestOf DEF Idle
<1>7. /\ M \in SUBSET Keys /\ Gapless(M) /\ k \in M /\ k \in Keys
      /\ At(k) \in Event
  BY <1>2, <1>3, <1>5, SelectedAreStreams, PositionsAreKeys DEF Remaining
<1>8. PICK e \in Event : e = At(k)
  BY <1>7
<1>9. PICK rs \in Seq(Keys) : rs = Append(q.rows, k)
  BY <1>6, <1>7, AppendProperties
<1>10. PICK es \in Seq(Event) : es = Append(q.events, e)
  BY <1>6, <1>8, AppendProperties
<1>11. PICK r : r = [q EXCEPT !.rows = rs, !.events = es]
  OBVIOUS
<1>12. /\ r \in Request /\ r.at = "reading" /\ r.id = q.id /\ r.target = q.target
       /\ r.script = q.script /\ r.rows = rs /\ r.events = es /\ r.wanted = q.wanted
       /\ r.from = q.from /\ r.dropped = q.dropped /\ r.first = q.first
  BY <1>4, <1>6, <1>11 DEF Request
<1>13. request' = [request EXCEPT ![t] = r]
  <2>1. q.rows = request[t].rows /\ q.events = request[t].events
    BY <1>1
  <2>2. t \in DOMAIN request
    BY <1>5 DEF RequestsOK
  <2>3. request' = [request EXCEPT ![t] = [q EXCEPT !.rows = rs, !.events = es]]
    BY <1>1, <1>3, <1>8, <1>9, <1>10, <2>1, <2>2
  <2>. QED
    BY <1>11, <2>3
<1>14. /\ RequestsOK' /\ request'[t] = r
       /\ \A u \in Thread : u # t => request'[u] = request[u]
  BY <1>4, <1>5, <1>12, <1>13 DEF RequestsOK
<1>15. SourceOf(q) /\ EngineOf(q, job[t]) /\ FirstOf(q, job[t]) /\ ReadsOf(q, job[t])
  BY <1>1, <1>5 DEF Served
<1>16. SourceOf(r) /\ EngineOf(r, job[t]) /\ FirstOf(r, job[t])
  BY <1>4, <1>12, <1>15 DEF SourceOf, EngineOf, FirstOf
<1>17. ScanOf(M, q) /\ Copied(q)
  BY <1>2, <1>4, <1>15 DEF ReadsOf, CursorOf, Pending
<1>18. ScanOf(M, r)
  BY <1>3, <1>6, <1>7, <1>9, <1>12, <1>17, Advance
<1>19. Copied(r)
  <2>1. PICK n \in Nat : n = Len(q.rows) /\ n = Len(q.events)
    BY <1>6, <1>17, LenProperties DEF Copied
  <2>2. /\ Len(rs) = n + 1 /\ rs[n + 1] = k
        /\ \A i \in 1..n : rs[i] = q.rows[i]
    <3>1. PICK ps \in Seq(Keys) : ps = q.rows
      BY <1>6
    <3>2. rs = Append(ps, k) /\ Len(ps) = n /\ k \in Keys
      BY <1>7, <1>9, <2>1, <3>1
    <3>3. Len(rs) = n + 1 /\ rs[n + 1] = k /\ \A i \in 1..n : rs[i] = ps[i]
      BY <3>2, AppendProperties
    <3>. QED
      BY <3>1, <3>3
  <2>3. /\ Len(es) = n + 1 /\ es[n + 1] = e
        /\ \A i \in 1..n : es[i] = q.events[i]
    BY <1>6, <1>8, <1>10, <2>1, AppendProperties
  <2>4. \A i \in 1..n : es[i] = At(rs[i])
    BY <1>17, <2>1, <2>2, <2>3 DEF Copied
  <2>5. es[n + 1] = At(rs[n + 1])
    BY <1>8, <2>2, <2>3
  <2>6. \A i \in 1..(n + 1) : es[i] = At(rs[i])
    BY <2>4, <2>5
  <2>. QED
    BY <1>12, <2>2, <2>3, <2>6 DEF Copied
<1>20. ReadsOf(r, job[t])
  BY <1>2, <1>12, <1>18, <1>19 DEF ReadsOf, CursorOf, PlayedFrom
<1>21. ASSUME NEW u \in Thread PROVE Served(u)'
  <2>1. job' = job /\ asked' = asked
    BY <1>4 DEF engineVars, vars
  <2>2. Served(u)
    BY DEF ServeInv
  <2>. QED
    BY <1>4, <1>14, <1>16, <1>20, <2>1, <2>2, ServedAlike DEF Served
<1>22. plays' # 0 /\ SoleFault'
  BY <1>1, <1>4, <1>6 DEF ServeInv, SoleFault, AbortHasReason, engineVars
<1>. QED
  BY <1>4, <1>14, <1>21, <1>22, PartsStay DEF ServeInv

\* What the cursor has copied are events of the streams of the request.
LEMMA CopiedAreEvents ==
    ASSUME LogsOK, NEW r \in Request, ScanOf(Positions(Selected(r.target)), r), Copied(r),
           NEW i \in 1..Len(r.events)
    PROVE  \E s \in Selected(r.target) : r.events[i] \in ToSet(log[s])
<1>1. r.rows \in Seq(Keys) /\ DOMAIN r.rows = 1..Len(r.rows)
  BY LenProperties DEF Request
<1>2. PICK k : k = r.rows[i]
  OBVIOUS
<1>3. k \in Positions(Selected(r.target)) /\ r.events[i] = At(k)
  BY <1>1, <1>2 DEF Copied, ScanOf, ToSet
<1>4. k[1] \in Selected(r.target) /\ At(k) \in ToSet(log[k[1]])
  BY <1>3, SelectedAreStreams, PositionsAreKeys
<1>. QED
  BY <1>3, <1>4

\* The request that a request becomes when it is played.
LEMMA PlaysIs ==
    ASSUME NEW q \in Request
    PROVE  /\ Plays(q) \in Request /\ Plays(q).at = "playing" /\ Plays(q).id = q.id
           /\ Plays(q).script = q.script /\ Plays(q).target = q.target
           /\ Plays(q).wanted = q.wanted /\ Plays(q).first = q.first
<1>1. PICK a \in Request : a = [q EXCEPT !.at = "playing"]
  BY DEF Request
<1>2. /\ a.at = "playing" /\ a.id = q.id /\ a.script = q.script /\ a.target = q.target
      /\ a.wanted = q.wanted /\ a.first = q.first
  BY <1>1 DEF Request
<1>3. PICK b \in Request : b = [a EXCEPT !.rows = <<>>]
  BY EmptySeq DEF Request
<1>4. /\ b.at = "playing" /\ b.id = q.id /\ b.script = q.script /\ b.target = q.target
      /\ b.wanted = q.wanted /\ b.first = q.first
  BY <1>2, <1>3 DEF Request
<1>5. PICK c \in Request : c = [b EXCEPT !.events = <<>>]
  BY EmptySeq DEF Request
<1>6. /\ c.at = "playing" /\ c.id = q.id /\ c.script = q.script /\ c.target = q.target
      /\ c.wanted = q.wanted /\ c.first = q.first
  BY <1>4, <1>5 DEF Request
<1>7. PICK d \in Request : d = [c EXCEPT !.from = {}]
  BY DEF Request
<1>8. /\ d.at = "playing" /\ d.id = q.id /\ d.script = q.script /\ d.target = q.target
      /\ d.wanted = q.wanted /\ d.first = q.first
  BY <1>6, <1>7 DEF Request
<1>9. PICK p \in Request : p = [d EXCEPT !.dropped = FALSE]
  BY DEF Request
<1>10. /\ p.at = "playing" /\ p.id = q.id /\ p.script = q.script /\ p.target = q.target
       /\ p.wanted = q.wanted /\ p.first = q.first
  BY <1>8, <1>9 DEF Request
<1>11. Plays(q) = p
  BY <1>1, <1>3, <1>5, <1>7, <1>9 DEF Plays
<1>. QED
  BY <1>10, <1>11

LEMMA ReadEventsStep ==
    ASSUME ServeInv, NEW t \in Thread, ReadEvents(t)
    PROVE  ServeInv'
<1>1. PICK q : q = request[t]
  OBVIOUS
<1>2. PICK es : es = q.events /\ Engine!Play(t, q.script, es)
  BY <1>1 DEF ReadEvents
<1>3. /\ request' = [request EXCEPT ![t] = Plays(q)] /\ q.at = "reading"
      /\ UNCHANGED <<vars, logVars, plays>>
  BY <1>1 DEF ReadEvents
<1>4. RequestsOK /\ LogsOK /\ EngineOK /\ Served(t)
  BY DEF ServeInv
<1>5. q # Idle /\ q \in Request /\ q.script \in Text
  BY <1>1, <1>3, <1>4, RequestOf DEF Idle
<1>6. es \in Seq(Event)
  BY <1>2, <1>5 DEF Request
<1>7. E!Play(t, q.script, es)
  BY <1>2, SamePlay
<1>8. PICK k : k = [at |-> "read", script |-> q.script, events |-> es, done |-> 0,
                    state |-> <<>>, base |-> stack]
  OBVIOUS
<1>9. up /\ up' = up /\ job' = [job EXCEPT ![t] = k]
  BY <1>7, <1>8 DEF E!Play
<1>10. EngineOK'
  <2>1. E!SharedInv'
    BY <1>4, <1>5, <1>6, <1>7, Assumed, E!PlayKeepsShared DEF EngineOK, Text
  <2>2. OneThread => E!HeapInv'
    BY <1>4, <1>5, <1>6, <1>7, Assumed, E!PlayKeepsHeap DEF OneThread, EngineOK, Text
  <2>. QED
    BY <2>1, <2>2 DEF EngineOK
<1>11. PICK r : r = Plays(q)
  OBVIOUS
<1>12. /\ r \in Request /\ r.at = "playing" /\ r.script = q.script /\ r.target = q.target
       /\ r.wanted = q.wanted /\ r.first = q.first
  BY <1>5, <1>11, PlaysIs
<1>13. /\ request' = [request EXCEPT ![t] = r] /\ request'[t] = r /\ RequestsOK'
       /\ \A u \in Thread : u # t => request'[u] = request[u]
  BY <1>1, <1>3, <1>4, <1>11, <1>12 DEF RequestsOK
<1>14. job'[t] = k /\ \A u \in Thread : u # t => job'[u] = job[u]
  BY <1>4, <1>9, JobOfOne
<1>15. SourceOf(r)' /\ EngineOf(r, k)' /\ FirstOf(r, k)' /\ ReadsOf(r, k)'
  <2>1. SourceOf(q) /\ FirstOf(q, job[t]) /\ ReadsOf(q, job[t])
    BY <1>1, <1>4 DEF Served
  <2>2. SourceOf(r)'
    BY <1>3, <1>12, <2>1 DEF SourceOf
  <2>3. EngineOf(r, k)'
    BY <1>8, <1>12 DEF EngineOf, Idle
  <2>4. FirstOf(r, k)'
    BY <1>3, <1>8, <1>9, <1>12, <2>1 DEF FirstOf
  <2>5. ReadsOf(r, k)
    <3>1. ScanOf(Positions(Selected(q.target)), q) /\ Copied(q)
      BY <1>3, <1>9, <2>1 DEF ReadsOf, CursorOf, Pending
    <3>2. \A i \in 1..Len(es) : \E s \in Selected(q.target) : es[i] \in ToSet(log[s])
      BY <1>2, <1>4, <1>5, <3>1, CopiedAreEvents
    <3>3. k.events = es
      BY <1>8
    <3>. QED
      BY <1>12, <3>2, <3>3 DEF ReadsOf, CursorOf, Pending, PlayedFrom
  <2>6. ReadsOf(r, k)'
    BY <1>3, <1>9, <2>5, ReadsAlike DEF logVars
  <2>. QED
    BY <2>2, <2>3, <2>4, <2>6
<1>16. Served(t)'
  BY <1>13, <1>14, <1>15 DEF Served
<1>17. ASSUME NEW u \in Thread, u # t PROVE Served(u)'
  BY <1>3, <1>9, <1>13, <1>14, <1>17, ServedBeside DEF ServeInv, vars, logVars
<1>18. plays' # 0 /\ SoleFault'
  BY <1>1, <1>3, <1>5, <1>9 DEF ServeInv, SoleFault, AbortHasReason
<1>. QED
  BY <1>3, <1>10, <1>13, <1>16, <1>17, <1>18, PartsStay DEF ServeInv

LEMMA WorkStep ==
    ASSUME ServeInv, NEW t \in Thread, request[t].at = "playing", E!Works(t),
           UNCHANGED <<vars, logVars, request, plays>>
    PROVE  ServeInv'
<1>1. RequestsOK /\ EngineOK /\ Served(t)
  BY DEF ServeInv
<1>2. PICK r : r = request[t]
  OBVIOUS
<1>3. PICK j : j = job[t]
  OBVIOUS
<1>4. PICK k : /\ EngineOK' /\ up /\ up' = up /\ j.at \notin {"idle", "ok", "failed"}
               /\ job' = [job EXCEPT ![t] = k] /\ k # Idle /\ k.at # "idle"
               /\ k.script = j.script /\ k.events = j.events /\ k.base = j.base
  BY <1>1, <1>3, WorkOf
<1>5. job'[t] = k /\ \A u \in Thread : u # t => job'[u] = job[u]
  BY <1>1, <1>4, JobOfOne
<1>6. r.at = "playing" /\ r # Idle
  BY <1>2 DEF Idle
<1>7. SourceOf(r) /\ EngineOf(r, j) /\ FirstOf(r, j) /\ ReadsOf(r, j)
  BY <1>1, <1>2, <1>3 DEF Served
<1>8. SourceOf(r)' /\ EngineOf(r, k)' /\ ReadsOf(r, k)'
  <2>1. ReadsOf(r, k)
    BY <1>4, <1>6, <1>7 DEF ReadsOf, CursorOf, Pending, PlayedFrom
  <2>2. ReadsOf(r, k)'
    BY <1>4, <2>1, ReadsAlike DEF logVars
  <2>. QED
    BY <1>4, <1>6, <1>7, <2>2 DEF SourceOf, EngineOf, vars
<1>9. FirstOf(r, k)'
  <2>. SUFFICES ASSUME OneThread, r.first
                PROVE  /\ k.base = <<>>
                       /\ E!Sound(k) /\ Len(k.events) <= 2 => up' /\ k.at # "failed"
    BY <1>6 DEF FirstOf, E!Sound
  <2>1. j.base = <<>>
    BY <1>6, <1>7 DEF FirstOf
  <2>2. ASSUME E!Sound(k), Len(k.events) <= 2 PROVE k.at # "failed"
    <3>1. E!Sound(j) /\ Len(j.events) <= 2
      BY <1>4, <2>2 DEF E!Sound
    <3>2. StackLimit >= 6
      BY ServiceAssumption
    <3>. QED
      BY <1>1, <1>3, <1>4, <1>5, <2>1, <3>1, <3>2, Assumed, E!FirstWorks
      DEF OneThread, EngineOK
  <2>. QED
    BY <1>4, <2>1, <2>2
<1>10. Served(t)'
  BY <1>2, <1>5, <1>8, <1>9 DEF Served
<1>11. ASSUME NEW u \in Thread, u # t PROVE Served(u)'
  BY <1>4, <1>5, <1>11, ServedBeside DEF ServeInv, vars, logVars
<1>12. plays' # 0 /\ SoleFault' /\ RequestsOK'
  BY <1>1, <1>2, <1>4, <1>6 DEF ServeInv, SoleFault, AbortHasReason, RequestsOK
<1>. QED
  BY <1>4, <1>10, <1>11, <1>12, PartsStay DEF ServeInv

\* A payload that is no JSON text is in a stream of the play.
LEMMA AbortFault ==
    ASSUME OneThread, ServeInv, NEW t \in Thread, request[t].at = "playing", E!Abort(t)
    PROVE  Faulty(t)
<1>1. PICK r : r = request[t]
  OBVIOUS
<1>2. PICK j : j = job[t]
  OBVIOUS
<1>3. E!HeapInv /\ E!PlayInv /\ LogsOK /\ ReadsOf(r, j)
  BY <1>1, <1>2 DEF ServeInv, EngineOK, E!HeapInv, Served
<1>4. /\ j.at # "idle"
      /\ \/ j.script \in Broken \cup Type
         \/ \E f \in Failing : defined = {f} /\ (j.script \in Defining => f = j.script)
         \/ \E i \in 1..Len(j.events) : j.events[i] \in BadPayload
         \/ Len(j.base) + 6 > StackLimit
  BY <1>2, <1>3, Assumed, E!AbortCause
<1>5. CASE \E f \in Failing : defined = {f} /\ (j.script \in Defining => f = j.script)
  BY <1>2, <1>5 DEF Faulty
<1>6. CASE \E i \in 1..Len(j.events) : j.events[i] \in BadPayload
  <2>1. PICK i \in 1..Len(j.events) : j.events[i] \in BadPayload
    BY <1>6
  <2>2. CASE r.dropped
    BY <1>1, <2>2 DEF Faulty
  <2>3. CASE ~r.dropped
    <3>1. PICK s \in Selected(r.target) : j.events[i] \in ToSet(log[s])
      BY <1>1, <1>3, <2>3 DEF ReadsOf, PlayedFrom
    <3>2. ToSet(log[s]) \cap BadPayload # {}
      BY <2>1, <3>1
    <3>. QED
      BY <1>1, <3>1, <3>2 DEF Faulty
  <2>. QED
    BY <2>2, <2>3
<1>. QED
  BY <1>2, <1>4, <1>5, <1>6 DEF Faulty

LEMMA AbortStep ==
    ASSUME ServeInv, NEW t \in Thread, request[t].at = "playing", E!Abort(t),
           UNCHANGED <<vars, logVars, request, plays>>
    PROVE  ServeInv'
<1>1. PICK r : r = request[t]
  OBVIOUS
<1>2. PICK j : j = job[t]
  OBVIOUS
<1>3. /\ up' = FALSE /\ UNCHANGED <<stack, defined, job>> /\ RequestsOK
      /\ EngineOK /\ Served(t)
  BY DEF E!Abort, ServeInv
<1>4. EngineOK' /\ RequestsOK'
  <2>1. E!SharedInv'
    BY <1>3, Assumed, E!SameShared DEF EngineOK
  <2>2. OneThread => E!HeapInv'
    BY <1>3, Assumed, E!SameHeap DEF EngineOK
  <2>. QED
    BY <1>3, <2>1, <2>2 DEF EngineOK, RequestsOK
<1>5. SourceOf(r) /\ EngineOf(r, j) /\ FirstOf(r, j) /\ ReadsOf(r, j)
  BY <1>1, <1>2, <1>3 DEF Served
<1>6. SourceOf(r)' /\ EngineOf(r, j)' /\ ReadsOf(r, j)'
  BY <1>3, <1>5, ReadsAlike DEF SourceOf, EngineOf, logVars, vars
<1>7. FirstOf(r, j)'
  <2>. SUFFICES ASSUME OneThread, r.first
                PROVE  j.base = <<>> /\ ~(E!Sound(j) /\ Len(j.events) <= 2)
    BY <1>1 DEF FirstOf, E!Sound
  <2>1. /\ j.base = <<>>
        /\ E!Sound(j) /\ Len(j.events) <= 2 => j.at # "failed"
    BY <1>1, <1>5 DEF FirstOf
  <2>2. StackLimit >= 6
    BY ServiceAssumption
  <2>. QED
    BY <1>2, <1>3, <2>1, <2>2, Assumed, E!FirstWorks DEF OneThread, EngineOK
<1>8. Served(t)'
  BY <1>1, <1>2, <1>3, <1>6, <1>7 DEF Served
<1>9. ASSUME NEW u \in Thread, u # t PROVE Served(u)'
  BY <1>3, <1>9, ServedBeside DEF ServeInv, vars, logVars
<1>10. SoleFault'
  <2>. SUFFICES ASSUME OneThread PROVE AbortHasReason'
    BY DEF SoleFault
  <2>1. Playing(t) /\ Faulty(t)
    BY AbortFault DEF Playing
  <2>2. Playing(t)' /\ Faulty(t)'
    BY <1>3, <2>1 DEF Playing, Faulty, Selected, logVars
  <2>. QED
    BY <2>2 DEF AbortHasReason
<1>11. plays' = 0 => stack' = <<>> /\ \A u \in Thread : request'[u] = Idle
  BY <1>3 DEF ServeInv
<1>. QED
  BY <1>4, <1>8, <1>9, <1>10, <1>11, PartsStay DEF ServeInv

LEMMA AnswerStep ==
    ASSUME ServeInv, NEW t \in Thread, Answer(t)
    PROVE  ServeInv'
<1>1. /\ request' = [request EXCEPT ![t] = Idle] /\ job' = [job EXCEPT ![t] = Idle]
      /\ up /\ request[t].at = "playing"
      /\ UNCHANGED <<vars, logVars, up, stack, defined, plays>>
  BY DEF Answer
<1>2. RequestsOK /\ EngineOK
  BY DEF ServeInv
<1>3. EngineOK'
  <2>1. job' = [job EXCEPT ![t] = E!Idle]
    BY <1>1 DEF E!Idle, Idle
  <2>2. E!SharedInv'
    BY <1>1, <1>2, <2>1, Assumed, E!AnswerKeepsShared DEF EngineOK
  <2>3. OneThread => E!HeapInv'
    BY <1>1, <1>2, <2>1, Assumed, E!AnswerKeepsHeap DEF OneThread, EngineOK
  <2>. QED
    BY <2>2, <2>3 DEF EngineOK
<1>4. /\ RequestsOK' /\ request'[t] = Idle
      /\ \A u \in Thread : u # t => request'[u] = request[u]
  BY <1>1, <1>2 DEF RequestsOK
<1>5. job'[t] = Idle /\ \A u \in Thread : u # t => job'[u] = job[u]
  BY <1>1, <1>2, JobOfOne
<1>6. Served(t)'
  BY <1>4, <1>5 DEF Served, SourceOf, EngineOf, FirstOf, ReadsOf, CursorOf, Pending, PlayedFrom,
                    Idle
<1>7. ASSUME NEW u \in Thread, u # t PROVE Served(u)'
  BY <1>1, <1>4, <1>5, <1>7, ServedBeside DEF ServeInv, vars, logVars
<1>8. plays' # 0 /\ SoleFault'
  BY <1>1 DEF ServeInv, SoleFault, AbortHasReason, Idle
<1>. QED
  BY <1>1, <1>3, <1>4, <1>6, <1>7, <1>8, PartsStay DEF ServeInv

---------------------------------------------------------------------------
(* What else happens.                                                      *)

LEMMA CreateProjStep ==
    ASSUME ServeInv, NEW data \in Script, NEW type \in Type \cup {Empty},
           CreateProj(data, type)
    PROVE  ServeInv'
<1>1. /\ CreateProjection(data, type)
      /\ UNCHANGED <<logVars, engineVars, request, plays>>
  BY DEF CreateProj
<1>2. IInv'
  BY <1>1, CreateKeeps DEF ServeInv
<1>3. \A i \in DOMAIN asked : i \in DOMAIN asked' /\ asked'[i] = asked[i]
  <2>1. DOMAIN asked = DOMAIN rows
    BY DEF ServeInv, IInv, TypeOK
  <2>2. PICK id \in ProjId :
            /\ IsNewRowid(DOMAIN rows, id)
            /\ asked' = [i \in DOMAIN rows \cup {id} |->
                             IF i = id THEN [data |-> data, type |-> type] ELSE asked[i]]
    BY <1>1 DEF CreateProjection
  <2>3. id \notin DOMAIN rows
    <3>1. id \in Nat /\ \A i \in DOMAIN rows : i < id
      BY <2>2, ProjectionAssumption DEF IsNewRowid
    <3>. QED
      BY <3>1
  <2>. QED
    BY <2>1, <2>2, <2>3
<1>4. ASSUME NEW u \in Thread PROVE Served(u)'
  <2>1. Served(u) /\ request' = request /\ UNCHANGED <<stack, up, job>>
    BY <1>1 DEF ServeInv, engineVars
  <2>2. SourceOf(request[u])'
    BY <1>3, <2>1 DEF Served, SourceOf
  <2>3. EngineOf(request[u], job[u])' /\ FirstOf(request[u], job[u])'
    BY <2>1 DEF Served, EngineOf, FirstOf, E!Sound
  <2>4. ReadsOf(request[u], job[u])'
    BY <1>1, <2>1, ReadsAlike DEF Served, logVars
  <2>. QED
    BY <2>2, <2>3, <2>4 DEF Served
<1>5. RequestsOK' /\ SoleFault'
  BY <1>1 DEF ServeInv, RequestsOK, SoleFault, AbortHasReason, Playing, Faulty, Selected, logVars,
              engineVars
<1>6. plays' = 0 => stack' = <<>> /\ \A u \in Thread : request'[u] = Idle
  BY <1>1 DEF ServeInv, engineVars
<1>. QED
  BY <1>1, <1>2, <1>4, <1>5, <1>6, PartsStay DEF ServeInv

LEMMA DeleteProjStep ==
    ASSUME ServeInv, NEW id \in ProjId, DeleteProj(id)
    PROVE  ServeInv'
<1>1. /\ DeleteProjection(id) /\ UNCHANGED <<logVars, engineVars, plays>>
      /\ request' = [t \in Thread |-> IF request[t] # Idle /\ request[t].id = id
                                      THEN [request[t] EXCEPT !.wanted = Unknown]
                                      ELSE request[t]]
  BY DEF DeleteProj
<1>2. IInv' /\ RequestsOK
  BY <1>1, DeleteKeeps DEF ServeInv
<1>3. \A i \in DOMAIN asked : i # id => i \in DOMAIN asked' /\ asked'[i] = asked[i]
  <2>1. DOMAIN asked = DOMAIN rows
    BY DEF ServeInv, IInv, TypeOK
  <2>. QED
    BY <1>1, <2>1 DEF DeleteProjection
<1>4. ASSUME NEW u \in Thread
      PROVE  /\ request'[u] \in {Idle} \cup Request
             /\ Served(u)'
             /\ request[u] = Idle => request'[u] = Idle
             /\ Playing(u) /\ Faulty(u) => Playing(u)' /\ Faulty(u)'
  <2>1. PICK q : q = request[u]
    OBVIOUS
  <2>2. PICK r : r = request'[u]
    OBVIOUS
  <2>3. PICK j : j = job[u]
    OBVIOUS
  <2>4. /\ SourceOf(q) /\ EngineOf(q, j) /\ FirstOf(q, j) /\ ReadsOf(q, j)
        /\ q \in {Idle} \cup Request /\ (q = Idle => q.at = "idle")
    BY <1>2, <2>1, <2>3 DEF ServeInv, Served, RequestsOK, Idle
  <2>5. /\ r \in {Idle} \cup Request /\ r.at = q.at /\ (q = Idle => r = Idle)
        /\ q # Idle => /\ r.script = q.script /\ r.target = q.target /\ r.id = q.id
                       /\ r.first = q.first /\ r.dropped = q.dropped
                       /\ r.rows = q.rows /\ r.events = q.events /\ r.from = q.from
                       /\ r.wanted = IF q.id = id THEN Unknown ELSE q.wanted
    <3>1. CASE q # Idle /\ q.id = id
      <4>1. r = [q EXCEPT !.wanted = Unknown]
        BY <1>1, <2>1, <2>2, <3>1
      <4>2. q \in Request
        BY <2>4, <3>1
      <4>. QED
        BY <3>1, <4>1, <4>2 DEF Request
    <3>2. CASE ~(q # Idle /\ q.id = id)
      <4>1. r = q
        BY <1>1, <2>1, <2>2, <3>2
      <4>. QED
        BY <2>4, <3>2, <4>1
    <3>. QED
      BY <3>1, <3>2
  <2>6. SourceOf(r)'
    BY <1>3, <2>4, <2>5 DEF SourceOf
  <2>7. EngineOf(r, j)' /\ FirstOf(r, j)' /\ ReadsOf(r, j)'
    <3>1. ReadsOf(r, j)
      BY <2>4, <2>5 DEF ReadsOf, CursorOf, Pending, ScanOf, Copied, PlayedFrom, Idle
    <3>2. ReadsOf(r, j)'
      BY <1>1, <3>1, ReadsAlike DEF logVars, engineVars
    <3>. QED
      BY <1>1, <2>4, <2>5, <3>2 DEF EngineOf, FirstOf, engineVars, E!Sound
  <2>8. job'[u] = j /\ job' = job
    BY <1>1, <2>3 DEF engineVars
  <2>9. Served(u)'
    BY <2>2, <2>6, <2>7, <2>8 DEF Served
  <2>10. ASSUME Playing(u), Faulty(u) PROVE Playing(u)' /\ Faulty(u)'
    <3>1. q.at = "playing" /\ q # Idle
      BY <2>1, <2>4, <2>10 DEF Playing
    <3>2. request'[u].at = "playing" /\ request'[u].target = request[u].target
          /\ request'[u].dropped = request[u].dropped
      BY <2>1, <2>2, <2>5, <3>1
    <3>. QED
      BY <1>1, <2>10, <3>2 DEF Playing, Faulty, Selected, logVars, engineVars
  <2>. QED
    BY <2>1, <2>2, <2>5, <2>9, <2>10
<1>5. RequestsOK'
  BY <1>1, <1>2, <1>4 DEF RequestsOK
<1>6. SoleFault'
  BY <1>1, <1>4 DEF ServeInv, SoleFault, AbortHasReason, engineVars
<1>7. plays' = 0 => stack' = <<>> /\ \A u \in Thread : request'[u] = Idle
  BY <1>1, <1>4 DEF ServeInv, engineVars
<1>. QED
  BY <1>1, <1>2, <1>4, <1>5, <1>6, <1>7, PartsStay DEF ServeInv

\* Stream s has lost nothing.
Longer(s) == \A i \in DOMAIN log[s] : i \in DOMAIN log'[s] /\ log'[s][i] = log[s][i]

\* A cursor goes on, and what was read stays right, when streams grow.
LEMMA ReadsGrown ==
    ASSUME NEW r, NEW j, Pending(r) => r \in Request, up' = up, ReadsOf(r, j),
           \A s \in Selected(r.target) : s \in Selected(r.target)' /\ Longer(s)
    PROVE  ReadsOf(r, j)'
<1>1. PICK S : S = Selected(r.target)
  OBVIOUS
<1>2. PICK T : T = Selected(r.target)'
  OBVIOUS
<1>3. PICK M : M = Positions(S)
  OBVIOUS
<1>4. PICK N : N = Positions(T)'
  OBVIOUS
<1>5. ASSUME NEW k \in M PROVE k \in N /\ At(k)' = At(k)
  <2>1. PICK s \in S : \E i \in DOMAIN log[s] : k = <<s, i>>
    BY <1>3 DEF Positions
  <2>2. PICK i \in DOMAIN log[s] : k = <<s, i>>
    BY <2>1
  <2>3. s \in T /\ i \in DOMAIN log'[s] /\ log'[s][i] = log[s][i]
    BY <1>1, <1>2 DEF Longer
  <2>. QED
    BY <1>4, <2>2, <2>3 DEF Positions, At
<1>6. CursorOf(r)'
  <2>. SUFFICES ASSUME up, Pending(r)
                PROVE  (r.at = "asked" => r.rows = <<>>) /\ ScanOf(N, r) /\ Copied(r)'
    BY <1>2, <1>4 DEF CursorOf
  <2>1. (r.at = "asked" => r.rows = <<>>) /\ ScanOf(M, r) /\ Copied(r)
    BY <1>1, <1>3 DEF ReadsOf, CursorOf
  <2>2. ScanOf(N, r)
    BY <1>5, <2>1, Grown
  <2>3. \A i \in 1..Len(r.rows) : r.rows[i] \in M
    <3>1. DOMAIN r.rows = 1..Len(r.rows)
      BY LenProperties DEF Request
    <3>. QED
      BY <2>1, <3>1 DEF ScanOf, ToSet
  <2>4. Copied(r)'
    BY <1>5, <2>1, <2>3 DEF Copied
  <2>. QED
    BY <2>1, <2>2, <2>4
<1>7. PlayedFrom(r, j)'
  <2>. SUFFICES ASSUME r.at = "playing", ~r.dropped, NEW i \in 1..Len(j.events)
                PROVE  \E s \in T : j.events[i] \in ToSet(log'[s])
    BY <1>2 DEF PlayedFrom, ToSet
  <2>1. PICK s \in S : j.events[i] \in ToSet(log[s])
    BY <1>1 DEF ReadsOf, PlayedFrom
  <2>2. s \in T /\ Longer(s)
    BY <1>1, <1>2
  <2>. QED
    BY <2>1, <2>2 DEF ToSet, Longer
<1>. QED
  BY <1>6, <1>7 DEF ReadsOf

\* A request is served as before when streams grow.
LEMMA GrownServed ==
    ASSUME ServeInv, UNCHANGED <<vars, engineVars, request, plays>>, LogsOK',
           \A u \in Thread : \A s \in Selected(request[u].target) :
               s \in Selected(request[u].target)' /\ Longer(s)
    PROVE  ServeInv'
<1>1. ASSUME NEW u \in Thread PROVE Served(u)'
  <2>1. PICK r, j : r = request[u] /\ j = job[u] /\ r = request'[u] /\ j = job'[u]
    BY DEF engineVars
  <2>2. SourceOf(r) /\ EngineOf(r, j) /\ FirstOf(r, j) /\ ReadsOf(r, j)
    BY <2>1 DEF ServeInv, Served
  <2>3. Pending(r) => r \in Request
    BY <2>1, RequestOf DEF ServeInv, Pending, Idle
  <2>4. \A s \in Selected(r.target) : s \in Selected(r.target)' /\ Longer(s)
    <3>1. Selected(request[u].target)' = Selected(r.target)'
      BY <2>1
    <3>. QED
      BY <2>1, <3>1
  <2>5. ReadsOf(r, j)'
    BY <2>2, <2>3, <2>4, ReadsGrown DEF engineVars
  <2>6. SourceOf(r)' /\ EngineOf(r, j)' /\ FirstOf(r, j)'
    BY <2>2 DEF SourceOf, EngineOf, FirstOf, vars, engineVars, E!Sound
  <2>. QED
    BY <2>1, <2>5, <2>6 DEF Served
<1>2. ASSUME NEW u \in Thread, Playing(u), Faulty(u) PROVE Playing(u)' /\ Faulty(u)'
  <2>1. PICK S : S = Selected(request[u].target)
    OBVIOUS
  <2>2. PICK T : T = Selected(request[u].target)'
    OBVIOUS
  <2>3. UNCHANGED <<stack, defined, up, job, request>>
    BY DEF engineVars
  <2>4. CASE \E s \in S : ToSet(log[s]) \cap BadPayload # {}
    <3>1. \E s \in T : ToSet(log'[s]) \cap BadPayload # {}
      <4>1. \A s \in S : s \in T /\ ToSet(log[s]) \subseteq ToSet(log'[s])
        BY <2>1, <2>2 DEF Longer, ToSet
      <4>. QED
        BY <2>4, <4>1
    <3>. QED
      BY <1>2, <2>2, <2>3, <3>1 DEF Playing, Faulty, ToSet
  <2>5. CASE ~\E s \in S : ToSet(log[s]) \cap BadPayload # {}
    BY <1>2, <2>1, <2>3, <2>5 DEF Playing, Faulty
  <2>. QED
    BY <2>4, <2>5
<1>3. SoleFault'
  BY <1>2 DEF ServeInv, SoleFault, AbortHasReason, engineVars
<1>4. RequestsOK' /\ (plays' = 0 => stack' = <<>> /\ \A u \in Thread : request'[u] = Idle)
  BY DEF ServeInv, RequestsOK, engineVars
<1>. QED
  BY <1>1, <1>3, <1>4, PartsStay DEF ServeInv

LEMMA CreateStreamStep ==
    ASSUME ServeInv, NEW s \in StreamId, NEW k \in Kind, CreateStream(s, k)
    PROVE  ServeInv'
<1>1. /\ kind' = [i \in DOMAIN kind \cup {s} |-> IF i = s THEN k ELSE kind[i]]
      /\ s \notin DOMAIN kind /\ log' = log
      /\ UNCHANGED <<vars, engineVars, request, plays>>
  BY DEF CreateStream, Log!Create
<1>2. LogsOK'
  BY <1>1 DEF ServeInv, LogsOK
<1>3. ASSUME NEW u \in Thread
      PROVE  \/ Selected(request[u].target)' = Selected(request[u].target)
             \/ /\ s \notin Selected(request[u].target)
                /\ Selected(request[u].target)' = Selected(request[u].target) \cup {s}
  <2>1. PICK target : target = request[u].target /\ target = request'[u].target
    BY <1>1
  <2>2. Selected(target)' \in {Selected(target), Selected(target) \cup {s}}
    BY <1>1 DEF Selected
  <2>3. s \notin Selected(target)
    BY <1>1 DEF Selected
  <2>. QED
    BY <2>1, <2>2, <2>3
<1>. QED
  BY <1>1, <1>2, <1>3, GrownServed DEF Longer

LEMMA PushEventStep ==
    ASSUME ServeInv, NEW s \in StreamId, NEW e \in Event, PushEvent(s, e)
    PROVE  ServeInv'
<1>1. /\ log' = [log EXCEPT ![s] = Append(@, e)] /\ kind' = kind /\ Len(log[s]) < MaxLog[s]
      /\ UNCHANGED <<vars, engineVars, request, plays>>
  BY DEF PushEvent, Log!Extend
<1>2. PICK n \in Nat : n = Len(log[s]) /\ DOMAIN log[s] = 1..n
  BY LenProperties DEF ServeInv, LogsOK
<1>3. log \in [StreamId -> Seq(Event)] /\ log[s] \in Seq(Event)
  BY DEF ServeInv, LogsOK
<1>4. /\ log'[s] \in Seq(Event) /\ Len(log'[s]) = n + 1 /\ DOMAIN log'[s] = 1..(n + 1)
      /\ \A i \in 1..n : log'[s][i] = log[s][i]
      /\ \A u \in StreamId : u # s => log'[u] = log[u]
  <2>1. log'[s] = Append(log[s], e) /\ \A u \in StreamId : u # s => log'[u] = log[u]
    BY <1>1, <1>3
  <2>2. /\ Append(log[s], e) \in Seq(Event) /\ Len(Append(log[s], e)) = n + 1
        /\ \A i \in 1..n : Append(log[s], e)[i] = log[s][i]
    BY <1>2, <1>3, AppendProperties
  <2>. QED
    BY <2>1, <2>2, LenProperties
<1>5. LogsOK'
  <2>1. log' \in [StreamId -> Seq(Event)] /\ DOMAIN kind' \subseteq StreamId
    BY <1>1, <1>3, <1>4 DEF ServeInv, LogsOK
  <2>2. MaxLog[s] \in Nat
    BY ServiceAssumption
  <2>3. Len(log'[s]) <= MaxLog[s]
    BY <1>1, <1>2, <1>4, <2>2
  <2>4. \A u \in StreamId : Len(log'[u]) <= MaxLog[u]
    BY <1>4, <2>3 DEF ServeInv, LogsOK
  <2>. QED
    BY <2>1, <2>4 DEF LogsOK
<1>6. ASSUME NEW u \in StreamId PROVE Longer(u)
  <2>1. \A i \in 1..n : i \in 1..(n + 1)
    OBVIOUS
  <2>. QED
    BY <1>2, <1>4, <2>1 DEF Longer
<1>7. \A u \in Thread : \A v \in Selected(request[u].target) :
          v \in Selected(request[u].target)' /\ v \in StreamId
  BY <1>1 DEF Selected, ServeInv, LogsOK
<1>. QED
  BY <1>1, <1>5, <1>6, <1>7, GrownServed

LEMMA DeleteStreamStep ==
    ASSUME ServeInv, NEW s \in StreamId, DeleteStream(s)
    PROVE  ServeInv'
<1>1. /\ kind' = [i \in DOMAIN kind \ {s} |-> kind[i]]
      /\ log' = [log EXCEPT ![s] = <<>>]
      /\ request' = [t \in Thread |->
                        IF request[t] # Idle /\ s \in Selected(request[t].target)
                        THEN [request[t] EXCEPT !.dropped = TRUE] ELSE request[t]]
      /\ up => \A t \in Thread : request[t].at = "reading" => request[t].rows = <<>>
      /\ UNCHANGED <<vars, engineVars, plays>>
  BY DEF DeleteStream, Log!Drop
<1>2. LogsOK' /\ RequestsOK
  <2>1. LogsOK /\ RequestsOK /\ MaxLog[s] \in Nat /\ <<>> \in Seq(Event)
    BY ServiceAssumption DEF ServeInv
  <2>2. /\ log' \in [StreamId -> Seq(Event)]
        /\ log'[s] = <<>> /\ \A u \in StreamId : u # s => log'[u] = log[u]
    BY <1>1, <2>1 DEF LogsOK
  <2>3. Len(log'[s]) <= MaxLog[s]
    BY <2>1, <2>2, EmptySeq
  <2>4. \A u \in StreamId : Len(log'[u]) <= MaxLog[u]
    BY <2>1, <2>2, <2>3 DEF LogsOK
  <2>5. DOMAIN kind' \subseteq StreamId
    BY <1>1, <2>1 DEF LogsOK
  <2>. QED
    BY <2>1, <2>2, <2>4, <2>5 DEF LogsOK
<1>3. ASSUME NEW u \in Thread
      PROVE  /\ request'[u] \in {Idle} \cup Request
             /\ Served(u)'
             /\ request[u] = Idle => request'[u] = Idle
             /\ Playing(u) /\ Faulty(u) => Playing(u)' /\ Faulty(u)'
  <2>1. PICK q : q = request[u]
    OBVIOUS
  <2>2. PICK r : r = request'[u]
    OBVIOUS
  <2>3. PICK j : j = job[u]
    OBVIOUS
  <2>4. /\ SourceOf(q) /\ EngineOf(q, j) /\ FirstOf(q, j) /\ ReadsOf(q, j)
        /\ q \in {Idle} \cup Request /\ (q = Idle => q.at = "idle")
    BY <1>2, <2>1, <2>3 DEF ServeInv, Served, RequestsOK, Idle
  <2>5. /\ r \in {Idle} \cup Request /\ r.at = q.at /\ (q = Idle => r = Idle)
        /\ q # Idle => /\ r.script = q.script /\ r.target = q.target /\ r.id = q.id
                       /\ r.first = q.first /\ r.wanted = q.wanted
                       /\ r.rows = q.rows /\ r.events = q.events /\ r.from = q.from
                       /\ r.dropped = (q.dropped \/ s \in Selected(q.target))
    <3>1. CASE q # Idle /\ s \in Selected(q.target)
      <4>1. r = [q EXCEPT !.dropped = TRUE]
        BY <1>1, <2>1, <2>2, <3>1
      <4>2. q \in Request
        BY <2>4, <3>1
      <4>. QED
        BY <3>1, <4>1, <4>2 DEF Request
    <3>2. CASE ~(q # Idle /\ s \in Selected(q.target))
      <4>1. r = q
        BY <1>1, <2>1, <2>2, <3>2
      <4>2. q # Idle => q.dropped \in BOOLEAN
        BY <2>4 DEF Request
      <4>. QED
        BY <2>4, <3>2, <4>1, <4>2
    <3>. QED
      BY <3>1, <3>2
  <2>6. SourceOf(r)'
    BY <1>1, <2>4, <2>5 DEF SourceOf, vars
  <2>7. EngineOf(r, j)' /\ FirstOf(r, j)'
    BY <1>1, <2>4, <2>5 DEF EngineOf, FirstOf, engineVars, E!Sound
  <2>8. s \notin Selected(q.target) =>
            /\ Selected(q.target)' = Selected(q.target)
            /\ \A v \in Selected(q.target) : log'[v] = log[v]
    BY <1>1 DEF ServeInv, LogsOK, Selected
  <2>9. ReadsOf(r, j)'
    <3>1. s \notin Selected(q.target) =>
              Positions(Selected(q.target))' = Positions(Selected(q.target))
      BY <2>8 DEF Positions
    <3>2. CursorOf(r)'
      <4>. SUFFICES ASSUME up, Pending(r)
                    PROVE  /\ r.rows = <<>> /\ ScanOf(Positions(Selected(r.target))', r)
                           /\ Copied(r)'
        BY <1>1 DEF CursorOf, engineVars
      <4>1. q # Idle /\ Pending(q)
        BY <2>5 DEF Pending, Idle
      <4>2. /\ q.at = "asked" => q.rows = <<>>
            /\ ScanOf(Positions(Selected(q.target)), q) /\ Copied(q)
        BY <2>4, <4>1 DEF ReadsOf, CursorOf
      <4>3. q.rows = <<>>
        BY <1>1, <2>1, <4>1, <4>2 DEF Pending
      <4>4. r.rows = <<>> /\ Len(r.events) = Len(r.rows)
        BY <2>5, <4>1, <4>2, <4>3 DEF Copied
      <4>5. Copied(r)'
        BY <4>4, EmptySeq DEF Copied
      <4>6. ~r.dropped => r.from \subseteq Positions(Selected(q.target))'
        <5>1. ~q.dropped => q.from \subseteq Positions(Selected(q.target))
          BY <4>2, <4>3 DEF ScanOf, Remaining, ToSet
        <5>. QED
          BY <2>5, <3>1, <4>1, <5>1
      <4>7. PICK N : N = Positions(Selected(q.target))'
        OBVIOUS
      <4>8. ScanOf(N, r)
        BY <4>4, <4>6, <4>7, Unstarted
      <4>. QED
        BY <2>5, <4>1, <4>4, <4>5, <4>7, <4>8
    <3>3. PlayedFrom(r, j)'
      <4>. SUFFICES ASSUME r.at = "playing", ~r.dropped
                    PROVE  PlayedFrom(r, j)'
        BY DEF PlayedFrom
      <4>1. q # Idle
        BY <2>5 DEF Idle
      <4>2. /\ s \notin Selected(q.target) /\ ~q.dropped /\ q.at = "playing"
            /\ r.target = q.target
        BY <2>5, <4>1
      <4>3. \A i \in 1..Len(j.events) :
                \E v \in Selected(q.target) : j.events[i] \in ToSet(log[v])
        BY <2>4, <4>2 DEF ReadsOf, PlayedFrom
      <4>. QED
        BY <2>8, <4>2, <4>3 DEF PlayedFrom, ToSet
    <3>. QED
      BY <3>2, <3>3 DEF ReadsOf
  <2>10. job'[u] = j /\ job' = job
    BY <1>1, <2>3 DEF engineVars
  <2>11. Served(u)'
    BY <2>2, <2>6, <2>7, <2>9, <2>10 DEF Served
  <2>12. ASSUME Playing(u), Faulty(u) PROVE Playing(u)' /\ Faulty(u)'
    <3>1. q.at = "playing" /\ q # Idle
      BY <2>1, <2>4, <2>12 DEF Playing
    <3>2. /\ r.at = "playing" /\ r.target = q.target
          /\ r.dropped = (q.dropped \/ s \in Selected(q.target))
      BY <2>5, <3>1
    <3>3. Playing(u)' /\ UNCHANGED <<stack, defined, job>>
      BY <1>1, <2>2, <3>2 DEF Playing, engineVars
    <3>4. CASE s \in Selected(q.target)
      BY <2>2, <3>2, <3>3, <3>4 DEF Faulty
    <3>5. CASE s \notin Selected(q.target)
      BY <2>1, <2>2, <2>8, <2>12, <3>2, <3>3, <3>5 DEF Faulty
    <3>. QED
      BY <3>4, <3>5
  <2>. QED
    BY <2>1, <2>2, <2>5, <2>11, <2>12
<1>4. RequestsOK'
  BY <1>1, <1>2, <1>3 DEF RequestsOK
<1>5. SoleFault'
  BY <1>1, <1>3 DEF ServeInv, SoleFault, AbortHasReason, engineVars
<1>6. plays' = 0 => stack' = <<>> /\ \A u \in Thread : request'[u] = Idle
  BY <1>1, <1>3 DEF ServeInv, engineVars
<1>. QED
  BY <1>1, <1>2, <1>3, <1>4, <1>5, <1>6, PartsStay DEF ServeInv

LEMMA RestartStep ==
    ASSUME ServeInv, Restart
    PROVE  ServeInv'
<1>1. /\ up' = TRUE /\ stack' = <<>> /\ defined' = {} /\ plays' = 0
      /\ job' = [t \in Thread |-> Idle] /\ request' = [t \in Thread |-> Idle]
      /\ UNCHANGED <<vars, logVars>>
  BY DEF Restart
<1>2. EngineOK'
  <2>1. E!SharedInv'
    BY <1>1, Assumed, E!StartKeepsShared DEF Idle, E!Idle
  <2>2. E!HeapInv'
    BY <1>1, Assumed, E!StartKeepsHeap DEF Idle, E!Idle
  <2>. QED
    BY <2>1, <2>2 DEF EngineOK
<1>3. RequestsOK' /\ \A u \in Thread : request'[u] = Idle /\ job'[u] = Idle
  BY <1>1 DEF RequestsOK
<1>4. \A u \in Thread : Served(u)'
  BY <1>3 DEF Served, SourceOf, EngineOf, FirstOf, ReadsOf, CursorOf, Pending, PlayedFrom, Idle
<1>. QED
  BY <1>1, <1>2, <1>3, <1>4, PartsStay DEF ServeInv, SoleFault, AbortHasReason

---------------------------------------------------------------------------
(* Every behaviour.                                                        *)

LEMMA ServeInitInv == ServeInit => ServeInv
<1>. SUFFICES ASSUME ServeInit PROVE ServeInv
  OBVIOUS
<1>1. /\ kind = [s \in {} |-> s] /\ Log!Init /\ plays = 0
      /\ Engine!Init /\ request = [t \in Thread |-> Idle]
  BY DEF ServeInit
<1>2. IInv
  BY InitIInv DEF ServeInit
<1>3. up = TRUE /\ stack = <<>> /\ defined = {} /\ job = [t \in Thread |-> Idle]
  BY <1>1 DEF Engine!Init, Engine!Idle, Idle
<1>4. EngineOK
  <2>1. E!Init
    BY <1>3 DEF E!Init, E!Idle, Idle
  <2>. QED
    BY <2>1, Assumed, E!InitHeap, E!InitShared DEF EngineOK
<1>5. LogsOK
  <2>1. log = [s \in StreamId |-> <<>>] /\ \A s \in StreamId : MaxLog[s] \in Nat
    BY <1>1, ServiceAssumption DEF Log!Init
  <2>2. <<>> \in Seq(Event) /\ Len(<<>>) = 0
    BY EmptySeq
  <2>. QED
    BY <1>1, <2>1, <2>2 DEF LogsOK
<1>6. RequestsOK /\ \A t \in Thread : request[t] = Idle /\ job[t] = Idle
  BY <1>1, <1>3 DEF RequestsOK
<1>7. \A t \in Thread : Served(t)
  BY <1>6 DEF Served, SourceOf, EngineOf, FirstOf, ReadsOf, CursorOf, Pending, PlayedFrom, Idle
<1>. QED
  BY <1>2, <1>3, <1>4, <1>5, <1>6, <1>7 DEF ServeInv, SoleFault, AbortHasReason

LEMMA RunStep ==
    ASSUME ServeInv, NEW t \in Thread, Run(t)
    PROVE  ServeInv'
<1>1. /\ request[t].at = "playing"
      /\ UNCHANGED <<vars, logVars, request, plays>>
      /\ \/ Engine!Read(t) \/ Engine!Lookup(t) \/ Engine!PushArguments(t)
         \/ Engine!CallReturns(t) \/ Engine!CallFails(t) \/ Engine!Finish(t)
         \/ Engine!Abort(t)
  BY DEF Run
<1>2. CASE Engine!Abort(t)
  BY <1>1, <1>2, SameAbort, AbortStep
<1>3. CASE ~Engine!Abort(t)
  <2>1. E!Works(t)
    BY <1>1, <1>3, SameWork
  <2>. QED
    BY <1>1, <2>1, WorkStep
<1>. QED
  BY <1>2, <1>3

LEMMA ServeStutters ==
    ASSUME ServeInv, UNCHANGED serveVars
    PROVE  ServeInv'
<1>1. /\ UNCHANGED <<vars, logVars, engineVars, request, plays>>
      /\ UNCHANGED <<kind, log, asked>>
  BY DEF serveVars, logVars, vars
<1>2. LogsOK'
  BY <1>1 DEF ServeInv, LogsOK
<1>3. \A u \in Thread : Selected(request[u].target)' = Selected(request[u].target)
  BY <1>1 DEF Selected
<1>. QED
  BY <1>1, <1>2, <1>3, GrownServed DEF Longer

LEMMA NextServeInv ==
    ASSUME ServeInv, [ServeNext]_serveVars
    PROVE  ServeInv'
<1>1. ASSUME NEW t \in Thread, NEW id \in ProjId, NEW target \in Targets, Ask(t, id, target)
      PROVE  ServeInv'
  BY <1>1, AskStep
<1>2. ASSUME NEW t \in Thread, PlayStep(t) PROVE ServeInv'
  <2>1. CASE ReadProjection(t)
    BY <2>1, ReadProjectionStep
  <2>2. CASE ReadRow(t)
    BY <2>2, ReadRowStep
  <2>3. CASE ReadEvents(t)
    BY <2>3, ReadEventsStep
  <2>4. CASE Run(t)
    BY <2>4, RunStep
  <2>5. CASE Answer(t)
    BY <2>5, AnswerStep
  <2>. QED
    BY <1>2, <2>1, <2>2, <2>3, <2>4, <2>5 DEF PlayStep
<1>3. ASSUME NEW data \in Script, NEW type \in Type \cup {Empty}, CreateProj(data, type)
      PROVE  ServeInv'
  BY <1>3, CreateProjStep
<1>4. ASSUME NEW id \in ProjId, DeleteProj(id) PROVE ServeInv'
  BY <1>4, DeleteProjStep
<1>5. ASSUME NEW s \in StreamId, NEW k \in Kind, CreateStream(s, k) PROVE ServeInv'
  BY <1>5, CreateStreamStep
<1>6. ASSUME NEW s \in StreamId, NEW e \in Event, PushEvent(s, e) PROVE ServeInv'
  BY <1>6, PushEventStep
<1>7. ASSUME NEW s \in StreamId, DeleteStream(s) PROVE ServeInv'
  BY <1>7, DeleteStreamStep
<1>8. CASE Restart
  BY <1>8, RestartStep
<1>9. CASE UNCHANGED serveVars
  BY <1>9, ServeStutters
<1>. QED
  BY <1>1, <1>2, <1>3, <1>4, <1>5, <1>6, <1>7, <1>8, <1>9 DEF ServeNext

\* A request is served by the projection, the events and the job that are its own,
\* and by an engine to itself where plays do not overlap.
THEOREM ServeInvariant == ServeSpec => []ServeInv
<1>1. ServeInit => ServeInv
  BY ServeInitInv
<1>2. ServeInv /\ [ServeNext]_serveVars => ServeInv'
  BY NextServeInv
<1>. QED
  BY <1>1, <1>2, PTL DEF ServeSpec

\* A thread works in the engine for a request that has got that far, on the source
\* that was read for it, however many plays overlap.
THEOREM ServeTypeCorrect == ServeSpec => []ServeTypeOK
<1>1. ServeInv => ServeTypeOK
  <2>. SUFFICES ASSUME ServeInv PROVE ServeTypeOK
    OBVIOUS
  <2>1. DOMAIN kind \subseteq StreamId
        /\ \A s \in StreamId : log[s] \in Seq(Event) /\ Len(log[s]) <= MaxLog[s]
    BY DEF ServeInv, LogsOK
  <2>2. E!TypeOK
    BY Assumed, E!SharedTypes DEF ServeInv, EngineOK
  <2>3. \A t \in Thread :
            /\ job[t] # Idle <=> Playing(t)
            /\ Playing(t) => job[t].script = request[t].script
    BY DEF ServeInv, Served, EngineOf, Playing
  <2>. QED
    BY <2>1, <2>2, <2>3, SameTypes DEF ServeTypeOK
<1>. QED
  BY <1>1, ServeInvariant, PTL

\* However many plays overlap, a successful answer is for the source that the list of
\* projections showed to the client, and a projection with a type gets none.
AnswersAreAsked ==
    \A t \in Thread :
        Succeeded(t) /\ request[t].wanted # Unknown =>
            /\ request[t].wanted.type = Empty
            /\ job[t].script = request[t].wanted.data

LEMMA ServedAsAsked == ServeInv => AnswersAreAsked
<1>. SUFFICES ASSUME ServeInv, NEW t \in Thread, Succeeded(t), request[t].wanted # Unknown
              PROVE  /\ request[t].wanted.type = Empty
                     /\ job[t].script = request[t].wanted.data
  BY DEF AnswersAreAsked
<1>1. PICK w : w = request[t].wanted
  OBVIOUS
<1>2. PICK j : j = job[t]
  OBVIOUS
<1>3. /\ j.at = "ok" /\ j # Idle /\ j.script = request[t].script
      /\ request[t].script = IF w.type = Empty THEN w.data ELSE w.type
  BY <1>1, <1>2 DEF ServeInv, Served, SourceOf, EngineOf, Succeeded, Playing
<1>4. w.type \in Type \cup {Empty}
  <2>1. request[t] # Idle
    BY DEF Succeeded, Playing, Idle
  <2>2. w \in Asked
    BY <1>1, <2>1, RequestOf DEF ServeInv
  <2>. QED
    BY <2>2 DEF Asked
<1>5. j.script \notin Broken \cup Type
  <2>1. E!JobOK(j)
    BY <1>2, <1>3 DEF ServeInv, EngineOK, E!SharedInv, E!Idle, Idle
  <2>. QED
    BY <1>3, <2>1 DEF E!JobOK
<1>. QED
  BY <1>1, <1>2, <1>3, <1>4, <1>5

THEOREM AnswersAreAskedHolds == ServeSpec => []AnswersAreAsked
<1>. QED
  BY ServeInvariant, ServedAsAsked, PTL

\* Where plays do not overlap, a successful answer is also made by that source.
THEOREM RightSourceHolds ==
    ASSUME OneThread
    PROVE  ServeSpec => []RightSource
<1>1. ServeInv => RightSource
  <2>. SUFFICES ASSUME ServeInv, NEW t \in Thread, Succeeded(t), request[t].wanted # Unknown
                PROVE  /\ request[t].wanted.type = Empty
                       /\ job[t].script = request[t].wanted.data
                       /\ request[t].wanted.data \in Defining =>
                             \A i \in DOMAIN job[t].state :
                                 job[t].state[i][1] = request[t].wanted.data
    BY DEF RightSource
  <2>1. PICK w : w = request[t].wanted
    OBVIOUS
  <2>2. PICK j : j = job[t]
    OBVIOUS
  <2>3. w.type = Empty /\ j.script = w.data /\ j.at = "ok"
    BY <2>1, <2>2, ServedAsAsked DEF AnswersAreAsked, Succeeded
  <2>4. ASSUME w.data \in Defining, NEW i \in DOMAIN j.state PROVE j.state[i][1] = w.data
    <3>1. E!ResultIsFold
      BY Assumed, E!AnswersAreFolds DEF ServeInv, EngineOK, E!HeapInv
    <3>2. PICK f : /\ job[t].state = [n \in DOMAIN job[t].events |->
                                          <<f, E!EventArg(job[t].events[n])>>]
                   /\ job[t].script \in Defining => f = job[t].script
      BY <2>2, <2>3, <3>1 DEF E!ResultIsFold
    <3>3. DOMAIN j.state = DOMAIN j.events
      BY <2>2, <3>2
    <3>4. j.state[i] = <<f, E!EventArg(j.events[i])>>
      BY <2>2, <2>4, <3>2, <3>3
    <3>5. j.state[i][1] = f
      BY <3>4
    <3>. QED
      BY <2>2, <2>3, <2>4, <3>2, <3>5
  <2>. QED
    BY <2>1, <2>2, <2>3, <2>4
<1>. QED
  BY <1>1, ServeInvariant, PTL

\* What a cursor that has no row ahead has returned.
LEMMA AtTheEnd ==
    ASSUME LogsOK, NEW r \in Request, ScanOf(Positions(Selected(r.target)), r), Copied(r),
           Ahead(r) = {}
    PROVE  EventsOf(r, r.events)
<1>1. PICK M : M = Positions(Selected(r.target))
  OBVIOUS
<1>2. PICK rs \in Seq(Keys) : rs = r.rows
  BY DEF Request
<1>3. PICK R : R = ToSet(rs)
  OBVIOUS
<1>4. /\ M \in SUBSET Keys
      /\ \A k \in M : k[1] \in Selected(r.target) /\ k[2] \in DOMAIN log[k[1]]
  BY <1>1, SelectedAreStreams, PositionsAreKeys
<1>5. Sorted(rs) /\ R \subseteq M /\ Gapless(R) /\ (~r.dropped => r.from \subseteq R)
  <2>1. Remaining(M, rs) = {}
    BY <1>1, <1>2 DEF Remaining, Ahead
  <2>. QED
    BY <1>1, <1>2, <1>3, <2>1 DEF ScanOf
<1>6. Len(r.events) = Len(rs) /\ \A i \in DOMAIN r.events : r.events[i] = At(rs[i])
  <2>1. DOMAIN r.events = 1..Len(r.events)
    BY LenProperties DEF Request
  <2>. QED
    BY <1>2, <2>1 DEF Copied
<1>7. \A i \in 2..Len(rs) : Before(rs[i - 1], rs[i])
  <2>1. Len(rs) \in Nat
    BY LenProperties
  <2>2. \A i \in 2..Len(rs) : i - 1 \in 1..Len(rs) /\ i \in 1..Len(rs) /\ i - 1 < i
    BY <2>1
  <2>. QED
    BY <1>5, <2>2 DEF Sorted
<1>8. ASSUME NEW s \in StreamId
      PROVE  \E n \in 0..MaxLog[s] : {k \in R : k[1] = s} = {s} \X (1..n)
  <2>1. PICK n \in Nat : \A v \in Nat : <<s, v>> \in R <=> v \in 1..n
    BY <1>5 DEF Gapless
  <2>2. n \in 0..MaxLog[s]
    <3>1. /\ Len(log[s]) \in Nat /\ DOMAIN log[s] = 1..Len(log[s])
          /\ Len(log[s]) <= MaxLog[s] /\ MaxLog[s] \in Nat
      BY LenProperties, ServiceAssumption DEF LogsOK
    <3>2. CASE n = 0
      BY <3>1, <3>2
    <3>3. CASE n # 0
      <4>1. n \in 1..n
        BY <3>3
      <4>2. <<s, n>> \in M
        BY <1>5, <2>1, <4>1
      <4>3. <<s, n>>[1] = s /\ <<s, n>>[2] = n
        OBVIOUS
      <4>4. n \in DOMAIN log[s]
        BY <1>4, <4>2, <4>3
      <4>. QED
        BY <3>1, <4>4
    <3>. QED
      BY <3>2, <3>3
  <2>3. \A k \in R : k = <<k[1], k[2]>> /\ k[2] \in Nat
    BY <1>4, <1>5, KeysAreNumbers
  <2>4. {k \in R : k[1] = s} = {s} \X (1..n)
    <3>1. ASSUME NEW k \in R, k[1] = s PROVE k \in {s} \X (1..n)
      <4>1. k = <<s, k[2]>> /\ k[2] \in Nat
        BY <2>3, <3>1
      <4>. QED
        BY <2>1, <4>1
    <3>2. ASSUME NEW v \in 1..n PROVE <<s, v>> \in R /\ <<s, v>>[1] = s
      BY <2>1
    <3>. QED
      BY <3>1, <3>2
  <2>. QED
    BY <2>2, <2>4
<1>9. r.target.by = "id" => R = M
  <2>. SUFFICES ASSUME r.target.by = "id", NEW k \in M PROVE k \in R
    BY <1>5
  <2>1. rs # <<>> /\ ~Before(Last(rs), k)
    BY <1>1, <1>2 DEF Ahead
  <2>2. PICK last : last = Last(rs)
    OBVIOUS
  <2>3. last \in R
    BY <1>3, <2>1, <2>2, LenProperties, EmptySeq DEF Last, ToSet
  <2>4. /\ last = <<last[1], last[2]>> /\ last[1] \in Nat /\ last[2] \in Nat
        /\ k = <<k[1], k[2]>> /\ k[1] \in StreamId /\ k[1] \in Nat /\ k[2] \in Nat
    BY <1>4, <1>5, <2>3, KeysAreNumbers
  <2>5. last[1] = k[1]
    <3>1. last[1] \in Selected(r.target) /\ k[1] \in Selected(r.target)
      BY <1>4, <1>5, <2>3
    <3>. QED
      BY <3>1 DEF Selected
  <2>6. k[2] <= last[2]
    BY <2>1, <2>2, <2>4, <2>5 DEF Before
  <2>7. PICK n \in Nat : \A v \in Nat : <<k[1], v>> \in R <=> v \in 1..n
    BY <1>5, <2>4 DEF Gapless
  <2>8. last[2] \in 1..n
    BY <2>3, <2>4, <2>5, <2>7
  <2>9. k[2] >= 1
    <3>1. k[2] \in DOMAIN log[k[1]] /\ DOMAIN log[k[1]] = 1..Len(log[k[1]])
      BY <1>4, <2>4, LenProperties DEF LogsOK
    <3>. QED
      BY <2>4, <3>1
  <2>. QED
    BY <2>4, <2>6, <2>7, <2>8, <2>9
<1>. QED
  BY <1>1, <1>2, <1>3, <1>5, <1>6, <1>7, <1>8, <1>9 DEF EventsOf

\* A request goes from the cursor to the engine in one way only.
LEMMA PlaysAfterReading ==
    ASSUME ServeInv, [ServeNext]_serveVars, NEW t \in Thread,
           request[t].at = "reading", request'[t].at = "playing"
    PROVE  ReadEvents(t)
<1>1. request \in [Thread -> {Idle} \cup Request]
  BY DEF ServeInv, RequestsOK
<1>2. ASSUME NEW u \in Thread, u # t,
             (\E id \in ProjId, target \in Targets : Ask(u, id, target)) \/ PlayStep(u)
      PROVE  request'[t] = request[t]
  BY <1>1, <1>2 DEF Ask, PlayStep, ReadProjection, ReadRow, ReadEvents, Run, Answer
<1>3. ASSUME NEW id \in ProjId, NEW target \in Targets, Ask(t, id, target) PROVE FALSE
  BY <1>3 DEF Ask, Idle
<1>4. ~ReadProjection(t) /\ ~Run(t) /\ ~Answer(t)
  BY DEF ReadProjection, Run, Answer
<1>5. ~ReadRow(t)
  <2>. SUFFICES ASSUME ReadRow(t) PROVE FALSE
    OBVIOUS
  <2>1. PICK k : request' = [request EXCEPT ![t].rows = Append(@, k),
                                            ![t].events = Append(@, At(k))]
    BY DEF ReadRow
  <2>2. PICK q \in Request : q = request[t]
    BY <1>1, RequestOf DEF ServeInv, Idle
  <2>3. PICK a, b : a = Append(q.rows, k) /\ b = Append(q.events, At(k))
    OBVIOUS
  <2>4. request'[t] = [q EXCEPT !.rows = a, !.events = b]
    BY <1>1, <2>1, <2>2, <2>3
  <2>5. [q EXCEPT !.rows = a, !.events = b].at = q.at
    BY DEF Request
  <2>. QED
    BY <2>2, <2>4, <2>5
<1>6. ASSUME NEW id \in ProjId, DeleteProj(id) PROVE FALSE
  <2>1. PICK q \in Request : q = request[t]
    BY <1>1, RequestOf DEF ServeInv, Idle
  <2>2. request'[t] = q \/ request'[t] = [q EXCEPT !.wanted = Unknown]
    BY <1>6, <2>1 DEF DeleteProj
  <2>3. [q EXCEPT !.wanted = Unknown].at = q.at
    BY DEF Request
  <2>. QED
    BY <2>1, <2>2, <2>3
<1>7. ASSUME NEW s \in StreamId, DeleteStream(s) PROVE FALSE
  <2>1. PICK q \in Request : q = request[t]
    BY <1>1, RequestOf DEF ServeInv, Idle
  <2>2. request'[t] = q \/ request'[t] = [q EXCEPT !.dropped = TRUE]
    BY <1>7, <2>1 DEF DeleteStream
  <2>3. [q EXCEPT !.dropped = TRUE].at = q.at
    BY DEF Request
  <2>. QED
    BY <2>1, <2>2, <2>3
<1>8. ~Restart
  BY DEF Restart, Idle
<1>9. ASSUME \/ \E data \in Script, type \in Type \cup {Empty} : CreateProj(data, type)
             \/ \E s \in StreamId : \/ \E k \in Kind : CreateStream(s, k)
                                    \/ \E e \in Event : PushEvent(s, e)
             \/ UNCHANGED serveVars
      PROVE  request'[t] = request[t]
  BY <1>9 DEF CreateProj, CreateStream, PushEvent, serveVars
<1>. QED
  BY <1>2, <1>3, <1>4, <1>5, <1>6, <1>7, <1>8, <1>9 DEF ServeNext, PlayStep

\* The events that reach the engine are those stored where the cursor went: of the streams
\* asked for, in order, gap-free from each stream's first on, with all that was there when
\* the client asked unless one was deleted since, and a stream's own completely; however
\* many plays overlap, and whatever is pushed while the cursor steps.
THEOREM RightEventsHolds == ServeSpec => RightEvents
<1>1. ASSUME ServeInv, [ServeNext]_serveVars, NEW t \in Thread,
             request[t].at = "reading", Playing(t)'
      PROVE  EventsOf(request[t], job'[t].events)
  <2>1. ReadEvents(t)
    BY <1>1, PlaysAfterReading DEF Playing
  <2>2. PICK q : q = request[t]
    OBVIOUS
  <2>3. /\ q.at = "reading" /\ Ahead(q) = {} /\ up
        /\ job' = [job EXCEPT ![t] = [at |-> "read", script |-> q.script,
                                     events |-> q.events, done |-> 0,
                                     state |-> <<>>, base |-> stack]]
    BY <2>1, <2>2 DEF ReadEvents, Engine!Play
  <2>4. q \in Request /\ LogsOK
    BY <1>1, <2>2, <2>3, RequestOf DEF ServeInv, Idle
  <2>5. ScanOf(Positions(Selected(q.target)), q) /\ Copied(q)
    BY <1>1, <2>2, <2>3 DEF ServeInv, Served, ReadsOf, CursorOf, Pending
  <2>6. PICK k : k = [at |-> "read", script |-> q.script, events |-> q.events, done |-> 0,
                      state |-> <<>>, base |-> stack]
    OBVIOUS
  <2>7. job'[t] = k
    BY <1>1, <2>3, <2>6, JobOfOne DEF ServeInv
  <2>8. job'[t].events = q.events
    BY <2>6, <2>7
  <2>. QED
    BY <2>2, <2>3, <2>4, <2>5, <2>8, AtTheEnd
<1>2. ServeInv /\ [ServeNext]_serveVars =>
          [\A t \in Thread :
              request[t].at = "reading" /\ Playing(t)'
                  => EventsOf(request[t], job'[t].events)]_serveVars
  BY <1>1
<1>. QED
  BY <1>2, ServeInvariant, PTL DEF ServeSpec, RightEvents

\* The server is aborted only by a play that has a fault itself: its source, its
\* function, a payload of one of its streams, or the room that is left for it.
THEOREM AbortHasReasonHolds ==
    ASSUME OneThread
    PROVE  ServeSpec => []AbortHasReason
<1>1. ServeInv => AbortHasReason
  BY DEF ServeInv, SoleFault
<1>. QED
  BY <1>1, ServeInvariant, PTL

\* A restart heals: the first play after it succeeds if what it plays is sound and
\* short, whatever was played before.
THEOREM FirstPlayWorksHolds ==
    ASSUME OneThread
    PROVE  ServeSpec => []FirstPlayWorks
<1>1. ServeInv => FirstPlayWorks
  <2>. SUFFICES ASSUME ServeInv, NEW t \in Thread, Playing(t), request[t].first,
                       request[t].wanted.type = Empty,
                       request[t].wanted.data \in Defining \ (Broken \cup Failing),
                       WellFormed(t), Short(t)
                PROVE  up /\ job[t].at # "failed"
    BY DEF FirstPlayWorks
  <2>1. PICK w : w = request[t].wanted
    OBVIOUS
  <2>2. PICK j : j = job[t]
    OBVIOUS
  <2>3. w.data \in Script /\ w.data # Empty /\ w.data \notin Type
    BY <2>1, Assumed, ServiceAssumption, ProjectionAssumption
  <2>4. w # Unknown
    BY <2>3 DEF Unknown
  <2>5. j.script = w.data
    BY <2>1, <2>2, <2>4 DEF ServeInv, Served, SourceOf, EngineOf, Playing
  <2>6. E!Sound(j)
    BY <2>1, <2>2, <2>3, <2>5 DEF E!Sound, WellFormed
  <2>. QED
    BY <2>2, <2>6 DEF ServeInv, Served, FirstOf, Playing, Short
<1>. QED
  BY <1>1, ServeInvariant, PTL

---------------------------------------------------------------------------
(* Projections, for any number of threads.                                 *)

LEMMA ServeNextRows == IInv /\ [ServeNext]_serveVars => IInv'
<1>. SUFFICES ASSUME IInv, [ServeNext]_serveVars PROVE IInv'
  OBVIOUS
<1>1. ASSUME NEW data \in Script, NEW type \in Type \cup {Empty}, CreateProj(data, type)
      PROVE  IInv'
  BY <1>1, CreateKeeps DEF CreateProj
<1>2. ASSUME NEW id \in ProjId, DeleteProj(id) PROVE IInv'
  BY <1>2, DeleteKeeps DEF DeleteProj
<1>3. ASSUME NEW t \in Thread,
             (\E id \in ProjId, target \in Targets : Ask(t, id, target)) \/ PlayStep(t)
      PROVE  UNCHANGED vars
  BY <1>3 DEF Ask, PlayStep, ReadProjection, ReadRow, ReadEvents, Run, Answer
<1>4. ASSUME NEW s \in StreamId,
             \/ \E k \in Kind : CreateStream(s, k)
             \/ \E e \in Event : PushEvent(s, e)
             \/ DeleteStream(s)
      PROVE  UNCHANGED vars
  BY <1>4 DEF CreateStream, PushEvent, DeleteStream
<1>5. CASE Restart
  BY <1>5, PartsStay DEF Restart
<1>6. CASE UNCHANGED serveVars
  BY <1>6, PartsStay DEF serveVars
<1>. QED
  BY <1>1, <1>2, <1>3, <1>4, <1>5, <1>6, PartsStay DEF ServeNext

\* Whatever is played, pushed, aborted and started again meanwhile: an untyped
\* projection comes back by its id.
THEOREM ServedUntypedHolds == ServeSpec => []UntypedComesBack
<1>1. ServeInit => IInv
  BY InitIInv DEF ServeInit
<1>. QED
  BY <1>1, ServeNextRows, UntypedBack, PTL DEF ServeSpec

\* And a typed one is listed with its type.
THEOREM ServedListsHolds == ServeSpec => []TypedListsRight
<1>1. ServeInit => IInv
  BY InitIInv DEF ServeInit
<1>. QED
  BY <1>1, ServeNextRows, ListsAreRight, PTL DEF ServeSpec
===========================================================================
