------------------------- MODULE EventReadsProofs -------------------------
(***************************************************************************)
(* Theorems about EventReads, for any processes, streams, versions and     *)
(* types.  What is said of a cursor is said of a set M of matching keys    *)
(* first, whatever the tables are; then of the tables and their writers.   *)
(***************************************************************************)
EXTENDS EventReads, EventStoreProofs, SequenceTheorems

Keys == StreamId \X (Version \cup {0})

Scan == [at : {"bound", "reading"}, query : Queries, rows : Seq(Keys), from : SUBSET Keys]

---------------------------------------------------------------------------
(* Keys and sequences of keys.                                             *)

LEMMA KeysAreNumbers ==
    \A k \in Keys : /\ k = <<k[1], k[2]>>
                    /\ k[1] \in StreamId /\ k[1] \in Nat
                    /\ k[2] \in Version \cup {0} /\ k[2] \in Nat
<1>1. \A k \in Keys : k = <<k[1], k[2]>> /\ k[1] \in StreamId /\ k[2] \in Version \cup {0}
  BY DEF Keys
<1>. QED
  BY <1>1, ConstantsAssumption

LEMMA BeforeIsStrictOrder ==
    /\ \A k \in Keys : ~Before(k, k)
    /\ \A k, l, m \in Keys : Before(k, l) /\ Before(l, m) => Before(k, m)
BY KeysAreNumbers DEF Before

LEMMA AppendedRow ==
    ASSUME NEW r \in Seq(Keys), NEW k \in Keys
    PROVE  /\ Append(r, k) \in Seq(Keys)
           /\ Append(r, k) # <<>>
           /\ Last(Append(r, k)) = k
           /\ ToSet(Append(r, k)) = ToSet(r) \cup {k}
<1>1. /\ Append(r, k) \in Seq(Keys)
      /\ Append(r, k) # <<>>
      /\ Len(Append(r, k)) = Len(r) + 1
      /\ \A i \in 1..Len(r) : Append(r, k)[i] = r[i]
      /\ Append(r, k)[Len(r) + 1] = k
  BY AppendProperties
<1>2. DOMAIN Append(r, k) = 1..(Len(r) + 1) /\ DOMAIN r = 1..Len(r) /\ Len(r) \in Nat
  BY <1>1, LenProperties
<1>3. ToSet(Append(r, k)) = ToSet(r) \cup {k}
  BY <1>1, <1>2 DEF ToSet
<1>4. Last(Append(r, k)) = k
  BY <1>1 DEF Last
<1>. QED
  BY <1>1, <1>3, <1>4
---------------------------------------------------------------------------
(* What is true of a cursor c, when M is the set of the keys that match.   *)

Remaining(M, r) == {k \in M : r # <<>> => Before(Last(r), k)}

Sorted(r) == \A i, j \in 1..Len(r) : i < j => Before(r[i], r[j])

\* The versions of every stream in R are 1..n.
Gapless(R) ==
    \A s \in StreamId : \E n \in Version \cup {0} :
        \A v \in Nat : <<s, v>> \in R <=> v \in 1..n

\* Queries to which a write can add rows only at the end.
Whole(q) == q.of = "streams" \/ OneStream(q)

ScanOf(M, c) ==
    /\ c.at = "bound" => c.rows = <<>> /\ c.from = {}
    /\ c.at = "reading" => c.rows # <<>>
    /\ Sorted(c.rows)
    /\ ToSet(c.rows) \subseteq M
    /\ c.from \subseteq ToSet(c.rows) \cup Remaining(M, c.rows)
    /\ Exclusive =>
          /\ Whole(c.query) => M \subseteq ToSet(c.rows) \cup Remaining(M, c.rows)
          /\ c.query.of = "events" => Gapless(ToSet(c.rows))

LEMMA LastIsGreatest ==
    ASSUME NEW r \in Seq(Keys), Sorted(r), NEW k \in ToSet(r)
    PROVE  Last(r) \in Keys /\ (k = Last(r) \/ Before(k, Last(r)))
<1>1. Len(r) \in Nat /\ DOMAIN r = 1..Len(r)
  BY LenProperties
<1>2. PICK i \in 1..Len(r) : k = r[i]
  BY <1>1 DEF ToSet
<1>3. Len(r) \in 1..Len(r) /\ Last(r) = r[Len(r)]
  BY <1>1, <1>2 DEF Last
<1>4. Last(r) \in Keys
  BY <1>3, ElementOfSeq
<1>5. CASE i = Len(r)
  BY <1>2, <1>3, <1>5
<1>6. CASE i < Len(r)
  BY <1>2, <1>3, <1>6 DEF Sorted
<1>7. i = Len(r) \/ i < Len(r)
  <2>1. \A n \in Nat : \A j \in 1..n : j = n \/ j < n
    OBVIOUS
  <2>. QED
    BY <1>1, <2>1
<1>. QED
  BY <1>4, <1>5, <1>6, <1>7

\* The row that comes next leaves no gap behind it.
LEMMA AdvanceGapless ==
    ASSUME NEW M \in SUBSET Keys, Gapless(M), NEW r \in Seq(Keys), Sorted(r),
           ToSet(r) \subseteq M, Gapless(ToSet(r)),
           NEW k \in Remaining(M, r), \A l \in Remaining(M, r) : l = k \/ Before(k, l)
    PROVE  Gapless(ToSet(r) \cup {k})
<1>1. /\ k \in M /\ k \in Keys /\ k = <<k[1], k[2]>>
      /\ k[1] \in StreamId /\ k[1] \in Nat /\ k[2] \in Nat /\ k[2] \in Version \cup {0}
      /\ r # <<>> => Before(Last(r), k)
  BY KeysAreNumbers DEF Remaining
<1>2. \A l \in ToSet(r) : Before(l, k)
  <2>. SUFFICES ASSUME NEW l \in ToSet(r) PROVE Before(l, k)
    OBVIOUS
  <2>1. r # <<>>
    BY DEF ToSet
  <2>. QED
    BY <1>1, <2>1, LastIsGreatest, BeforeIsStrictOrder
<1>. SUFFICES ASSUME NEW s \in StreamId
              PROVE  \E n \in Version \cup {0} :
                        \A v \in Nat : <<s, v>> \in ToSet(r) \cup {k} <=> v \in 1..n
  BY DEF Gapless
<1>3. PICK n \in Version \cup {0} : \A v \in Nat : <<s, v>> \in ToSet(r) <=> v \in 1..n
  BY DEF Gapless
<1>4. CASE s # k[1]
  BY <1>1, <1>3, <1>4
<1>5. CASE s = k[1]
  <2>1. n \in Nat
    BY ConstantsAssumption
  <2>2. PICK m \in Version \cup {0} : \A v \in Nat : <<s, v>> \in M <=> v \in 1..m
    BY DEF Gapless
  <2>3. m \in Nat /\ k[2] \in 1..m
    BY <1>1, <1>5, <2>2, ConstantsAssumption
  <2>4. k[2] \notin 1..n
    <3>. SUFFICES ASSUME k[2] \in 1..n PROVE FALSE
      OBVIOUS
    <3>1. k \in ToSet(r)
      BY <1>1, <1>3, <1>5
    <3>. QED
      BY <1>1, <1>2, <3>1, BeforeIsStrictOrder
  <2>5. k[2] = n + 1
    <3>. SUFFICES ASSUME k[2] > n + 1 PROVE FALSE
      BY <1>1, <2>1, <2>3, <2>4
    <3>1. <<s, n + 1>> \in M /\ n + 1 \in Nat
      BY <1>1, <2>1, <2>2, <2>3
    <3>2. r # <<>> => Before(Last(r), <<s, n + 1>>)
      <4>. SUFFICES ASSUME r # <<>> PROVE Before(Last(r), <<s, n + 1>>)
        OBVIOUS
      <4>. DEFINE last == Last(r)
      <4>1. last \in ToSet(r)
        BY LenProperties, EmptySeq DEF Last, ToSet
      <4>2. last \in Keys
        BY <4>1, LastIsGreatest
      <4>3. last = <<last[1], last[2]>> /\ last[1] \in Nat /\ last[2] \in Nat
        BY <4>2, KeysAreNumbers
      <4>4. last[1] = s => last[2] \in 1..n
        BY <1>3, <4>1, <4>3
      <4>5. last[1] < k[1] \/ last[1] = k[1]
        BY <1>1 DEF Before
      <4>. QED
        BY <1>1, <1>5, <2>1, <4>3, <4>4, <4>5 DEF Before
    <3>3. <<s, n + 1>> \in Remaining(M, r)
      BY <3>1, <3>2 DEF Remaining
    <3>. QED
      BY <1>1, <1>5, <2>1, <3>3 DEF Before
  <2>6. \A v \in Nat : <<s, v>> \in ToSet(r) \cup {k} <=> v \in 1..(n + 1)
    <3>1. \A v \in Nat : <<s, v>> = k <=> v = n + 1
      BY <1>1, <1>5, <2>5
    <3>. QED
      BY <1>3, <2>1, <3>1
  <2>. QED
    BY <1>1, <2>5, <2>6
<1>. QED
  BY <1>4, <1>5

\* A step of the query.
LEMMA Advance ==
    ASSUME NEW M \in SUBSET Keys, NEW c \in Scan, ScanOf(M, c),
           Exclusive /\ c.query.of = "events" => Gapless(M),
           NEW k \in Remaining(M, c.rows),
           \A l \in Remaining(M, c.rows) : l = k \/ Before(k, l),
           NEW d, d = [at |-> "reading", query |-> c.query, rows |-> Append(c.rows, k),
                       from |-> IF c.at = "reading" THEN c.from ELSE Remaining(M, c.rows)]
    PROVE  d \in Scan /\ ScanOf(M, d)
<1>. DEFINE r == c.rows
            q == Append(r, k)
<1>1. r \in Seq(Keys) /\ c.from \in SUBSET Keys /\ c.query \in Queries
  BY DEF Scan
<1>2. k \in M /\ k \in Keys /\ (r # <<>> => Before(Last(r), k))
  BY DEF Remaining
<1>3. /\ q \in Seq(Keys) /\ q # <<>> /\ Last(q) = k /\ ToSet(q) = ToSet(r) \cup {k}
  BY <1>1, <1>2, AppendedRow
<1>4. /\ d.at = "reading" /\ d.query = c.query /\ d.rows = q
      /\ d.from = IF c.at = "reading" THEN c.from ELSE Remaining(M, r)
  OBVIOUS
<1>5. Remaining(M, r) \subseteq {k} \cup Remaining(M, q)
  BY <1>3 DEF Remaining
<1>6. Sorted(q)
  <2>1. /\ Len(r) \in Nat /\ Len(q) = Len(r) + 1 /\ q[Len(r) + 1] = k
        /\ \A i \in 1..Len(r) : q[i] = r[i] /\ r[i] \in ToSet(r)
    BY <1>1, <1>2, AppendProperties, LenProperties DEF ToSet
  <2>2. \A i \in 1..Len(r) : Before(r[i], k)
    <3>. SUFFICES ASSUME NEW i \in 1..Len(r) PROVE Before(r[i], k)
      OBVIOUS
    <3>1. r # <<>> /\ r[i] \in Keys
      BY <1>1, <2>1, EmptySeq, ElementOfSeq
    <3>2. Sorted(r)
      BY DEF ScanOf
    <3>. QED
      BY <1>1, <1>2, <2>1, <3>1, <3>2, LastIsGreatest, BeforeIsStrictOrder
  <2>3. \A i, j \in 1..Len(r) : i < j => Before(r[i], r[j])
    BY DEF ScanOf, Sorted
  <2>. QED
    BY <2>1, <2>2, <2>3 DEF Sorted
<1>7. ToSet(q) \subseteq M
  BY <1>2, <1>3 DEF ScanOf
<1>8. d.from \subseteq ToSet(q) \cup Remaining(M, q)
  BY <1>3, <1>4, <1>5 DEF ScanOf
<1>9. Exclusive /\ Whole(c.query) => M \subseteq ToSet(q) \cup Remaining(M, q)
  BY <1>3, <1>5 DEF ScanOf
<1>10. Exclusive /\ c.query.of = "events" => Gapless(ToSet(q))
  <2>. SUFFICES ASSUME Exclusive, c.query.of = "events" PROVE Gapless(ToSet(r) \cup {k})
    BY <1>3
  <2>1. Gapless(M) /\ Sorted(r) /\ ToSet(r) \subseteq M /\ Gapless(ToSet(r))
    BY DEF ScanOf
  <2>. QED
    BY <1>1, <2>1, AdvanceGapless
<1>11. ScanOf(M, d)
  BY <1>3, <1>4, <1>6, <1>7, <1>8, <1>9, <1>10 DEF ScanOf
<1>12. d \in Scan
  <2>1. d.from \in SUBSET Keys
    BY <1>1, <1>4 DEF Remaining
  <2>. QED
    BY <1>1, <1>3, <2>1 DEF Scan
<1>. QED
  BY <1>11, <1>12

\* A write that adds rows, behind the cursor only where the query is not a whole one.
LEMMA Grown ==
    ASSUME NEW M \in SUBSET Keys, NEW N \in SUBSET Keys, M \subseteq N,
           NEW c \in Scan, ScanOf(M, c),
           Exclusive /\ Whole(c.query) => N \ M \subseteq Remaining(N, c.rows)
    PROVE  ScanOf(N, c)
<1>1. Remaining(M, c.rows) \subseteq Remaining(N, c.rows)
  BY DEF Remaining
<1>. QED
  BY <1>1 DEF ScanOf
---------------------------------------------------------------------------
(* The tables and their writers.                                           *)

LEMMA MatchingAreKeys ==
    ASSUME TypeOK, NEW q
    PROVE  Matching(q) \in SUBSET Keys
<1>1. Selected(q) \subseteq StreamId
  BY DEF Selected, TypeOK
<1>2. \A s \in StreamId : VersionsOf(s) \subseteq Version
  BY DEF VersionsOf, EventsOf, TypeOK, EventRow
<1>. QED
  BY <1>1, <1>2 DEF Matching, Keys

KeysMatch == \A q : Matching(q) \in SUBSET Keys

LEMMA KeysMatchNext == TypeOK' => KeysMatch'
<1>1. TypeOK => KeysMatch
  BY MatchingAreKeys DEF KeysMatch
<1>. QED
  BY <1>1, PTL

LEMMA MatchingMember ==
    ASSUME NEW q, NEW k
    PROVE  k \in Matching(q) <=>
              \E s \in Selected(q) : IF q.of = "streams" THEN k = <<s, 0>>
                                     ELSE \E v \in VersionsOf(s) : k = <<s, v>>
BY DEF Matching

\* While the trigger has seen every event, what matches has no gaps.
LEMMA MatchingGapless ==
    ASSUME IInv, Exclusive, NEW q, q.of = "events"
    PROVE  Gapless(Matching(q))
<1>. SUFFICES ASSUME NEW s \in StreamId
              PROVE  \E n \in Version \cup {0} :
                        \A v \in Nat : <<s, v>> \in Matching(q) <=> v \in 1..n
  BY DEF Gapless
<1>1. CASE s \in Selected(q)
  <2>1. PICK n \in Version \cup {0} : VersionsOf(s) = 1..n
    BY DEF IInv, TriggerSeesAll, Contiguous
  <2>2. \A v \in Nat : <<s, v>> \in Matching(q) <=> v \in VersionsOf(s)
    BY <1>1, MatchingMember
  <2>. QED
    BY <2>1, <2>2
<1>2. CASE s \notin Selected(q)
  <2>1. \A v \in Nat : <<s, v>> \notin Matching(q)
    BY <1>2, MatchingMember
  <2>. QED
    BY <2>1
<1>. QED
  BY <1>1, <1>2

LEMMA SameTables ==
    ASSUME UNCHANGED <<streams, events>>
    PROVE  \A q : Matching(q)' = Matching(q)
BY DEF Matching, Selected, VersionsOf, EventsOf

\* What a process adds while it reads itself lies ahead of its cursor, unless the
\* query is about several streams with their events.
LEMMA OwnCreate ==
    ASSUME IInv, NEW p \in Proc, NEW t \in Type, CreateStream(p, t),
           NEW c \in Scan, c.rows # <<>>, ToSet(c.rows) \subseteq Matching(c.query)
    PROVE  /\ Matching(c.query) \subseteq Matching(c.query)'
           /\ Whole(c.query) => Matching(c.query)' \ Matching(c.query)
                                    \subseteq Remaining(Matching(c.query)', c.rows)
<1>. DEFINE q == c.query
            last == Last(c.rows)
<1>1. PICK id \in StreamId :
          /\ IsNewRowid(DOMAIN streams, id)
          /\ streams' = [s \in DOMAIN streams \cup {id} |->
                            IF s = id THEN [type |-> t] ELSE streams[s]]
  BY DEF CreateStream
<1>2. /\ \A s \in DOMAIN streams : s < id
      /\ DOMAIN streams' = DOMAIN streams \cup {id}
      /\ \A s \in DOMAIN streams : s # id /\ streams'[s] = streams[s]
  BY <1>1, ConstantsAssumption DEF IsNewRowid, IInv, TypeOK
<1>3. \A s : VersionsOf(s)' = VersionsOf(s)
  BY DEF CreateStream, VersionsOf, EventsOf
<1>4. Selected(q) \subseteq Selected(q)' /\ Selected(q)' \subseteq Selected(q) \cup {id}
  BY <1>2 DEF Selected
<1>5. Matching(q) \subseteq Matching(q)'
  BY <1>3, <1>4 DEF Matching
<1>6. \A k \in Matching(q)' \ Matching(q) : k[1] = id
  BY <1>3, <1>4 DEF Matching
<1>7. last[1] \in DOMAIN streams
  <2>1. last \in Matching(q)
    BY LenProperties, EmptySeq DEF Last, ToSet, Scan
  <2>. QED
    BY <2>1, MatchingMember DEF Selected
<1>8. \A k \in Matching(q)' \ Matching(q) : Before(last, k)
  BY <1>2, <1>6, <1>7 DEF Before
<1>. QED
  BY <1>5, <1>8 DEF Remaining

LEMMA OwnPush ==
    ASSUME IInv, NEW p \in Proc, NEW s \in StreamId, NEW v \in Version, NEW d \in Data,
           AttachEvent(p, s, v, d),
           NEW c \in Scan, c.rows # <<>>, ToSet(c.rows) \subseteq Matching(c.query)
    PROVE  /\ Matching(c.query) \subseteq Matching(c.query)'
           /\ Exclusive /\ Whole(c.query) => Matching(c.query)' \ Matching(c.query)
                                    \subseteq Remaining(Matching(c.query)', c.rows)
<1>. DEFINE q == c.query
            last == Last(c.rows)
<1>1. \A x \in StreamId : VersionsOf(x)' = IF x = s THEN VersionsOf(s) \cup {v}
                                           ELSE VersionsOf(x)
  BY AttachEventVersions DEF IInv
<1>2. Selected(q)' = Selected(q) /\ Selected(q) \subseteq StreamId
  BY DEF AttachEvent, Selected, IInv, TypeOK
<1>3. Matching(q) \subseteq Matching(q)'
  BY <1>1, <1>2 DEF Matching
<1>4. \A k \in Matching(q)' \ Matching(q) : k = <<s, v>> /\ q.of # "streams"
  BY <1>1, <1>2 DEF Matching
<1>5. ASSUME Exclusive, q.of # "streams", OneStream(q), <<s, v>> \in Matching(q)'
      PROVE  Before(last, <<s, v>>)
  <2>1. last \in Matching(q)
    BY LenProperties, EmptySeq DEF Last, ToSet, Scan
  <2>2. s \in Selected(q) /\ \A x \in Selected(q) : x = s
    BY <1>2, <1>5 DEF Matching, OneStream, Selected
  <2>3. PICK w \in VersionsOf(s) : last = <<s, w>>
    BY <1>5, <2>1, <2>2, MatchingMember
  <2>4. VersionValid(s, v)
    BY <1>5 DEF AttachEvent, Accepts, CanWrite, IInv, TriggerBeforeUse
  <2>. QED
    BY <2>3, <2>4 DEF VersionValid, Before
<1>. QED
  BY <1>3, <1>4, <1>5 DEF Remaining, Whole
---------------------------------------------------------------------------
(* The inductive invariant.                                                *)

CursorInv ==
    /\ cursor \in [Proc -> {Idle} \cup Scan]
    /\ \A p \in Proc : cursor[p] # Idle => ScanOf(Matching(cursor[p].query), cursor[p])
    /\ \A p \in Proc : removing[p] # {} => p \in Shell

LEMMA IdleIsNoScan ==
    \A c \in {Idle} \cup Scan :
        /\ c.at = "idle" <=> c = Idle
        /\ c # Idle => c \in Scan /\ c.at \in {"bound", "reading"}
BY DEF Idle, Scan

\* Of a cursor that has not returned anything the tables say nothing.
LEMMA Unstarted ==
    ASSUME NEW M \in SUBSET Keys, NEW N \in SUBSET Keys,
           NEW c \in Scan, ScanOf(M, c), c.rows = <<>>
    PROVE  ScanOf(N, c)
<1>1. c.at = "bound" /\ c.from = {} /\ ToSet(c.rows) = {}
  BY DEF ScanOf, Scan, ToSet
<1>2. N \subseteq Remaining(N, c.rows)
  BY DEF Remaining
<1>. QED
  BY <1>1, <1>2 DEF ScanOf

LEMMA ScanNext ==
    ASSUME NEW x, NEW e, cursor'[x] = e, ScanOf(Matching(e.query)', e)
    PROVE  ScanOf(Matching(cursor[x].query), cursor[x])'
OBVIOUS

LEMMA ReadInitInv == ReadInit => CursorInv
<1>. SUFFICES ASSUME ReadInit PROVE CursorInv
  OBVIOUS
<1>. QED
  BY DEF ReadInit, Init, CursorInv

LEMMA PrepareInv ==
    ASSUME IInv, CursorInv, NEW p \in Proc, NEW q \in Queries, Prepare(p, q)
    PROVE  CursorInv'
<1>. DEFINE c == [at |-> "bound", query |-> q, rows |-> <<>>, from |-> {}]
<1>1. c \in Scan
  BY EmptySeq DEF Scan
<1>2. /\ cursor' = [cursor EXCEPT ![p] = c]
      /\ UNCHANGED <<streams, events, removing>>
  BY DEF Prepare, vars, db
<1>3. \A x : Matching(x)' = Matching(x)
  BY <1>2, SameTables
<1>4. ScanOf(Matching(q), c)
  <2>1. /\ Sorted(<<>>) /\ ToSet(<<>>) = {}
        /\ Matching(q) \subseteq Remaining(Matching(q), <<>>)
    BY EmptySeq DEF Sorted, ToSet, Remaining
  <2>2. Gapless({})
    <3>1. \A s \in StreamId : \A v \in Nat : <<s, v>> \in {} <=> v \in 1..0
      OBVIOUS
    <3>. QED
      BY <3>1 DEF Gapless
  <2>. QED
    BY <2>1, <2>2 DEF ScanOf
<1>5. cursor' \in [Proc -> {Idle} \cup Scan]
  BY <1>1, <1>2 DEF CursorInv
<1>6. ASSUME NEW x \in Proc, cursor'[x] # Idle
      PROVE  ScanOf(Matching(cursor[x].query), cursor[x])'
  <2>. PICK e : e = cursor'[x]
    OBVIOUS
  <2>1. ScanOf(Matching(e.query), e)
    BY <1>2, <1>4, <1>6 DEF CursorInv
  <2>. QED
    BY <1>3, <2>1, ScanNext
<1>. QED
  BY <1>2, <1>5, <1>6 DEF CursorInv

LEMMA StepRowInv ==
    ASSUME IInv, CursorInv, NEW p \in Proc, StepRow(p)
    PROVE  CursorInv'
<1>. DEFINE c == cursor[p]
            M == Matching(c.query)
<1>1. c \in Scan /\ ScanOf(M, c) /\ Ahead(c) = Remaining(M, c.rows)
  BY IdleIsNoScan DEF StepRow, CursorInv, Idle, Ahead, Remaining
<1>2. PICK k \in Ahead(c) :
          /\ \A l \in Ahead(c) \ {k} : Before(k, l)
          /\ cursor' = [cursor EXCEPT
                           ![p].at = "reading",
                           ![p].rows = Append(@, k),
                           ![p].from = IF Reading(p) THEN @ ELSE Ahead(c)]
  BY DEF StepRow
<1>3. UNCHANGED <<streams, events, removing>>
  BY DEF StepRow, vars, db
<1>4. \A x : Matching(x)' = Matching(x)
  BY <1>3, SameTables
<1>. DEFINE d == [at |-> "reading", query |-> c.query, rows |-> Append(c.rows, k),
                  from |-> IF c.at = "reading" THEN c.from ELSE Remaining(M, c.rows)]
<1>5. d \in Scan /\ ScanOf(M, d)
  <2>1. M \in SUBSET Keys
    BY MatchingAreKeys DEF IInv
  <2>2. Exclusive /\ c.query.of = "events" => Gapless(M)
    BY MatchingGapless
  <2>. HIDE DEF c, M, d
  <2>3. d = [at |-> "reading", query |-> c.query, rows |-> Append(c.rows, k),
             from |-> IF c.at = "reading" THEN c.from ELSE Remaining(M, c.rows)]
    BY DEF d
  <2>4. k \in Remaining(M, c.rows) /\ \A l \in Remaining(M, c.rows) : l = k \/ Before(k, l)
    BY <1>1, <1>2
  <2>. QED
    BY <1>1, <2>1, <2>2, <2>3, <2>4, Advance
<1>6. cursor' = [cursor EXCEPT ![p] = d]
  BY <1>1, <1>2 DEF CursorInv, Scan, Reading
<1>7. cursor' \in [Proc -> {Idle} \cup Scan]
  BY <1>5, <1>6 DEF CursorInv
<1>8. ASSUME NEW x \in Proc, cursor'[x] # Idle
      PROVE  ScanOf(Matching(cursor[x].query), cursor[x])'
  <2>. PICK e : e = cursor'[x]
    OBVIOUS
  <2>1. ScanOf(Matching(e.query), e)
    BY <1>5, <1>6, <1>8 DEF CursorInv
  <2>. QED
    BY <1>4, <2>1, ScanNext
<1>. QED
  BY <1>3, <1>7, <1>8 DEF CursorInv

\* The end of a query, that of a process, and no step at all.
LEMMA ToIdleInv ==
    ASSUME CursorInv, cursor' \in [Proc -> {Idle} \cup Scan],
           \A x \in Proc : cursor'[x] \in {Idle, cursor[x]},
           UNCHANGED <<streams, events>>, \A x \in Proc : removing'[x] \in {{}, removing[x]}
    PROVE  CursorInv'
<1>1. \A x : Matching(x)' = Matching(x)
  BY SameTables
<1>2. ASSUME NEW x \in Proc, cursor'[x] # Idle
      PROVE  ScanOf(Matching(cursor[x].query), cursor[x])'
  <2>. PICK e : e = cursor'[x]
    OBVIOUS
  <2>1. ScanOf(Matching(e.query), e)
    BY <1>2 DEF CursorInv
  <2>. QED
    BY <1>1, <2>1, ScanNext
<1>. QED
  BY <1>2 DEF CursorInv

\* What the process does that reads, and what others do.
LEMMA StoreInv ==
    ASSUME IInv, IInv', CursorInv, NEW p \in Proc, Store(p)
    PROVE  CursorInv'
<1>1. cursor' = cursor /\ (InitDb(p) \/ Write(p)) /\ (p \in Shell => cursor[p].at = "idle")
  BY DEF Store, Busy
<1>2. ASSUME NEW x \in Proc, removing'[x] # {} PROVE x \in Shell
  BY <1>1, <1>2 DEF InitDb, CheckFile, OpenFile, CreateTables, CreateTrigger,
     CreateProjections, Write, CreateStream, AttachEvent, RemoveEvents, RemoveCommit,
     RemoveRollback, CursorInv, IInv, TypeOK
<1>3. ASSUME NEW x \in Proc, cursor[x] # Idle
      PROVE  ScanOf(Matching(cursor[x].query), cursor[x])'
  <2>. PICK c : c = cursor[x]
    OBVIOUS
  <2>. PICK M, N : M = Matching(c.query) /\ N = Matching(c.query)'
    OBVIOUS
  <2>1. c \in Scan /\ ScanOf(M, c) /\ c.at # "idle"
    BY <1>3, IdleIsNoScan DEF CursorInv
  <2>2. M \in SUBSET Keys /\ N \in SUBSET Keys
    BY MatchingAreKeys, KeysMatchNext DEF IInv, KeysMatch
  <2>. SUFFICES ScanOf(N, c)
    BY <1>1, ScanNext
  <2>3. CASE c.rows = <<>>
    BY <2>1, <2>2, <2>3, Unstarted
  <2>4. CASE c.rows # <<>> /\ UNCHANGED <<streams, events>>
    BY <2>1, <2>4, SameTables
  <2>5. CASE c.rows # <<>> /\ ~UNCHANGED <<streams, events>>
    <3>1. x = p
      <4>1. Reading(x)
        BY <2>1, <2>5 DEF ScanOf, Scan, Reading
      <4>. QED
        BY <2>5, <4>1 DEF Store, Allowed, db
    <3>2. removing[p] = {}
      BY <1>1, <2>1, <3>1 DEF CursorInv
    <3>3. \/ \E t \in Type : CreateStream(p, t)
          \/ \E s \in StreamId, v \in Version, d \in Data : AttachEvent(p, s, v, d)
      BY <1>1, <2>5, <3>2 DEF InitDb, CheckFile, OpenFile, CreateTables, CreateTrigger,
         CreateProjections, Write, RemoveEvents, RemoveCommit, RemoveRollback, db
    <3>4. ToSet(c.rows) \subseteq M
      BY <2>1 DEF ScanOf
    <3>5. /\ M \subseteq N
          /\ Exclusive /\ Whole(c.query) => N \ M \subseteq Remaining(N, c.rows)
      <4>1. CASE \E t \in Type : CreateStream(p, t)
        BY <2>1, <2>5, <3>4, <4>1, OwnCreate
      <4>2. CASE \E s \in StreamId, v \in Version, d \in Data : AttachEvent(p, s, v, d)
        BY <2>1, <2>5, <3>4, <4>2, OwnPush
      <4>. QED
        BY <3>3, <4>1, <4>2
    <3>. QED
      BY <2>1, <2>2, <3>5, Grown
  <2>. QED
    BY <2>3, <2>4, <2>5
<1>. QED
  BY <1>1, <1>2, <1>3 DEF CursorInv

\* Every step is one of EventStore, or none there.
LEMMA StepOfStore ==
    ASSUME [ReadNext]_readVars
    PROVE  [Next]_vars
BY DEF ReadNext, readVars, Prepare, StepRow, StepEnd, Store, End, Next

ReadInv == IInv /\ CursorInv

LEMMA NextReadInv == ReadInv /\ [ReadNext]_readVars => ReadInv'
<1>. SUFFICES ASSUME ReadInv, [ReadNext]_readVars PROVE ReadInv'
  OBVIOUS
<1>1. IInv /\ CursorInv
  BY DEF ReadInv
<1>2. IInv'
  BY <1>1, StepOfStore, NextIInv
<1>3. ASSUME NEW p \in Proc, NEW q \in Queries, Prepare(p, q) PROVE CursorInv'
  BY <1>1, <1>3, PrepareInv
<1>4. ASSUME NEW p \in Proc, StepRow(p) PROVE CursorInv'
  BY <1>1, <1>4, StepRowInv
<1>5. ASSUME NEW p \in Proc, StepEnd(p) PROVE CursorInv'
  BY <1>1, <1>5, ToIdleInv DEF StepEnd, CursorInv, vars
<1>6. ASSUME NEW p \in Proc, Store(p) PROVE CursorInv'
  BY <1>1, <1>2, <1>6, StoreInv
<1>7. ASSUME NEW p \in Proc, End(p) PROVE CursorInv'
  BY <1>1, <1>7, ToIdleInv DEF End, Terminate, CursorInv, IInv, TypeOK, db
<1>8. ASSUME UNCHANGED readVars PROVE CursorInv'
  BY <1>1, <1>8, ToIdleInv DEF readVars, vars, CursorInv
<1>9. CursorInv'
  BY <1>3, <1>4, <1>5, <1>6, <1>7, <1>8 DEF ReadNext
<1>. QED
  BY <1>2, <1>9 DEF ReadInv

\* Every query in progress has returned, in order, keys that still match, and the
\* keys it had to return at its first step are returned or ahead of it.
THEOREM ReadInvariant == ReadSpec => []ReadInv
<1>1. ReadInit => ReadInv
  BY InitIInv, ReadInitInv DEF ReadInit, ReadInv
<1>. QED
  BY <1>1, NextReadInv, PTL DEF ReadSpec

---------------------------------------------------------------------------
(* What an answer is worth.                                                *)

\* Rows that a query has returned are not deleted under it, and come once each in
\* the order of streams and versions, for any number of processes.
THEOREM RowsAreStableHolds == ReadSpec => []RowsAreStable
<1>1. ReadInv => RowsAreStable
  <2>. SUFFICES ASSUME ReadInv, NEW p \in Proc, Reading(p)
                PROVE  /\ Rows(cursor[p]) \subseteq Matching(cursor[p].query)
                       /\ \A i \in 2..Len(cursor[p].rows) :
                             Before(cursor[p].rows[i - 1], cursor[p].rows[i])
    BY DEF RowsAreStable
  <2>1. cursor[p] \in Scan /\ ScanOf(Matching(cursor[p].query), cursor[p])
    BY IdleIsNoScan DEF ReadInv, CursorInv, Reading, Idle
  <2>2. Len(cursor[p].rows) \in Nat
    BY <2>1, LenProperties DEF Scan
  <2>3. \A n \in Nat : \A i \in 2..n : i - 1 \in 1..n /\ i \in 1..n /\ i - 1 < i
    OBVIOUS
  <2>. QED
    BY <2>1, <2>2, <2>3 DEF ScanOf, Sorted, Rows
<1>. QED
  BY <1>1, ReadInvariant, PTL

\* A query returns rows of its own kind: a stream for a query of streams, an event
\* for one of events, also after LEFT JOIN.
THEOREM CursorTypeCorrect ==
    ASSUME Exclusive
    PROVE  ReadSpec => []CursorTypeOK
<1>1. ReadInv => CursorTypeOK
  <2>. SUFFICES ASSUME ReadInv, NEW p \in Proc, cursor[p].at # "idle"
                PROVE  /\ cursor[p].at \in {"bound", "reading"}
                       /\ cursor[p].query \in Queries
                       /\ \A i \in DOMAIN cursor[p].rows :
                             /\ cursor[p].rows[i][1] \in cursor[p].query.ids
                             /\ (cursor[p].rows[i][2] = 0) = (cursor[p].query.of = "streams")
    BY DEF CursorTypeOK
  <2>. DEFINE c == cursor[p]
  <2>1. IInv /\ c \in Scan /\ ScanOf(Matching(c.query), c)
    BY IdleIsNoScan DEF ReadInv, CursorInv, Idle
  <2>2. ASSUME NEW k \in Matching(c.query)
        PROVE  k[1] \in c.query.ids /\ (k[2] = 0) = (c.query.of = "streams")
    <3>1. PICK s \in Selected(c.query) :
              IF c.query.of = "streams" THEN k = <<s, 0>>
              ELSE \E v \in VersionsOf(s) : k = <<s, v>>
      BY MatchingMember
    <3>2. s \in c.query.ids /\ s \in StreamId
      BY <2>1 DEF Selected, IInv, TypeOK
    <3>3. PICK n \in Version \cup {0} : VersionsOf(s) = 1..n
      BY <2>1, <3>2 DEF IInv, TriggerSeesAll, Contiguous
    <3>4. 0 \notin VersionsOf(s)
      BY <3>3
    <3>. QED
      BY <3>1, <3>2, <3>4
  <2>3. \A i \in DOMAIN c.rows : c.rows[i] \in Matching(c.query)
    BY <2>1 DEF ScanOf, ToSet
  <2>. QED
    BY <2>1, <2>2, <2>3 DEF Scan
<1>. QED
  BY <1>1, ReadInvariant, PTL

\* An answer is given by StepEnd, with nothing ahead of the cursor.
LEMMA AnswerIsComplete ==
    ASSUME ReadInv, [ReadNext]_readVars, NEW p \in Proc, Answered(p)
    PROVE  /\ cursor[p] \in Scan
           /\ ScanOf(Matching(cursor[p].query), cursor[p])
           /\ Remaining(Matching(cursor[p].query), cursor[p].rows) = {}
<1>. DEFINE c == cursor[p]
<1>1. c \in Scan /\ ScanOf(Matching(c.query), c)
  BY IdleIsNoScan DEF ReadInv, CursorInv, Answered, Idle
<1>2. cursor'[p] # cursor[p] /\ cursor'[p].at = "idle"
  BY DEF Answered, Idle
<1>3. cursor \in [Proc -> {Idle} \cup Scan] /\ pc \in [Proc -> ProcState]
  BY DEF ReadInv, CursorInv, IInv, TypeOK
<1>4. PICK x \in Proc : \/ \E q \in Queries : Prepare(x, q)
                        \/ StepRow(x)
                        \/ StepEnd(x)
                        \/ Store(x)
                        \/ End(x)
  BY <1>2 DEF ReadNext, readVars
<1>5. ASSUME NEW q \in Queries, Prepare(x, q) PROVE FALSE
  BY <1>2, <1>3, <1>5 DEF Prepare
<1>6. CASE StepRow(x)
  BY <1>2, <1>3, <1>6 DEF StepRow
<1>7. CASE Store(x)
  BY <1>2, <1>7 DEF Store
<1>8. CASE End(x)
  BY <1>2, <1>3, <1>8 DEF End, Terminate, Answered
<1>9. CASE StepEnd(x)
  <2>1. x = p
    BY <1>2, <1>3, <1>9 DEF StepEnd
  <2>2. Ahead(c) = {}
    BY <1>9, <2>1 DEF StepEnd
  <2>. QED
    BY <1>1, <2>2 DEF Ahead, Remaining
<1>. QED
  BY <1>4, <1>5, <1>6, <1>7, <1>8, <1>9

CurrentAnswers ==
    \A p \in Proc :
        Answered(p) /\ (cursor[p].query.of = "streams" \/ OneStream(cursor[p].query))
        => Rows(cursor[p]) = Matching(cursor[p].query)

\* The history of a stream, and a list of streams, are complete at the moment the
\* query ends, whatever was written since its first step.
THEOREM HistoryIsCurrentHolds ==
    ASSUME Exclusive
    PROVE  ReadSpec => HistoryIsCurrent
<1>1. ReadInv /\ [ReadNext]_readVars => CurrentAnswers
  <2>. SUFFICES ASSUME ReadInv, [ReadNext]_readVars, NEW p \in Proc, Answered(p),
                       Whole(cursor[p].query)
                PROVE  Rows(cursor[p]) = Matching(cursor[p].query)
    BY DEF CurrentAnswers, Whole
  <2>. QED
    BY AnswerIsComplete DEF ScanOf, Rows
<1>2. ReadInv /\ [ReadNext]_readVars => [CurrentAnswers]_readVars
  BY <1>1
<1>. QED
  BY <1>2, ReadInvariant, PTL DEF ReadSpec, HistoryIsCurrent, CurrentAnswers

PrefixAnswers ==
    \A p \in Proc :
        Answered(p) /\ cursor[p].query.of = "events" =>
            /\ cursor[p].from \subseteq Rows(cursor[p])
            /\ \A s \in StreamId :
                  \E n \in Version \cup {0} :
                      {k \in Rows(cursor[p]) : k[1] = s} = {s} \X (1..n)

\* The histories of a type are prefixes of the histories of its streams, with all
\* that was stored before the first step of the query.
THEOREM HistoriesArePrefixesHolds ==
    ASSUME Exclusive
    PROVE  ReadSpec => HistoriesArePrefixes
<1>1. ReadInv /\ [ReadNext]_readVars => PrefixAnswers
  <2>. SUFFICES ASSUME ReadInv, [ReadNext]_readVars, NEW p \in Proc, Answered(p),
                       cursor[p].query.of = "events"
                PROVE  /\ cursor[p].from \subseteq Rows(cursor[p])
                       /\ \A s \in StreamId :
                             \E n \in Version \cup {0} :
                                 {k \in Rows(cursor[p]) : k[1] = s} = {s} \X (1..n)
    BY DEF PrefixAnswers
  <2>1. /\ cursor[p].from \subseteq Rows(cursor[p])
        /\ Gapless(Rows(cursor[p]))
    BY AnswerIsComplete DEF ScanOf, Rows
  <2>2. \A k \in Rows(cursor[p]) : k \in Keys
    <3>1. cursor[p] \in Scan /\ Rows(cursor[p]) \subseteq Matching(cursor[p].query)
      BY AnswerIsComplete DEF ScanOf, Rows
    <3>. QED
      BY <3>1, MatchingAreKeys DEF ReadInv, IInv
  <2>3. ASSUME NEW s \in StreamId
        PROVE  \E n \in Version \cup {0} :
                   {k \in Rows(cursor[p]) : k[1] = s} = {s} \X (1..n)
    <3>1. PICK n \in Version \cup {0} :
              \A v \in Nat : <<s, v>> \in Rows(cursor[p]) <=> v \in 1..n
      BY <2>1 DEF Gapless
    <3>2. \A k \in Rows(cursor[p]) : k = <<k[1], k[2]>> /\ k[2] \in Nat
      BY <2>2, KeysAreNumbers
    <3>3. {k \in Rows(cursor[p]) : k[1] = s} = {s} \X (1..n)
      BY <3>1, <3>2
    <3>. QED
      BY <3>3
  <2>. QED
    BY <2>1, <2>3
<1>2. ReadInv /\ [ReadNext]_readVars => [PrefixAnswers]_readVars
  BY <1>1
<1>. QED
  BY <1>2, ReadInvariant, PTL DEF ReadSpec, HistoriesArePrefixes, PrefixAnswers
===========================================================================
