----------------------- MODULE ProjectionStoreProofs -----------------------
(***************************************************************************)
(* Theorems about ProjectionStore for every set of sources, types and ids: *)
(* what a client stored is what comes back by id when it has no type, and  *)
(* what is listed for its type when it has one.                            *)
(***************************************************************************)
EXTENDS ProjectionStore, TLAPS

\* The row that a source and a type become.
RowOf(data, type) ==
    [type |-> Requested(data, type).type, data |-> Requested(data, type).data]

\* Each row is the one that its client's request became, deletions and ids that come
\* back notwithstanding.
RowsAreRequests == \A i \in DOMAIN rows : rows[i] = RowOf(asked[i].data, asked[i].type)

IInv == TypeOK /\ RowsAreRequests

\* A request becomes a row of texts.
LEMMA RowOfIsRow ==
    ASSUME NEW data \in Script, NEW type \in Type \cup {Empty}
    PROVE  RowOf(data, type) \in Row
BY DEF RowOf, Requested, Untyped, Typed, Projection, Row, Text

LEMMA InitIInv == Init => IInv
BY DEF Init, IInv, TypeOK, RowsAreRequests

\* CreateProjection adds one row and its history.
LEMMA CreateKeeps ==
    ASSUME IInv,
           NEW data \in Script, NEW type \in Type \cup {Empty},
           CreateProjection(data, type)
    PROVE  IInv'
<1>1. PICK id \in ProjId :
          /\ rows' = [i \in DOMAIN rows \cup {id} |->
                         IF i = id THEN RowOf(data, type) ELSE rows[i]]
          /\ asked' = [i \in DOMAIN rows \cup {id} |->
                          IF i = id THEN [data |-> data, type |-> type] ELSE asked[i]]
  BY DEF CreateProjection, RowOf
<1>2. /\ DOMAIN rows' = DOMAIN rows \cup {id}
      /\ DOMAIN asked' = DOMAIN rows \cup {id}
  BY <1>1
<1>3. [data |-> data, type |-> type] \in Asked
  BY DEF Asked
<1>4. TypeOK'
  <2>1. \A i \in DOMAIN rows' : rows'[i] \in Row
    BY <1>1, <1>2, RowOfIsRow DEF IInv, TypeOK
  <2>2. \A i \in DOMAIN rows' : asked'[i] \in Asked
    BY <1>1, <1>2, <1>3 DEF IInv, TypeOK
  <2>3. DOMAIN rows' \subseteq ProjId
    BY <1>2 DEF IInv, TypeOK
  <2>4. rows' \in [DOMAIN rows' -> Row]
    BY <1>1, <1>2, <2>1
  <2>5. asked' \in [DOMAIN rows' -> Asked]
    BY <1>1, <1>2, <2>2
  <2>. QED
    BY <2>3, <2>4, <2>5 DEF TypeOK
<1>5. RowsAreRequests'
  <2>. SUFFICES ASSUME NEW i \in DOMAIN rows'
                PROVE  rows'[i] = RowOf(asked'[i].data, asked'[i].type)
    BY DEF RowsAreRequests, RowOf, Requested, Untyped, Typed, Projection
  <2>1. CASE i = id
    BY <2>1, <1>1, <1>2
  <2>2. CASE i # id
    BY <2>2, <1>1, <1>2 DEF IInv, RowsAreRequests
  <2>. QED
    BY <2>1, <2>2
<1>. QED
  BY <1>4, <1>5 DEF IInv

\* DeleteProjection takes a row and its history away.
LEMMA DeleteKeeps ==
    ASSUME IInv, NEW id \in ProjId, DeleteProjection(id)
    PROVE  IInv'
<1>1. /\ rows' = [i \in DOMAIN rows \ {id} |-> rows[i]]
      /\ asked' = [i \in DOMAIN asked \ {id} |-> asked[i]]
      /\ DOMAIN asked = DOMAIN rows
  BY DEF DeleteProjection, IInv, TypeOK
<1>2. TypeOK'
  BY <1>1 DEF IInv, TypeOK
<1>3. RowsAreRequests'
  BY <1>1 DEF IInv, RowsAreRequests, RowOf, Requested, Untyped, Typed, Projection
<1>. QED
  BY <1>2, <1>3 DEF IInv

LEMMA NextIInv == IInv /\ [Next]_vars => IInv'
<1>. SUFFICES ASSUME IInv, [Next]_vars
              PROVE  IInv'
  OBVIOUS
<1>1. ASSUME NEW data \in Script, NEW type \in Type \cup {Empty},
             CreateProjection(data, type)
      PROVE  IInv'
  BY <1>1, CreateKeeps
<1>2. ASSUME NEW id \in ProjId, DeleteProjection(id)
      PROVE  IInv'
  BY <1>2, DeleteKeeps
<1>3. CASE UNCHANGED vars
  BY <1>3 DEF vars, IInv, TypeOK, RowsAreRequests, RowOf, Requested, Untyped, Typed, Projection
<1>. QED
  BY <1>1, <1>2, <1>3 DEF Next

\* The inductive invariant: rows and history agree through every creation and
\* deletion of a projection.
THEOREM RowsInvariant == Spec => []IInv
BY InitIInv, NextIInv, PTL DEF Spec

\* Rows hold texts and the history speaks of the same rows.
THEOREM TypeCorrect == Spec => []TypeOK
<1>1. IInv => TypeOK
  BY DEF IInv
<1>. QED
  BY <1>1, RowsInvariant, PTL

LEMMA UntypedBack == IInv => UntypedComesBack
BY DEF IInv, RowsAreRequests, RowOf, Requested, Untyped, Projection, UntypedComesBack,
       ProjectionById, AskedFor

\* The two swaps cancel: id() gives an untyped projection its source back.
THEOREM UntypedHolds == Spec => []UntypedComesBack
BY UntypedBack, RowsInvariant, PTL

LEMMA ListsAreRight == IInv => TypedListsRight
<1>. SUFFICES ASSUME IInv, NEW t \in Type
              PROVE  ProjectionsByType(t) =
                         {AskedFor(i) : i \in {k \in DOMAIN rows : asked[k].type = t}}
  BY DEF TypedListsRight
<1>1. t # Empty /\ t \notin Script
  BY ProjectionAssumption
<1>2. \A k \in DOMAIN rows : asked[k] \in Asked
  BY DEF IInv, TypeOK
<1>3. \A k \in DOMAIN rows : rows[k].type = t <=> asked[k].type = t
  BY <1>1, <1>2 DEF IInv, RowsAreRequests, RowOf, Requested, Untyped, Typed, Projection,
                    Asked
<1>4. \A k \in DOMAIN rows : asked[k].type = t =>
          Projection(k, rows[k].data, rows[k].type) = AskedFor(k)
  BY <1>1 DEF IInv, RowsAreRequests, RowOf, Requested, Typed, Projection, AskedFor
<1>. QED
  BY <1>3, <1>4 DEF ProjectionsByType

\* type() lists exactly the projections created with the type, with their sources.
THEOREM TypedListsHolds == Spec => []TypedListsRight
BY ListsAreRight, RowsInvariant, PTL
===========================================================================
