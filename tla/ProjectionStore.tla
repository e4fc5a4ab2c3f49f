-------------------------- MODULE ProjectionStore --------------------------
(***************************************************************************)
(* The table of projections: Sqlite_projection_repo and the operations of  *)
(* Action_handler on it.  A projection is a JavaScript source with an      *)
(* optional type.  Every operation is one SQL statement, so requests of    *)
(* several threads and processes take effect one after the other.          *)
(***************************************************************************)
EXTENDS Naturals, Rowids

CONSTANTS
    Script,      \* JavaScript sources
    Type,        \* projection types
    Empty,       \* the empty string; as a type it means "no type"
    ProjId       \* row ids (bounds the size of the table)

ASSUME ProjectionAssumption ==
    /\ Empty \notin Script \cup Type
    /\ Script \cap Type = {}
    /\ ProjId \subseteq Nat \ {0}

VARIABLES
    rows,        \* table projections: row id -> row
    asked        \* history: row id -> the source and the type the client gave

vars == <<rows, asked>>

---------------------------------------------------------------------------

Text == Script \cup Type \cup {Empty}
Row == [type : Text, data : Text]
Asked == [data : Script, type : Type \cup {Empty}]

\* The constructor takes the data first.
Projection(id, data, type) == [id |-> id, data |-> data, type |-> type]

\* Mutation of Untyped: the arguments in the constructor's order.
UntypedInOrder(data) == Projection(Empty, data, Empty)

\* Action_handler::create_projection(data): Projection p = {-1, "", data}
Untyped(data) == Projection(Empty, Empty, data)

\* Action_handler::create_projection(data, type): Projection p = {-1, data, type}
Typed(data, type) == Projection(Empty, data, type)

\* The callers test the type: an empty one means the first operation.
Requested(data, type) == IF type = Empty THEN Untyped(data) ELSE Typed(data, type)

\* Sqlite_projection_repo::create
CreateProjection(data, type) ==
    /\ \E id \in ProjId :
          /\ IsNewRowid(DOMAIN rows, id)
          /\ LET p == Requested(data, type)
             IN  rows' = [i \in DOMAIN rows \cup {id} |->
                             IF i = id THEN [type |-> p.type, data |-> p.data] ELSE rows[i]]
          /\ asked' = [i \in DOMAIN rows \cup {id} |->
                           IF i = id THEN [data |-> data, type |-> type] ELSE asked[i]]

\* Sqlite_projection_repo::remove; an id that is not there is no error.
DeleteProjection(id) ==
    /\ rows' = [i \in DOMAIN rows \ {id} |-> rows[i]]
    /\ asked' = [i \in DOMAIN rows \ {id} |-> asked[i]]

\* all(): Projection s = {id, type, data}
AllProjections == {Projection(i, rows[i].type, rows[i].data) : i \in DOMAIN rows}

\* id(): Projection projection = {id, type, data}.  There is no row for an
\* unknown id, and reading its columns throws.
ProjectionById(i) == Projection(i, rows[i].type, rows[i].data)

\* Mutation of ProjectionsByType: the columns in the order of all() and id().
ProjectionsByTypeSwapped(t) ==
    {Projection(i, rows[i].type, rows[i].data) : i \in {k \in DOMAIN rows : rows[k].type = t}}

\* type(): Projection s = {id, data, type}
ProjectionsByType(t) ==
    {Projection(i, rows[i].data, rows[i].type) : i \in {k \in DOMAIN rows : rows[k].type = t}}

---------------------------------------------------------------------------

Init ==
    /\ rows = [i \in {} |-> i]
    /\ asked = [i \in {} |-> i]

Next ==
    \/ \E data \in Script, type \in Type \cup {Empty} : CreateProjection(data, type)
    \/ \E id \in ProjId : DeleteProjection(id)

Spec == Init /\ [][Next]_vars

---------------------------------------------------------------------------
(* Properties.                                                             *)

\* Rows hold texts, and the history speaks of the same rows.
TypeOK ==
    /\ DOMAIN rows \subseteq ProjId
    /\ rows \in [DOMAIN rows -> Row]
    /\ asked \in [DOMAIN rows -> Asked]

\* What the client gave for row i.
AskedFor(i) == Projection(i, asked[i].data, asked[i].type)

\* A projection without a type comes back by id, and so can be played, although
\* its source is stored in the column of the type.
UntypedComesBack ==
    \A i \in DOMAIN rows : asked[i].type = Empty => ProjectionById(i) = AskedFor(i)

\* The projections of a type are exactly those created with it, with their own
\* sources.
TypedListsRight ==
    \A t \in Type :
        ProjectionsByType(t) = {AskedFor(i) : i \in {k \in DOMAIN rows : asked[k].type = t}}

\* A projection created as 'create_projection JS [T]' is played with its JS.
EveryProjectionIsPlayable == \A i \in DOMAIN rows : ProjectionById(i).data = asked[i].data
===========================================================================
