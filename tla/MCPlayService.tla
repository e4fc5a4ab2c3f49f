--------------------------- MODULE MCPlayService ---------------------------
(* A small instance of PlayService.  Nothing tells two scripts apart. *)
EXTENDS PlayService

\* Two events in one stream, so that pushes can overtake a query by type.
MCMaxLog == [s \in StreamId |-> s]

Symmetry == Permutations(Script)
===========================================================================
