----------------------------- MODULE MCShell -----------------------------
(* Words for small instances of Shell. *)
EXTENDS Shell

One == <<"1">>
Big == <<" ", "99999999999">>
Empty == <<>>
Phrase == <<"it", "'", "s", " ", "me">>
Quoted == <<"\"", "a", "\"">>

MCWord == {One, Big, Empty, Phrase, Quoted}
MCNumber == {One}
MCHuge == {Big}
MCJson == {One, Big, Quoted}
==========================================================================
