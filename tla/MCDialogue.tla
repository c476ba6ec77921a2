----------------------------- MODULE MCDialogue -----------------------------
(* Instances of Dialogue for TLC. *)
EXTENDS Dialogue

(* No address, one, one twice, one that is empty and one that ends the list. *)
MCLists == {<<>>, <<"a", "b">>, <<"a", ";", "a">>, <<";", "b">>, <<"a", "b", ";">>}
=============================================================================
