--------------------------- MODULE MCRequestChain ---------------------------
(***************************************************************************)
(* Every request: tokens of a user, of user 0 and of a negative id, signed *)
(* and fresh or not.                                                       *)
(***************************************************************************)
EXTENDS RequestChain

MCSubject == {-1, 0, 1}
=============================================================================
