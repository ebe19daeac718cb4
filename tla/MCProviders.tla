---------------------------- MODULE MCProviders -----------------------------
(* A small instance of Providers for TLC.                                  *)
EXTENDS Providers, TLC

CONSTANTS i1, u1, u2

(* Two that share an ID and not the URL, and one that has no ID and shares *)
(* the URL of the first.                                                   *)
A == [id |-> i1, url |-> u1]
B == [id |-> i1, url |-> u2]
C == [id |-> NoID, url |-> u1]

MCListed == {A, B, C}

(* Empty, single, repeated, and two of a kind in both orders.              *)
MCLists == {<<>>, <<A>>, <<C>>, <<C, C>>, <<A, C>>, <<B, A>>, <<C, B>>}

=============================================================================
