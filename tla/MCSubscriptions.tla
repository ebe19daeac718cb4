--------------------------- MODULE MCSubscriptions ---------------------------
(* Small instances of Subscriptions for TLC.                               *)
EXTENDS Subscriptions, TLC

(* All events; an event the program does not have.                         *)
MCEventLists == { {}, {"site.created"} }

Symmetry == Permutations(Ids) \cup Permutations(Patches) \cup Permutations(Workers)

=============================================================================
