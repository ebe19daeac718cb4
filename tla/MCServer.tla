------------------------------ MODULE MCServer ------------------------------
(* Small instances of Server for TLC.                                      *)
EXTENDS Server, TLC

MCType == [e \in Events |-> "audit.write"]
MCFilter == [s \in Subs |-> {}]

=============================================================================
