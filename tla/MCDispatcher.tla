---------------------------- MODULE MCDispatcher ----------------------------
(* Small instances of Dispatcher for TLC.                                  *)
EXTENDS Dispatcher, TLC

CONSTANTS e1, e2, e3, s1, s2, s3

(* e1 is what the program dispatches; the others test the filter.          *)
MCType == [e \in Events |-> IF e = e1 THEN "audit.write" ELSE "site.created"]

(* s1 takes everything (an empty list), s2 only audit entries.             *)
MCFilter == [s \in Subs |-> IF s = s1 THEN {} ELSE {"audit.write"}]

=============================================================================
