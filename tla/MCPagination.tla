---------------------------- MODULE MCPagination ----------------------------
(* Small instances of Pagination for TLC.                                  *)
EXTENDS Pagination

(* No filter, a text filter that leaves gaps, times from 2, times 2 to 3,  *)
(* and a range that is refused.                                            *)
MCFilters ==
  { NoFilter,
    [text |-> {k \in Keys : k # 2}, since |-> None, until |-> None],
    [text |-> Keys, since |-> 2, until |-> None],
    [text |-> Keys, since |-> 2, until |-> 3],
    [text |-> Keys, since |-> 3, until |-> 2] }

=============================================================================
