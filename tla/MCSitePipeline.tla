--------------------------- MODULE MCSitePipeline ---------------------------
(* A small instance of SitePipeline for TLC.                               *)
EXTENDS SitePipeline, TLC

CONSTANTS a, b

(* Site a has an api_key, b has none.                                      *)
Ask(kind, site, token) == [kind |-> kind, site |-> site, token |-> token]

MCOps == {Ask("create", a, TRUE), Ask("create", b, FALSE), Ask("remove", a, TRUE),
          Ask("create", a, FALSE), Ask("stray", b, FALSE), Ask("read", a, FALSE),
          Ask("read", Unknown, FALSE)}

=============================================================================
