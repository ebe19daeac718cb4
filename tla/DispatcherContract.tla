------------------------- MODULE DispatcherContract -------------------------
(***************************************************************************)
(* What internal/webhooks/dispatcher.go promises of any Dispatcher: an     *)
(* event that Dispatch accepted is delivered, on its own time, "to all     *)
(* matching, enabled subscriptions"; every such delivery ends once; and    *)
(* Close "blocks until all workers have stopped", after the deliveries of  *)
(* every accepted event have ended.  No queue, no workers, no store.       *)
(***************************************************************************)
CONSTANTS
  Events,    \* what callers may dispatch
  Subs,      \* subscriptions
  Wanted     \* pairs <<e, s>>: s is enabled and matches the type of e

VARIABLES
  accepted,  \* events for which Dispatch returned nil
  started,   \* deliveries begun: pairs <<event, subscription>>
  ended,     \* how each delivery ended, "none" before that
  settled,   \* events the dispatcher holds no more
  phase      \* of Close: "open", "closing", "closed"

vars == <<accepted, started, ended, settled, phase>>

Ends == {"delivered", "dead", "lost"}

Of(e) == {l \in started : l[1] = e}

Init == /\ accepted = {}
        /\ started = {}
        /\ ended = [l \in Events \X Subs |-> "none"]
        /\ settled = {}
        /\ phase = "open"

Accept(e) == /\ phase = "open"
             /\ e \notin accepted
             /\ accepted' = accepted \cup {e}
             /\ UNCHANGED <<started, ended, settled, phase>>

(* The subscriptions that will get e are fixed once, together.             *)
Start(e) == /\ e \in accepted \ settled
            /\ Of(e) = {}
            /\ \E targets \in SUBSET {l \in Wanted : l[1] = e} :
                 started' = started \cup targets
            /\ UNCHANGED <<accepted, ended, settled, phase>>

End(l) == /\ l \in started
          /\ ended[l] = "none"
          /\ \E how \in Ends : ended' = [ended EXCEPT ![l] = how]
          /\ UNCHANGED <<accepted, started, settled, phase>>

Settle(e) == /\ e \in accepted \ settled
             /\ \A l \in Of(e) : ended[l] # "none"
             /\ settled' = settled \cup {e}
             /\ UNCHANGED <<accepted, started, ended, phase>>

StartClose == /\ phase = "open"
              /\ phase' = "closing"
              /\ UNCHANGED <<accepted, started, ended, settled>>

EndClose == /\ phase = "closing"
            /\ settled = accepted
            /\ phase' = "closed"
            /\ UNCHANGED <<accepted, started, ended, settled>>

Next == \/ \E e \in Events : Accept(e) \/ Start(e) \/ Settle(e)
        \/ \E l \in Events \X Subs : End(l)
        \/ StartClose
        \/ EndClose

Spec == Init /\ [][Next]_vars

=============================================================================
