---------------------------- MODULE Subscriptions ----------------------------
(***************************************************************************)
(* The local subscriptions of internal/webhooks/store_provider.go, changed *)
(* by the handlers of internal/http/subscription_handlers.go while workers *)
(* list them.  A PATCH reads a record and writes it back in two            *)
(* transactions; a worker reads the keys in one and each record in another.*)
(*                                                                         *)
(* Of a subscription the model keeps whether it is for this service, the   *)
(* Enabled flag and the event types; URL, secret and tenant are patched as *)
(* Enabled is.                                                             *)
(***************************************************************************)
EXTENDS Naturals

CONSTANTS
  Ids,         \* keys of the bucket "webhook_subscriptions"
  Patches,     \* PATCH requests
  Workers,     \* workers of the dispatcher
  EventLists,  \* event lists a body may give
  Type,        \* type of the event a worker processes
  MaxFaults,   \* store errors in one behaviour at most
  None,        \* no record; a field a body does not have
  Null         \* a field with the JSON value null

Record == [mine : BOOLEAN, enabled : BOOLEAN, events : EventLists]

Body == [enabled : BOOLEAN \cup {None}, events : EventLists \cup {None, Null}]

ASSUME SubscriptionsAssumption ==
  /\ None \notin Record \cup Body \cup Ids \cup EventLists \cup BOOLEAN
  /\ Null \notin Record \cup EventLists \cup BOOLEAN
  /\ None # Null
  /\ {} \in EventLists
  /\ MaxFaults \in Nat

VARIABLES
  subs,      \* the bucket
  target,    \* target[p]: the id PATCH p is for, once it has read its record
  copy,      \* copy[p]: that record
  body,      \* body[p]: the fields it sets
  answered,  \* PATCH requests that are done
  at,        \* at[w]: "idle", "reading", "listed"
  left,      \* left[w]: keys w has still to read
  got,       \* got[w]: what w has read, by key
  made,      \* history: ids given so far
  serial,    \* history: each record as one request after the other makes it
  torn,      \* history: ids with a PATCH written over a record it had not read
  during,    \* history: during[w][k]: was k fit to receive, while w listed
  faults     \* store errors so far

bucketVars == <<subs, made, serial, torn>>
patchVars == <<target, copy, body, answered>>
listVars == <<at, left, got>>
vars == <<bucketVars, patchVars, listVars, during, faults>>

Fault == /\ faults < MaxFaults
         /\ faults' = faults + 1

-----------------------------------------------------------------------------
(* What a body does to a record.                                           *)

(* UnmarshalJSON: null leaves a pointer nil.  The slip: null counts.       *)
Present(v) == v # None
Given(v) == v \notin {None, Null}

(* Update's assignments.  The slip: a list that is not given is empty.     *)
PatchedAlways(r, b) ==
  [r EXCEPT !.enabled = IF Given(b.enabled) THEN b.enabled ELSE @,
            !.events = IF Given(b.events) THEN b.events ELSE {}]
Patched(r, b) ==
  [r EXCEPT !.enabled = IF Given(b.enabled) THEN b.enabled ELSE @,
            !.events = IF Given(b.events) THEN b.events ELSE @]

(* What is asked for: each field that has a value, and no other.           *)
Asked(r, b) ==
  [mine |-> r.mine,
   enabled |-> IF b.enabled \in BOOLEAN THEN b.enabled ELSE r.enabled,
   events |-> IF b.events \in EventLists THEN b.events ELSE r.events]

(* CreateSubscriptionHandler: enabled unless the body says otherwise.      *)
Created(b, mine) ==
  Patched([mine |-> mine, enabled |-> TRUE, events |-> {}], b)

-----------------------------------------------------------------------------
(* What a worker asks of a record.                                         *)

(* The service filter of ListSubscriptions.                                *)
OfService(r) == r.mine

(* WorkerDispatcher.process; the slip forgets the Enabled flag.            *)
MatchesType(r) == r.events = {} \/ "*" \in r.events \/ Type \in r.events
Wanted(r) == r.enabled /\ MatchesType(r)

(* A key whose record is gone is skipped.  The slip: it ends the scan.     *)
LeftAfterGone(ks) == {}
LeftAfter(ks) == ks

Targets(w) == {k \in Ids : got[w][k] # None /\ Wanted(got[w][k])}

Nothing == [k \in Ids |-> None]

(* A record meant to receive the event, in the words of types.go:36-49.    *)
Fit(r) == /\ r # None
          /\ r.mine /\ r.enabled
          /\ r.events = {} \/ r.events \cap {"*", Type} # {}

(* What listing workers may have seen, once the bucket is b.               *)
Watch(b) ==
  during' = [w \in Workers |->
               IF at[w] = "reading" THEN [k \in Ids |-> during[w][k] \cup {Fit(b[k])}]
               ELSE during[w]]

-----------------------------------------------------------------------------
Init ==
  /\ subs = Nothing
  /\ target = [p \in Patches |-> None]
  /\ copy = [p \in Patches |-> None]
  /\ body = [p \in Patches |-> None]
  /\ answered = {}
  /\ at = [w \in Workers |-> "idle"]
  /\ left = [w \in Workers |-> {}]
  /\ got = [w \in Workers |-> Nothing]
  /\ made = {}
  /\ serial = Nothing
  /\ torn = {}
  /\ during = [w \in Workers |-> [k \in Ids |-> {}]]
  /\ faults = 0

(* POST: a record under a key made of the current time.                    *)
Create(k) ==
  /\ k \notin made
  /\ \E b \in Body, mine \in BOOLEAN :
       /\ subs' = [subs EXCEPT ![k] = Created(b, mine)]
       /\ serial' = [serial EXCEPT ![k] = Created(b, mine)]
  /\ made' = made \cup {k}
  /\ Watch(subs')
  /\ UNCHANGED <<torn, patchVars, listVars, faults>>

(* DELETE.                                                                 *)
Delete(k) ==
  /\ subs[k] # None
  /\ subs' = [subs EXCEPT ![k] = None]
  /\ serial' = [serial EXCEPT ![k] = None]
  /\ Watch(subs')
  /\ UNCHANGED <<made, torn, patchVars, listVars, faults>>

(* PATCH: Update's Get; a request that finds no record is answered 404.    *)
Read(p, k) ==
  /\ p \notin answered
  /\ target[p] = None
  /\ subs[k] # None
  /\ target' = [target EXCEPT ![p] = k]
  /\ copy' = [copy EXCEPT ![p] = subs[k]]
  /\ \E b \in Body : body' = [body EXCEPT ![p] = b]
  /\ UNCHANGED <<bucketVars, answered, listVars, during, faults>>

(* The handler of p returns.                                               *)
Reply(p) ==
  /\ answered' = answered \cup {p}
  /\ target' = [target EXCEPT ![p] = None]
  /\ copy' = [copy EXCEPT ![p] = None]
  /\ body' = [body EXCEPT ![p] = None]

(* Update's Write: the copy with the patch, whatever the bucket holds now. *)
Write(p) ==
  LET k == target[p]
  IN  /\ k # None
      /\ subs' = [subs EXCEPT ![k] = Patched(copy[p], body[p])]
      /\ serial' = [serial EXCEPT ![k] = IF @ = None THEN None ELSE Asked(@, body[p])]
      /\ torn' = IF subs[k] = copy[p] THEN torn ELSE torn \cup {k}
      /\ Reply(p)
      /\ Watch(subs')
      /\ UNCHANGED <<made, listVars, faults>>

(* The store refuses: 500, nothing is written.                             *)
WriteFails(p) ==
  /\ target[p] # None
  /\ Fault
  /\ Reply(p)
  /\ UNCHANGED <<bucketVars, listVars, during>>

-----------------------------------------------------------------------------
(* ListSubscriptions of StoreProvider, called by worker w.                 *)

ListKeys(w) ==
  /\ at[w] = "idle"
  /\ at' = [at EXCEPT ![w] = "reading"]
  /\ left' = [left EXCEPT ![w] = {k \in Ids : subs[k] # None}]
  /\ got' = [got EXCEPT ![w] = Nothing]
  /\ during' = [during EXCEPT ![w] = [k \in Ids |-> {Fit(subs[k])}]]
  /\ UNCHANGED <<bucketVars, patchVars, faults>>

Get(w, k) ==
  /\ at[w] = "reading"
  /\ k \in left[w]
  /\ subs[k] # None
  /\ left' = [left EXCEPT ![w] = @ \ {k}]
  /\ got' = [got EXCEPT ![w][k] = IF OfService(subs[k]) THEN subs[k] ELSE None]
  /\ UNCHANGED <<bucketVars, patchVars, at, during, faults>>

GetGone(w, k) ==
  /\ at[w] = "reading"
  /\ k \in left[w]
  /\ subs[k] = None
  /\ left' = [left EXCEPT ![w] = LeftAfter(@ \ {k})]
  /\ UNCHANGED <<bucketVars, patchVars, at, got, during, faults>>

(* A read error: the worker drops its event and takes the next.            *)
ListingFails(w) ==
  /\ at[w] = "reading"
  /\ Fault
  /\ at' = [at EXCEPT ![w] = "idle"]
  /\ left' = [left EXCEPT ![w] = {}]
  /\ got' = [got EXCEPT ![w] = Nothing]
  /\ UNCHANGED <<bucketVars, patchVars, during>>

Listed(w) ==
  /\ at[w] = "reading"
  /\ left[w] = {}
  /\ at' = [at EXCEPT ![w] = "listed"]
  /\ UNCHANGED <<bucketVars, patchVars, left, got, during, faults>>

(* The worker is done with its event.                                      *)
Finish(w) ==
  /\ at[w] = "listed"
  /\ at' = [at EXCEPT ![w] = "idle"]
  /\ got' = [got EXCEPT ![w] = Nothing]
  /\ UNCHANGED <<bucketVars, patchVars, left, during, faults>>

Next ==
  \/ \E k \in Ids : Create(k) \/ Delete(k) \/ \E p \in Patches : Read(p, k)
  \/ \E p \in Patches : Write(p) \/ WriteFails(p)
  \/ \E w \in Workers : \/ ListKeys(w) \/ ListingFails(w) \/ Listed(w) \/ Finish(w)
                        \/ \E k \in Ids : Get(w, k) \/ GetGone(w, k)

Spec == Init /\ [][Next]_vars

-----------------------------------------------------------------------------
(* Properties.                                                             *)

(* Type correctness.                                                       *)
TypeOK ==
  /\ subs \in [Ids -> Record \cup {None}]
  /\ target \in [Patches -> Ids \cup {None}]
  /\ copy \in [Patches -> Record \cup {None}]
  /\ body \in [Patches -> Body \cup {None}]
  /\ answered \subseteq Patches
  /\ at \in [Workers -> {"idle", "reading", "listed"}]
  /\ left \in [Workers -> SUBSET Ids]
  /\ got \in [Workers -> [Ids -> Record \cup {None}]]
  /\ made \subseteq Ids
  /\ serial \in [Ids -> Record \cup {None}]
  /\ torn \subseteq Ids
  /\ during \in [Workers -> [Ids -> SUBSET BOOLEAN]]
  /\ faults \in 0 .. MaxFaults

(* A record is what its requests, one after the other, make of it, as long *)
(* as no PATCH wrote over a record that had changed since it was read:     *)
(* store_provider.go:192-232.                                              *)
SerialUnlessTorn == \A k \in Ids \ torn : subs[k] = serial[k]

(* A worker delivers to no subscription that was unfit at every moment of  *)
(* its listing, and misses none that was fit at every moment, whatever is  *)
(* created, changed and removed between its reads: store_provider.go:41-71.*)
ListingFair ==
  \A w \in Workers : at[w] = "listed" =>
    \A k \in Ids : /\ k \in Targets(w) => TRUE \in during[w][k]
                   /\ FALSE \notin during[w][k] => k \in Targets(w)

(* PATCH p is answered 200.                                                *)
Patching(p) == p \in answered' \ answered /\ faults' = faults

(* subscription_handlers.go:125-126: "Only supplied fields are changed;    *)
(* omitted fields keep their current value".                               *)
OmittedFieldsKept ==
  [][\A p \in Patches : \A k \in Ids :
       Patching(p) /\ k = target[p] /\ subs[k] # None =>
         /\ body[p].enabled = None => subs'[k].enabled = subs[k].enabled
         /\ body[p].events = None => subs'[k].events = subs[k].events]_vars

=============================================================================
