-------------------------- MODULE SubscriptionsProofs --------------------------
(***************************************************************************)
(* What holds of the subscriptions for every number of ids, PATCH requests *)
(* and workers, and all event lists: types, the serial outcome of requests *)
(* that do not tear a record, and what a worker may serve.                 *)
(***************************************************************************)
EXTENDS Subscriptions, TLAPS

(* D records the fitness of r.                                             *)
Knows(D, r) == IF Fit(r) THEN TRUE \in D ELSE FALSE \in D

(* A PATCH that is under way has a record and a body.                      *)
PatchOK(p) == target[p] # None => copy[p] # None /\ body[p] # None

(* What is known of k while w lists: how k stands at present; and, once    *)
(* its turn is over, how it stood when it was read or found missing.       *)
ListOK(w, k) ==
  /\ at[w] = "reading" => Knows(during[w][k], subs[k])
  /\ at[w] = "listed" => left[w] = {}
  /\ at[w] # "idle" /\ got[w][k] # None =>
       got[w][k].mine /\ Knows(during[w][k], got[w][k])
  /\ at[w] # "idle" /\ got[w][k] = None /\ k \notin left[w] => FALSE \in during[w][k]

IInv ==
  /\ TypeOK
  /\ \A p \in Patches : PatchOK(p)
  /\ SerialUnlessTorn
  /\ \A w \in Workers, k \in Ids : ListOK(w, k)

-----------------------------------------------------------------------------
(* Operators.                                                              *)

LEMMA FitType == ASSUME NEW r \in Record \cup {None} PROVE Fit(r) \in BOOLEAN
BY DEF Fit, Record

(* The provers take a record apart one EXCEPT at a time.                   *)
LEMMA TwoFields ==
  ASSUME NEW r \in Record, NEW x \in BOOLEAN, NEW y \in EventLists
  PROVE  [r EXCEPT !.enabled = x, !.events = y]
           = [mine |-> r.mine, enabled |-> x, events |-> y]
<1> DEFINE s == [mine |-> r.mine, enabled |-> x, events |-> r.events]
<1>1. [r EXCEPT !.enabled = x] = s
  BY DEF Record
<1>2. s \in Record /\ s.mine = r.mine /\ s.enabled = x
  BY DEF Record
<1> HIDE DEF s
<1>3. [s EXCEPT !.events = y] = [mine |-> s.mine, enabled |-> s.enabled, events |-> y]
  BY <1>2 DEF Record
<1>4. [r EXCEPT !.enabled = x, !.events = y] = [[r EXCEPT !.enabled = x] EXCEPT !.events = y]
  OBVIOUS
<1> QED BY <1>1, <1>2, <1>3, <1>4

(* What the code does to a record is what was asked for.                   *)
LEMMA PatchedAsAsked ==
  ASSUME NEW r \in Record, NEW b \in Body
  PROVE  Patched(r, b) = Asked(r, b) /\ Patched(r, b) \in Record
<1>1. b.enabled \in BOOLEAN <=> Given(b.enabled)
  BY SubscriptionsAssumption DEF Body, Given
<1>2. b.events \in EventLists <=> Given(b.events)
  BY SubscriptionsAssumption DEF Body, Given
<1>3. Patched(r, b) = [mine |-> r.mine,
                       enabled |-> IF Given(b.enabled) THEN b.enabled ELSE r.enabled,
                       events |-> IF Given(b.events) THEN b.events ELSE r.events]
  BY <1>1, <1>2, TwoFields DEF Patched, Record
<1>4. Patched(r, b) = Asked(r, b)
  BY <1>1, <1>2, <1>3 DEF Asked
<1>5. Patched(r, b) \in Record
  BY <1>1, <1>2, <1>3 DEF Record
<1> QED BY <1>4, <1>5

LEMMA CreatedType ==
  ASSUME NEW b \in Body, NEW mine \in BOOLEAN
  PROVE  Created(b, mine) \in Record
<1>1. [mine |-> mine, enabled |-> TRUE, events |-> {}] \in Record
  BY SubscriptionsAssumption DEF Record
<1> QED BY <1>1, PatchedAsAsked DEF Created

(* A listing worker forgets nothing it might have seen, and learns how     *)
(* each subscription stands in the new bucket.                             *)
LEMMA Watched ==
  ASSUME TypeOK, NEW b \in [Ids -> Record \cup {None}], Watch(b)
  PROVE  /\ during' \in [Workers -> [Ids -> SUBSET BOOLEAN]]
         /\ \A w \in Workers, k \in Ids :
              /\ during[w][k] \subseteq during'[w][k]
              /\ at[w] = "reading" => Knows(during'[w][k], b[k])
<1>1. \A k \in Ids : Fit(b[k]) \in BOOLEAN
  BY FitType
<1>2. ASSUME NEW w \in Workers, at[w] = "reading"
      PROVE  during'[w] = [k \in Ids |-> during[w][k] \cup {Fit(b[k])}]
  BY <1>2 DEF Watch
<1>3. ASSUME NEW w \in Workers, at[w] # "reading" PROVE during'[w] = during[w]
  BY <1>3 DEF Watch
<1>4. ASSUME NEW w \in Workers PROVE during'[w] \in [Ids -> SUBSET BOOLEAN]
  <2>1. during[w] \in [Ids -> SUBSET BOOLEAN]
    BY DEF TypeOK
  <2>2. CASE at[w] = "reading"
    <3>1. \A k \in Ids : during[w][k] \cup {Fit(b[k])} \in SUBSET BOOLEAN
      BY <1>1, <2>1
    <3> QED BY <1>2, <2>2, <3>1
  <2>3. CASE at[w] # "reading"
    BY <1>3, <2>1, <2>3
  <2> QED BY <2>2, <2>3
<1>5. during' \in [Workers -> [Ids -> SUBSET BOOLEAN]]
  BY <1>4 DEF Watch
<1>6. ASSUME NEW w \in Workers, NEW k \in Ids
      PROVE  /\ during[w][k] \subseteq during'[w][k]
             /\ at[w] = "reading" => Knows(during'[w][k], b[k])
  <2>1. CASE at[w] = "reading"
    <3>1. during'[w][k] = during[w][k] \cup {Fit(b[k])}
      BY <1>2, <2>1
    <3>2. CASE Fit(b[k])
      <4>1. Fit(b[k]) = TRUE
        BY <1>1, <3>2
      <4> QED BY <3>1, <4>1 DEF Knows
    <3>3. CASE ~ Fit(b[k])
      <4>1. Fit(b[k]) = FALSE
        BY <1>1, <3>3
      <4> QED BY <3>1, <4>1 DEF Knows
    <3> QED BY <3>2, <3>3
  <2>2. CASE at[w] # "reading"
    BY <1>3, <2>2
  <2> QED BY <2>1, <2>2
<1> QED BY <1>5, <1>6

-----------------------------------------------------------------------------
(* The initial states and the steps.                                       *)

LEMMA InitIInv == ASSUME Init PROVE IInv
<1>1. TypeOK
  BY SubscriptionsAssumption DEF Init, TypeOK, Nothing
<1>2. \A p \in Patches : PatchOK(p)
  BY DEF Init, PatchOK
<1>3. SerialUnlessTorn
  BY DEF Init, SerialUnlessTorn
<1>4. \A w \in Workers, k \in Ids : ListOK(w, k)
  BY DEF Init, ListOK
<1> QED BY <1>1, <1>2, <1>3, <1>4 DEF IInv

(* A PATCH that writes, writes what it was asked for to the copy it read.  *)
LEMMA WriteFacts ==
  ASSUME IInv, NEW p \in Patches, Write(p)
  PROVE  /\ target[p] \in Ids
         /\ Patched(copy[p], body[p]) \in Record
         /\ Patched(copy[p], body[p]) = Asked(copy[p], body[p])
         /\ serial[target[p]] # None => Asked(serial[target[p]], body[p]) \in Record
<1>1. target[p] \in Ids /\ copy[p] \in Record /\ body[p] \in Body
  BY DEF IInv, TypeOK, PatchOK, Write
<1>2. serial[target[p]] \in Record \cup {None}
  BY <1>1 DEF IInv, TypeOK
<1> QED BY <1>1, <1>2, PatchedAsAsked

LEMMA StepTypeOK == ASSUME IInv, [Next]_vars PROVE TypeOK'
<1>0. TypeOK
  BY DEF IInv
<1> USE <1>0 DEF TypeOK
<1>1. ASSUME NEW k \in Ids, Create(k) PROVE TypeOK'
  <2>1. PICK b \in Body, mine \in BOOLEAN :
          /\ subs' = [subs EXCEPT ![k] = Created(b, mine)]
          /\ serial' = [serial EXCEPT ![k] = Created(b, mine)]
    BY <1>1 DEF Create
  <2>2. Created(b, mine) \in Record
    BY CreatedType
  <2>3. /\ subs' \in [Ids -> Record \cup {None}]
        /\ serial' \in [Ids -> Record \cup {None}]
    BY <2>1, <2>2
  <2>4. during' \in [Workers -> [Ids -> SUBSET BOOLEAN]]
    BY <1>1, <2>3, Watched DEF Create
  <2> QED BY <1>1, <2>3, <2>4 DEF Create, patchVars, listVars
<1>2. ASSUME NEW k \in Ids, Delete(k) PROVE TypeOK'
  <2>1. /\ subs' \in [Ids -> Record \cup {None}]
        /\ serial' \in [Ids -> Record \cup {None}]
    BY <1>2 DEF Delete
  <2>2. during' \in [Workers -> [Ids -> SUBSET BOOLEAN]]
    BY <1>2, <2>1, Watched DEF Delete
  <2> QED BY <1>2, <2>1, <2>2 DEF Delete, patchVars, listVars
<1>3. ASSUME NEW p \in Patches, NEW k \in Ids, Read(p, k) PROVE TypeOK'
  BY <1>3 DEF Read, bucketVars, listVars
<1>4. ASSUME NEW p \in Patches, Write(p) PROVE TypeOK'
  <2>1. /\ subs' \in [Ids -> Record \cup {None}]
        /\ serial' \in [Ids -> Record \cup {None}]
    BY <1>4, WriteFacts DEF Write
  <2>2. during' \in [Workers -> [Ids -> SUBSET BOOLEAN]]
    BY <1>4, <2>1, Watched DEF Write
  <2>3. torn' \subseteq Ids
    BY <1>4, WriteFacts DEF Write
  <2> QED BY <1>4, <2>1, <2>2, <2>3 DEF Write, Reply, listVars
<1>5. ASSUME NEW p \in Patches, WriteFails(p) PROVE TypeOK'
  BY <1>5, SubscriptionsAssumption DEF WriteFails, Fault, Reply, bucketVars, listVars
<1>6. ASSUME NEW w \in Workers, ListKeys(w) PROVE TypeOK'
  <2>1. \A k \in Ids : Fit(subs[k]) \in BOOLEAN
    BY FitType
  <2>2. [k \in Ids |-> {Fit(subs[k])}] \in [Ids -> SUBSET BOOLEAN]
    BY <2>1
  <2>3. during' \in [Workers -> [Ids -> SUBSET BOOLEAN]]
    BY <1>6, <2>2 DEF ListKeys
  <2>4. left' \in [Workers -> SUBSET Ids] /\ got' \in [Workers -> [Ids -> Record \cup {None}]]
    BY <1>6 DEF ListKeys, Nothing
  <2> QED BY <1>6, <2>3, <2>4 DEF ListKeys, bucketVars, patchVars
<1>7. ASSUME NEW w \in Workers, NEW k \in Ids, Get(w, k) PROVE TypeOK'
  BY <1>7 DEF Get, bucketVars, patchVars
<1>8. ASSUME NEW w \in Workers, NEW k \in Ids, GetGone(w, k) PROVE TypeOK'
  BY <1>8 DEF GetGone, LeftAfter, bucketVars, patchVars
<1>9. ASSUME NEW w \in Workers, ListingFails(w) PROVE TypeOK'
  BY <1>9, SubscriptionsAssumption DEF ListingFails, Fault, Nothing, bucketVars, patchVars
<1>10. ASSUME NEW w \in Workers, Listed(w) PROVE TypeOK'
  BY <1>10 DEF Listed, bucketVars, patchVars
<1>11. ASSUME NEW w \in Workers, Finish(w) PROVE TypeOK'
  BY <1>11 DEF Finish, Nothing, bucketVars, patchVars
<1>12. CASE UNCHANGED vars
  BY <1>12 DEF vars, bucketVars, patchVars, listVars
<1> QED BY <1>1, <1>2, <1>3, <1>4, <1>5, <1>6, <1>7, <1>8, <1>9, <1>10, <1>11, <1>12 DEF Next

LEMMA StepPatchOK == ASSUME IInv, [Next]_vars, NEW q \in Patches PROVE PatchOK(q)'
<1>0. TypeOK /\ PatchOK(q)
  BY DEF IInv
<1> USE <1>0 DEF PatchOK, TypeOK
<1>1. ASSUME NEW p \in Patches, NEW k \in Ids, Read(p, k) PROVE PatchOK(q)'
  <2>1. PICK b \in Body : body' = [body EXCEPT ![p] = b]
    BY <1>1 DEF Read
  <2>2. b # None
    BY SubscriptionsAssumption
  <2> QED BY <1>1, <2>1, <2>2 DEF Read
<1>2. ASSUME NEW p \in Patches, Write(p) \/ WriteFails(p) PROVE PatchOK(q)'
  BY <1>2 DEF Write, WriteFails, Reply
<1>3. ASSUME NEW k \in Ids, Create(k) \/ Delete(k) PROVE PatchOK(q)'
  BY <1>3 DEF Create, Delete, patchVars
<1>4. ASSUME NEW w \in Workers, ListKeys(w) \/ ListingFails(w) \/ Listed(w) \/ Finish(w)
      PROVE  PatchOK(q)'
  BY <1>4 DEF ListKeys, ListingFails, Listed, Finish, patchVars
<1>5. ASSUME NEW w \in Workers, NEW k \in Ids, Get(w, k) \/ GetGone(w, k) PROVE PatchOK(q)'
  BY <1>5 DEF Get, GetGone, patchVars
<1>6. CASE UNCHANGED vars
  BY <1>6 DEF vars, patchVars
<1> QED BY <1>1, <1>2, <1>3, <1>4, <1>5, <1>6 DEF Next

LEMMA StepSerial == ASSUME IInv, [Next]_vars PROVE SerialUnlessTorn'
<1>0. TypeOK /\ SerialUnlessTorn
  BY DEF IInv
<1> USE <1>0 DEF SerialUnlessTorn
<1>1. ASSUME NEW k \in Ids, Create(k) PROVE SerialUnlessTorn'
  BY <1>1 DEF Create, TypeOK
<1>2. ASSUME NEW k \in Ids, Delete(k) PROVE SerialUnlessTorn'
  BY <1>2 DEF Delete, TypeOK
<1>3. ASSUME NEW p \in Patches, Write(p) PROVE SerialUnlessTorn'
  <2> DEFINE k == target[p]
  <2>1. /\ k \in Ids
        /\ subs' = [subs EXCEPT ![k] = Patched(copy[p], body[p])]
        /\ serial' = [serial EXCEPT ![k] = IF @ = None THEN None ELSE Asked(@, body[p])]
        /\ torn' = IF subs[k] = copy[p] THEN torn ELSE torn \cup {k}
    BY <1>3, WriteFacts DEF Write
  <2>2. CASE subs[k] # copy[p]
    BY <2>1, <2>2 DEF TypeOK
  <2>3. CASE subs[k] = copy[p]
    <3>1. copy[p] # None
      BY <1>3, <2>1 DEF IInv, PatchOK, Write
    <3>2. k \notin torn => subs'[k] = serial'[k]
      BY <2>1, <2>3, <3>1, <1>3, WriteFacts DEF TypeOK
    <3> QED BY <2>1, <2>3, <3>2 DEF TypeOK
  <2> QED BY <2>2, <2>3
<1>4. ASSUME NEW p \in Patches, WriteFails(p) \/ \E k \in Ids : Read(p, k)
      PROVE  SerialUnlessTorn'
  BY <1>4 DEF WriteFails, Read, bucketVars
<1>5. ASSUME NEW w \in Workers, ListKeys(w) \/ ListingFails(w) \/ Listed(w) \/ Finish(w)
      PROVE  SerialUnlessTorn'
  BY <1>5 DEF ListKeys, ListingFails, Listed, Finish, bucketVars
<1>6. ASSUME NEW w \in Workers, NEW k \in Ids, Get(w, k) \/ GetGone(w, k)
      PROVE  SerialUnlessTorn'
  BY <1>6 DEF Get, GetGone, bucketVars
<1>7. CASE UNCHANGED vars
  BY <1>7 DEF vars, bucketVars
<1> QED BY <1>1, <1>2, <1>3, <1>4, <1>5, <1>6, <1>7 DEF Next

(* A step that changes the bucket and no worker, as Watch sees it.         *)
LEMMA BucketStep ==
  ASSUME IInv, subs' \in [Ids -> Record \cup {None}], Watch(subs'), UNCHANGED listVars,
         NEW w \in Workers, NEW k \in Ids
  PROVE  ListOK(w, k)'
<1>1. TypeOK /\ ListOK(w, k)
  BY DEF IInv
<1>2. /\ during[w][k] \subseteq during'[w][k]
      /\ at[w] = "reading" => Knows(during'[w][k], subs'[k])
  BY <1>1, Watched
<1>3. at' = at /\ left' = left /\ got' = got
  BY DEF listVars
<1>4. Knows(during[w][k], got[w][k]) => Knows(during'[w][k], got'[w][k])
  BY <1>2, <1>3 DEF Knows
<1>5. FALSE \in during[w][k] => FALSE \in during'[w][k]
  BY <1>2
<1>6. at'[w] = "reading" => Knows(during'[w][k], subs'[k])
  BY <1>2, <1>3
<1>7. at'[w] # "idle" /\ got'[w][k] # None =>
        got'[w][k].mine /\ Knows(during'[w][k], got'[w][k])
  BY <1>1, <1>3, <1>4 DEF ListOK
<1>8. /\ at'[w] = "listed" => left'[w] = {}
      /\ at'[w] # "idle" /\ got'[w][k] = None /\ k \notin left'[w] => FALSE \in during'[w][k]
  BY <1>1, <1>3, <1>5 DEF ListOK
<1> QED BY <1>6, <1>7, <1>8 DEF ListOK

(* A step that touches neither the bucket nor worker w.                    *)
LEMMA OtherStep ==
  ASSUME IInv, subs' = subs, NEW w \in Workers, NEW k \in Ids,
         at'[w] = at[w], left'[w] = left[w], got'[w] = got[w], during'[w] = during[w]
  PROVE  ListOK(w, k)'
<1>1. ListOK(w, k)
  BY DEF IInv
<1>2. at'[w] = "reading" => Knows(during'[w][k], subs'[k])
  BY <1>1 DEF ListOK
<1>3. at'[w] # "idle" /\ got'[w][k] # None =>
        got'[w][k].mine /\ Knows(during'[w][k], got'[w][k])
  BY <1>1 DEF ListOK
<1>4. /\ at'[w] = "listed" => left'[w] = {}
      /\ at'[w] # "idle" /\ got'[w][k] = None /\ k \notin left'[w] => FALSE \in during'[w][k]
  BY <1>1 DEF ListOK
<1> QED BY <1>2, <1>3, <1>4 DEF ListOK

LEMMA StepListOK ==
  ASSUME IInv, [Next]_vars, NEW v \in Workers, NEW j \in Ids PROVE ListOK(v, j)'
<1>0. TypeOK /\ TypeOK' /\ ListOK(v, j)
  BY StepTypeOK DEF IInv
<1>1. ASSUME NEW k \in Ids, Create(k) \/ Delete(k) PROVE ListOK(v, j)'
  <2>1. subs' \in [Ids -> Record \cup {None}]
    BY <1>0 DEF TypeOK
  <2> QED BY <1>1, <2>1, BucketStep DEF Create, Delete
<1>2. ASSUME NEW p \in Patches, Write(p) PROVE ListOK(v, j)'
  <2>1. subs' \in [Ids -> Record \cup {None}]
    BY <1>0 DEF TypeOK
  <2> QED BY <1>2, <2>1, BucketStep DEF Write
<1>3. ASSUME NEW p \in Patches, WriteFails(p) \/ \E k \in Ids : Read(p, k) PROVE ListOK(v, j)'
  BY <1>3, OtherStep DEF WriteFails, Read, bucketVars, listVars
<1>4. ASSUME NEW w \in Workers, ListKeys(w) PROVE ListOK(v, j)'
  <2>1. CASE v = w
    <3>1. /\ at'[v] = "reading"
          /\ left'[v] = {k \in Ids : subs[k] # None}
          /\ got'[v][j] = None
          /\ during'[v][j] = {Fit(subs[j])}
          /\ subs' = subs
      BY <1>0, <1>4, <2>1 DEF ListKeys, TypeOK, Nothing, bucketVars
    <3>2. Fit(subs[j]) \in BOOLEAN
      BY <1>0, FitType DEF TypeOK
    <3>3. Knows(during'[v][j], subs[j])
      BY <3>1, <3>2 DEF Knows
    <3>4. j \notin left'[v] => FALSE \in during'[v][j]
      BY <3>1, <3>3 DEF Knows, Fit
    <3> QED BY <3>1, <3>3, <3>4 DEF ListOK, Knows
  <2>2. CASE v # w
    BY <1>0, <1>4, <2>2, OtherStep DEF ListKeys, TypeOK, bucketVars
  <2> QED BY <2>1, <2>2
<1>5. ASSUME NEW w \in Workers, NEW k \in Ids, Get(w, k) PROVE ListOK(v, j)'
  <2>1. CASE v = w /\ j = k
    <3>1. /\ at[v] = "reading" /\ at'[v] = "reading"
          /\ got'[v][j] = IF subs[j].mine THEN subs[j] ELSE None
          /\ during'[v][j] = during[v][j]
          /\ subs' = subs
          /\ subs[j] # None
      BY <1>0, <1>5, <2>1 DEF Get, TypeOK, OfService, bucketVars
    <3>2. Knows(during[v][j], subs[j])
      BY <1>0, <3>1 DEF ListOK
    <3>3. ~ subs[j].mine => FALSE \in during[v][j]
      BY <3>2 DEF Knows, Fit
    <3> QED BY <3>1, <3>2, <3>3 DEF ListOK, Knows
  <2>2. CASE v = w /\ j # k
    <3>1. /\ at'[v] = at[v] /\ got'[v][j] = got[v][j] /\ during'[v][j] = during[v][j]
          /\ subs' = subs /\ (j \in left'[v] <=> j \in left[v]) /\ at[v] = "reading"
      BY <1>0, <1>5, <2>2 DEF Get, TypeOK, bucketVars
    <3> QED BY <1>0, <3>1 DEF ListOK, Knows
  <2>3. CASE v # w
    BY <1>0, <1>5, <2>3, OtherStep DEF Get, TypeOK, bucketVars
  <2> QED BY <2>1, <2>2, <2>3
<1>6. ASSUME NEW w \in Workers, NEW k \in Ids, GetGone(w, k) PROVE ListOK(v, j)'
  <2>1. CASE v = w
    <3>1. /\ at'[v] = at[v] /\ got'[v][j] = got[v][j] /\ during'[v][j] = during[v][j]
          /\ subs' = subs /\ at[v] = "reading"
          /\ left'[v] = left[v] \ {k} /\ subs[k] = None
      BY <1>0, <1>6, <2>1 DEF GetGone, LeftAfter, TypeOK, bucketVars
    <3>2. j = k => FALSE \in during[v][j]
      BY <1>0, <3>1 DEF ListOK, Knows, Fit
    <3> QED BY <1>0, <3>1, <3>2 DEF ListOK, Knows
  <2>2. CASE v # w
    BY <1>0, <1>6, <2>2, OtherStep DEF GetGone, TypeOK, bucketVars
  <2> QED BY <2>1, <2>2
<1>7. ASSUME NEW w \in Workers, ListingFails(w) \/ Finish(w) PROVE ListOK(v, j)'
  <2>1. CASE v = w
    BY <1>0, <1>7, <2>1 DEF ListingFails, Finish, TypeOK, ListOK
  <2>2. CASE v # w
    BY <1>0, <1>7, <2>2, OtherStep DEF ListingFails, Finish, TypeOK, bucketVars
  <2> QED BY <2>1, <2>2
<1>8. ASSUME NEW w \in Workers, Listed(w) PROVE ListOK(v, j)'
  <2>1. CASE v = w
    BY <1>0, <1>8, <2>1 DEF Listed, TypeOK, ListOK, Knows, bucketVars
  <2>2. CASE v # w
    BY <1>0, <1>8, <2>2, OtherStep DEF Listed, TypeOK, bucketVars
  <2> QED BY <2>1, <2>2
<1>9. CASE UNCHANGED vars
  BY <1>9, OtherStep DEF vars, bucketVars, listVars
<1> QED BY <1>1, <1>2, <1>3, <1>4, <1>5, <1>6, <1>7, <1>8, <1>9 DEF Next

-----------------------------------------------------------------------------
(* The results.                                                            *)

LEMMA Inductive == ASSUME IInv, [Next]_vars PROVE IInv'
BY StepTypeOK, StepPatchOK, StepSerial, StepListOK DEF IInv

LEMMA Invariance == Spec => []IInv
<1>1. Init => IInv
  BY InitIInv
<1>2. IInv /\ [Next]_vars => IInv'
  BY Inductive
<1> QED BY <1>1, <1>2, PTL DEF Spec

(* Types: whatever fields bodies leave out or set to null, a record always *)
(* has an Enabled flag and a list (store_provider.go:161-216).             *)
THEOREM TypeCorrect == Spec => []TypeOK
<1>1. IInv => TypeOK
  BY DEF IInv
<1> QED BY <1>1, Invariance, PTL

(* A record no PATCH has torn is what its requests make of it one after    *)
(* the other (store_provider.go:192-232).                                  *)
THEOREM Serial == Spec => []SerialUnlessTorn
<1>1. IInv => SerialUnlessTorn
  BY DEF IInv
<1> QED BY <1>1, Invariance, PTL

(* A worker serves nothing that was unfit throughout its listing, and      *)
(* leaves out nothing that was fit throughout (store_provider.go:41-71).   *)
THEOREM Fair == Spec => []ListingFair
<1>1. IInv => ListingFair
  <2> SUFFICES ASSUME IInv, NEW w \in Workers, at[w] = "listed", NEW k \in Ids
               PROVE  /\ k \in Targets(w) => TRUE \in during[w][k]
                      /\ FALSE \notin during[w][k] => k \in Targets(w)
    BY DEF ListingFair
  <2>1. ListOK(w, k)
    BY DEF IInv
  <2>2. ASSUME got[w][k] # None PROVE Fit(got[w][k]) <=> Wanted(got[w][k])
    <3>1. got[w][k].mine
      BY <2>1, <2>2 DEF ListOK
    <3> QED BY <2>2, <3>1 DEF Fit, Wanted, MatchesType
  <2>3. k \in Targets(w) => TRUE \in during[w][k]
    BY <2>1, <2>2 DEF ListOK, Knows, Targets
  <2>4. FALSE \notin during[w][k] => k \in Targets(w)
    BY <2>1, <2>2 DEF ListOK, Knows, Targets
  <2> QED BY <2>3, <2>4
<1> QED BY <1>1, Invariance, PTL

=============================================================================
