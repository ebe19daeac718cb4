------------------------------ MODULE DLQStore ------------------------------
(***************************************************************************)
(* The "webhook_dlq" bucket of internal/webhooks/dlq.go, as operators on   *)
(* its content.  A bucket maps every possible key to the record saved      *)
(* under it, or to None.  One bbolt transaction is one operator, so the    *)
(* modules that use a bucket decide how transactions interleave.           *)
(*                                                                         *)
(* Abstracted: URL, secret and error text of a record.  NextRetryAfter is  *)
(* the time left until then, in units no smaller than those of CoolingOff. *)
(***************************************************************************)
EXTENDS Naturals

CONSTANTS
  Keys,      \* storage keys: nanosecond timestamps with suffix ".json"
  Events,    \* webhook events
  Subs,      \* subscriptions
  None,      \* no record, no letter, no job
  CoolingOff,       \* Config.DLQCoolingOff: five minutes by default
  ManualCoolingOff, \* manualReplayCoolingOff: five minutes
  MaxBackoff        \* twenty-four hours

(* A letter is the delivery of one event to one subscription: the pair a   *)
(* record keeps so that it can be replayed without listing subscriptions.  *)
Letters == Events \X Subs

Record == [letter : Letters, attempts : Nat, wait : Nat]

Bucket == [Keys -> Record \cup {None}]

EmptyBucket == [k \in Keys |-> None]

NewRecord(l) == [letter |-> l, attempts |-> 0, wait |-> CoolingOff]

Due(r) == r.wait = 0

Has(b, k) == b[k] # None

(* An upsert: a record under k, present or not, is replaced.               *)
Save(b, k, r) == [b EXCEPT ![k] = r]

Delete(b, k) == [b EXCEPT ![k] = None]

(* Storage keys in use, the first transaction of DLQStore.List.            *)
List(b) == {k \in Keys : Has(b, k)}

IsTerminal(r, maxAttempts) == maxAttempts > 0 /\ r.attempts >= maxAttempts

-----------------------------------------------------------------------------
(* The back-off after a failed replay of the scheduler, the n-th of its    *)
(* record: CoolingOff doubled n - 1 times, eight at most, up to MaxBackoff.*)

PowersOfTwo == <<1, 2, 4, 8, 16, 32, 64, 128, 256>>

Doublings(n) == IF n = 0 THEN 0 ELSE IF n > 8 THEN 8 ELSE n - 1

Doubled(n) == CoolingOff * PowersOfTwo[Doublings(n) + 1]

(* The slip: the constant delay of the handlers.                           *)
BackoffConstant(n) == ManualCoolingOff
Backoff(n) == IF Doubled(n) > MaxBackoff THEN MaxBackoff ELSE Doubled(n)

=============================================================================
