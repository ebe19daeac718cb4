----------------------------- MODULE DeadLetters -----------------------------
(***************************************************************************)
(* The life of a DLQ record (internal/webhooks/dlq.go) among those who     *)
(* replay it: the auto-retry scheduler of worker_dispatcher.go, and the    *)
(* handlers of internal/http/dlq_handlers.go for one record, for all of    *)
(* them and for removing one.  Each reads a copy of a record, POSTs its    *)
(* event, and writes the copy back or deletes the key: three transactions  *)
(* nothing ties together.  The process may crash between any two of them.  *)
(***************************************************************************)
EXTENDS DLQStore, Integers, FiniteSets

CONSTANTS
  Scheduler,       \* the autoRetry goroutine
  Requests,        \* replay and replay-all requests operators send
  Discards,        \* how many records operators delete at most
  AutoSlots,       \* semaphore of an auto-retry pass: WorkerCount
  RequestSlots,    \* maxReplayAllConcurrency
  DLQMaxAttempts,  \* replays before a record is terminal
  MaxAge,          \* how far the age of a record is counted
  MaxFaults        \* crashes and store errors in one behaviour at most

Actors == Requests \cup {Scheduler}

ASSUME DeadLettersAssumption ==
  /\ None \notin Record /\ None \notin Letters
  /\ Scheduler \notin Requests
  /\ Discards \in Nat /\ MaxFaults \in Nat
  /\ AutoSlots \in Nat \ {0} /\ RequestSlots \in Nat \ {0}
  /\ DLQMaxAttempts \in Nat \ {0}
  /\ CoolingOff \in Nat \ {0} /\ ManualCoolingOff \in Nat \ {0} /\ MaxBackoff \in Nat \ {0}
  /\ MaxAge \in Nat

VARIABLES
  dlq,        \* the bucket "webhook_dlq"; the only state a crash leaves
  at,         \* at[a]: "idle", "reading", "replaying", and "done" for requests
  step,       \* step[a][k]: how far a has come with the record under k
  copy,       \* copy[a][k]: the record as a read it
  owner,      \* history: owner[k] is the letter once stored under k
  tried,      \* history: tried[k] counts the replay POSTs for k
  age,        \* history: age[k] is the time since a letter was stored under k
  acked,      \* history: letters a receiver answered 2xx to
  discarded,  \* history: letters an operator removed
  discards,   \* DELETE requests so far
  faults      \* crashes and store errors so far

vars == <<dlq, at, step, copy, owner, tried, age, acked, discarded, discards, faults>>

-----------------------------------------------------------------------------
(* What is done to a record, with a plausible slip before the true form.   *)

TerminalLate(r) == DLQMaxAttempts > 0 /\ r.attempts > DLQMaxAttempts
Terminal(r) == IsTerminal(r, DLQMaxAttempts)

(* Replay-all takes every record; the scheduler those due and not terminal.*)
EligibleNotTerminal(a, r) == a = Scheduler => ~ Terminal(r)
Eligible(a, r) == a = Scheduler => ~ Terminal(r) /\ Due(r)

(* A copy after a failed replay.  The slips: counting twice, or down.      *)
Pause(a, n) == IF a = Scheduler THEN Backoff(n) ELSE ManualCoolingOff
RetriedTwice(a, r) == [r EXCEPT !.attempts = @ + 2, !.wait = Pause(a, r.attempts + 1)]
RetriedDown(a, r) == [r EXCEPT !.attempts = @ - 1, !.wait = Pause(a, r.attempts + 1)]
Retried(a, r) ==
  [letter |-> r.letter, attempts |-> r.attempts + 1, wait |-> Pause(a, r.attempts + 1)]

(* The bucket after a replay of r.  The slip: delete whatever the answer.  *)
DeleteAfterReplay(b, a, k, r, ok) == Delete(b, k)
AfterReplay(b, a, k, r, ok) == IF ok THEN Delete(b, k) ELSE Save(b, k, Retried(a, r))

Slots(a) == IF a = Scheduler THEN AutoSlots ELSE RequestSlots

(* Replays of a that hold a slot of its semaphore.                         *)
Replaying(a) == {k \in Keys : step[a][k] \in {"posting", "acked", "failed"}}

(* Where an actor goes after its last record: only the scheduler repeats.  *)
(* The slip: "return" for "continue" in its loop.                          *)
RestAlways(a) == "done"
Rest(a) == IF a = Scheduler THEN "idle" ELSE "done"

Fault == /\ faults < MaxFaults
         /\ faults' = faults + 1

-----------------------------------------------------------------------------
Init ==
  /\ dlq = EmptyBucket
  /\ at = [a \in Actors |-> "idle"]
  /\ step = [a \in Actors |-> [k \in Keys |-> "none"]]
  /\ copy = [a \in Actors |-> [k \in Keys |-> None]]
  /\ owner = [k \in Keys |-> None]
  /\ tried = [k \in Keys |-> 0]
  /\ age = [k \in Keys |-> 0]
  /\ acked = {}
  /\ discarded = {}
  /\ discards = 0
  /\ faults = 0

(* A worker buries letter l (Dispatcher!Bury): once per letter, fresh key. *)
Bury(l, k) ==
  /\ owner[k] = None
  /\ \A j \in Keys : owner[j] # l
  /\ owner' = [owner EXCEPT ![k] = l]
  /\ dlq' = Save(dlq, k, NewRecord(l))
  /\ UNCHANGED <<at, step, copy, tried, age, acked, discarded, discards, faults>>

(* A unit of time passes, for every record.  A pass compares with the time *)
(* at which it began, so that what passes while it reads is as good as     *)
(* passing right after.                                                    *)
Older(r) == IF r = None \/ Due(r) THEN r ELSE [r EXCEPT !.wait = @ - 1]

Elapse ==
  /\ at[Scheduler] # "reading"
  /\ \E k \in Keys : Has(dlq, k) /\ ~ Due(dlq[k])
  /\ dlq' = [k \in Keys |-> Older(dlq[k])]
  /\ age' = [k \in Keys |-> IF owner[k] # None /\ age[k] < MaxAge THEN age[k] + 1 ELSE age[k]]
  /\ UNCHANGED <<at, step, copy, owner, tried, acked, discarded, discards, faults>>

-----------------------------------------------------------------------------
(* A pass over all records: the scheduler's, or a replay-all request.      *)

(* The first transaction of DLQStore.List: the keys.                       *)
ListKeys(a) ==
  /\ at[a] = "idle"
  /\ at' = [at EXCEPT ![a] = "reading"]
  /\ step' = [step EXCEPT ![a] = [k \in Keys |-> IF k \in List(dlq) THEN "listed" ELSE "none"]]
  /\ UNCHANGED <<dlq, copy, owner, tried, age, acked, discarded, discards, faults>>

(* loadKeys: one transaction per key; a key deleted meanwhile is skipped.  *)
LoadKey(a, k) ==
  /\ at[a] = "reading"
  /\ step[a][k] = "listed"
  /\ step' = [step EXCEPT ![a][k] = IF Has(dlq, k) THEN "loaded" ELSE "none"]
  /\ copy' = [copy EXCEPT ![a][k] = dlq[k]]
  /\ UNCHANGED <<dlq, at, owner, tried, age, acked, discarded, discards, faults>>

(* A read error ends the pass before any replay.                           *)
LoadFails(a) ==
  /\ at[a] = "reading"
  /\ Fault
  /\ at' = [at EXCEPT ![a] = Rest(a)]
  /\ step' = [step EXCEPT ![a] = [k \in Keys |-> "none"]]
  /\ copy' = [copy EXCEPT ![a] = [k \in Keys |-> None]]
  /\ UNCHANGED <<dlq, owner, tried, age, acked, discarded, discards>>

Loaded(a) ==
  /\ at[a] = "reading"
  /\ \A k \in Keys : step[a][k] # "listed"
  /\ at' = [at EXCEPT ![a] = "replaying"]
  /\ UNCHANGED <<dlq, step, copy, owner, tried, age, acked, discarded, discards, faults>>

Skip(a, k) ==
  /\ at[a] = "replaying"
  /\ step[a][k] = "loaded"
  /\ ~ Eligible(a, copy[a][k])
  /\ step' = [step EXCEPT ![a][k] = "none"]
  /\ copy' = [copy EXCEPT ![a][k] = None]
  /\ UNCHANGED <<dlq, at, owner, tried, age, acked, discarded, discards, faults>>

(* A goroutine of its own for the record, when the semaphore has a slot.   *)
Spawn(a, k) ==
  /\ at[a] = "replaying"
  /\ step[a][k] = "loaded"
  /\ Eligible(a, copy[a][k])
  /\ Cardinality(Replaying(a)) < Slots(a)
  /\ step' = [step EXCEPT ![a][k] = "posting"]
  /\ UNCHANGED <<dlq, at, copy, owner, tried, age, acked, discarded, discards, faults>>

-----------------------------------------------------------------------------
(* A request to replay one record; one that finds none is answered 404.    *)
Replay(a, k) ==
  /\ a # Scheduler
  /\ at[a] = "idle"
  /\ Has(dlq, k)
  /\ at' = [at EXCEPT ![a] = "replaying"]
  /\ step' = [step EXCEPT ![a][k] = "posting"]
  /\ copy' = [copy EXCEPT ![a][k] = dlq[k]]
  /\ UNCHANGED <<dlq, owner, tried, age, acked, discarded, discards, faults>>

-----------------------------------------------------------------------------
(* A replay: ReplayRecord, then Delete or Save, for scheduler and handlers.*)

PostSucceeds(a, k) ==
  /\ step[a][k] = "posting"
  /\ step' = [step EXCEPT ![a][k] = "acked"]
  /\ tried' = [tried EXCEPT ![k] = @ + 1]
  /\ acked' = acked \cup {copy[a][k].letter}
  /\ UNCHANGED <<dlq, at, copy, owner, age, discarded, discards, faults>>

PostFails(a, k) ==
  /\ step[a][k] = "posting"
  /\ step' = [step EXCEPT ![a][k] = "failed"]
  /\ tried' = [tried EXCEPT ![k] = @ + 1]
  /\ UNCHANGED <<dlq, at, copy, owner, age, acked, discarded, discards, faults>>

EndReplay(a, k) ==
  /\ step' = [step EXCEPT ![a][k] = "none"]
  /\ copy' = [copy EXCEPT ![a][k] = None]

(* The outcome is written, whatever became of the record since it was read.*)
Update(a, k) ==
  /\ step[a][k] \in {"acked", "failed"}
  /\ dlq' = AfterReplay(dlq, a, k, copy[a][k], step[a][k] = "acked")
  /\ EndReplay(a, k)
  /\ UNCHANGED <<at, owner, tried, age, acked, discarded, discards, faults>>

(* The store refuses the write; the error is logged and forgotten.         *)
UpdateFails(a, k) ==
  /\ step[a][k] \in {"acked", "failed"}
  /\ Fault
  /\ EndReplay(a, k)
  /\ UNCHANGED <<dlq, at, owner, tried, age, acked, discarded, discards>>

(* wg.Wait of a pass, or the end of the handler.                           *)
Finish(a) ==
  /\ at[a] = "replaying"
  /\ \A k \in Keys : step[a][k] = "none"
  /\ at' = [at EXCEPT ![a] = Rest(a)]
  /\ UNCHANGED <<dlq, step, copy, owner, tried, age, acked, discarded, discards, faults>>

-----------------------------------------------------------------------------
(* DELETE /webhooks/dlq/{id}.                                              *)
Discard(k) ==
  /\ discards < Discards
  /\ Has(dlq, k)
  /\ discards' = discards + 1
  /\ discarded' = discarded \cup {dlq[k].letter}
  /\ dlq' = Delete(dlq, k)
  /\ UNCHANGED <<at, step, copy, owner, tried, age, acked, faults>>

(* The process dies and is started again: requests and the scheduler's     *)
(* pass are gone with its memory, the bucket is not.                       *)
Crash ==
  /\ Fault
  /\ at' = [a \in Actors |-> IF at[a] = "idle" THEN "idle" ELSE Rest(a)]
  /\ step' = [a \in Actors |-> [k \in Keys |-> "none"]]
  /\ copy' = [a \in Actors |-> [k \in Keys |-> None]]
  /\ UNCHANGED <<dlq, owner, tried, age, acked, discarded, discards>>

-----------------------------------------------------------------------------
(* Steps of the goroutines of actor a.                                     *)
Run(a) ==
  \/ LoadFails(a) \/ Loaded(a) \/ Finish(a)
  \/ \E k \in Keys : \/ LoadKey(a, k) \/ Skip(a, k) \/ Spawn(a, k)
                     \/ PostSucceeds(a, k) \/ PostFails(a, k)
                     \/ Update(a, k) \/ UpdateFails(a, k)

Next ==
  \/ Elapse
  \/ \E k \in Keys : Discard(k) \/ \E l \in Letters : Bury(l, k)
  \/ \E a \in Actors : ListKeys(a) \/ Run(a) \/ \E k \in Keys : Replay(a, k)
  \/ Crash

Spec == Init /\ [][Next]_vars

(***************************************************************************)
(* Fairness: time passes, the ticker of the scheduler fires, and goroutines*)
(* that can run do, each POST being bounded by the client's timeout.       *)
(* Strong for Elapse: its guard only says when passing time is counted,    *)
(* and a scheduler that scans again and again does not stop the clock.     *)
(* Operators, buriers and crashes owe nothing.                             *)
(***************************************************************************)
Fairness ==
  /\ SF_vars(Elapse)
  /\ WF_vars(ListKeys(Scheduler))
  /\ \A a \in Actors : WF_vars(Run(a))

FairSpec == Spec /\ Fairness

-----------------------------------------------------------------------------
(* Properties.                                                             *)

(* Type correctness.                                                       *)
TypeOK ==
  /\ dlq \in Bucket
  /\ at \in [Actors -> {"idle", "reading", "replaying", "done"}]
  /\ step \in [Actors -> [Keys -> {"none", "listed", "loaded", "posting", "acked", "failed"}]]
  /\ copy \in [Actors -> Bucket]
  /\ owner \in [Keys -> Letters \cup {None}]
  /\ tried \in [Keys -> Nat]
  /\ age \in [Keys -> 0 .. MaxAge]
  /\ acked \subseteq Letters
  /\ discarded \subseteq Letters
  /\ discards \in 0 .. Discards
  /\ faults \in 0 .. MaxFaults

(* A letter that reached the DLQ is there until a receiver acknowledged it *)
(* or an operator removed it, whatever replays race, stores fail or        *)
(* crashes come between reading, posting and updating.                     *)
NoLetterLost ==
  \A k \in Keys : owner[k] # None =>
    \/ Has(dlq, k) /\ dlq[k].letter = owner[k]
    \/ owner[k] \in acked \cup discarded

(* The scheduler gives a record up only after DLQMaxAttempts replays of it *)
(* were really made: stale copies may lose counts, never invent them.      *)
NotAbandonedEarly ==
  \A k \in Keys : Has(dlq, k) /\ Terminal(dlq[k]) => tried[k] >= DLQMaxAttempts

(* dlq.go:39-41: Attempts is the number of replay attempts, except while   *)
(* the outcome of one is still to be written.                              *)
AttemptsExact ==
  \A k \in Keys :
    Has(dlq, k) /\ (\A a \in Actors : step[a][k] \notin {"acked", "failed"})
      => dlq[k].attempts = tried[k]

(* dlq.go:58-59: left to the scheduler alone, a record is not replayed     *)
(* more than DLQMaxAttempts times, even if the operator removes others.    *)
RetryBound == \A k \in Keys : tried[k] <= DLQMaxAttempts

(* The scheduler does not replay a record that the store says is cooling   *)
(* off: dlq.go:50-53 and dlq_handlers.go:21-25.                            *)
CoolingOffRespected ==
  [][\A k \in Keys :
       step[Scheduler][k] = "loaded" /\ step'[Scheduler][k] = "posting" /\ Has(dlq, k)
         => Due(dlq[k])]_vars

(* The pauses add up as worker_dispatcher.go:353 announces them, 5m, 10m,  *)
(* 20m, and capped: the n-th replay of a record by the scheduler alone     *)
(* comes no earlier than the cooling-off of the burst and the n - 1 pauses *)
(* after it, as far as MaxAge counts, although passes, goroutines and the  *)
(* clock interleave.  The exponent stops at 8.                             *)
Announced(n) == CoolingOff * 2 ^ (IF n > 9 THEN 8 ELSE n - 1)
Earliest[n \in Nat] ==
  IF n <= 1 THEN CoolingOff
  ELSE Earliest[n - 1] + (IF Announced(n - 1) < MaxBackoff THEN Announced(n - 1) ELSE MaxBackoff)

BackoffAddsUp ==
  \A k \in Keys : tried[k] > 0 => age[k] >= Earliest[tried[k]] \/ age[k] = MaxAge

(* README.md:550: DELETE removes a record, "cancel / discard"; README.md:558*)
(* a record replayed with success is deleted.  Once gone, for either       *)
(* reason, a record does not come back.                                    *)
GoneIsFinal ==
  [][\A k \in Keys : owner[k] # None /\ ~ Has(dlq, k) => ~ Has(dlq', k)]_vars

(* Every record ends, gone or terminal: the scheduler replays until one of *)
(* the two, whatever receivers answer and whoever else replays.            *)
EveryRecordEnds == <>[](\A k \in Keys : Has(dlq, k) => Terminal(dlq[k]))

=============================================================================
