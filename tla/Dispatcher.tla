----------------------------- MODULE Dispatcher -----------------------------
(***************************************************************************)
(* internal/webhooks/worker_dispatcher.go: the bounded job channel between *)
(* the request handlers that call Dispatch and the pool of workers that    *)
(* list subscriptions, POST with retries and bury what never got through   *)
(* in the DLQ; and Close, as cmd/server/main.go calls it.                  *)
(*                                                                         *)
(* The scheduler of the DLQ (autoRetry) is the module DeadLetters.         *)
(***************************************************************************)
EXTENDS DLQStore, Sequences, FiniteSets

CONSTANTS
  Workers,        \* goroutines started by NewWorkerDispatcher
  QueueFactor,    \* channel slots per worker: 4 in the code
  MaxAttempts,    \* POSTs of one delivery burst
  HasDLQ,         \* Config.DLQStore # nil: FALSE with the remote provider only
  StoreMayFail,   \* a DLQStore.Save may return an error
  DistinctNanos,  \* time.Now().UnixNano() gives no two records the same key
  Type,           \* [Events -> event types]
  Enabled,        \* the subscriptions with Enabled set
  Filter          \* [Subs -> sets of event types], field Events

ASSUME DispatcherAssumption ==
  /\ None \notin Record /\ None \notin Events /\ None \notin Subs
  /\ IsFiniteSet(Workers) /\ Workers # {}
  /\ QueueFactor \in Nat \ {0}
  /\ MaxAttempts \in Nat \ {0}
  /\ CoolingOff \in Nat \ {0}
  /\ HasDLQ \in BOOLEAN /\ StoreMayFail \in BOOLEAN /\ DistinctNanos \in BOOLEAN

VARIABLES
  call,     \* call[e]: the Dispatch call of the handler that made event e
  jobs,     \* the channel
  closer,   \* main: "open" before Close, "waiting" in wg.Wait, "returned"
  pc,       \* pc[w]: where worker w is
  job,      \* job[w]: the event w processes
  todo,     \* todo[w]: subscriptions w has still to deliver that event to
  cur,      \* cur[w]: the subscription w is delivering to
  tries,    \* tries[w]: failed POSTs of that delivery
  dlq,      \* the bucket "webhook_dlq"
  fate,     \* history: how the delivery of each letter stands
  posts     \* history: POSTs made for each letter

vars == <<call, jobs, closer, pc, job, todo, cur, tries, dlq, fate, posts>>
worker == <<pc, job, todo, cur, tries>>
history == <<fate, posts>>

-----------------------------------------------------------------------------
(* Subscriptions an event is meant for.                                    *)

MatchesEventType(s, type) ==
  Filter[s] = {} \/ "*" \in Filter[s] \/ type \in Filter[s]

(* The slip of a filter that forgets the catch-all or the Enabled flag.    *)
AllMatching(listed, e) == {s \in listed : MatchesEventType(s, Type[e])}

Targets(listed, e) == {s \in listed \cap Enabled : MatchesEventType(s, Type[e])}

-----------------------------------------------------------------------------
(* Conditions the code tests, with a plausible slip before the true one.   *)

QueueCap == QueueFactor * Cardinality(Workers)

(* One burst too few or too many.                                          *)
LastTryEarly(n) == n + 2 >= MaxAttempts
LastTryLate(n) == n >= MaxAttempts
LastTry(n) == n + 1 >= MaxAttempts

(* A clock that gives the same nanosecond twice.                           *)
AnyKey(k) == TRUE
FreshKey(k) == DistinctNanos => dlq[k] = None

(* An off-by-one of the channel.                                           *)
HasRoomForOneMore == Len(jobs) <= QueueCap
HasRoom == Len(jobs) < QueueCap

(* Subscriptions left over: "continue" written as "return".                *)
NothingLeftToTry(w) == cur[w] = None
NothingLeft(w) == todo[w] = {}

(* After a listing error: the next event, not the end of the goroutine.    *)
LeavesPool == "exited"
AfterListError == "idle"

(* The end of range over the channel.  The slips: stopping on close(jobs)  *)
(* without draining it, and never noticing that it was closed.             *)
SeesEndUndrained(w) == closer # "open"
SeesNoEnd(w) == FALSE
SeesEnd(w) == closer # "open" /\ jobs = <<>>

(* wg.Wait.                                                                *)
AllWorkersLeft == \A w \in Workers : pc[w] = "exited"

(* srv.Shutdown returned nil: no handler runs, so none is in Dispatch.     *)
HandlersDone == \A e \in Events : call[e] # "sending"

-----------------------------------------------------------------------------
Init ==
  /\ call = [e \in Events |-> "none"]
  /\ jobs = <<>>
  /\ closer = "open"
  /\ pc = [w \in Workers |-> "idle"]
  /\ job = [w \in Workers |-> None]
  /\ todo = [w \in Workers |-> {}]
  /\ cur = [w \in Workers |-> None]
  /\ tries = [w \in Workers |-> 0]
  /\ dlq = EmptyBucket
  /\ fate = [l \in Letters |-> "none"]
  /\ posts = [l \in Letters |-> 0]

(***************************************************************************)
(* Dispatch.  The handler that made event e enters the select; it leaves   *)
(* it when the channel takes the event or when its context ends, which it  *)
(* may at any time.  A send on a closed channel panics.                    *)
(***************************************************************************)
Dispatch(e) ==
  /\ closer = "open"
  /\ call[e] = "none"
  /\ call' = [call EXCEPT ![e] = "sending"]
  /\ UNCHANGED <<jobs, closer, worker, dlq, history>>

Send(e) ==
  /\ call[e] = "sending"
  /\ closer # "open" \/ HasRoom
  /\ IF closer = "open"
     THEN /\ call' = [call EXCEPT ![e] = "accepted"]
          /\ jobs' = Append(jobs, e)
     ELSE /\ call' = [call EXCEPT ![e] = "panicked"]
          /\ UNCHANGED jobs
  /\ UNCHANGED <<closer, worker, dlq, history>>

GiveUp(e) ==
  /\ call[e] = "sending"
  /\ call' = [call EXCEPT ![e] = "refused"]
  /\ UNCHANGED <<jobs, closer, worker, dlq, history>>

(***************************************************************************)
(* A worker: range over the channel, process each event.                   *)
(***************************************************************************)
Receive(w) ==
  /\ pc[w] = "idle"
  /\ jobs # <<>>
  /\ job' = [job EXCEPT ![w] = Head(jobs)]
  /\ jobs' = Tail(jobs)
  /\ pc' = [pc EXCEPT ![w] = "list"]
  /\ UNCHANGED <<call, closer, todo, cur, tries, dlq, history>>

Exit(w) ==
  /\ pc[w] = "idle"
  /\ SeesEnd(w)
  /\ pc' = [pc EXCEPT ![w] = "exited"]
  /\ UNCHANGED <<call, jobs, closer, job, todo, cur, tries, dlq, history>>

(* The provider answers with an error: the event is dropped.               *)
ListFails(w) ==
  /\ pc[w] = "list"
  /\ pc' = [pc EXCEPT ![w] = AfterListError]
  /\ job' = [job EXCEPT ![w] = None]
  /\ UNCHANGED <<call, jobs, closer, todo, cur, tries, dlq, history>>

(* It answers with the subscriptions that exist at this moment.            *)
ListSubscriptions(w) ==
  /\ pc[w] = "list"
  /\ \E listed \in SUBSET Subs :
       /\ todo' = [todo EXCEPT ![w] = Targets(listed, job[w])]
       /\ fate' = [l \in Letters |->
                     IF l[1] = job[w] /\ l[2] \in Targets(listed, job[w])
                     THEN "pending" ELSE fate[l]]
  /\ pc' = [pc EXCEPT ![w] = "loop"]
  /\ UNCHANGED <<call, jobs, closer, job, cur, tries, dlq, posts>>

NextSubscription(w) ==
  /\ pc[w] = "loop"
  /\ \E s \in todo[w] :
       /\ cur' = [cur EXCEPT ![w] = s]
       /\ todo' = [todo EXCEPT ![w] = @ \ {s}]
  /\ tries' = [tries EXCEPT ![w] = 0]
  /\ pc' = [pc EXCEPT ![w] = "post"]
  /\ UNCHANGED <<call, jobs, closer, job, dlq, history>>

FinishEvent(w) ==
  /\ pc[w] = "loop"
  /\ NothingLeft(w)
  /\ pc' = [pc EXCEPT ![w] = "idle"]
  /\ job' = [job EXCEPT ![w] = None]
  /\ UNCHANGED <<call, jobs, closer, todo, cur, tries, dlq, history>>

(* The letter w is delivering.                                             *)
Letter(w) == <<job[w], cur[w]>>

(* deliverWithRetry is done with this subscription.                        *)
EndDelivery(w, how) ==
  /\ fate' = [fate EXCEPT ![Letter(w)] = how]
  /\ cur' = [cur EXCEPT ![w] = None]
  /\ tries' = [tries EXCEPT ![w] = 0]
  /\ pc' = [pc EXCEPT ![w] = "loop"]

CountPost(w) == posts' = [posts EXCEPT ![Letter(w)] = @ + 1]

PostSucceeds(w) ==
  /\ pc[w] = "post"
  /\ CountPost(w)
  /\ EndDelivery(w, "delivered")
  /\ UNCHANGED <<call, jobs, closer, job, todo, dlq>>

(* A failed POST is retried, after a sleep, until the burst is used up.    *)
PostFails(w) ==
  /\ pc[w] = "post"
  /\ CountPost(w)
  /\ IF ~ LastTry(tries[w])
     THEN /\ tries' = [tries EXCEPT ![w] = @ + 1]
          /\ UNCHANGED <<pc, cur, fate>>
     ELSE IF HasDLQ
          THEN /\ pc' = [pc EXCEPT ![w] = "bury"]
               /\ UNCHANGED <<cur, tries, fate>>
          ELSE EndDelivery(w, "lost")
  /\ UNCHANGED <<call, jobs, closer, job, todo, dlq>>

(* saveToDLQ: a record under a key made of the current time.               *)
Bury(w) ==
  /\ pc[w] = "bury"
  /\ \E k \in Keys : /\ FreshKey(k)
                     /\ dlq' = Save(dlq, k, NewRecord(Letter(w)))
  /\ EndDelivery(w, "dead")
  /\ UNCHANGED <<call, jobs, closer, job, todo, posts>>

BuryFails(w) ==
  /\ StoreMayFail
  /\ pc[w] = "bury"
  /\ EndDelivery(w, "lost")
  /\ UNCHANGED <<call, jobs, closer, job, todo, dlq, posts>>

(***************************************************************************)
(* Close, called by main once srv.Shutdown has returned without error.     *)
(***************************************************************************)
CloseJobs ==
  /\ closer = "open"
  /\ HandlersDone
  /\ closer' = "waiting"
  /\ UNCHANGED <<call, jobs, worker, dlq, history>>

CloseReturns ==
  /\ closer = "waiting"
  /\ AllWorkersLeft
  /\ closer' = "returned"
  /\ UNCHANGED <<call, jobs, worker, dlq, history>>

-----------------------------------------------------------------------------
Handler(e) == Send(e) \/ GiveUp(e)

Worker(w) ==
  \/ Receive(w) \/ Exit(w)
  \/ ListFails(w) \/ ListSubscriptions(w)
  \/ NextSubscription(w) \/ FinishEvent(w)
  \/ PostSucceeds(w) \/ PostFails(w)
  \/ Bury(w) \/ BuryFails(w)

(* After Close returns nothing is left to do but wait for the process end. *)
Stopped == closer = "returned" /\ UNCHANGED vars

Next ==
  \/ \E e \in Events : Dispatch(e) \/ Handler(e)
  \/ \E w \in Workers : Worker(w)
  \/ CloseJobs
  \/ CloseReturns
  \/ Stopped

Spec == Init /\ [][Next]_vars

(***************************************************************************)
(* Fairness.  The Go scheduler runs every goroutine that can run: a worker *)
(* (whose listing, POST and sleep are all bounded by timeouts), a handler  *)
(* in its select (bounded by dispatchTimeout) and main in wg.Wait.  No     *)
(* fairness on Dispatch or CloseJobs: requests and signals need not come.  *)
(***************************************************************************)
Fairness ==
  /\ \A e \in Events : WF_vars(Handler(e))
  /\ \A w \in Workers : WF_vars(Worker(w))
  /\ WF_vars(CloseReturns)

FairSpec == Spec /\ Fairness

-----------------------------------------------------------------------------
(* Properties.                                                             *)

Calls == {"none", "sending", "accepted", "refused", "panicked"}
Places == {"idle", "list", "loop", "post", "bury", "exited"}
Fates == {"none", "pending", "delivered", "dead", "lost"}

(* Type correctness.                                                       *)
TypeOK ==
  /\ call \in [Events -> Calls]
  /\ jobs \in Seq(Events)
  /\ Len(jobs) <= QueueCap
  /\ closer \in {"open", "waiting", "returned"}
  /\ pc \in [Workers -> Places]
  /\ job \in [Workers -> Events \cup {None}]
  /\ todo \in [Workers -> SUBSET Subs]
  /\ cur \in [Workers -> Subs \cup {None}]
  /\ tries \in [Workers -> 0 .. MaxAttempts]
  /\ dlq \in Bucket
  /\ fate \in [Letters -> Fates]
  /\ posts \in [Letters -> Nat]

Queued(e) == \E i \in 1 .. Len(jobs) : jobs[i] = e
InHand(e) == \E w \in Workers : job[w] = e

(* w will still work on letter l before it takes another event.            *)
Holds(w, l) ==
  /\ job[w] = l[1]
  /\ pc[w] \in {"loop", "post", "bury"}
  /\ l[2] \in todo[w] \/ (pc[w] \in {"post", "bury"} /\ cur[w] = l[2])

(* The dispatcher is done with an event it accepted.                       *)
Settled(e) == call[e] = "accepted" /\ ~ Queued(e) /\ ~ InHand(e)

(* No delivery is forgotten: one that is still owed is in the hands of a   *)
(* worker that has not left its loop, whatever has failed before it.       *)
NoOrphan == \A l \in Letters : fate[l] = "pending" => \E w \in Workers : Holds(w, l)

(* When Close returns, every event that Dispatch accepted is settled, and  *)
(* every delivery begun has ended: worker_dispatcher.go:112-122.  No call  *)
(* to Dispatch has met the closed channel.                                 *)
DrainedOnClose ==
  /\ closer = "returned" =>
       /\ \A e \in Events : call[e] = "accepted" => Settled(e)
       /\ \A l \in Letters : fate[l] # "pending"
  /\ \A e \in Events : call[e] # "panicked"

(* A delivery is given up only after all of its MaxAttempts POSTs, gets    *)
(* none after it ended, and never more than MaxAttempts, although workers  *)
(* and the slots of the queue are reused: worker_dispatcher.go:192-217.    *)
FullBurst ==
  \A l \in Letters :
    /\ posts[l] <= MaxAttempts
    /\ fate[l] \in {"dead", "lost"} => posts[l] = MaxAttempts
    /\ fate[l] = "delivered" => posts[l] \in 1 .. MaxAttempts

(* Every delivery counted as stored in the DLQ has a record of its own     *)
(* there: two workers never bury two letters under one key.                *)
DeadLettersKept ==
  \A l \in Letters : fate[l] = "dead" => \E k \in Keys : Has(dlq, k) /\ dlq[k].letter = l

(* An accepted event is eventually settled, through full queues, failing   *)
(* listings, failing receivers and failing stores.                         *)
AcceptedSettles == \A e \in Events : (call[e] = "accepted") ~> Settled(e)

(* Close, once called, returns: wg.Wait is not left waiting for a worker   *)
(* that never sees the end of the channel.                                 *)
CloseTerminates == (closer = "waiting") ~> (closer = "returned")

-----------------------------------------------------------------------------
(* Refinement of the contract of dispatcher.go.                            *)

Accepted == {e \in Events : call[e] = "accepted"}
Started == {l \in Letters : fate[l] # "none"}
Ended == [l \in Letters |-> IF fate[l] = "pending" THEN "none" ELSE fate[l]]
SettledEvents == {e \in Events : Settled(e)}
Phase == CASE closer = "open" -> "open"
           [] closer = "waiting" -> "closing"
           [] closer = "returned" -> "closed"
Wanted == {l \in Letters :
             /\ l[2] \in Enabled
             /\ Filter[l[2]] = {} \/ Filter[l[2]] \cap {"*", Type[l[1]]} # {}}

Contract == INSTANCE DispatcherContract
              WITH accepted <- Accepted, started <- Started, ended <- Ended,
                   settled <- SettledEvents, phase <- Phase

(* Every step of the queue and of the workers is a step of the contract or *)
(* invisible to it.                                                        *)
ImplementsContract == Contract!Spec

=============================================================================
