-------------------------- MODULE DispatcherProofs --------------------------
(***************************************************************************)
(* What holds of the dispatcher for every set of workers, events and       *)
(* subscriptions, every queue size and burst length, with or without DLQ.  *)
(***************************************************************************)
EXTENDS Dispatcher, FiniteSetTheorems, TLAPS

(* An event is in at most one place, and only if its Dispatch succeeded.   *)
OnePlace ==
  /\ \A i, j \in 1 .. Len(jobs) : jobs[i] = jobs[j] => i = j
  /\ \A v, w \in Workers : job[v] = job[w] /\ job[v] # None => v = w
  /\ \A w \in Workers, i \in 1 .. Len(jobs) : jobs[i] # job[w]

OnlyAccepted ==
  /\ \A i \in 1 .. Len(jobs) : call[jobs[i]] = "accepted"
  /\ \A w \in Workers : job[w] # None => call[job[w]] = "accepted"

(* No delivery of an event has begun before a worker has listed its        *)
(* subscriptions.                                                          *)
Untouched(e) == \A s \in Subs : fate[<<e, s>>] = "none"

NotBegun ==
  /\ \A e \in Events : call[e] # "accepted" => Untouched(e)
  /\ \A i \in 1 .. Len(jobs) : Untouched(jobs[i])
  /\ \A w \in Workers : pc[w] = "list" => Untouched(job[w])

(* Where a worker is and what it holds.                                    *)
WorkerOK(w) ==
  /\ job[w] = None <=> pc[w] \in {"idle", "exited"}
  /\ cur[w] = None <=> pc[w] \notin {"post", "bury"}
  /\ pc[w] \in {"idle", "exited", "list"} => todo[w] = {}
  /\ pc[w] = "exited" => closer # "open" /\ jobs = <<>>

(* What a worker owes: nothing posted for the subscriptions still to come, *)
(* as many POSTs as tries for the current one.                             *)
DebtOK(w) ==
  /\ \A s \in todo[w] : fate[<<job[w], s>>] = "pending" /\ posts[<<job[w], s>>] = 0
  /\ cur[w] # None =>
       /\ cur[w] \notin todo[w]
       /\ fate[Letter(w)] = "pending"
       /\ pc[w] = "post" => tries[w] < MaxAttempts /\ posts[Letter(w)] = tries[w]
       /\ pc[w] = "bury" => posts[Letter(w)] = MaxAttempts

(* POSTs of a delivery that has not begun or has ended.                    *)
PostsOK(l) ==
  /\ fate[l] = "none" => posts[l] = 0
  /\ fate[l] \in {"dead", "lost"} => posts[l] = MaxAttempts
  /\ fate[l] = "delivered" => posts[l] \in 1 .. MaxAttempts

CloseOK ==
  /\ closer # "open" => \A e \in Events : call[e] # "sending"
  /\ closer = "returned" => \A w \in Workers : pc[w] = "exited"
  /\ \A e \in Events : call[e] # "panicked"

IInv ==
  /\ TypeOK
  /\ OnePlace
  /\ OnlyAccepted
  /\ NotBegun
  /\ \A w \in Workers : WorkerOK(w)
  /\ \A w \in Workers : DebtOK(w)
  /\ \A l \in Letters : PostsOK(l)
  /\ CloseOK
  /\ NoOrphan

-----------------------------------------------------------------------------
(* The channel.                                                            *)

LEMMA AppendFacts ==
  ASSUME NEW q \in Seq(Events), NEW e \in Events
  PROVE  /\ Append(q, e) \in Seq(Events)
         /\ Len(q) \in Nat
         /\ Len(Append(q, e)) = Len(q) + 1
         /\ \A i \in 1 .. Len(q) : Append(q, e)[i] = q[i]
         /\ Append(q, e)[Len(q) + 1] = e
OBVIOUS

LEMMA TailFacts ==
  ASSUME NEW q \in Seq(Events), q # <<>>
  PROVE  /\ Tail(q) \in Seq(Events)
         /\ Len(q) \in Nat \ {0}
         /\ Len(Tail(q)) = Len(q) - 1
         /\ \A i \in 1 .. Len(q) - 1 : Tail(q)[i] = q[i + 1]
         /\ Head(q) = q[1]
         /\ Head(q) \in Events
OBVIOUS

LEMMA QueueCapType == QueueCap \in Nat
BY DispatcherAssumption, FS_CardinalityType DEF QueueCap

-----------------------------------------------------------------------------
(* The initial state.                                                      *)

LEMMA InitIInv == ASSUME Init PROVE IInv
<1> USE DispatcherAssumption DEF Init
<1>1. TypeOK
  BY QueueCapType DEF TypeOK, Calls, Places, Fates, Bucket, EmptyBucket
<1>2. OnePlace /\ OnlyAccepted /\ NotBegun /\ CloseOK /\ NoOrphan
  BY DEF OnePlace, OnlyAccepted, NotBegun, Untouched, CloseOK, NoOrphan, Letters
<1>3. \A w \in Workers : WorkerOK(w) /\ DebtOK(w)
  BY DEF WorkerOK, DebtOK
<1>4. \A l \in Letters : PostsOK(l)
  BY DEF PostsOK
<1> QED BY <1>1, <1>2, <1>3, <1>4 DEF IInv

-----------------------------------------------------------------------------
(* Types.                                                                  *)

(* A worker with a delivery in hand has a letter.                          *)
LEMMA LetterType ==
  ASSUME IInv, NEW w \in Workers, pc[w] \in {"post", "bury"}
  PROVE  /\ Letter(w) \in Letters
         /\ job[w] \in Events /\ cur[w] \in Subs
BY DEF IInv, TypeOK, WorkerOK, Letter, Letters

LEMMA EndDeliveryType ==
  ASSUME IInv, NEW w \in Workers, pc[w] \in {"post", "bury"},
         NEW how \in {"delivered", "dead", "lost"}, EndDelivery(w, how)
  PROVE  /\ fate' \in [Letters -> Fates]
         /\ cur' \in [Workers -> Subs \cup {None}]
         /\ tries' \in [Workers -> 0 .. MaxAttempts]
         /\ pc' \in [Workers -> Places]
<1>1. TypeOK /\ Letter(w) \in Letters
  BY LetterType DEF IInv
<1> QED BY <1>1, DispatcherAssumption DEF EndDelivery, TypeOK, Fates, Places

LEMMA StepTypeOK == ASSUME IInv, [Next]_vars PROVE TypeOK'
<1>0. TypeOK /\ QueueCap \in Nat
  BY QueueCapType DEF IInv
<1> USE DispatcherAssumption, <1>0 DEF TypeOK, worker, history
<1>1. ASSUME NEW e \in Events, Dispatch(e) PROVE TypeOK'
  BY <1>1 DEF Dispatch, Calls
<1>2. ASSUME NEW e \in Events, Send(e) PROVE TypeOK'
  <2>1. CASE closer = "open"
    <3>1. jobs' = Append(jobs, e) /\ Len(jobs) < QueueCap
      BY <1>2, <2>1 DEF Send, HasRoom
    <3>2. jobs' \in Seq(Events) /\ Len(jobs') <= QueueCap
      BY <3>1, AppendFacts
    <3> QED BY <1>2, <2>1, <3>2 DEF Send, Calls
  <2>2. CASE closer # "open"
    BY <1>2, <2>2 DEF Send, Calls
  <2> QED BY <2>1, <2>2
<1>3. ASSUME NEW e \in Events, GiveUp(e) PROVE TypeOK'
  BY <1>3 DEF GiveUp, Calls
<1>4. ASSUME NEW w \in Workers, Receive(w) PROVE TypeOK'
  <2>1. jobs' \in Seq(Events) /\ Len(jobs') <= QueueCap /\ Head(jobs) \in Events
    BY <1>4, TailFacts DEF Receive
  <2> QED BY <1>4, <2>1 DEF Receive, Places
<1>5. ASSUME NEW w \in Workers, Exit(w) PROVE TypeOK'
  BY <1>5 DEF Exit, Places
<1>6. ASSUME NEW w \in Workers, ListFails(w) PROVE TypeOK'
  BY <1>6 DEF ListFails, AfterListError, Places
<1>7. ASSUME NEW w \in Workers, ListSubscriptions(w) PROVE TypeOK'
  <2>1. PICK listed \in SUBSET Subs :
          /\ todo' = [todo EXCEPT ![w] = Targets(listed, job[w])]
          /\ fate' = [l \in Letters |->
                        IF l[1] = job[w] /\ l[2] \in Targets(listed, job[w])
                        THEN "pending" ELSE fate[l]]
    BY <1>7 DEF ListSubscriptions
  <2>2. todo' \in [Workers -> SUBSET Subs]
    BY <2>1 DEF Targets
  <2>3. fate' \in [Letters -> Fates]
    BY <2>1 DEF Fates
  <2> QED BY <1>7, <2>2, <2>3 DEF ListSubscriptions, Places
<1>8. ASSUME NEW w \in Workers, NextSubscription(w) PROVE TypeOK'
  BY <1>8 DEF NextSubscription, Places
<1>9. ASSUME NEW w \in Workers, FinishEvent(w) PROVE TypeOK'
  BY <1>9 DEF FinishEvent, NothingLeft, Places
<1>10. ASSUME NEW w \in Workers, PostSucceeds(w) PROVE TypeOK'
  <2>1. posts' \in [Letters -> Nat]
    BY <1>10, LetterType DEF PostSucceeds, CountPost
  <2> QED BY <1>10, <2>1, EndDeliveryType DEF PostSucceeds
<1>11. ASSUME NEW w \in Workers, PostFails(w) PROVE TypeOK'
  <2>1. posts' \in [Letters -> Nat]
    BY <1>11, LetterType DEF PostFails, CountPost
  <2>2. CASE ~ LastTry(tries[w])
    <3>1. tries' \in [Workers -> 0 .. MaxAttempts]
      BY <1>11, <2>2 DEF PostFails, LastTry
    <3> QED BY <1>11, <2>1, <2>2, <3>1 DEF PostFails
  <2>3. CASE LastTry(tries[w]) /\ HasDLQ
    BY <1>11, <2>1, <2>3 DEF PostFails, Places
  <2>4. CASE LastTry(tries[w]) /\ ~ HasDLQ
    <3>1. pc[w] = "post" /\ EndDelivery(w, "lost")
      BY <1>11, <2>4 DEF PostFails
    <3> QED BY <1>11, <2>1, <3>1, EndDeliveryType DEF PostFails
  <2> QED BY <2>2, <2>3, <2>4
<1>12. ASSUME NEW w \in Workers, Bury(w) PROVE TypeOK'
  <2>1. dlq' \in Bucket
    BY <1>12, LetterType DEF Bury, Save, NewRecord, Record, Bucket
  <2> QED BY <1>12, <2>1, EndDeliveryType DEF Bury
<1>13. ASSUME NEW w \in Workers, BuryFails(w) PROVE TypeOK'
  BY <1>13, EndDeliveryType DEF BuryFails
<1>14. ASSUME CloseJobs \/ CloseReturns PROVE TypeOK'
  BY <1>14 DEF CloseJobs, CloseReturns
<1>15. CASE UNCHANGED vars
  BY <1>15 DEF vars
<1> QED BY <1>1, <1>2, <1>3, <1>4, <1>5, <1>6, <1>7, <1>8, <1>9, <1>10, <1>11,
           <1>12, <1>13, <1>14, <1>15 DEF Next, Handler, Worker, Stopped

-----------------------------------------------------------------------------
(* Places of an event.                                                     *)

LEMMA StepOnePlace == ASSUME IInv, [Next]_vars PROVE OnePlace' /\ OnlyAccepted'
<1>0. TypeOK /\ OnePlace /\ OnlyAccepted
  BY DEF IInv
<1> USE DispatcherAssumption, <1>0 DEF TypeOK, OnePlace, OnlyAccepted, worker, history
<1>1. ASSUME NEW e \in Events, Dispatch(e) PROVE OnePlace' /\ OnlyAccepted'
  BY <1>1 DEF Dispatch
<1>2. ASSUME NEW e \in Events, Send(e) PROVE OnePlace' /\ OnlyAccepted'
  <2>1. CASE closer = "open"
    <3>1. /\ jobs' = Append(jobs, e) /\ call' = [call EXCEPT ![e] = "accepted"]
          /\ UNCHANGED job /\ call[e] = "sending"
      BY <1>2, <2>1 DEF Send
    <3>2. /\ Len(jobs') = Len(jobs) + 1 /\ Len(jobs) \in Nat
          /\ \A i \in 1 .. Len(jobs) : jobs'[i] = jobs[i] /\ jobs[i] # e
          /\ jobs'[Len(jobs) + 1] = e
      BY <3>1, AppendFacts
    <3>3. \A w \in Workers : job[w] # e
      BY <3>1
    <3> QED BY <3>1, <3>2, <3>3
  <2>2. CASE closer # "open"
    BY <1>2, <2>2 DEF Send
  <2> QED BY <2>1, <2>2
<1>3. ASSUME NEW e \in Events, GiveUp(e) PROVE OnePlace' /\ OnlyAccepted'
  BY <1>3 DEF GiveUp
<1>4. ASSUME NEW w \in Workers, Receive(w) PROVE OnePlace' /\ OnlyAccepted'
  <2>1. /\ job' = [job EXCEPT ![w] = jobs[1]]
        /\ UNCHANGED call
        /\ Len(jobs) \in Nat \ {0} /\ Len(jobs') = Len(jobs) - 1
        /\ \A i \in 1 .. Len(jobs') : jobs'[i] = jobs[i + 1]
    BY <1>4, TailFacts DEF Receive
  <2>2. OnePlace'
    <3>1. ASSUME NEW i \in 1 .. Len(jobs'), NEW j \in 1 .. Len(jobs'), jobs'[i] = jobs'[j]
          PROVE  i = j
      <4>1. i + 1 \in 1 .. Len(jobs) /\ j + 1 \in 1 .. Len(jobs)
        BY <2>1
      <4>2. jobs[i + 1] = jobs[j + 1]
        BY <2>1, <3>1
      <4>3. i + 1 = j + 1
        BY <4>1, <4>2
      <4> QED BY <4>3, <2>1
    <3>2. ASSUME NEW v \in Workers, NEW u \in Workers, job'[v] = job'[u], job'[v] # None
          PROVE  v = u
      BY <2>1, <3>2
    <3>3. ASSUME NEW v \in Workers, NEW i \in 1 .. Len(jobs') PROVE jobs'[i] # job'[v]
      BY <2>1
    <3> QED BY <3>1, <3>2, <3>3
  <2>3. OnlyAccepted'
    <3>1. ASSUME NEW i \in 1 .. Len(jobs') PROVE call'[jobs'[i]] = "accepted"
      <4>1. i + 1 \in 1 .. Len(jobs)
        BY <2>1
      <4>2. jobs'[i] = jobs[i + 1] /\ call' = call
        BY <2>1
      <4>3. call[jobs[i + 1]] = "accepted"
        BY <4>1 DEF OnlyAccepted
      <4> QED BY <4>2, <4>3
    <3>2. ASSUME NEW v \in Workers, job'[v] # None PROVE call'[job'[v]] = "accepted"
      BY <2>1, <3>2
    <3> QED BY <3>1, <3>2
  <2> QED BY <2>2, <2>3
<1>5. ASSUME NEW w \in Workers, ListFails(w) \/ FinishEvent(w) PROVE OnePlace' /\ OnlyAccepted'
  <2>1. job' = [job EXCEPT ![w] = None] /\ UNCHANGED <<call, jobs>>
    BY <1>5 DEF ListFails, FinishEvent
  <2>2. \A v \in Workers : job'[v] = None \/ job'[v] = job[v]
    BY <2>1
  <2>3. OnePlace'
    <3>1. ASSUME NEW v \in Workers, NEW i \in 1 .. Len(jobs') PROVE jobs'[i] # job'[v]
      BY <2>1, <2>2
    <3> QED BY <2>1, <2>2, <3>1
  <2> QED BY <2>1, <2>2, <2>3
<1>6. ASSUME UNCHANGED <<call, jobs, job>> PROVE OnePlace' /\ OnlyAccepted'
  BY <1>6
<1>7. \/ \E e \in Events : Dispatch(e) \/ Send(e) \/ GiveUp(e)
      \/ \E w \in Workers : Receive(w) \/ ListFails(w) \/ FinishEvent(w)
      \/ UNCHANGED <<call, jobs, job>>
  BY DEF Next, Handler, Worker, Stopped, vars, Exit, ListSubscriptions, NextSubscription,
         PostSucceeds, PostFails, Bury, BuryFails, CloseJobs, CloseReturns
<1> QED BY <1>1, <1>2, <1>3, <1>4, <1>5, <1>6, <1>7

(* Only the worker that holds an event touches its deliveries.             *)
LEMMA StepNotBegun == ASSUME IInv, [Next]_vars PROVE NotBegun'
<1>0. /\ TypeOK /\ OnePlace /\ OnlyAccepted /\ NotBegun
      /\ \A w \in Workers : WorkerOK(w)
  BY DEF IInv
<1> USE DispatcherAssumption, <1>0 DEF TypeOK, NotBegun, Untouched, worker, history
<1>1. ASSUME NEW e \in Events, Dispatch(e) \/ GiveUp(e) PROVE NotBegun'
  BY <1>1 DEF Dispatch, GiveUp
<1>2. ASSUME NEW e \in Events, Send(e) PROVE NotBegun'
  <2>1. CASE closer = "open"
    <3>1. /\ jobs' = Append(jobs, e) /\ call' = [call EXCEPT ![e] = "accepted"]
          /\ UNCHANGED <<fate, pc, job>> /\ Untouched(e)
      BY <1>2, <2>1 DEF Send
    <3>2. /\ Len(jobs') = Len(jobs) + 1 /\ Len(jobs) \in Nat
          /\ \A i \in 1 .. Len(jobs) : jobs'[i] = jobs[i]
          /\ jobs'[Len(jobs) + 1] = e
      BY <3>1, AppendFacts
    <3>3. \A i \in 1 .. Len(jobs') : Untouched(jobs'[i])
      BY <3>1, <3>2
    <3> QED BY <3>1, <3>3
  <2>2. CASE closer # "open"
    BY <1>2, <2>2 DEF Send
  <2> QED BY <2>1, <2>2
<1>3. ASSUME NEW w \in Workers, Receive(w) PROVE NotBegun'
  <2>1. /\ job' = [job EXCEPT ![w] = jobs[1]]
        /\ pc' = [pc EXCEPT ![w] = "list"]
        /\ UNCHANGED <<call, fate>>
        /\ Len(jobs) \in Nat \ {0} /\ Len(jobs') = Len(jobs) - 1
        /\ \A i \in 1 .. Len(jobs') : jobs'[i] = jobs[i + 1]
    BY <1>3, TailFacts DEF Receive
  <2>2. Untouched(jobs[1])
    BY <2>1
  <2>3. \A i \in 1 .. Len(jobs') : Untouched(jobs'[i])
    BY <2>1
  <2> QED BY <2>1, <2>2, <2>3
<1>4. ASSUME NEW w \in Workers, Exit(w) \/ ListFails(w) \/ NextSubscription(w) \/ FinishEvent(w)
      PROVE  NotBegun'
  <2>1. UNCHANGED <<call, jobs, fate>>
    BY <1>4 DEF Exit, ListFails, AfterListError, NextSubscription, FinishEvent, NothingLeft
  <2>2. \A v \in Workers : pc'[v] = "list" => pc[v] = "list" /\ job'[v] = job[v]
    BY <1>4 DEF Exit, ListFails, AfterListError, NextSubscription, FinishEvent, NothingLeft
  <2> QED BY <2>1, <2>2
<1>5. ASSUME NEW w \in Workers, job[w] \in Events, call' = call, jobs' = jobs, job' = job,
             \A v \in Workers : pc'[v] = "list" => pc[v] = "list" /\ v # w,
             \A l \in Letters : l[1] # job[w] => fate'[l] = fate[l]
      PROVE  NotBegun'
  <2>1. ASSUME NEW e \in Events, e # job[w], Untouched(e) PROVE Untouched(e)'
    BY <1>5, <2>1 DEF Letters
  <2>2. call[job[w]] = "accepted"
    BY <1>5 DEF OnlyAccepted
  <2>3. \A i \in 1 .. Len(jobs) : jobs[i] # job[w] /\ jobs[i] \in Events
    BY DEF OnePlace
  <2>4. \A v \in Workers : v # w /\ pc[v] = "list" => job[v] # job[w] /\ job[v] \in Events
    BY <1>5 DEF OnePlace, WorkerOK
  <2> HIDE DEF Untouched
  <2> QED BY <1>5, <2>1, <2>2, <2>3, <2>4
<1>6. ASSUME NEW w \in Workers, ListSubscriptions(w) PROVE NotBegun'
  <2>1. job[w] \in Events
    BY <1>6 DEF ListSubscriptions, WorkerOK
  <2>2. \A l \in Letters : l[1] # job[w] => fate'[l] = fate[l]
    BY <1>6 DEF ListSubscriptions
  <2> QED BY <1>5, <1>6, <2>1, <2>2 DEF ListSubscriptions
<1>7. ASSUME NEW w \in Workers, PostSucceeds(w) \/ PostFails(w) \/ Bury(w) \/ BuryFails(w)
      PROVE  NotBegun'
  <2>1. pc[w] \in {"post", "bury"} /\ job[w] \in Events
    BY <1>7, LetterType DEF PostSucceeds, PostFails, Bury, BuryFails
  <2>2. \A l \in Letters : l[1] # job[w] => fate'[l] = fate[l]
    BY <1>7 DEF PostSucceeds, PostFails, Bury, BuryFails, EndDelivery, Letter
  <2>3. pc' \in [Workers -> Places] /\ \A v \in Workers : pc'[v] = "list" => pc[v] = "list" /\ v # w
    BY <1>7, <2>1 DEF PostSucceeds, PostFails, Bury, BuryFails, EndDelivery, Places
  <2> QED BY <1>5, <1>7, <2>1, <2>2, <2>3 DEF PostSucceeds, PostFails, Bury, BuryFails
<1>8. ASSUME CloseJobs \/ CloseReturns \/ UNCHANGED vars PROVE NotBegun'
  BY <1>8 DEF CloseJobs, CloseReturns, vars
<1> QED BY <1>1, <1>2, <1>3, <1>4, <1>6, <1>7, <1>8 DEF Next, Handler, Worker, Stopped

-----------------------------------------------------------------------------
(* Workers and Close.                                                      *)

LEMMA StepWorkerOK == ASSUME IInv, [Next]_vars, NEW v \in Workers PROVE WorkerOK(v)'
<1>0. TypeOK /\ WorkerOK(v) /\ CloseOK
  BY DEF IInv
<1> USE DispatcherAssumption, <1>0 DEF TypeOK, WorkerOK, worker, history
<1>1. ASSUME NEW e \in Events, Dispatch(e) \/ Send(e) \/ GiveUp(e) PROVE WorkerOK(v)'
  BY <1>1 DEF Dispatch, Send, GiveUp, CloseOK
<1>2. ASSUME NEW w \in Workers, Receive(w) PROVE WorkerOK(v)'
  <2>1. Head(jobs) \in Events
    BY <1>2, TailFacts DEF Receive
  <2> QED BY <1>2, <2>1 DEF Receive
<1>3. ASSUME NEW w \in Workers, Exit(w) PROVE WorkerOK(v)'
  BY <1>3 DEF Exit, SeesEnd
<1>4. ASSUME NEW w \in Workers, ListFails(w) \/ FinishEvent(w) PROVE WorkerOK(v)'
  BY <1>4 DEF ListFails, AfterListError, FinishEvent, NothingLeft
<1>5. ASSUME NEW w \in Workers, ListSubscriptions(w) \/ NextSubscription(w) PROVE WorkerOK(v)'
  BY <1>5 DEF ListSubscriptions, NextSubscription
<1>6. ASSUME NEW w \in Workers, PostSucceeds(w) \/ PostFails(w) \/ Bury(w) \/ BuryFails(w)
      PROVE  WorkerOK(v)'
  BY <1>6 DEF PostSucceeds, PostFails, Bury, BuryFails, EndDelivery
<1>7. ASSUME CloseJobs \/ CloseReturns \/ UNCHANGED vars PROVE WorkerOK(v)'
  BY <1>7 DEF CloseJobs, CloseReturns, vars
<1> QED BY <1>1, <1>2, <1>3, <1>4, <1>5, <1>6, <1>7 DEF Next, Handler, Worker, Stopped

LEMMA StepCloseOK == ASSUME IInv, [Next]_vars PROVE CloseOK'
<1>0. TypeOK /\ CloseOK /\ \A w \in Workers : WorkerOK(w)
  BY DEF IInv
<1> USE DispatcherAssumption, <1>0 DEF TypeOK, CloseOK, worker, history
<1>1. ASSUME NEW e \in Events, Dispatch(e) \/ Send(e) \/ GiveUp(e) PROVE CloseOK'
  BY <1>1 DEF Dispatch, Send, GiveUp
<1>2. ASSUME NEW w \in Workers, Worker(w) PROVE CloseOK'
  <2>1. UNCHANGED <<call, closer>>
    BY <1>2 DEF Worker, Receive, Exit, ListFails, AfterListError, ListSubscriptions, NextSubscription,
                FinishEvent, PostSucceeds, PostFails, Bury, BuryFails
  <2>2. pc[w] # "exited" \/ jobs = <<>>
    BY DEF WorkerOK
  <2>3. pc[w] # "exited"
    BY <1>2 DEF Worker, Receive, Exit, ListFails, AfterListError, ListSubscriptions, NextSubscription,
                FinishEvent, PostSucceeds, PostFails, Bury, BuryFails
  <2> QED BY <2>1, <2>3
<1>3. ASSUME CloseJobs \/ CloseReturns \/ UNCHANGED vars PROVE CloseOK'
  BY <1>3 DEF CloseJobs, CloseReturns, HandlersDone, AllWorkersLeft, vars
<1> QED BY <1>1, <1>2, <1>3 DEF Next, Handler, Stopped

-----------------------------------------------------------------------------
(* Debts and POSTs.                                                        *)

(* What the steps of a worker on its delivery change: only its own letter. *)
LEMMA PostStep ==
  ASSUME IInv, NEW w \in Workers, PostSucceeds(w) \/ PostFails(w) \/ Bury(w) \/ BuryFails(w)
  PROVE  /\ pc[w] \in {"post", "bury"}
         /\ UNCHANGED <<job, todo>>
         /\ \A l \in Letters \ {Letter(w)} : fate'[l] = fate[l] /\ posts'[l] = posts[l]
         /\ \A v \in Workers \ {w} : pc'[v] = pc[v] /\ cur'[v] = cur[v] /\ tries'[v] = tries[v]
<1>1. TypeOK
  BY DEF IInv
<1> QED BY <1>1 DEF PostSucceeds, PostFails, Bury, BuryFails, EndDelivery, CountPost, TypeOK

(* A delivery that is not over yet: POSTs left, or the record to save.     *)
Going(w) ==
  /\ fate'[Letter(w)] = "pending" /\ cur'[w] = cur[w]
  /\ \/ pc'[w] = "post" /\ tries'[w] < MaxAttempts /\ posts'[Letter(w)] = tries'[w]
     \/ pc'[w] = "bury" /\ posts'[Letter(w)] = MaxAttempts

(* A delivery that ended, in a way that agrees with the POSTs made.        *)
Gone(w) ==
  /\ pc'[w] = "loop" /\ cur'[w] = None
  /\ \/ fate'[Letter(w)] = "delivered" /\ posts'[Letter(w)] \in 1 .. MaxAttempts
     \/ fate'[Letter(w)] \in {"dead", "lost"} /\ posts'[Letter(w)] = MaxAttempts

LEMMA PostOutcome ==
  ASSUME IInv, NEW w \in Workers, PostSucceeds(w) \/ PostFails(w) \/ Bury(w) \/ BuryFails(w)
  PROVE  Going(w) \/ Gone(w)
<1>0. /\ TypeOK /\ DebtOK(w) /\ WorkerOK(w) /\ pc[w] \in {"post", "bury"}
      /\ Letter(w) \in Letters /\ cur[w] \in Subs
  BY PostStep, LetterType DEF IInv
<1>1. /\ fate[Letter(w)] = "pending"
      /\ pc[w] = "post" => tries[w] < MaxAttempts /\ posts[Letter(w)] = tries[w]
      /\ pc[w] = "bury" => posts[Letter(w)] = MaxAttempts
  BY <1>0 DEF DebtOK, WorkerOK
<1> USE DispatcherAssumption, <1>0, <1>1 DEF TypeOK
<1>2. CASE PostSucceeds(w)
  BY <1>2 DEF PostSucceeds, EndDelivery, CountPost, Gone
<1>3. CASE PostFails(w)
  <2>1. posts'[Letter(w)] = tries[w] + 1
    BY <1>3 DEF PostFails, CountPost
  <2>2. CASE ~ LastTry(tries[w])
    BY <1>3, <2>1, <2>2 DEF PostFails, LastTry, Going
  <2>3. CASE LastTry(tries[w]) /\ HasDLQ
    BY <1>3, <2>1, <2>3 DEF PostFails, LastTry, Going
  <2>4. CASE LastTry(tries[w]) /\ ~ HasDLQ
    BY <1>3, <2>1, <2>4 DEF PostFails, LastTry, EndDelivery, Gone
  <2> QED BY <2>2, <2>3, <2>4
<1>4. CASE Bury(w) \/ BuryFails(w)
  BY <1>4 DEF Bury, BuryFails, EndDelivery, Gone
<1> QED BY <1>2, <1>3, <1>4

LEMMA StepDebtOK == ASSUME IInv, [Next]_vars, NEW v \in Workers PROVE DebtOK(v)'
<1>0. TypeOK /\ OnePlace /\ NotBegun /\ WorkerOK(v) /\ DebtOK(v)
  BY DEF IInv
<1>a. \A l \in Letters : PostsOK(l)
  BY DEF IInv
<1> USE DispatcherAssumption, <1>0 DEF TypeOK, worker, history, Letter
<1>1. ASSUME UNCHANGED <<job, todo, cur, tries, fate, posts>>, pc'[v] = pc[v] \/ cur[v] = None
      PROVE  DebtOK(v)'
  BY <1>1 DEF DebtOK
<1>2. ASSUME NEW e \in Events, Dispatch(e) \/ Send(e) \/ GiveUp(e) PROVE DebtOK(v)'
  BY <1>1, <1>2 DEF Dispatch, Send, GiveUp
<1>3. ASSUME NEW w \in Workers, Receive(w) \/ ListFails(w) \/ FinishEvent(w) PROVE DebtOK(v)'
  BY <1>3 DEF Receive, ListFails, AfterListError, FinishEvent, NothingLeft, WorkerOK, DebtOK
<1>4. ASSUME NEW w \in Workers, Exit(w) PROVE DebtOK(v)'
  BY <1>1, <1>4 DEF Exit, WorkerOK
<1>5. ASSUME NEW w \in Workers, ListSubscriptions(w) PROVE DebtOK(v)'
  <2>1. PICK listed \in SUBSET Subs :
          /\ todo' = [todo EXCEPT ![w] = Targets(listed, job[w])]
          /\ fate' = [l \in Letters |->
                        IF l[1] = job[w] /\ l[2] \in Targets(listed, job[w])
                        THEN "pending" ELSE fate[l]]
    BY <1>5 DEF ListSubscriptions
  <2>2. pc[w] = "list" /\ UNCHANGED <<job, cur, tries, posts>> /\ pc' = [pc EXCEPT ![w] = "loop"]
    BY <1>5 DEF ListSubscriptions
  <2>3. job[w] \in Events /\ WorkerOK(w)
    BY <2>2 DEF IInv, WorkerOK
  <2>4. Targets(listed, job[w]) \subseteq Subs
    BY DEF Targets
  <2>5. CASE v = w
    <3>1. \A s \in Subs : posts[<<job[w], s>>] = 0
      BY <1>a, <2>2, <2>3 DEF NotBegun, Untouched, PostsOK, Letters
    <3> QED BY <2>1, <2>2, <2>3, <2>4, <2>5, <3>1 DEF DebtOK, WorkerOK, Letters
  <2>6. CASE v # w
    <3>1. job[v] # job[w]
      BY <2>3, <2>6 DEF OnePlace
    <3>2. \A s \in Subs : job[v] # None => fate'[<<job[v], s>>] = fate[<<job[v], s>>]
      BY <2>1, <3>1 DEF Letters
    <3>3. cur[v] # None => job[v] # None /\ cur[v] \in Subs
      BY DEF WorkerOK
    <3>4. todo[v] # {} => job[v] # None
      BY DEF WorkerOK
    <3> QED BY <2>1, <2>2, <2>6, <3>2, <3>3, <3>4 DEF DebtOK
  <2> QED BY <2>5, <2>6
<1>6. ASSUME NEW w \in Workers, NextSubscription(w) PROVE DebtOK(v)'
  <2>1. CASE v = w
    BY <1>6, <2>1 DEF NextSubscription, DebtOK
  <2>2. CASE v # w
    BY <1>6, <2>2 DEF NextSubscription, DebtOK
  <2> QED BY <2>1, <2>2
<1>7. ASSUME NEW w \in Workers, PostSucceeds(w) \/ PostFails(w) \/ Bury(w) \/ BuryFails(w)
      PROVE  DebtOK(v)'
  <2>0. /\ PostsOK(Letter(w)) /\ job[w] \in Events /\ cur[w] \in Subs
        /\ WorkerOK(w)
    BY <1>7, <1>a, PostStep, LetterType DEF IInv
  <2>1. CASE v = w
    <3>1. cur[w] \notin todo[w]
      BY <2>0, <2>1 DEF DebtOK
    <3>2. \A s \in todo[w] : /\ <<job[w], s>> \in Letters \ {Letter(w)}
                             /\ fate'[<<job[w], s>>] = "pending" /\ posts'[<<job[w], s>>] = 0
      BY <1>7, <2>0, <2>1, <3>1, PostStep DEF DebtOK, Letters
    <3>3. UNCHANGED <<job, todo>> /\ (Going(w) \/ Gone(w))
      BY <1>7, PostStep, PostOutcome
    <3> QED BY <2>0, <2>1, <3>1, <3>2, <3>3 DEF DebtOK, Going, Gone
  <2>2. CASE v # w
    <3>1. /\ UNCHANGED <<job, todo>>
          /\ pc'[v] = pc[v] /\ cur'[v] = cur[v] /\ tries'[v] = tries[v]
      BY <1>7, <2>2, PostStep
    <3>2. job[v] # job[w]
      BY <2>0, <2>2 DEF OnePlace
    <3>3. \A s \in Subs : job[v] # None => /\ fate'[<<job[v], s>>] = fate[<<job[v], s>>]
                                          /\ posts'[<<job[v], s>>] = posts[<<job[v], s>>]
      BY <1>7, <3>2, PostStep DEF Letters
    <3>4. (cur[v] # None => job[v] # None /\ cur[v] \in Subs) /\ (todo[v] # {} => job[v] # None)
      BY DEF WorkerOK
    <3> QED BY <3>1, <3>3, <3>4 DEF DebtOK
  <2> QED BY <2>1, <2>2
<1>8. ASSUME CloseJobs \/ CloseReturns \/ UNCHANGED vars PROVE DebtOK(v)'
  BY <1>1, <1>8 DEF CloseJobs, CloseReturns, vars
<1> QED BY <1>2, <1>3, <1>4, <1>5, <1>6, <1>7, <1>8 DEF Next, Handler, Worker, Stopped

LEMMA StepPostsOK == ASSUME IInv, [Next]_vars, NEW l \in Letters PROVE PostsOK(l)'
<1>0. TypeOK /\ PostsOK(l)
  BY DEF IInv
<1> USE DispatcherAssumption, <1>0 DEF TypeOK, PostsOK
<1>1. ASSUME UNCHANGED <<fate, posts>> PROVE PostsOK(l)'
  BY <1>1
<1>2. ASSUME NEW w \in Workers, ListSubscriptions(w) PROVE PostsOK(l)'
  BY <1>2 DEF ListSubscriptions
<1>3. ASSUME NEW w \in Workers, PostSucceeds(w) \/ PostFails(w) \/ Bury(w) \/ BuryFails(w)
      PROVE  PostsOK(l)'
  <2>1. CASE l = Letter(w)
    BY <1>3, <2>1, PostOutcome DEF Going, Gone
  <2>2. CASE l # Letter(w)
    BY <1>3, <2>2, PostStep
  <2> QED BY <2>1, <2>2
<1>4. \/ \E w \in Workers : ListSubscriptions(w) \/ PostSucceeds(w) \/ PostFails(w)
                           \/ Bury(w) \/ BuryFails(w)
      \/ UNCHANGED <<fate, posts>>
  BY DEF Next, Handler, Worker, Stopped, vars, history, Dispatch, Send, GiveUp, Receive, Exit,
         ListFails, NextSubscription, FinishEvent, CloseJobs, CloseReturns
<1> QED BY <1>1, <1>2, <1>3, <1>4

(* A worker keeps what it holds until the delivery ends.                   *)
LEMMA KeepsHolding ==
  ASSUME IInv, [Next]_vars, NEW l \in Letters, fate'[l] = "pending",
         NEW v \in Workers, Holds(v, l)
  PROVE  Holds(v, l)'
<1>0. TypeOK /\ WorkerOK(v) /\ DebtOK(v)
  BY DEF IInv
<1> USE DispatcherAssumption, <1>0 DEF TypeOK, Holds, worker, history
<1>1. ASSUME job'[v] = job[v], pc'[v] = pc[v], todo'[v] = todo[v], cur'[v] = cur[v]
      PROVE  Holds(v, l)'
  BY <1>1
<1>2. ASSUME NEW w \in Workers, \/ Receive(w) \/ Exit(w) \/ ListFails(w) \/ ListSubscriptions(w)
                              \/ NextSubscription(w) \/ FinishEvent(w)
      PROVE  Holds(v, l)'
  <2>1. CASE v # w
    BY <1>1, <1>2, <2>1 DEF Receive, Exit, ListFails, AfterListError, ListSubscriptions, NextSubscription, FinishEvent, NothingLeft
  <2>2. CASE v = w
    BY <1>2, <2>2 DEF Receive, Exit, ListFails, AfterListError, ListSubscriptions, NextSubscription, FinishEvent, NothingLeft
  <2> QED BY <2>1, <2>2
<1>3. ASSUME NEW w \in Workers, PostSucceeds(w) \/ PostFails(w) \/ Bury(w) \/ BuryFails(w)
      PROVE  Holds(v, l)'
  <2>1. UNCHANGED <<job, todo>> /\ pc[w] \in {"post", "bury"} /\ (Going(w) \/ Gone(w))
    BY <1>3, PostStep, PostOutcome
  <2>2. CASE v # w
    BY <1>1, <1>3, <2>1, <2>2, PostStep
  <2>3. CASE v = w /\ l = Letter(w)
    BY <2>1, <2>3 DEF Going, Gone, Letter
  <2>4. CASE v = w /\ l # Letter(w)
    <3>1. l[2] \in todo[w]
      BY <2>4 DEF Letter, Letters
    <3> QED BY <2>1, <2>4, <3>1 DEF Going, Gone
  <2> QED BY <2>2, <2>3, <2>4
<1>4. ASSUME UNCHANGED worker PROVE Holds(v, l)'
  BY <1>1, <1>4
<1> QED BY <1>2, <1>3, <1>4 DEF Next, Handler, Worker, Stopped, vars, Dispatch, Send, GiveUp,
                                CloseJobs, CloseReturns

LEMMA StepNoOrphan == ASSUME IInv, [Next]_vars PROVE NoOrphan'
<1>0. TypeOK /\ NoOrphan
  BY DEF IInv
<1> SUFFICES ASSUME NEW l \in Letters, fate'[l] = "pending"
             PROVE  \E v \in Workers : Holds(v, l)'
  BY DEF NoOrphan
<1>1. CASE fate[l] = "pending"
  <2>1. PICK v \in Workers : Holds(v, l)
    BY <1>0, <1>1 DEF NoOrphan
  <2> QED BY <2>1, KeepsHolding
<1>2. CASE fate[l] # "pending"
  <2>1. PICK w \in Workers : \/ ListSubscriptions(w)
                             \/ PostSucceeds(w) \/ PostFails(w) \/ Bury(w) \/ BuryFails(w)
    BY <1>2 DEF Next, Handler, Worker, Stopped, vars, history, Dispatch, Send, GiveUp, Receive,
                Exit, ListFails, NextSubscription, FinishEvent, CloseJobs, CloseReturns
  <2>2. CASE ListSubscriptions(w)
    <3>1. /\ l[1] = job[w] /\ l[2] \in todo'[w]
          /\ pc'[w] = "loop" /\ job' = job
      BY <1>0, <1>2, <2>2 DEF ListSubscriptions, TypeOK
    <3> QED BY <3>1 DEF Holds
  <2>3. CASE PostSucceeds(w) \/ PostFails(w) \/ Bury(w) \/ BuryFails(w)
    <3>1. l = Letter(w)
      BY <1>2, <2>3, PostStep
    <3>2. pc[w] \in {"post", "bury"} /\ WorkerOK(w) /\ DebtOK(w)
      BY <2>3, PostStep DEF IInv
    <3>3. fate[Letter(w)] = "pending"
      BY <3>2 DEF WorkerOK, DebtOK
    <3> QED BY <1>2, <3>1, <3>3
  <2> QED BY <2>1, <2>2, <2>3
<1> QED BY <1>1, <1>2

-----------------------------------------------------------------------------
(* The results.                                                            *)

LEMMA Inductive == ASSUME IInv, [Next]_vars PROVE IInv'
BY StepTypeOK, StepOnePlace, StepNotBegun, StepWorkerOK, StepDebtOK, StepPostsOK,
   StepCloseOK, StepNoOrphan DEF IInv

LEMMA Invariance == Spec => []IInv
<1>1. IInv /\ [Next]_vars => IInv'
  BY Inductive
<1> QED BY <1>1, InitIInv, PTL DEF Spec

(* The dispatcher keeps its types; the channel never holds more than its   *)
(* capacity (worker_dispatcher.go:83).                                     *)
THEOREM TypeCorrect == Spec => []TypeOK
<1>1. IInv => TypeOK
  BY DEF IInv
<1> QED BY <1>1, Invariance, PTL

(* A delivery that is owed is in the hands of a worker still in its loop   *)
(* (worker_dispatcher.go:125-166).                                         *)
THEOREM NothingForgotten == Spec => []NoOrphan
<1>1. IInv => NoOrphan
  BY DEF IInv
<1> QED BY <1>1, Invariance, PTL

(* Close returns only when every accepted event is settled and every       *)
(* delivery has ended; no Dispatch meets the closed channel                *)
(* (worker_dispatcher.go:112-122, main.go:190-201).                        *)
THEOREM CloseDrains == Spec => []DrainedOnClose
<1>1. IInv => DrainedOnClose
  <2>1. ASSUME IInv, closer = "returned", NEW w \in Workers
        PROVE  pc[w] = "exited" /\ jobs = <<>> /\ job[w] = None
    BY <2>1 DEF IInv, CloseOK, WorkerOK
  <2>2. ASSUME IInv, closer = "returned", NEW e \in Events, call[e] = "accepted"
        PROVE  Settled(e)
    <3>1. jobs = <<>> /\ Len(jobs) = 0
      BY <2>1, <2>2, DispatcherAssumption
    <3>2. ~ Queued(e)
      BY <3>1 DEF Queued
    <3>3. ~ InHand(e)
      BY <2>1, <2>2, DispatcherAssumption DEF InHand
    <3> QED BY <2>2, <3>2, <3>3 DEF Settled
  <2>3. ASSUME IInv, closer = "returned", NEW l \in Letters
        PROVE  fate[l] # "pending"
    BY <2>1, <2>3 DEF IInv, NoOrphan, Holds
  <2>4. ASSUME IInv, NEW e \in Events PROVE call[e] # "panicked"
    BY <2>4 DEF IInv, CloseOK
  <2> QED BY <2>2, <2>3, <2>4 DEF DrainedOnClose
<1> QED BY <1>1, Invariance, PTL

(* A delivery is given up after exactly MaxAttempts POSTs and gets none    *)
(* after it has ended (worker_dispatcher.go:192-217).                      *)
THEOREM BurstIsFull == Spec => []FullBurst
<1>1. IInv => FullBurst
  <2> SUFFICES ASSUME IInv, NEW l \in Letters
               PROVE  /\ posts[l] <= MaxAttempts
                      /\ fate[l] \in {"dead", "lost"} => posts[l] = MaxAttempts
                      /\ fate[l] = "delivered" => posts[l] \in 1 .. MaxAttempts
    BY DEF FullBurst
  <2>1. TypeOK /\ PostsOK(l)
    BY DEF IInv
  <2>2. CASE fate[l] = "pending"
    <3>1. PICK w \in Workers : Holds(w, l)
      BY <2>2 DEF IInv, NoOrphan
    <3>2. WorkerOK(w) /\ DebtOK(w) /\ l = <<job[w], l[2]>>
      BY <3>1 DEF IInv, Holds, Letters
    <3>3. CASE l[2] \in todo[w]
      BY <2>1, <2>2, <3>2, <3>3, DispatcherAssumption DEF DebtOK
    <3>4. CASE pc[w] \in {"post", "bury"} /\ cur[w] = l[2]
      <4>1. l = Letter(w) /\ tries[w] \in Nat
        BY <2>1, <3>2, <3>4 DEF Letter, TypeOK
      <4> QED BY <2>1, <2>2, <3>2, <3>4, <4>1, DispatcherAssumption DEF WorkerOK, DebtOK
    <3> QED BY <3>1, <3>3, <3>4 DEF Holds
  <2>3. CASE fate[l] # "pending"
    BY <2>1, <2>3, DispatcherAssumption DEF PostsOK, TypeOK, Fates
  <2> QED BY <2>2, <2>3
<1> QED BY <1>1, Invariance, PTL

(* When the clock gives each record a key of its own, what is reported as  *)
(* stored in the DLQ is there (worker_dispatcher.go:231-259, dlq.go:80-91).*)
THEOREM DeadLettersStay == DistinctNanos => (Spec => []DeadLettersKept)
<1> SUFFICES ASSUME DistinctNanos PROVE Spec => []DeadLettersKept
  OBVIOUS
<1>1. Init => DeadLettersKept
  BY DEF Init, DeadLettersKept
<1>2. ASSUME IInv, DeadLettersKept, [Next]_vars PROVE DeadLettersKept'
  <2> SUFFICES ASSUME NEW l \in Letters, fate'[l] = "dead"
               PROVE  \E k \in Keys : Has(dlq', k) /\ dlq'[k].letter = l
    BY DEF DeadLettersKept, Has
  <2>0. TypeOK
    BY <1>2 DEF IInv
  <2>1. ASSUME NEW w \in Workers, Bury(w) PROVE \E k \in Keys : Has(dlq', k) /\ dlq'[k].letter = l
    <3>1. PICK k \in Keys : dlq[k] = None /\ dlq' = Save(dlq, k, NewRecord(Letter(w)))
      BY <2>1 DEF Bury, FreshKey
    <3>2. NewRecord(Letter(w)) # None /\ NewRecord(Letter(w)).letter = Letter(w)
      <4>1. Letter(w) \in Letters
        BY <1>2, <2>1, LetterType DEF Bury
      <4>2. NewRecord(Letter(w)) \in Record
        BY <4>1, DispatcherAssumption DEF NewRecord, Record
      <4> QED BY <4>2, DispatcherAssumption DEF NewRecord
    <3>3. CASE l = Letter(w)
      BY <2>0, <3>1, <3>2, <3>3 DEF Has, Save, TypeOK, Bucket
    <3>4. CASE l # Letter(w)
      <4>1. fate[l] = "dead"
        BY <2>0, <2>1, <3>4 DEF Bury, EndDelivery, TypeOK
      <4>2. PICK j \in Keys : Has(dlq, j) /\ dlq[j].letter = l
        BY <1>2, <4>1 DEF DeadLettersKept
      <4> QED BY <2>0, <3>1, <4>2 DEF Has, Save, TypeOK, Bucket
    <3> QED BY <3>3, <3>4
  <2>2. ASSUME NEW w \in Workers, PostSucceeds(w) \/ PostFails(w) \/ BuryFails(w) \/ ListSubscriptions(w)
        PROVE  fate[l] = "dead" /\ dlq' = dlq
    BY <2>0, <2>2 DEF PostSucceeds, PostFails, BuryFails, ListSubscriptions, EndDelivery, TypeOK
  <2>3. \/ \E w \in Workers : \/ Bury(w) \/ PostSucceeds(w) \/ PostFails(w)
                             \/ BuryFails(w) \/ ListSubscriptions(w)
        \/ UNCHANGED <<fate, dlq>>
    BY <1>2 DEF Next, Handler, Worker, Stopped, vars, history, Dispatch, Send, GiveUp, Receive,
                Exit, ListFails, NextSubscription, FinishEvent, CloseJobs, CloseReturns
  <2> QED BY <1>2, <2>1, <2>2, <2>3 DEF DeadLettersKept
<1> QED BY <1>1, <1>2, Invariance, PTL DEF Spec

=============================================================================
