---------------------------- MODULE ServerProofs ----------------------------
(***************************************************************************)
(* The order of a shutdown, for every number of events, workers, replaying *)
(* requests and processes: main closes the queue when nobody can send, and *)
(* a process that ends by way of Close leaves nothing behind.  Then what   *)
(* outlives a process: a step of the server is a step of DeadLetters, or   *)
(* one that leaves the bucket alone, so that what is reported as stored    *)
(* stays until it is acknowledged or removed, and none is given up early.  *)
(***************************************************************************)
EXTENDS Server, TLAPS

(* Types of what a shutdown depends on.                                    *)
Types ==
  /\ phase \in {"serving", "draining", "closing", "down"}
  /\ begun \subseteq Events
  /\ call \in [Events -> D!Calls]
  /\ jobs \in Seq(Events)
  /\ closer \in {"open", "waiting", "returned"}
  /\ pc \in [Workers -> D!Places]
  /\ job \in [Workers -> Events \cup {None}]
  /\ todo \in [Workers -> SUBSET Subs]
  /\ cur \in [Workers -> Subs \cup {None}]
  /\ fate \in [D!Letters -> D!Fates]

(* What the place of a worker says of what it has in hand.                 *)
HandOK(w) ==
  /\ pc[w] \in {"idle", "exited"} => job[w] = None
  /\ pc[w] \in {"list", "loop", "post", "bury"} => job[w] \in Events
  /\ pc[w] \in {"post", "bury"} => cur[w] \in Subs
  /\ pc[w] = "exited" => closer # "open" /\ jobs = <<>>

(* After close(jobs) nobody sends, and Close returns to an empty pool.     *)
ClosedOK ==
  /\ closer # "open" => \A e \in Events : call[e] # "sending"
  /\ closer = "returned" => \A w \in Workers : pc[w] = "exited"
  /\ \A e \in Events : call[e] # "panicked"

(* The queue is closed in one phase only, with all handlers done.          *)
PhaseOK ==
  /\ phase \in {"serving", "draining"} => closer = "open"
  /\ phase = "closing" =>
       closer # "open" /\ \A e \in begun : call[e] \in {"accepted", "refused"}

IInv ==
  /\ Types
  /\ \A w \in Workers : HandOK(w)
  /\ ClosedOK
  /\ PhaseOK
  /\ D!NoOrphan

-----------------------------------------------------------------------------
(* Steps of the workers.                                                   *)

(* What a step of a worker can be.                                         *)
LEMMA WorkCases ==
  ASSUME NEW w \in Workers, Work(w)
  PROVE  /\ \/ D!Receive(w) \/ D!Exit(w) \/ D!ListFails(w) \/ D!ListSubscriptions(w)
            \/ D!NextSubscription(w) \/ D!FinishEvent(w)
            \/ D!PostSucceeds(w) \/ D!PostFails(w) \/ D!Bury(w) \/ D!BuryFails(w)
         /\ UNCHANGED <<phase, begun, call, closer>>
         /\ pc[w] # "exited"
BY DEF Work, life, D!Worker, D!Receive, D!Exit, D!ListFails, D!ListSubscriptions,
       D!NextSubscription, D!FinishEvent, D!PostSucceeds, D!PostFails, D!Bury, D!BuryFails

(* It keeps the types, ...                                                 *)
LEMMA WorkTypes == ASSUME IInv, NEW w \in Workers, Work(w) PROVE Types'
<1>0. Types /\ HandOK(w)
  BY DEF IInv
<1> USE <1>0 DEF Types, D!Places, D!worker, D!history
<1>1. ASSUME D!Receive(w) PROVE Types'
  <2>1. Head(jobs) \in Events /\ Tail(jobs) \in Seq(Events)
    BY <1>1 DEF D!Receive
  <2> QED BY <1>1, <2>1, WorkCases DEF D!Receive
<1>2. ASSUME D!Exit(w) PROVE Types'
  BY <1>2, WorkCases DEF D!Exit
<1>3. ASSUME D!ListFails(w) PROVE Types'
  BY <1>3, WorkCases DEF D!ListFails, D!AfterListError
<1>4. ASSUME D!ListSubscriptions(w) PROVE Types'
  <2>1. PICK listed \in SUBSET Subs :
          /\ todo' = [todo EXCEPT ![w] = D!Targets(listed, job[w])]
          /\ fate' = [l \in D!Letters |->
                        IF l[1] = job[w] /\ l[2] \in D!Targets(listed, job[w])
                        THEN "pending" ELSE fate[l]]
    BY <1>4 DEF D!ListSubscriptions
  <2>2. todo' \in [Workers -> SUBSET Subs]
    BY <2>1 DEF D!Targets
  <2>3. fate' \in [D!Letters -> D!Fates]
    BY <2>1 DEF D!Fates
  <2> QED BY <1>4, <2>2, <2>3, WorkCases DEF D!ListSubscriptions
<1>5. ASSUME D!NextSubscription(w) PROVE Types'
  BY <1>5, WorkCases DEF D!NextSubscription
<1>6. ASSUME D!FinishEvent(w) PROVE Types'
  BY <1>6, WorkCases DEF D!FinishEvent
<1>7. ASSUME NEW how \in {"delivered", "dead", "lost"}, D!EndDelivery(w, how)
      PROVE  /\ fate' \in [D!Letters -> D!Fates] /\ cur' \in [Workers -> Subs \cup {None}]
             /\ pc' \in [Workers -> D!Places]
  BY <1>7 DEF D!EndDelivery, D!Fates
<1>8. ASSUME D!PostSucceeds(w) PROVE Types'
  BY <1>8, <1>7, WorkCases DEF D!PostSucceeds
<1>9. ASSUME D!PostFails(w) PROVE Types'
  BY <1>9, <1>7, WorkCases DEF D!PostFails
<1>10. ASSUME D!Bury(w) \/ D!BuryFails(w) PROVE Types'
  BY <1>10, <1>7, WorkCases DEF D!Bury, D!BuryFails
<1> QED BY <1>1, <1>2, <1>3, <1>4, <1>5, <1>6, <1>8, <1>9, <1>10, WorkCases

(* The delivery of w is over: it goes on with what is left to do.          *)
LEMMA EndHands ==
  ASSUME IInv, NEW w \in Workers, pc[w] \in {"post", "bury"},
         NEW how \in {"delivered", "dead", "lost"}, D!EndDelivery(w, how),
         UNCHANGED <<jobs, job, closer>>, NEW v \in Workers
  PROVE  HandOK(v)'
BY DEF IInv, Types, HandOK, D!EndDelivery

(* ... what the places say, ...                                            *)
LEMMA WorkHands == ASSUME IInv, NEW w \in Workers, Work(w), NEW v \in Workers PROVE HandOK(v)'
<1>0. Types /\ HandOK(v) /\ HandOK(w)
  BY DEF IInv
<1> USE <1>0, ServerAssumption DEF Types, D!Places, D!worker, D!history, HandOK
<1>1. ASSUME D!Receive(w) PROVE HandOK(v)'
  <2>1. Head(jobs) \in Events
    BY <1>1 DEF D!Receive
  <2> QED BY <1>1, <2>1, WorkCases DEF D!Receive
<1>2. ASSUME D!Exit(w) PROVE HandOK(v)'
  BY <1>2, WorkCases DEF D!Exit, D!SeesEnd
<1>3. ASSUME D!ListFails(w) PROVE HandOK(v)'
  BY <1>3, WorkCases DEF D!ListFails, D!AfterListError
<1>4. ASSUME D!ListSubscriptions(w) PROVE HandOK(v)'
  BY <1>4, WorkCases DEF D!ListSubscriptions
<1>5. ASSUME D!NextSubscription(w) PROVE HandOK(v)'
  <2>1. PICK s \in todo[w] : cur' = [cur EXCEPT ![w] = s]
    BY <1>5 DEF D!NextSubscription
  <2>2. s \in Subs
    OBVIOUS
  <2> QED BY <1>5, <2>1, <2>2, WorkCases DEF D!NextSubscription
<1>6. ASSUME D!FinishEvent(w) PROVE HandOK(v)'
  BY <1>6, WorkCases DEF D!FinishEvent
<1>7. ASSUME D!PostSucceeds(w) PROVE HandOK(v)'
  BY <1>7, EndHands, WorkCases DEF D!PostSucceeds
<1>8. ASSUME D!PostFails(w) PROVE HandOK(v)'
  BY <1>8, EndHands, WorkCases DEF D!PostFails
<1>9. ASSUME D!Bury(w) \/ D!BuryFails(w) PROVE HandOK(v)'
  BY <1>9, EndHands, WorkCases DEF D!Bury, D!BuryFails
<1> QED BY <1>1, <1>2, <1>3, <1>4, <1>5, <1>6, <1>7, <1>8, <1>9, WorkCases

(* A delivery that ends leaves none pending but those in some hands.       *)
LEMMA EndOrphan ==
  ASSUME IInv, NEW w \in Workers, pc[w] \in {"post", "bury"},
         NEW how \in {"delivered", "dead", "lost"}, D!EndDelivery(w, how),
         UNCHANGED <<job, todo>>
  PROVE  D!NoOrphan'
<1> SUFFICES ASSUME NEW l \in D!Letters, fate'[l] = "pending"
             PROVE  \E v \in Workers : D!Holds(v, l)'
  BY DEF D!NoOrphan
<1>1. Types /\ job[w] \in Events /\ cur[w] \in Subs
  BY DEF IInv, HandOK
<1>2. l # D!Letter(w) /\ fate[l] = "pending"
  BY <1>1 DEF D!EndDelivery, Types
<1>3. PICK v \in Workers : D!Holds(v, l)
  BY <1>2 DEF IInv, D!NoOrphan
<1>4. l = <<l[1], l[2]>>
  BY DEF D!Letters
<1>5. CASE v = w
  <2>1. l[2] \in todo[w]
    BY <1>2, <1>3, <1>4, <1>5 DEF D!Holds, D!Letter
  <2> QED BY <1>1, <1>3, <1>5, <2>1 DEF D!Holds, D!EndDelivery, Types
<1>6. CASE v # w
  BY <1>1, <1>3, <1>6 DEF D!Holds, D!EndDelivery, Types
<1> QED BY <1>5, <1>6

(* ... that a pending delivery is in some hands, ...                       *)
LEMMA WorkNoOrphan == ASSUME IInv, NEW w \in Workers, Work(w) PROVE D!NoOrphan'
<1>0. Types /\ HandOK(w) /\ D!NoOrphan
  BY DEF IInv
<1> USE <1>0, ServerAssumption DEF Types, D!worker, D!history
<1>1. ASSUME D!Receive(w) \/ D!Exit(w) \/ D!ListFails(w) \/ D!FinishEvent(w) PROVE D!NoOrphan'
  <2> SUFFICES ASSUME NEW l \in D!Letters, fate'[l] = "pending"
               PROVE  \E v \in Workers : D!Holds(v, l)'
    BY DEF D!NoOrphan
  <2>1. UNCHANGED <<fate, todo, cur>> /\ \A v \in Workers \ {w} : pc'[v] = pc[v] /\ job'[v] = job[v]
    BY <1>1 DEF D!Receive, D!Exit, D!ListFails, D!FinishEvent
  <2>2. PICK v \in Workers : D!Holds(v, l)
    BY <2>1 DEF D!NoOrphan
  <2>3. v # w
    BY <1>1, <2>2 DEF D!Receive, D!Exit, D!ListFails, D!FinishEvent, D!Holds, D!NothingLeft
  <2> QED BY <2>1, <2>2, <2>3 DEF D!Holds
<1>2. ASSUME D!ListSubscriptions(w) PROVE D!NoOrphan'
  <2> SUFFICES ASSUME NEW l \in D!Letters, fate'[l] = "pending"
               PROVE  \E v \in Workers : D!Holds(v, l)'
    BY DEF D!NoOrphan
  <2>1. PICK listed \in SUBSET Subs :
          /\ todo' = [todo EXCEPT ![w] = D!Targets(listed, job[w])]
          /\ fate' = [m \in D!Letters |->
                        IF m[1] = job[w] /\ m[2] \in D!Targets(listed, job[w])
                        THEN "pending" ELSE fate[m]]
    BY <1>2 DEF D!ListSubscriptions
  <2>2. /\ pc[w] = "list" /\ pc' = [pc EXCEPT ![w] = "loop"]
        /\ UNCHANGED <<job, cur>>
    BY <1>2 DEF D!ListSubscriptions
  <2>3. CASE l[1] = job[w] /\ l[2] \in D!Targets(listed, job[w])
    <3>1. D!Holds(w, l)'
      BY <2>1, <2>2, <2>3 DEF D!Holds
    <3> QED BY <3>1
  <2>4. CASE ~ (l[1] = job[w] /\ l[2] \in D!Targets(listed, job[w]))
    <3>1. PICK v \in Workers : D!Holds(v, l)
      BY <2>1, <2>4 DEF D!NoOrphan
    <3>2. v # w
      BY <2>2, <3>1 DEF D!Holds
    <3> QED BY <2>1, <2>2, <3>1, <3>2 DEF D!Holds
  <2> QED BY <2>3, <2>4
<1>3. ASSUME D!NextSubscription(w) PROVE D!NoOrphan'
  <2> SUFFICES ASSUME NEW l \in D!Letters, fate'[l] = "pending"
               PROVE  \E v \in Workers : D!Holds(v, l)'
    BY DEF D!NoOrphan
  <2>1. PICK s \in todo[w] : /\ cur' = [cur EXCEPT ![w] = s]
                             /\ todo' = [todo EXCEPT ![w] = @ \ {s}]
    BY <1>3 DEF D!NextSubscription
  <2>2. /\ pc[w] = "loop" /\ pc' = [pc EXCEPT ![w] = "post"]
        /\ UNCHANGED <<job, fate>>
    BY <1>3 DEF D!NextSubscription
  <2>3. PICK v \in Workers : D!Holds(v, l)
    BY <2>2 DEF D!NoOrphan
  <2>4. D!Holds(v, l)'
    BY <2>1, <2>2, <2>3 DEF D!Holds
  <2> QED BY <2>4
<1>4. ASSUME D!PostFails(w), UNCHANGED <<cur, fate>> PROVE D!NoOrphan'
  <2> SUFFICES ASSUME NEW l \in D!Letters, fate'[l] = "pending"
               PROVE  \E v \in Workers : D!Holds(v, l)'
    BY DEF D!NoOrphan
  <2>1. /\ pc[w] = "post" /\ UNCHANGED <<job, todo>>
        /\ pc' = pc \/ pc' = [pc EXCEPT ![w] = "bury"]
        \/ D!EndDelivery(w, "lost")
    BY <1>4 DEF D!PostFails
  <2>2. PICK v \in Workers : D!Holds(v, l)
    BY <1>4 DEF D!NoOrphan
  <2> QED BY <1>4, <2>1, <2>2, EndOrphan DEF D!Holds, D!PostFails, D!NoOrphan
<1>5. ASSUME D!PostFails(w), ~ UNCHANGED <<cur, fate>> PROVE D!NoOrphan'
  BY <1>5, EndOrphan DEF D!PostFails
<1>6. ASSUME D!PostSucceeds(w) PROVE D!NoOrphan'
  BY <1>6, EndOrphan DEF D!PostSucceeds
<1>7. ASSUME D!Bury(w) \/ D!BuryFails(w) PROVE D!NoOrphan'
  BY <1>7, EndOrphan DEF D!Bury, D!BuryFails
<1> QED BY <1>1, <1>2, <1>3, <1>4, <1>5, <1>6, <1>7, WorkCases

(* ... and so the invariant.                                               *)
LEMMA WorkIInv == ASSUME IInv, NEW w \in Workers, Work(w) PROVE IInv'
<1>1. closer # "returned" /\ ClosedOK' /\ PhaseOK'
  BY WorkCases DEF IInv, ClosedOK, PhaseOK
<1> QED BY <1>1, WorkTypes, WorkHands, WorkNoOrphan DEF IInv
-----------------------------------------------------------------------------
(* Steps of handlers and of main.                                          *)

(* So do a Dispatch, from the send to its timeout,                         *)
LEMMA AuditIInv == ASSUME IInv, NEW e \in Events, Audit(e) PROVE IInv'
<1> USE DEF IInv, Types, D!worker, D!history, life, D!Calls
<1>1. phase # "closing" /\ UNCHANGED <<phase, begun, closer, pc, job, todo, cur, fate>>
  BY DEF Audit, D!Dispatch, D!Handler, D!Send, D!GiveUp, PhaseOK, ClosedOK
<1>2. CASE D!Dispatch(e)
  BY <1>1, <1>2 DEF D!Dispatch, HandOK, ClosedOK, PhaseOK, D!NoOrphan, D!Holds
<1>3. CASE D!Send(e)
  <2>1. closer = "open" /\ call' = [call EXCEPT ![e] = "accepted"] /\ jobs' = Append(jobs, e)
    BY <1>3 DEF D!Send, ClosedOK
  <2> QED BY <1>1, <2>1 DEF HandOK, ClosedOK, PhaseOK, D!NoOrphan, D!Holds
<1>4. CASE D!GiveUp(e)
  BY <1>1, <1>4 DEF D!GiveUp, HandOK, ClosedOK, PhaseOK, D!NoOrphan, D!Holds
<1> QED BY <1>2, <1>3, <1>4 DEF Audit, D!Handler

(* a new process, which has none of the old one's jobs,                    *)
LEMMA StartIInv == ASSUME IInv, Start PROVE IInv'
<1> USE DEF IInv, Types
<1>1. Types'
  <2>1. call' \in [Events -> D!Calls]
    BY DEF Start, D!Calls
  <2>2. fate' \in [D!Letters -> D!Fates]
    BY DEF Start, FateAfterStart, D!Fates
  <2> QED BY <2>1, <2>2 DEF Start, D!Places
<1>2. D!NoOrphan'
  BY DEF Start, FateAfterStart, D!NoOrphan
<1>3. (\A w \in Workers : HandOK(w)') /\ PhaseOK'
  BY DEF Start, HandOK, PhaseOK
<1>4. ClosedOK'
  BY DEF Start, ClosedOK
<1> QED BY <1>1, <1>2, <1>3, <1>4

(* Main moves on and leaves the rest as it is, or begins a request.        *)
LEMMA MainIInv ==
  ASSUME IInv,
         \/ \E e \in Events : Begin(e)
         \/ Signal \/ StartClose \/ ShutdownTimesOut \/ Exit \/ Kill
  PROVE  IInv'
<1> USE DEF IInv, Types, D!worker, D!history, dispatching
<1>1. UNCHANGED <<call, jobs, pc, job, todo, cur, fate>>
  BY DEF Begin, Signal, StartClose, ShutdownTimesOut, Exit, Kill, D!CloseJobs, D!CloseReturns
<1>2. D!NoOrphan'
  BY <1>1 DEF D!NoOrphan, D!Holds
<1>3. CASE \E e \in Events : Begin(e)
  BY <1>1, <1>2, <1>3 DEF Begin, HandOK, ClosedOK, PhaseOK
<1>4. CASE Signal \/ ShutdownTimesOut \/ Kill
  BY <1>1, <1>2, <1>4 DEF Signal, ShutdownTimesOut, Kill, HandOK, ClosedOK, PhaseOK
<1>5. CASE StartClose
  <2>1. closer' = "waiting" /\ phase' = "closing" /\ begun' = begun
    BY <1>5 DEF StartClose, D!CloseJobs
  <2>2. \A e \in begun : call[e] \in {"accepted", "refused"}
    BY <1>5 DEF StartClose, RequestsDone, ClosedOK, D!Calls
  <2>3. \A e \in Events : call[e] # "sending"
    BY <1>5 DEF StartClose, D!CloseJobs, D!HandlersDone
  <2> QED BY <1>1, <1>2, <2>1, <2>2, <2>3 DEF HandOK, ClosedOK, PhaseOK
<1>6. CASE Exit
  <2>1. closer # "open" /\ closer' = "returned" /\ phase' = "down" /\ begun' = begun
    BY <1>6 DEF Exit, D!CloseReturns
  <2>2. \A w \in Workers : pc[w] = "exited"
    BY <1>6 DEF Exit, D!CloseReturns, D!AllWorkersLeft
  <2> QED BY <1>1, <1>2, <2>1, <2>2 DEF HandOK, ClosedOK, PhaseOK
<1> QED BY <1>3, <1>4, <1>5, <1>6

(* and the steps of operators and replays, which touch none of this.       *)
LEMMA UnchangedIInv == ASSUME IInv, UNCHANGED <<life, dispatching>> PROVE IInv'
BY DEF IInv, Types, HandOK, ClosedOK, PhaseOK, D!NoOrphan, D!Holds, life, dispatching

(* The invariant of a shutdown is inductive.                               *)
LEMMA Inductive == ASSUME IInv, [Next]_vars PROVE IInv'
<1>1. CASE \E e \in Events : Audit(e)
  BY <1>1, AuditIInv
<1>2. CASE \E w \in Workers : Work(w)
  BY <1>2, WorkIInv
<1>3. CASE \/ \E e \in Events : Begin(e)
           \/ Signal \/ StartClose \/ ShutdownTimesOut \/ Exit \/ Kill
  BY <1>3, MainIInv
<1>4. CASE Start
  BY <1>4, StartIInv
<1>5. CASE \/ \E a \in L!Actors : Replays(a)
           \/ Elapse \/ Operate \/ Tick \/ AutoRetryReturns \/ Stopped \/ UNCHANGED vars
  <2>1. UNCHANGED <<life, dispatching>>
    BY <1>5 DEF Replays, Elapse, Operate, Tick, AutoRetryReturns, Stopped, vars
  <2> QED BY <2>1, UnchangedIInv
<1> QED BY <1>1, <1>2, <1>3, <1>4, <1>5 DEF Next

(* The first process has done nothing.                                     *)
LEMMA InitIInv == ASSUME Init PROVE IInv
<1> USE DEF Init, D!Init
<1>1. Types
  BY DEF Types, D!Calls, D!Places, D!Fates
<1>2. (\A w \in Workers : HandOK(w)) /\ ClosedOK /\ PhaseOK
  BY DEF HandOK, ClosedOK, PhaseOK
<1>3. D!NoOrphan
  BY DEF D!NoOrphan
<1> QED BY <1>1, <1>2, <1>3 DEF IInv

-----------------------------------------------------------------------------
(* The result.                                                             *)

(* No handler ever meets the closed queue, because main drains before it   *)
(* closes; a process that ends by way of Close has settled every event it  *)
(* accepted and ended every delivery; and in the closing phase every       *)
(* request that was begun has been answered (main.go:187-203,              *)
(* worker_dispatcher.go:112-122).                                          *)
THEOREM ShutdownInOrder == Spec => []ShutdownOrder
<1>1. Init => IInv
  BY InitIInv
<1>2. IInv /\ [Next]_vars => IInv'
  BY Inductive
<1>3. IInv => ShutdownOrder
  <2> SUFFICES ASSUME IInv PROVE D!DrainedOnClose
    BY DEF ShutdownOrder, IInv, PhaseOK
  <2> USE DEF IInv, ClosedOK
  <2>1. ASSUME closer = "returned", NEW e \in Events, call[e] = "accepted" PROVE D!Settled(e)
    <3>1. \A w \in Workers : job[w] # e
      BY <2>1, ServerAssumption DEF HandOK
    <3>2. jobs = <<>>
      BY <2>1, ServerAssumption DEF HandOK
    <3>3. ~ D!Queued(e)
      BY <3>2 DEF D!Queued
    <3> QED BY <2>1, <3>1, <3>3 DEF D!Settled, D!InHand
  <2>2. ASSUME closer = "returned", NEW l \in D!Letters PROVE fate[l] # "pending"
    BY <2>2 DEF D!NoOrphan, D!Holds
  <2> QED BY <2>1, <2>2 DEF D!DrainedOnClose
<1> QED BY <1>1, <1>2, <1>3, PTL DEF Spec

-----------------------------------------------------------------------------
(* What was reported as stored in the DLQ.  Every step of the server that  *)
(* concerns the bucket is one of DeadLetters.                              *)

Replayed == {"loaded", "posting", "acked", "failed"}

(* Types of what the fate of a record depends on.                          *)
Stored ==
  /\ dlq \in L!Bucket
  /\ step \in [L!Actors -> [Keys -> {"none", "listed"} \cup Replayed]]
  /\ copy \in [L!Actors -> L!Bucket]
  /\ owner \in [Keys -> D!Letters \cup {None}]

(* A copy, however stale, is of the letter its key was made for, and one   *)
(* whose replay succeeded is acknowledged.                                 *)
CopyOK(a, k) ==
  /\ step[a][k] \in Replayed => copy[a][k] # None
  /\ copy[a][k] # None => copy[a][k].letter = owner[k]
  /\ step[a][k] = "acked" => owner[k] \in acked

(* So is a stored record; a missing one is missing for a reason.           *)
RecordOK(k) ==
  /\ dlq[k] # None => dlq[k].letter = owner[k]
  /\ owner[k] # None /\ dlq[k] = None => owner[k] \in acked \cup discarded

LettersOK ==
  /\ Stored
  /\ \A a \in L!Actors, k \in Keys : CopyOK(a, k)
  /\ \A k \in Keys : RecordOK(k)

(* A delivery reported as stored was stored under some key.                *)
Reported == \A l \in D!Letters : fate[l] = "dead" => \E k \in Keys : owner[k] = l

LInv == IInv /\ LettersOK /\ Reported

(* No delivery and no record is taken for an empty key.                    *)
LEMMA NoneIsNothing == /\ None \notin L!Record /\ None \notin D!Letters
                       /\ D!Letters = L!Letters
BY ServerAssumption DEF L!Record, L!Letters, D!Letters

(* A worker that buries holds a delivery.                                  *)
LEMMA HandLetter ==
  ASSUME IInv, NEW w \in Workers, pc[w] = "bury"
  PROVE  D!Letter(w) \in D!Letters
BY DEF IInv, HandOK, D!Letter, D!Letters

(* A step of the server is a step of DeadLetters, or one that leaves the   *)
(* bucket and all copies of its records alone.                             *)
LEMMA BucketStep ==
  ASSUME IInv, Next
  PROVE  L!Next \/ UNCHANGED <<dlq, step, copy, owner, tried, acked, discarded>>
<1>1. ASSUME NEW w \in Workers, Work(w)
      PROVE  L!Next \/ UNCHANGED <<dlq, step, copy, owner, tried, acked, discarded>>
  <2>1. CASE D!Worker(w) /\ UNCHANGED <<dlq, replaying>>
    BY <2>1 DEF replaying
  <2>2. ASSUME D!Bury(w), NEW k \in Keys, L!Bury(D!Letter(w), k) PROVE L!Next
    <3>1. D!Letter(w) \in L!Letters
      BY <2>2, HandLetter, NoneIsNothing DEF D!Bury
    <3> QED BY <2>2, <3>1 DEF L!Next
  <2> QED BY <1>1, <2>1, <2>2 DEF Work
<1>2. CASE \E a \in L!Actors : Replays(a)
  BY <1>2 DEF Replays, L!Next
<1>3. CASE Elapse \/ Operate \/ Tick
  BY <1>3 DEF Elapse, Operate, Tick, L!Next, L!Actors
<1>4. CASE Start
  BY <1>4 DEF Start, L!Next
<1>5. CASE \/ \E e \in Events : Begin(e) \/ Audit(e)
           \/ AutoRetryReturns
           \/ Signal \/ StartClose \/ ShutdownTimesOut \/ Exit \/ Kill \/ Stopped
  BY <1>5
  DEF Begin, Audit, D!Dispatch, D!Handler, D!Send, D!GiveUp, AutoRetryReturns, Signal, StartClose,
      D!CloseJobs, ShutdownTimesOut, Exit, D!CloseReturns, Kill, Stopped, replaying, vars
<1> QED BY <1>1, <1>2, <1>3, <1>4, <1>5 DEF Next

(* Arithmetic of the pauses.                                               *)
LEMMA Products ==
  ASSUME NEW x \in Nat, NEW y \in Nat
  PROVE  x * y \in Nat
OBVIOUS

LEMMA PauseIsNat ==
  ASSUME NEW a, NEW n \in Nat
  PROVE  L!Pause(a, n) \in Nat
<1>1. L!Doublings(n) \in 0 .. 8
  BY DEF L!Doublings
<1>2. \A i \in 0 .. 8 : L!PowersOfTwo[i + 1] \in Nat
  BY DEF L!PowersOfTwo
<1>3. L!PowersOfTwo[L!Doublings(n) + 1] \in Nat
  BY <1>1, <1>2
<1>4. L!Doubled(n) \in Nat
  BY <1>3, Products, ServerAssumption DEF L!Doubled
<1> QED BY <1>4, ServerAssumption DEF L!Pause, L!Backoff

(* A record replayed in vain, and one that time passed for, remain records *)
(* of their delivery.                                                      *)
LEMMA RetriedIsRecord ==
  ASSUME NEW a, NEW r \in L!Record
  PROVE  L!Retried(a, r) \in L!Record /\ L!Retried(a, r).letter = r.letter
<1>1. r.letter \in L!Letters /\ r.attempts + 1 \in Nat
  BY DEF L!Record
<1> QED BY <1>1, PauseIsNat DEF L!Retried, L!Record

LEMMA OlderIsRecord ==
  ASSUME NEW r \in L!Record
  PROVE  L!Older(r) \in L!Record /\ L!Older(r).letter = r.letter
<1>1. CASE L!Due(r)
  BY <1>1 DEF L!Older
<1>2. CASE ~ L!Due(r)
  <2>1. L!Older(r) = [r EXCEPT !.wait = r.wait - 1] /\ r.wait - 1 \in Nat
    BY <1>2, NoneIsNothing DEF L!Older, L!Due, L!Record
  <2> QED BY <2>1 DEF L!Record
<1> QED BY <1>1, <1>2

(* The record an update writes, and what passing time leaves of a bucket.  *)
LEMMA UpdateFacts ==
  ASSUME LettersOK, NEW a \in L!Actors, NEW k \in Keys, L!Update(a, k)
  PROVE  /\ dlq' \in L!Bucket
         /\ \A j \in Keys \ {k} : dlq'[j] = dlq[j]
         /\ dlq'[k] # None => dlq'[k].letter = owner[k]
         /\ dlq'[k] = None => owner[k] \in acked
<1>1. step[a][k] \in {"acked", "failed"} /\ CopyOK(a, k) /\ Stored
  BY DEF L!Update, LettersOK
<1>2. copy[a][k] \in L!Record /\ copy[a][k].letter = owner[k]
  BY <1>1 DEF CopyOK, Stored, L!Bucket, Replayed
<1> DEFINE r == L!Retried(a, copy[a][k])
<1>3. r \in L!Record /\ r.letter = owner[k] /\ r # None
  BY <1>2, RetriedIsRecord, NoneIsNothing
<1>4. dlq' = IF step[a][k] = "acked" THEN [dlq EXCEPT ![k] = None] ELSE [dlq EXCEPT ![k] = r]
  BY DEF L!Update, L!AfterReplay, L!Delete, L!Save
<1> HIDE DEF r
<1> QED BY <1>1, <1>3, <1>4 DEF Stored, CopyOK, L!Bucket

LEMMA ElapseFacts ==
  ASSUME LettersOK, L!Elapse
  PROVE  /\ dlq' \in L!Bucket
         /\ \A k \in Keys : /\ dlq'[k] = None <=> dlq[k] = None
                            /\ dlq[k] # None => dlq'[k].letter = dlq[k].letter
<1>1. dlq' = [k \in Keys |-> L!Older(dlq[k])] /\ dlq \in L!Bucket
  BY DEF L!Elapse, LettersOK, Stored
<1>2. ASSUME NEW k \in Keys
      PROVE  /\ dlq'[k] \in L!Record \cup {None}
             /\ dlq'[k] = None <=> dlq[k] = None
             /\ dlq[k] # None => dlq'[k].letter = dlq[k].letter
  <2>1. CASE dlq[k] = None
    BY <1>1, <2>1 DEF L!Older
  <2>2. CASE dlq[k] \in L!Record
    BY <1>1, <2>2, OlderIsRecord, NoneIsNothing
  <2> QED BY <1>1, <2>1, <2>2 DEF L!Bucket
<1> QED BY <1>1, <1>2 DEF L!Bucket

(* The bucket after a burial.                                              *)
LEMMA BuryFacts ==
  ASSUME LettersOK, NEW l \in D!Letters, NEW k \in Keys, L!Bury(l, k)
  PROVE  /\ dlq' \in L!Bucket
         /\ \A j \in Keys \ {k} : dlq'[j] = dlq[j]
         /\ dlq'[k] # None /\ dlq'[k].letter = l
<1>1. L!NewRecord(l) \in L!Record /\ L!NewRecord(l).letter = l
  BY ServerAssumption, NoneIsNothing DEF L!NewRecord, L!Record
<1>2. dlq' = [dlq EXCEPT ![k] = L!NewRecord(l)] /\ dlq \in L!Bucket
  BY DEF L!Bury, L!Save, LettersOK, Stored
<1> HIDE DEF L!NewRecord
<1> QED BY <1>1, <1>2, NoneIsNothing DEF L!Bucket

(* The steps of DeadLetters keep what copies and records are worth.        *)
LEMMA StepStored == ASSUME LettersOK, L!Next PROVE Stored'
<1>0. Stored
  BY DEF LettersOK
<1> USE <1>0 DEF Stored, L!Bucket, Replayed
<1>1. ASSUME NEW l \in L!Letters, NEW k \in Keys, L!Bury(l, k) PROVE Stored'
  BY <1>1, BuryFacts, NoneIsNothing DEF L!Bury
<1>2. ASSUME L!Elapse PROVE Stored'
  BY <1>2, ElapseFacts DEF L!Elapse
<1>3. ASSUME NEW a \in L!Actors, L!ListKeys(a) PROVE Stored'
  BY <1>3 DEF L!ListKeys
<1>4. ASSUME NEW a \in L!Actors, NEW k \in Keys, L!LoadKey(a, k) PROVE Stored'
  BY <1>4 DEF L!LoadKey
<1>5. ASSUME NEW a \in L!Actors, L!LoadFails(a) \/ L!Loaded(a) \/ L!Finish(a) PROVE Stored'
  <2>1. CASE L!LoadFails(a)
    BY <2>1 DEF L!LoadFails
  <2>2. CASE L!Loaded(a) \/ L!Finish(a)
    BY <2>2 DEF L!Loaded, L!Finish
  <2> QED BY <1>5, <2>1, <2>2
<1>6. ASSUME NEW a \in L!Actors, NEW k \in Keys, L!Skip(a, k) \/ L!Spawn(a, k) PROVE Stored'
  <2>1. CASE L!Skip(a, k)
    BY <2>1 DEF L!Skip
  <2>2. CASE L!Spawn(a, k)
    BY <2>2 DEF L!Spawn
  <2> QED BY <1>6, <2>1, <2>2
<1>7. ASSUME NEW a \in L!Actors, NEW k \in Keys, L!Replay(a, k) PROVE Stored'
  BY <1>7 DEF L!Replay
<1>8. ASSUME NEW a \in L!Actors, NEW k \in Keys, L!PostSucceeds(a, k) \/ L!PostFails(a, k) PROVE Stored'
  <2>1. CASE L!PostSucceeds(a, k)
    BY <2>1 DEF L!PostSucceeds
  <2>2. CASE L!PostFails(a, k)
    BY <2>2 DEF L!PostFails
  <2> QED BY <1>8, <2>1, <2>2
<1>9. ASSUME NEW a \in L!Actors, NEW k \in Keys, L!Update(a, k) PROVE Stored'
  <2>1. dlq' \in L!Bucket
    BY <1>9, UpdateFacts
  <2> QED BY <1>9, <2>1 DEF L!Update, L!EndReplay
<1>10. ASSUME NEW a \in L!Actors, NEW k \in Keys, L!UpdateFails(a, k) PROVE Stored'
  BY <1>10 DEF L!UpdateFails, L!EndReplay
<1>11. ASSUME NEW k \in Keys, L!Discard(k) PROVE Stored'
  BY <1>11 DEF L!Discard, L!Delete
<1>12. ASSUME L!Crash PROVE Stored'
  BY <1>12 DEF L!Crash
<1> QED BY <1>1, <1>2, <1>3, <1>4, <1>5, <1>6, <1>7, <1>8, <1>9, <1>10, <1>11, <1>12
        DEF L!Next, L!Run

LEMMA StepCopyOK ==
  ASSUME LettersOK, L!Next, NEW b \in L!Actors, NEW j \in Keys
  PROVE  CopyOK(b, j)'
<1>0. Stored /\ CopyOK(b, j) /\ RecordOK(j)
  BY DEF LettersOK
<1> USE <1>0 DEF Stored, L!Bucket, Replayed, CopyOK
<1>1. ASSUME NEW l \in L!Letters, NEW k \in Keys, L!Bury(l, k) PROVE CopyOK(b, j)'
  <2>1. copy[b][k] = None
    <3>1. CopyOK(b, k) /\ owner[k] = None
      BY <1>1 DEF LettersOK, L!Bury
    <3> QED BY <3>1, NoneIsNothing DEF L!Record
  <2>2. step[b][k] \notin Replayed
    BY <2>1 DEF LettersOK
  <2> QED BY <1>1, <2>1, <2>2 DEF L!Bury
<1>2. ASSUME L!Elapse PROVE CopyOK(b, j)'
  BY <1>2 DEF L!Elapse
<1>3. ASSUME NEW a \in L!Actors, L!ListKeys(a) PROVE CopyOK(b, j)'
  BY <1>3 DEF L!ListKeys
<1>4. ASSUME NEW a \in L!Actors, NEW k \in Keys, L!LoadKey(a, k) PROVE CopyOK(b, j)'
  BY <1>4 DEF L!LoadKey, L!Has, RecordOK
<1>5. ASSUME NEW a \in L!Actors, L!LoadFails(a) \/ L!Loaded(a) \/ L!Finish(a) PROVE CopyOK(b, j)'
  BY <1>5 DEF L!LoadFails, L!Loaded, L!Finish
<1>6. ASSUME NEW a \in L!Actors, NEW k \in Keys, L!Skip(a, k) \/ L!Spawn(a, k) PROVE CopyOK(b, j)'
  BY <1>6 DEF L!Skip, L!Spawn
<1>7. ASSUME NEW a \in L!Actors, NEW k \in Keys, L!Replay(a, k) PROVE CopyOK(b, j)'
  BY <1>7 DEF L!Replay, L!Has, RecordOK
<1>8. ASSUME NEW a \in L!Actors, NEW k \in Keys, L!PostSucceeds(a, k) PROVE CopyOK(b, j)'
  <2>1. CopyOK(a, k)
    BY DEF LettersOK
  <2>2. acked' = acked \cup {owner[k]}
    BY <1>8, <2>1 DEF L!PostSucceeds
  <2> QED BY <1>8, <2>2 DEF L!PostSucceeds
<1>9. ASSUME NEW a \in L!Actors, NEW k \in Keys, L!PostFails(a, k) PROVE CopyOK(b, j)'
  BY <1>9 DEF L!PostFails
<1>10. ASSUME NEW a \in L!Actors, NEW k \in Keys, L!Update(a, k) \/ L!UpdateFails(a, k)
       PROVE  CopyOK(b, j)'
  BY <1>10 DEF L!Update, L!UpdateFails, L!EndReplay
<1>11. ASSUME NEW k \in Keys, L!Discard(k) PROVE CopyOK(b, j)'
  BY <1>11 DEF L!Discard
<1>12. ASSUME L!Crash PROVE CopyOK(b, j)'
  BY <1>12 DEF L!Crash
<1> QED BY <1>1, <1>2, <1>3, <1>4, <1>5, <1>6, <1>7, <1>8, <1>9, <1>10, <1>11, <1>12
        DEF L!Next, L!Run

LEMMA StepRecordOK ==
  ASSUME LettersOK, L!Next, NEW j \in Keys
  PROVE  RecordOK(j)'
<1>0. Stored /\ RecordOK(j)
  BY DEF LettersOK
<1> USE <1>0 DEF RecordOK
<1>1. ASSUME NEW l \in L!Letters, NEW k \in Keys, L!Bury(l, k) PROVE RecordOK(j)'
  <2>1. owner' = [owner EXCEPT ![k] = l] /\ UNCHANGED <<acked, discarded>>
    BY <1>1 DEF L!Bury
  <2> QED BY <1>1, <2>1, BuryFacts, NoneIsNothing DEF Stored
<1>2. ASSUME L!Elapse PROVE RecordOK(j)'
  <2>1. UNCHANGED <<owner, acked, discarded>>
    BY <1>2 DEF L!Elapse
  <2> QED BY <1>2, <2>1, ElapseFacts
<1>3. ASSUME NEW a \in L!Actors, NEW k \in Keys, L!Update(a, k) PROVE RecordOK(j)'
  <2>1. UNCHANGED <<owner, acked, discarded>>
    BY <1>3 DEF L!Update
  <2> QED BY <1>3, <2>1, UpdateFacts
<1>4. ASSUME NEW k \in Keys, L!Discard(k) PROVE RecordOK(j)'
  <2>1. /\ dlq' = [dlq EXCEPT ![k] = None] /\ discarded' = discarded \cup {dlq[k].letter}
        /\ dlq[k] # None /\ UNCHANGED <<owner, acked>> /\ RecordOK(k)
    BY <1>4 DEF L!Discard, L!Delete, L!Has, LettersOK
  <2>2. discarded' = discarded \cup {owner[k]}
    BY <2>1
  <2> QED BY <2>1, <2>2 DEF Stored, L!Bucket
<1>5. ASSUME UNCHANGED <<dlq, owner, discarded>>, acked \subseteq acked' PROVE RecordOK(j)'
  BY <1>5
<1>6. \/ \E l \in L!Letters, k \in Keys : L!Bury(l, k)
      \/ L!Elapse
      \/ \E k \in Keys : L!Discard(k)
      \/ \E a \in L!Actors, k \in Keys : L!Update(a, k)
      \/ UNCHANGED <<dlq, owner, discarded>> /\ acked \subseteq acked'
  BY DEF L!Next, L!Run, L!ListKeys, L!LoadFails, L!Loaded, L!Finish, L!LoadKey, L!Skip, L!Spawn,
         L!PostSucceeds, L!PostFails, L!UpdateFails, L!Replay, L!Crash
<1> QED BY <1>1, <1>2, <1>3, <1>4, <1>5, <1>6

(* So does the server.                                                     *)
LEMMA StepLettersOK == ASSUME LInv, [Next]_vars PROVE LettersOK'
<1>1. CASE L!Next
  BY <1>1, StepStored, StepCopyOK, StepRecordOK DEF LInv, LettersOK, L!Actors
<1>2. CASE UNCHANGED <<dlq, step, copy, owner, tried, acked, discarded>>
  BY <1>2 DEF LInv, LettersOK, Stored, CopyOK, RecordOK, L!Actors, L!Bucket
<1>3. CASE UNCHANGED vars
  BY <1>2, <1>3 DEF vars, replaying
<1> QED BY <1>1, <1>2, <1>3, BucketStep DEF LInv

(* A delivery becomes "dead" only with its burial.                         *)
LEMMA FateCases ==
  ASSUME LInv, [Next]_vars
  PROVE  \/ \A l \in D!Letters : fate'[l] = "dead" => fate[l] = "dead"
         \/ \E w \in Workers : Work(w) /\ D!Bury(w)
<1>0. Types
  BY DEF LInv, IInv
<1>1. ASSUME NEW w \in Workers, Work(w), ~ D!Bury(w)
      PROVE  \A l \in D!Letters : fate'[l] = "dead" => fate[l] = "dead"
  <2>1. ASSUME NEW how \in {"delivered", "lost"}, D!EndDelivery(w, how)
        PROVE  \A l \in D!Letters : fate'[l] = "dead" => fate[l] = "dead"
    BY <1>0, <2>1 DEF D!EndDelivery, Types
  <2>2. CASE D!ListSubscriptions(w)
    BY <2>2 DEF D!ListSubscriptions
  <2>3. CASE D!PostSucceeds(w) \/ D!PostFails(w) \/ D!BuryFails(w)
    BY <2>1, <2>3 DEF D!PostSucceeds, D!PostFails, D!BuryFails
  <2> QED BY <1>1, <2>2, <2>3, WorkCases
          DEF D!Receive, D!Exit, D!ListFails, D!NextSubscription, D!FinishEvent, D!history
<1>2. CASE Start
  BY <1>2 DEF Start, FateAfterStart
<1>3. CASE \/ \E e \in Events : Begin(e) \/ Audit(e)
           \/ \E a \in L!Actors : Replays(a)
           \/ Elapse \/ Operate \/ Tick \/ AutoRetryReturns
           \/ Signal \/ StartClose \/ ShutdownTimesOut \/ Exit \/ Kill \/ Stopped \/ UNCHANGED vars
  <2>1. UNCHANGED fate
    BY <1>3
    DEF Begin, Audit, D!Dispatch, D!Handler, D!Send, D!GiveUp, Replays, Elapse, Operate, Tick,
        AutoRetryReturns, Signal, StartClose, D!CloseJobs, ShutdownTimesOut, Exit, D!CloseReturns,
        Kill, Stopped, vars, dispatching, D!history
  <2> QED BY <2>1
<1> QED BY <1>1, <1>2, <1>3 DEF Next

(* An owner of a key stays its owner.                                      *)
LEMMA OwnersStay ==
  ASSUME LInv, [Next]_vars, NEW k \in Keys, owner[k] # None
  PROVE  owner'[k] = owner[k]
<1>1. CASE L!Next
  <2>1. ASSUME NEW l, NEW j \in Keys, L!Bury(l, j) PROVE owner'[k] = owner[k]
    BY <2>1 DEF L!Bury, LInv, LettersOK, Stored
  <2>2. (\E l \in L!Letters, j \in Keys : L!Bury(l, j)) \/ UNCHANGED owner
    BY <1>1 DEF L!Next, L!Run, L!Elapse, L!Discard, L!ListKeys, L!LoadFails, L!Loaded, L!Finish,
         L!LoadKey, L!Skip, L!Spawn, L!PostSucceeds, L!PostFails, L!Update, L!UpdateFails,
         L!Replay, L!Crash
  <2> QED BY <2>1, <2>2
<1>2. CASE UNCHANGED owner
  BY <1>2
<1>3. CASE UNCHANGED vars
  BY <1>3 DEF vars, replaying
<1> QED BY <1>1, <1>2, <1>3, BucketStep DEF LInv

(* The burial of a delivery gives it a key.                                *)
LEMMA StepReported == ASSUME LInv, [Next]_vars PROVE Reported'
<1>1. CASE \A l \in D!Letters : fate'[l] = "dead" => fate[l] = "dead"
  <2> SUFFICES ASSUME NEW l \in D!Letters, fate[l] = "dead" PROVE \E k \in Keys : owner'[k] = l
    BY <1>1 DEF Reported
  <2>1. PICK k \in Keys : owner[k] = l
    BY DEF LInv, Reported
  <2> QED BY <2>1, OwnersStay, NoneIsNothing
<1>2. ASSUME NEW w \in Workers, Work(w), D!Bury(w) PROVE Reported'
  <2> DEFINE m == D!Letter(w)
  <2>1. m \in D!Letters /\ Types
    BY <1>2, HandLetter DEF D!Bury, LInv, IInv
  <2> HIDE DEF m
  <2>2. fate' = [fate EXCEPT ![m] = "dead"]
    BY <1>2 DEF D!Bury, D!EndDelivery, m
  <2>3. \E k \in Keys : owner'[k] = m
    <3>1. ASSUME NEW k \in Keys, L!Bury(m, k) PROVE owner'[k] = m
      BY <3>1 DEF L!Bury, LInv, LettersOK, Stored
    <3>2. CASE UNCHANGED <<dlq, owner>>
      <4>1. PICK k \in Keys : dlq' = D!Save(dlq, k, D!NewRecord(m))
        BY <1>2 DEF D!Bury, m
      <4>2. dlq[k] = D!NewRecord(m)
        BY <3>2, <4>1 DEF D!Save, LInv, LettersOK, Stored, L!Bucket
      <4>3. D!NewRecord(m).letter = m /\ D!NewRecord(m) \in L!Record
        BY <2>1, NoneIsNothing, ServerAssumption DEF D!NewRecord, L!Record
      <4>4. owner[k] = m
        BY <4>2, <4>3, NoneIsNothing DEF LInv, LettersOK, RecordOK
      <4> QED BY <3>2, <4>4
    <3> QED BY <1>2, <3>1, <3>2 DEF Work, replaying, m
  <2>4. ASSUME NEW l \in D!Letters, fate'[l] = "dead" PROVE \E k \in Keys : owner'[k] = l
    <3>1. CASE l = m
      BY <2>3, <3>1
    <3>2. CASE l # m
      <4>1. fate[l] = "dead"
        BY <2>1, <2>2, <2>4, <3>2 DEF Types
      <4>2. PICK k \in Keys : owner[k] = l
        BY <4>1 DEF LInv, Reported
      <4> QED BY <4>2, OwnersStay, NoneIsNothing
    <3> QED BY <3>1, <3>2
  <2> QED BY <2>4 DEF Reported
<1> QED BY <1>1, <1>2, FateCases

(* The bucket is empty at first.                                           *)
LEMMA InitLInv == ASSUME Init PROVE LInv
<1>1. IInv
  BY InitIInv
<1>2. Stored
  BY DEF Init, L!Init, Stored, L!EmptyBucket, L!Bucket
<1>3. (\A a \in L!Actors, k \in Keys : CopyOK(a, k)) /\ (\A k \in Keys : RecordOK(k))
  BY DEF Init, L!Init, CopyOK, RecordOK, L!EmptyBucket, Replayed
<1>4. Reported
  BY DEF Init, D!Init, Reported
<1> QED BY <1>1, <1>2, <1>3, <1>4 DEF LInv, LettersOK

(* A delivery that the log reports as stored in the DLQ is there, or has   *)
(* been acknowledged, or was removed, in every process since: through      *)
(* kills, restarts, shutdowns that time out, replays that race and stores  *)
(* that fail (worker_dispatcher.go:231-259, main.go:187-203).              *)
THEOREM ReportsOutliveProcess == Spec => []DeadLettersOutliveProcess
<1>1. LInv /\ [Next]_vars => LInv'
  BY Inductive, StepLettersOK, StepReported DEF LInv
<1>2. LInv => DeadLettersOutliveProcess
  <2> SUFFICES ASSUME LInv, NEW l \in D!Letters, fate[l] = "dead"
               PROVE  \/ \E k \in Keys : dlq[k] # None /\ dlq[k].letter = l
                      \/ l \in acked \cup discarded
    BY DEF DeadLettersOutliveProcess
  <2>1. PICK k \in Keys : owner[k] = l
    BY DEF LInv, Reported
  <2> QED BY <2>1, NoneIsNothing DEF LInv, LettersOK, RecordOK
<1> QED BY <1>1, <1>2, InitLInv, PTL DEF Spec

(* No letter that reached the bucket is lost to the composition either,    *)
(* although requests end at a shutdown and processes come and go: what     *)
(* DeadLetters promises alone (dlq.go, worker_dispatcher.go:329-377).      *)
THEOREM LettersKept == Spec => []L!NoLetterLost
<1>1. LInv /\ [Next]_vars => LInv'
  BY Inductive, StepLettersOK, StepReported DEF LInv
<1>2. LInv => L!NoLetterLost
  BY DEF LInv, LettersOK, RecordOK, L!NoLetterLost, L!Has
<1> QED BY <1>1, <1>2, InitLInv, PTL DEF Spec

-----------------------------------------------------------------------------
(* What is counted across processes.                                       *)

(* A record, and a copy however stale, counts no replay that was not made, *)
(* and one whose replay failed can count one more.                         *)
CopyCounts(a, k) ==
  copy[a][k] # None =>
    copy[a][k].attempts + (IF step[a][k] = "failed" THEN 1 ELSE 0) <= tried[k]

Counted ==
  /\ tried \in [Keys -> Nat]
  /\ \A k \in Keys : dlq[k] # None => dlq[k].attempts <= tried[k]
  /\ \A a \in L!Actors, k \in Keys : CopyCounts(a, k)

(* An update writes no more than its copy may count.                       *)
LEMMA UpdateCounts ==
  ASSUME LettersOK, Counted, NEW a \in L!Actors, NEW k \in Keys, L!Update(a, k),
         NEW j \in Keys, dlq'[j] # None
  PROVE  dlq'[j].attempts <= tried[j]
<1>1. step[a][k] \in {"acked", "failed"} /\ CopyOK(a, k) /\ Stored /\ CopyCounts(a, k)
  BY DEF L!Update, LettersOK, Counted
<1>2. copy[a][k] \in L!Record
  BY <1>1 DEF CopyOK, Stored, L!Bucket, Replayed
<1>3. L!Retried(a, copy[a][k]).attempts = copy[a][k].attempts + 1
  BY DEF L!Retried
<1>4. dlq' = IF step[a][k] = "acked" THEN [dlq EXCEPT ![k] = None]
             ELSE [dlq EXCEPT ![k] = L!Retried(a, copy[a][k])]
  BY DEF L!Update, L!AfterReplay, L!Delete, L!Save
<1>5. CASE j # k
  BY <1>1, <1>4, <1>5 DEF Counted, Stored, L!Bucket
<1>6. CASE j = k
  <2>1. step[a][k] = "failed" /\ dlq'[k] = L!Retried(a, copy[a][k])
    BY <1>1, <1>4, <1>6 DEF Stored, L!Bucket
  <2> QED BY <1>1, <1>2, <1>3, <1>6, <2>1, NoneIsNothing DEF CopyCounts
<1> QED BY <1>5, <1>6

(* Time that passes changes no count.                                      *)
LEMMA ElapseCounts ==
  ASSUME LettersOK, Counted, L!Elapse, NEW j \in Keys, dlq'[j] # None
  PROVE  dlq'[j].attempts <= tried[j]
<1>1. dlq' = [k \in Keys |-> L!Older(dlq[k])] /\ dlq \in L!Bucket
  BY DEF L!Elapse, LettersOK, Stored
<1>2. dlq[j] # None /\ dlq[j] \in L!Record
  BY <1>1, ElapseFacts DEF L!Bucket
<1>3. dlq'[j].attempts = dlq[j].attempts
  <2>1. dlq'[j] = dlq[j] \/ dlq'[j] = [dlq[j] EXCEPT !.wait = @ - 1]
    BY <1>1 DEF L!Older
  <2> QED BY <1>2, <2>1 DEF L!Record
<1> QED BY <1>2, <1>3 DEF Counted

(* A POST that is made is counted before a record can count it.            *)
LEMMA PostCounts ==
  ASSUME LettersOK, Counted, NEW a \in L!Actors, NEW k \in Keys,
         L!PostSucceeds(a, k) \/ L!PostFails(a, k)
  PROVE  Counted'
<1>1. /\ tried' = [tried EXCEPT ![k] = tried[k] + 1] /\ UNCHANGED <<dlq, copy>>
      /\ step[a][k] = "posting"
      /\ step' = [step EXCEPT ![a][k] = "acked"] \/ step' = [step EXCEPT ![a][k] = "failed"]
  BY DEF L!PostSucceeds, L!PostFails
<1>2. Stored
  BY DEF LettersOK
<1>3. tried' \in [Keys -> Nat] /\ \A j \in Keys : tried[j] \in Nat /\ tried'[j] \in Nat /\ tried[j] <= tried'[j]
  BY <1>1 DEF Counted
<1>4. ASSUME NEW j \in Keys, dlq'[j] # None PROVE dlq'[j].attempts <= tried'[j]
  <2>1. dlq'[j] = dlq[j] /\ dlq[j].attempts \in Nat /\ dlq[j].attempts <= tried[j]
    BY <1>1, <1>2, <1>4 DEF Counted, Stored, L!Bucket, L!Record
  <2> QED BY <1>3, <2>1
<1>5. ASSUME NEW b \in L!Actors, NEW j \in Keys PROVE CopyCounts(b, j)'
  <2> SUFFICES ASSUME copy[b][j] # None
               PROVE  copy[b][j].attempts + (IF step'[b][j] = "failed" THEN 1 ELSE 0) <= tried'[j]
    BY <1>1 DEF CopyCounts
  <2>1. copy[b][j].attempts \in Nat
    BY <1>2 DEF Stored, L!Bucket, L!Record
  <2>2. copy[b][j].attempts + (IF step[b][j] = "failed" THEN 1 ELSE 0) <= tried[j]
    BY DEF Counted, CopyCounts
  <2>3. CASE b = a /\ j = k
    <3>1. tried'[j] = tried[j] + 1 /\ copy[b][j].attempts <= tried[j]
      BY <1>1, <1>3, <2>1, <2>2, <2>3 DEF Counted
    <3> QED BY <1>3, <2>1, <3>1
  <2>4. CASE ~ (b = a /\ j = k)
    <3>1. step'[b][j] = step[b][j]
      BY <1>1, <1>2, <2>4 DEF Stored
    <3> QED BY <1>3, <2>1, <2>2, <3>1
  <2> QED BY <2>3, <2>4
<1> QED BY <1>3, <1>4, <1>5 DEF Counted

(* Any other step only reads a record, or keeps or drops a copy.           *)
Tame(a, k) ==
  \/ copy'[a][k] = None
  \/ copy'[a][k] = dlq[k] /\ step'[a][k] # "failed"
  \/ copy'[a][k] = copy[a][k] /\ (step'[a][k] = "failed" => step[a][k] = "failed")

(* Such a step makes no copy count more than was made.                     *)
LEMMA TameCounts ==
  ASSUME LettersOK, Counted, tried' = tried,
         \A j \in Keys : dlq'[j] # None => dlq'[j].attempts <= tried[j],
         \A a \in L!Actors, j \in Keys : Tame(a, j)
  PROVE  Counted'
<1>1. ASSUME NEW a \in L!Actors, NEW j \in Keys PROVE CopyCounts(a, j)'
  <2> SUFFICES ASSUME copy'[a][j] # None
               PROVE  copy'[a][j].attempts + (IF step'[a][j] = "failed" THEN 1 ELSE 0) <= tried[j]
    BY DEF CopyCounts
  <2>1. tried[j] \in Nat
    BY DEF Counted
  <2>2. CASE copy'[a][j] = dlq[j] /\ step'[a][j] # "failed"
    <3>1. dlq[j].attempts \in Nat /\ dlq[j].attempts <= tried[j]
      BY <2>2 DEF LettersOK, Stored, L!Bucket, L!Record, Counted
    <3> QED BY <2>1, <2>2, <3>1
  <2>3. CASE copy'[a][j] = copy[a][j] /\ (step'[a][j] = "failed" => step[a][j] = "failed")
    <3>1. copy[a][j].attempts \in Nat
      BY <2>3 DEF LettersOK, Stored, L!Bucket, L!Record
    <3>2. copy[a][j].attempts + (IF step[a][j] = "failed" THEN 1 ELSE 0) <= tried[j]
      BY <2>3 DEF Counted, CopyCounts
    <3> QED BY <2>1, <2>3, <3>1, <3>2
  <2> QED BY <2>2, <2>3 DEF Tame
<1> QED BY <1>1 DEF Counted

(* The steps of DeadLetters keep the counts.                               *)
LEMMA StepCounted ==
  ASSUME LettersOK, Counted, L!Next
  PROVE  Counted'
<1>0. Stored
  BY DEF LettersOK
<1>1. CASE \E a \in L!Actors, k \in Keys : L!PostSucceeds(a, k) \/ L!PostFails(a, k)
  BY <1>1, PostCounts
<1>2. ASSUME NEW l \in L!Letters, NEW k \in Keys, L!Bury(l, k) PROVE Counted'
  <2>1. /\ dlq' = [dlq EXCEPT ![k] = L!NewRecord(l)] /\ L!NewRecord(l).attempts = 0
        /\ UNCHANGED <<step, copy, tried>>
    BY <1>2 DEF L!Bury, L!Save, L!NewRecord
  <2> HIDE DEF L!NewRecord
  <2>2. ASSUME NEW j \in Keys, dlq'[j] # None PROVE dlq'[j].attempts <= tried[j]
    <3>1. tried[j] \in Nat
      BY DEF Counted
    <3> QED BY <1>0, <2>1, <2>2, <3>1 DEF Counted, Stored, L!Bucket
  <2>3. \A a \in L!Actors, j \in Keys : Tame(a, j)
    BY <2>1 DEF Tame
  <2> QED BY <2>1, <2>2, <2>3, TameCounts
<1>3. CASE L!Elapse
  <2>1. UNCHANGED <<step, copy, tried>>
    BY <1>3 DEF L!Elapse
  <2>2. \A a \in L!Actors, j \in Keys : Tame(a, j)
    BY <2>1 DEF Tame
  <2> QED BY <1>3, <2>1, <2>2, ElapseCounts, TameCounts
<1>4. ASSUME NEW a \in L!Actors, NEW k \in Keys, L!Update(a, k) PROVE Counted'
  <2>1. tried' = tried /\ L!EndReplay(a, k)
    BY <1>4 DEF L!Update
  <2>2. \A b \in L!Actors, j \in Keys : Tame(b, j)
    BY <1>0, <2>1 DEF Tame, L!EndReplay, Stored, L!Bucket
  <2> QED BY <1>4, <2>1, <2>2, UpdateCounts, TameCounts
<1>5. ASSUME NEW k \in Keys, L!Discard(k) PROVE Counted'
  <2>1. dlq' = [dlq EXCEPT ![k] = None] /\ UNCHANGED <<step, copy, tried>>
    BY <1>5 DEF L!Discard, L!Delete
  <2>2. \A j \in Keys : dlq'[j] # None => dlq'[j].attempts <= tried[j]
    BY <1>0, <2>1 DEF Counted, Stored, L!Bucket
  <2>3. \A a \in L!Actors, j \in Keys : Tame(a, j)
    BY <2>1 DEF Tame
  <2> QED BY <2>1, <2>2, <2>3, TameCounts
<1>6. ASSUME UNCHANGED <<dlq, tried>>, \A a \in L!Actors, j \in Keys : Tame(a, j) PROVE Counted'
  <2>1. \A j \in Keys : dlq'[j] # None => dlq'[j].attempts <= tried[j]
    BY <1>6 DEF Counted
  <2> QED BY <1>6, <2>1, TameCounts
<1> USE <1>0 DEF Tame, Stored, L!Bucket
<1>7. ASSUME NEW a \in L!Actors, L!ListKeys(a) \/ L!LoadFails(a) \/ L!Loaded(a) \/ L!Finish(a)
      PROVE  Counted'
  <2>1. UNCHANGED <<dlq, tried>>
    BY <1>7 DEF L!ListKeys, L!LoadFails, L!Loaded, L!Finish
  <2>2. CASE L!ListKeys(a)
    BY <1>6, <2>1, <2>2 DEF L!ListKeys
  <2>3. CASE L!LoadFails(a)
    BY <1>6, <2>1, <2>3 DEF L!LoadFails
  <2>4. CASE L!Loaded(a) \/ L!Finish(a)
    BY <1>6, <2>1, <2>4 DEF L!Loaded, L!Finish
  <2> QED BY <1>7, <2>2, <2>3, <2>4
<1>8. ASSUME NEW a \in L!Actors, NEW k \in Keys,
             L!LoadKey(a, k) \/ L!Skip(a, k) \/ L!Spawn(a, k) \/ L!UpdateFails(a, k) \/ L!Replay(a, k)
      PROVE  Counted'
  <2>1. UNCHANGED <<dlq, tried>>
    BY <1>8 DEF L!LoadKey, L!Skip, L!Spawn, L!UpdateFails, L!Replay
  <2>2. CASE L!LoadKey(a, k)
    BY <1>6, <2>1, <2>2 DEF L!LoadKey
  <2>3. CASE L!Skip(a, k)
    BY <1>6, <2>1, <2>3 DEF L!Skip
  <2>4. CASE L!Spawn(a, k)
    BY <1>6, <2>1, <2>4 DEF L!Spawn
  <2>5. CASE L!UpdateFails(a, k)
    BY <1>6, <2>1, <2>5 DEF L!UpdateFails, L!EndReplay
  <2>6. CASE L!Replay(a, k)
    BY <1>6, <2>1, <2>6 DEF L!Replay
  <2> QED BY <1>8, <2>2, <2>3, <2>4, <2>5, <2>6
<1>9. CASE L!Crash
  BY <1>6, <1>9 DEF L!Crash
<1> QED BY <1>1, <1>2, <1>3, <1>4, <1>5, <1>7, <1>8, <1>9 DEF L!Next, L!Run

(* A record is given up only after DLQMaxAttempts replays of it were made, *)
(* whichever processes made them and however they ended                    *)
(* (worker_dispatcher.go:329-377, dlq.go:58-62).                           *)
THEOREM NoEarlyEnd == Spec => []L!NotAbandonedEarly
<1>1. Init => LInv /\ Counted
  <2> SUFFICES ASSUME Init PROVE Counted
    BY InitLInv
  <2> QED BY DEF Init, L!Init, Counted, CopyCounts, L!EmptyBucket
<1>2. LInv /\ Counted /\ [Next]_vars => (LInv /\ Counted)'
  <2> SUFFICES ASSUME LInv, Counted, [Next]_vars PROVE Counted'
    BY Inductive, StepLettersOK, StepReported DEF LInv
  <2>1. CASE L!Next
    BY <2>1, StepCounted DEF LInv
  <2>2. CASE UNCHANGED <<dlq, step, copy, owner, tried, acked, discarded>>
    BY <2>2 DEF Counted, CopyCounts, L!Actors
  <2>3. CASE UNCHANGED vars
    BY <2>2, <2>3 DEF vars, replaying
  <2> QED BY <2>1, <2>2, <2>3, BucketStep DEF LInv
<1>3. LInv /\ Counted => L!NotAbandonedEarly
  <2> SUFFICES ASSUME LInv, Counted, NEW k \in Keys, dlq[k] # None, L!Terminal(dlq[k])
               PROVE  tried[k] >= DLQMaxAttempts
    BY DEF L!NotAbandonedEarly, L!Has
  <2>1. dlq[k].attempts \in Nat /\ dlq[k].attempts <= tried[k] /\ tried[k] \in Nat
    BY DEF LInv, LettersOK, Stored, L!Bucket, L!Record, Counted
  <2> QED BY <2>1, ServerAssumption DEF L!Terminal, L!IsTerminal
<1> QED BY <1>1, <1>2, <1>3, PTL DEF Spec

=============================================================================
