------------------------------- MODULE Server -------------------------------
(***************************************************************************)
(* cmd/server/main.go: the process around the dispatcher and the DLQ.  It  *)
(* serves requests, drains them on a signal (srv.Shutdown, ten seconds),   *)
(* closes the dispatcher and exits; it may also be killed, and is started  *)
(* again with nothing but the bucket.  The dispatcher's workers and those  *)
(* who replay records share that bucket.                                   *)
(***************************************************************************)
EXTENDS Naturals, Sequences, FiniteSets

CONSTANTS Keys, Events, Subs, None,
          Workers, QueueFactor, MaxAttempts, HasDLQ, StoreMayFail, DistinctNanos,
          Type, Enabled, Filter,
          Scheduler, Requests, Discards, AutoSlots, RequestSlots, DLQMaxAttempts,
          CoolingOff, ManualCoolingOff, MaxBackoff, MaxAge,
          MaxFaults      \* store errors and restarts, together

ASSUME ServerAssumption ==
  /\ None \notin Events /\ None \notin Subs
  /\ None \notin Events \X Subs /\ None \notin [letter : Events \X Subs, attempts : Nat, wait : Nat]
  /\ Workers # {}
  /\ DLQMaxAttempts \in Nat
  /\ CoolingOff \in Nat \ {0} /\ ManualCoolingOff \in Nat \ {0} /\ MaxBackoff \in Nat \ {0}

VARIABLES
  phase,    \* main: "serving", "draining", "closing"; "down" without a process
  begun,    \* events whose handler a request has started
  dlq,
  call, jobs, closer, pc, job, todo, cur, tries, fate, posts,
  at, step, copy, owner, tried, age, acked, discarded, discards, faults

D == INSTANCE Dispatcher
L == INSTANCE DeadLetters

dispatching == <<call, jobs, closer, pc, job, todo, cur, tries, fate, posts>>
replaying == <<at, step, copy, owner, tried, age, acked, discarded, discards, faults>>
life == <<phase, begun>>
vars == <<life, dlq, dispatching, replaying>>

-----------------------------------------------------------------------------
(* srv.Shutdown returns nil when no handler runs.  The slip: not waiting.  *)
NoWait == TRUE
RequestsDone ==
  /\ \A e \in begun : call[e] \notin {"none", "sending"}
  /\ \A a \in Requests : at[a] \in {"idle", "done"}

(* What a start makes of the events of the process before it.              *)
FateAfterStart == [l \in D!Letters |-> IF fate[l] = "pending" THEN "lost" ELSE fate[l]]

Init == D!Init /\ L!Init /\ phase = "serving" /\ begun = {}

-----------------------------------------------------------------------------
(* Requests.                                                               *)

Begin(e) ==
  /\ phase = "serving"
  /\ e \notin begun
  /\ begun' = begun \cup {e}
  /\ UNCHANGED <<phase, dlq, dispatching, replaying>>

(* The audit middleware, at the end of the handler of e.                   *)
Audit(e) ==
  /\ phase # "down"
  /\ e \in begun
  /\ D!Dispatch(e) \/ D!Handler(e)
  /\ UNCHANGED <<life, replaying>>

(* Requests of operators are accepted while serving.                       *)
Operate ==
  /\ phase = "serving"
  /\ \/ \E a \in Requests, k \in Keys : L!Replay(a, k)
     \/ \E a \in Requests : L!ListKeys(a)
     \/ \E k \in Keys : L!Discard(k)
  /\ UNCHANGED <<life, dispatching>>

(* Goroutines.                                                             *)

Work(w) ==
  /\ phase # "down"
  /\ \/ D!Worker(w) /\ UNCHANGED <<dlq, replaying>>
     \/ D!Bury(w) /\ \E k \in Keys : L!Bury(D!Letter(w), k)
  /\ UNCHANGED life

Replays(a) ==
  /\ phase # "down"
  /\ L!Run(a)
  /\ UNCHANGED <<life, dispatching>>

(* The select of autoRetry takes a tick even when the stop channel is      *)
(* closed, if both are ready.                                              *)
Tick ==
  /\ phase # "down"
  /\ L!ListKeys(Scheduler)
  /\ UNCHANGED <<life, dispatching>>

AutoRetryReturns ==
  /\ phase = "closing"
  /\ at[Scheduler] = "idle"
  /\ at' = [at EXCEPT ![Scheduler] = "done"]
  /\ UNCHANGED <<life, dlq, dispatching, step, copy, owner, tried, age, acked, discarded,
                 discards, faults>>

Elapse == L!Elapse /\ UNCHANGED <<life, dispatching>>

-----------------------------------------------------------------------------
(* main.                                                                   *)

Signal ==
  /\ phase = "serving"
  /\ phase' = "draining"
  /\ UNCHANGED <<begun, dlq, dispatching, replaying>>

(* Shutdown returns nil; Close closes the stop channel and the queue.      *)
StartClose ==
  /\ phase = "draining"
  /\ RequestsDone
  /\ D!CloseJobs
  /\ phase' = "closing"
  /\ UNCHANGED <<begun, replaying>>

(* Shutdown returns the error of its context: os.Exit(1), no Close.        *)
ShutdownTimesOut ==
  /\ phase = "draining"
  /\ ~ RequestsDone
  /\ phase' = "down"
  /\ UNCHANGED <<begun, dlq, dispatching, replaying>>

(* Close returns, main returns, and the process ends with every goroutine. *)
Exit ==
  /\ phase = "closing"
  /\ D!CloseReturns
  /\ phase' = "down"
  /\ UNCHANGED <<begun, replaying>>

Kill ==
  /\ phase # "down"
  /\ phase' = "down"
  /\ UNCHANGED <<begun, dlq, dispatching, replaying>>

(* A new process: an open, empty queue, idle workers, no request; the      *)
(* bucket as the last one left it.                                         *)
Start ==
  /\ phase = "down"
  /\ phase' = "serving"
  /\ L!Crash
  /\ call' = [e \in Events |-> IF e \in begun /\ call[e] \in {"none", "sending"}
                               THEN "refused" ELSE call[e]]
  /\ jobs' = <<>>
  /\ closer' = "open"
  /\ pc' = [w \in Workers |-> "idle"]
  /\ job' = [w \in Workers |-> None]
  /\ todo' = [w \in Workers |-> {}]
  /\ cur' = [w \in Workers |-> None]
  /\ tries' = [w \in Workers |-> 0]
  /\ fate' = FateAfterStart
  /\ UNCHANGED <<begun, posts>>

Stopped == phase = "down" /\ UNCHANGED vars

Next ==
  \/ \E e \in Events : Begin(e) \/ Audit(e)
  \/ \E w \in Workers : Work(w)
  \/ \E a \in L!Actors : Replays(a)
  \/ Elapse \/ Operate \/ Tick \/ AutoRetryReturns
  \/ Signal \/ StartClose \/ ShutdownTimesOut \/ Exit \/ Kill \/ Start
  \/ Stopped

Spec == Init /\ [][Next]_vars

(***************************************************************************)
(* Fairness of the components, and of main: what Shutdown and Close wait   *)
(* for, or the ten seconds, end.  Nothing is owed by Start, Kill, Signal.  *)
(***************************************************************************)
Fairness ==
  /\ \A e \in Events : WF_vars(Audit(e))
  /\ \A w \in Workers : WF_vars(Work(w))
  /\ \A a \in L!Actors : WF_vars(Replays(a))
  /\ WF_vars(StartClose \/ ShutdownTimesOut)
  /\ WF_vars(Exit)

FairSpec == Spec /\ Fairness

-----------------------------------------------------------------------------
(* Properties.                                                             *)

(* Type correctness of the composition.                                    *)
TypeOK ==
  /\ D!TypeOK
  /\ L!TypeOK
  /\ phase \in {"serving", "draining", "closing", "down"}
  /\ begun \subseteq Events

(* A delivery that the log reports as stored in the DLQ is there, or has   *)
(* been acknowledged, or was removed, however many processes have come and *)
(* gone since: worker_dispatcher.go:231-259, main.go:187-203.              *)
DeadLettersOutliveProcess ==
  \A l \in D!Letters : fate[l] = "dead" =>
    \/ \E k \in Keys : dlq[k] # None /\ dlq[k].letter = l
    \/ l \in acked \cup discarded

(* main closes the queue when no handler can still dispatch, so that none  *)
(* panics, and a process that goes by way of Close leaves nothing behind.  *)
ShutdownOrder ==
  /\ D!DrainedOnClose
  /\ phase = "closing" => \A e \in begun : call[e] \in {"accepted", "refused"}

(* A signal ends the process, whatever is queued, replayed or failing.     *)
ShutdownEnds == (phase = "draining") ~> (phase = "down")

(* worker_dispatcher.go:112-114: Close "blocks until all in-flight         *)
(* deliveries have finished" and "also stops the auto-retry scheduler".    *)
CloseWaitsForReplays ==
  closer = "returned" => \A k \in Keys : step[Scheduler][k] \notin {"posting", "acked", "failed"}

=============================================================================
