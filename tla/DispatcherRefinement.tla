------------------------ MODULE DispatcherRefinement ------------------------
(***************************************************************************)
(* The dispatcher with its channel, workers, bursts and DLQ implements the *)
(* contract of dispatcher.go, for every value of the constants: each step  *)
(* is a step of DispatcherContract under the mapping given in Dispatcher,  *)
(* or changes nothing that the contract sees.                              *)
(***************************************************************************)
EXTENDS DispatcherProofs

(* What the contract sees.                                                 *)
Seen == <<Accepted, Started, Ended, SettledEvents, Phase>>

LEMMA SeenIsContractVars == Contract!vars = Seen
BY DEF Contract!vars, Seen

(* Three of the five only look at fate and at the calls.                   *)
LEMMA SameDeliveries ==
  ASSUME UNCHANGED fate
  PROVE  UNCHANGED <<Started, Ended>>
BY DEF Started, Ended

LEMMA SameSettled ==
  ASSUME UNCHANGED <<call, jobs, job>>
  PROVE  UNCHANGED <<Accepted, SettledEvents>>
BY DEF Accepted, SettledEvents, Settled, Queued, InHand

LEMMA SamePhase ==
  ASSUME UNCHANGED closer
  PROVE  UNCHANGED Phase
BY DEF Phase

(* A call that neither succeeds nor had succeeded is invisible.            *)
LEMMA OtherCalls ==
  ASSUME IInv, NEW e \in Events, call[e] # "accepted", NEW c \in Calls \ {"accepted"},
         call' = [call EXCEPT ![e] = c], UNCHANGED <<jobs, job>>
  PROVE  UNCHANGED <<Accepted, SettledEvents>>
<1>1. \A f \in Events : call'[f] = "accepted" <=> call[f] = "accepted"
  BY DEF IInv, TypeOK
<1> QED BY <1>1 DEF Accepted, SettledEvents, Settled, Queued, InHand

-----------------------------------------------------------------------------
LEMMA SendAccepts ==
  ASSUME IInv, NEW e \in Events, Send(e)
  PROVE  Contract!Accept(e)
<1>0. TypeOK /\ CloseOK /\ OnePlace /\ OnlyAccepted
  BY DEF IInv
<1>1. closer = "open"
  BY <1>0 DEF Send, CloseOK
<1>2. /\ jobs' = Append(jobs, e) /\ call' = [call EXCEPT ![e] = "accepted"]
      /\ UNCHANGED <<job, fate, closer>> /\ call[e] = "sending"
  BY <1>1 DEF Send, worker, history
<1>3. e \notin Accepted /\ Accepted' = Accepted \cup {e}
  BY <1>0, <1>2 DEF Accepted, TypeOK
<1>4. /\ Len(jobs') = Len(jobs) + 1 /\ Len(jobs) \in Nat
      /\ \A i \in 1 .. Len(jobs) : jobs'[i] = jobs[i]
      /\ jobs'[Len(jobs) + 1] = e
  BY <1>0, <1>2, AppendFacts DEF TypeOK
<1>5. \A f \in Events : Queued(f)' <=> Queued(f) \/ f = e
  BY <1>4 DEF Queued
<1>6. SettledEvents' = SettledEvents
  BY <1>0, <1>2, <1>5 DEF SettledEvents, Settled, InHand, TypeOK
<1> QED BY <1>1, <1>2, <1>3, <1>6, SameDeliveries, SamePhase DEF Contract!Accept, Phase

LEMMA ReceiveIsInvisible ==
  ASSUME IInv, NEW w \in Workers, Receive(w)
  PROVE  UNCHANGED Seen
<1>0. TypeOK /\ OnePlace /\ WorkerOK(w)
  BY DEF IInv
<1>1. /\ job' = [job EXCEPT ![w] = jobs[1]] /\ job[w] = None
      /\ UNCHANGED <<call, fate, closer>>
      /\ Len(jobs) \in Nat \ {0} /\ Len(jobs') = Len(jobs) - 1
      /\ \A i \in 1 .. Len(jobs') : jobs'[i] = jobs[i + 1]
      /\ jobs[1] \in Events
  BY <1>0, TailFacts DEF Receive, WorkerOK, TypeOK, history
<1>2. ASSUME NEW f \in Events PROVE Settled(f)' <=> Settled(f)
  <2>1. CASE f = jobs[1]
    BY <1>0, <1>1, <2>1 DEF Settled, Queued, InHand, TypeOK
  <2>2. CASE f # jobs[1]
    <3>1. InHand(f)' <=> InHand(f)
      BY <1>0, <1>1, <2>2, DispatcherAssumption DEF InHand, TypeOK
    <3>2. ASSUME NEW i \in 1 .. Len(jobs), jobs[i] = f PROVE Queued(f)'
      <4>1. i # 1 /\ i - 1 \in 1 .. Len(jobs') /\ (i - 1) + 1 = i
        BY <1>1, <2>2, <3>2
      <4>2. jobs'[i - 1] = f
        BY <1>1, <3>2, <4>1
      <4> QED BY <4>1, <4>2 DEF Queued
    <3>3. ASSUME NEW i \in 1 .. Len(jobs'), jobs'[i] = f PROVE Queued(f)
      <4>1. i + 1 \in 1 .. Len(jobs) /\ jobs[i + 1] = f
        BY <1>1, <3>3
      <4> QED BY <4>1 DEF Queued
    <3>4. Queued(f)' <=> Queued(f)
      BY <3>2, <3>3 DEF Queued
    <3> QED BY <1>1, <3>1, <3>4 DEF Settled
  <2> QED BY <2>1, <2>2
<1>3. UNCHANGED <<Accepted, SettledEvents>>
  BY <1>1, <1>2 DEF Accepted, SettledEvents
<1> QED BY <1>1, <1>3, SameDeliveries, SamePhase DEF Seen

(* A worker that lets go of its event settles it, and only it.             *)
LEMMA LettingGo ==
  ASSUME IInv, NEW w \in Workers, NEW e \in Events, job[w] = e,
         job' = [job EXCEPT ![w] = None], UNCHANGED <<call, jobs>>
  PROVE  /\ e \in Accepted \ SettledEvents
         /\ SettledEvents' = SettledEvents \cup {e}
         /\ UNCHANGED Accepted
<1>0. TypeOK /\ OnePlace /\ OnlyAccepted /\ e # None
  BY DispatcherAssumption DEF IInv
<1>1. call[e] = "accepted" /\ InHand(e) /\ ~ Queued(e)
  BY <1>0 DEF OnlyAccepted, OnePlace, InHand, Queued
<1>2. ~ InHand(e)'
  BY <1>0 DEF InHand, OnePlace, TypeOK
<1>3. \A f \in Events \ {e} : InHand(f)' <=> InHand(f)
  BY <1>0, DispatcherAssumption DEF InHand, TypeOK
<1>4. \A f \in Events : Queued(f)' <=> Queued(f)
  BY DEF Queued
<1>5. \A f \in Events : Settled(f)' <=> Settled(f) \/ f = e
  BY <1>1, <1>2, <1>3, <1>4 DEF Settled
<1> QED BY <1>1, <1>5 DEF Accepted, SettledEvents, Settled

LEMMA FinishSettles ==
  ASSUME IInv, NEW w \in Workers, ListFails(w) \/ FinishEvent(w)
  PROVE  Contract!Settle(job[w])
<1>0. TypeOK /\ OnePlace /\ NotBegun /\ NoOrphan /\ WorkerOK(w)
  BY DEF IInv
<1>1. /\ job[w] \in Events /\ job' = [job EXCEPT ![w] = None]
      /\ UNCHANGED <<call, jobs, closer, fate>>
  BY <1>0 DEF ListFails, AfterListError, FinishEvent, NothingLeft, WorkerOK, TypeOK, history
<1>2. ASSUME NEW l \in Letters, l[1] = job[w], fate[l] # "none" PROVE Ended[l] # "none"
  <2>1. ASSUME fate[l] = "pending" PROVE FALSE
    <3>1. PICK v \in Workers : Holds(v, l)
      BY <1>0, <2>1 DEF NoOrphan
    <3>2. v = w
      BY <1>0, <1>1, <1>2, <3>1, DispatcherAssumption DEF Holds, OnePlace
    <3> QED BY <3>1, <3>2 DEF Holds, ListFails, AfterListError, FinishEvent, NothingLeft
  <2> QED BY <1>2, <2>1 DEF Ended
<1>3. \A l \in Contract!Of(job[w]) : Ended[l] # "none"
  BY <1>2 DEF Contract!Of, Started
<1>4. UNCHANGED <<Started, Ended, Phase>>
  BY <1>1, SameDeliveries, SamePhase
<1>5. PICK e \in Events : job[w] = e
  BY <1>1
<1>6. /\ e \in Accepted \ SettledEvents /\ UNCHANGED Accepted
      /\ SettledEvents' = SettledEvents \cup {e}
  BY <1>1, <1>5, LettingGo
<1> QED BY <1>3, <1>4, <1>5, <1>6 DEF Contract!Settle

LEMMA ListingStarts ==
  ASSUME IInv, NEW w \in Workers, ListSubscriptions(w)
  PROVE  Contract!Start(job[w])
<1>0. TypeOK /\ OnePlace /\ OnlyAccepted /\ NotBegun /\ WorkerOK(w) /\ pc[w] = "list"
  BY DEF IInv, ListSubscriptions
<1>1. PICK listed \in SUBSET Subs :
        fate' = [l \in Letters |->
                   IF l[1] = job[w] /\ l[2] \in Targets(listed, job[w])
                   THEN "pending" ELSE fate[l]]
  BY DEF ListSubscriptions
<1>2. job[w] \in Events /\ UNCHANGED <<call, jobs, job, closer>>
  BY <1>0 DEF ListSubscriptions, WorkerOK, TypeOK
<1>3. job[w] \in Accepted \ SettledEvents
  BY <1>0, <1>2, DispatcherAssumption DEF OnlyAccepted, Accepted, SettledEvents, Settled, InHand
<1>4. \A l \in Letters : l[1] = job[w] => fate[l] = "none"
  BY <1>0 DEF NotBegun, Untouched, Letters
<1>5. Contract!Of(job[w]) = {}
  BY <1>4 DEF Contract!Of, Started
<1> DEFINE T == {l \in Letters : l[1] = job[w] /\ l[2] \in Targets(listed, job[w])}
<1>6. T \in SUBSET {l \in Wanted : l[1] = job[w]}
  BY DEF Wanted, Targets, MatchesEventType
<1>7. Started' = Started \cup T
  BY <1>1, <1>4 DEF Started
<1>8. Ended' = Ended
  BY <1>1, <1>4 DEF Ended
<1> HIDE DEF T
<1> QED BY <1>2, <1>3, <1>5, <1>6, <1>7, <1>8, SameSettled, SamePhase DEF Contract!Start

LEMMA OutcomeEnds ==
  ASSUME IInv, NEW w \in Workers, PostSucceeds(w) \/ PostFails(w) \/ Bury(w) \/ BuryFails(w)
  PROVE  UNCHANGED Seen \/ Contract!End(Letter(w))
<1>0. /\ TypeOK /\ WorkerOK(w) /\ DebtOK(w) /\ pc[w] \in {"post", "bury"}
      /\ Letter(w) \in Letters
      /\ \A l \in Letters \ {Letter(w)} : fate'[l] = fate[l]
      /\ UNCHANGED <<call, jobs, job, closer>>
  BY PostStep, LetterType DEF IInv, PostSucceeds, PostFails, Bury, BuryFails
<1>1. fate[Letter(w)] = "pending"
  BY <1>0 DEF WorkerOK, DebtOK
<1>2. UNCHANGED <<Accepted, SettledEvents, Phase>>
  BY <1>0, SameSettled, SamePhase
<1>3. CASE Going(w)
  <2>1. \A l \in Letters : fate'[l] = fate[l]
    BY <1>0, <1>1, <1>3 DEF Going
  <2> QED BY <1>2, <2>1 DEF Seen, Started, Ended
<1>4. CASE Gone(w)
  <2>1. fate'[Letter(w)] \in Contract!Ends
    BY <1>4 DEF Gone, Contract!Ends
  <2>2. Letter(w) \in Started /\ Ended[Letter(w)] = "none"
    BY <1>0, <1>1 DEF Started, Ended
  <2>3. Started' = Started
    BY <1>0, <1>1, <1>4 DEF Started, Gone
  <2>4. Ended' = [Ended EXCEPT ![Letter(w)] = fate'[Letter(w)]]
    BY <1>0, <1>4 DEF Ended, Gone
  <2> QED BY <1>2, <2>1, <2>2, <2>3, <2>4 DEF Contract!End
<1> QED BY <1>3, <1>4, PostOutcome

LEMMA CloseSteps ==
  ASSUME IInv
  PROVE  /\ CloseJobs => Contract!StartClose
         /\ CloseReturns => Contract!EndClose
<1>1. ASSUME CloseJobs PROVE Contract!StartClose
  BY <1>1, SameSettled, SameDeliveries DEF CloseJobs, Contract!StartClose, Phase, worker, history
<1>2. ASSUME CloseReturns PROVE Contract!EndClose
  <2>1. \A w \in Workers : jobs = <<>> /\ job[w] = None
    BY <1>2 DEF IInv, CloseReturns, AllWorkersLeft, WorkerOK
  <2>2. Len(jobs) = 0
    BY <2>1, DispatcherAssumption
  <2>3. SettledEvents = Accepted
    BY <2>1, <2>2, DispatcherAssumption DEF SettledEvents, Accepted, Settled, Queued, InHand
  <2> QED BY <1>2, <2>3, SameSettled, SameDeliveries
          DEF CloseReturns, Contract!EndClose, Phase, worker, history
<1> QED BY <1>1, <1>2

-----------------------------------------------------------------------------
LEMMA InitRefines == ASSUME Init PROVE Contract!Init
BY DispatcherAssumption
   DEF Init, Contract!Init, Accepted, Started, Ended, SettledEvents, Settled, Phase, Letters

LEMMA StepRefines == ASSUME IInv, [Next]_vars PROVE [Contract!Next]_Contract!vars
<1> SUFFICES UNCHANGED Seen \/ Contract!Next
  BY SeenIsContractVars DEF Seen, Contract!vars
<1>1. ASSUME NEW e \in Events, Dispatch(e) \/ GiveUp(e) PROVE UNCHANGED Seen
  <2>1. UNCHANGED <<jobs, job, fate, closer>> /\ call[e] # "accepted"
    BY <1>1 DEF Dispatch, GiveUp, worker, history
  <2>2. \E c \in Calls \ {"accepted"} : call' = [call EXCEPT ![e] = c]
    BY <1>1 DEF Dispatch, GiveUp, Calls
  <2> QED BY <2>1, <2>2, OtherCalls, SameDeliveries, SamePhase DEF Seen
<1>2. ASSUME NEW e \in Events, Send(e) PROVE Contract!Next
  BY <1>2, SendAccepts DEF Contract!Next
<1>3. ASSUME NEW w \in Workers, Exit(w) \/ NextSubscription(w) PROVE UNCHANGED Seen
  BY <1>3, SameSettled, SameDeliveries, SamePhase DEF Exit, NextSubscription, history, Seen
<1>4. ASSUME NEW w \in Workers, ListFails(w) \/ FinishEvent(w) PROVE Contract!Next
  <2>1. job[w] \in Events
    BY <1>4 DEF IInv, WorkerOK, TypeOK, ListFails, AfterListError, FinishEvent, NothingLeft
  <2> QED BY <1>4, <2>1, FinishSettles DEF Contract!Next
<1>5. ASSUME NEW w \in Workers, ListSubscriptions(w) PROVE Contract!Next
  <2>1. job[w] \in Events
    BY <1>5 DEF IInv, WorkerOK, TypeOK, ListSubscriptions
  <2> QED BY <1>5, <2>1, ListingStarts DEF Contract!Next
<1>6. ASSUME NEW w \in Workers, PostSucceeds(w) \/ PostFails(w) \/ Bury(w) \/ BuryFails(w)
      PROVE  UNCHANGED Seen \/ Contract!Next
  <2>1. Letter(w) \in Events \X Subs
    BY <1>6, PostStep, LetterType DEF Letters
  <2> QED BY <1>6, <2>1, OutcomeEnds DEF Contract!Next
<1>7. ASSUME CloseJobs \/ CloseReturns PROVE Contract!Next
  BY <1>7, CloseSteps DEF Contract!Next
<1>8. CASE UNCHANGED vars
  BY <1>8, SameSettled, SameDeliveries, SamePhase DEF vars, Seen
<1> QED BY <1>1, <1>2, <1>3, <1>4, <1>5, <1>6, <1>7, <1>8, ReceiveIsInvisible
        DEF Next, Handler, Worker, Stopped

(* worker_dispatcher.go implements the Dispatcher interface as             *)
(* dispatcher.go:8-26 describes it: accepted events are settled once, each *)
(* delivery begun ends once and for a subscription that wanted it, and     *)
(* Close returns after all of it.                                          *)
THEOREM Refinement == Spec => ImplementsContract
<1>1. Init => Contract!Init
  BY InitRefines
<1>2. IInv /\ [Next]_vars => [Contract!Next]_Contract!vars
  BY StepRefines
<1> QED BY <1>1, <1>2, Invariance, PTL DEF Spec, ImplementsContract, Contract!Spec

=============================================================================
