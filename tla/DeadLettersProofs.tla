-------------------------- MODULE DeadLettersProofs --------------------------
(***************************************************************************)
(* What holds of the DLQ for every number of keys, letters, requests,      *)
(* removals, crashes and store errors: types, that no letter is lost, and  *)
(* that none is given up before its replays were made.  And what holds     *)
(* when the scheduler is alone: its count is exact and bounds replays, and *)
(* its pauses add up.                                                      *)
(***************************************************************************)
EXTENDS DeadLetters, WellFoundedInduction, TLAPS

(* What a copy is worth.  A copy, however stale, is of the letter its key  *)
(* was made for and counts no replay that was not made; one whose replay   *)
(* failed can count one more; one whose replay succeeded is acknowledged.  *)
CopyOK(a, k) ==
  /\ step[a][k] \in {"loaded", "posting", "acked", "failed"} => copy[a][k] # None
  /\ copy[a][k] # None => /\ copy[a][k].letter = owner[k]
                          /\ copy[a][k].attempts <= tried[k]
  /\ step[a][k] = "failed" => copy[a][k].attempts + 1 <= tried[k]
  /\ step[a][k] = "acked" => owner[k] \in acked

(* What a stored record is worth, and why a missing one is missing.        *)
RecordOK(k) ==
  /\ Has(dlq, k) => /\ dlq[k].letter = owner[k]
                    /\ dlq[k].attempts <= tried[k]
  /\ owner[k] # None /\ ~ Has(dlq, k) => owner[k] \in acked \cup discarded

IInv ==
  /\ TypeOK
  /\ \A a \in Actors, k \in Keys : CopyOK(a, k)
  /\ \A k \in Keys : RecordOK(k)

-----------------------------------------------------------------------------
(* Types.                                                                  *)

LEMMA InitIInv == ASSUME Init PROVE IInv
<1>1. TypeOK
  BY DeadLettersAssumption DEF Init, TypeOK, EmptyBucket, Bucket
<1>2. ASSUME NEW a \in Actors, NEW k \in Keys PROVE CopyOK(a, k)
  BY DEF Init, CopyOK
<1>3. ASSUME NEW k \in Keys PROVE RecordOK(k)
  BY DEF Init, RecordOK, EmptyBucket, Has
<1> QED BY <1>1, <1>2, <1>3 DEF IInv

(* A goroutine that replays has a record to replay.                        *)
LEMMA ReplayedRecord ==
  ASSUME IInv, NEW a \in Actors, NEW k \in Keys,
         step[a][k] \in {"loaded", "posting", "acked", "failed"}
  PROVE  copy[a][k] \in Record
BY DEF IInv, CopyOK, TypeOK, Bucket

LEMMA Products ==
  ASSUME NEW x \in Nat, NEW y \in Nat, NEW z \in Nat, y <= z
  PROVE  x * y \in Nat /\ x * y <= x * z
<1>1. PICK d \in Nat : z = y + d
  <2>1. z - y \in Nat /\ z = y + (z - y)
    OBVIOUS
  <2> QED BY <2>1
<1>2. x * y \in Nat /\ x * d \in Nat
  OBVIOUS
<1>3. x * z = x * y + x * d
  BY <1>1
<1> QED BY <1>2, <1>3

(* The pause is one of nine multiples of CoolingOff, or a constant.        *)
LEMMA DoubledIsNat ==
  ASSUME NEW n \in Nat
  PROVE  \E i \in 0 .. 8 : Doublings(n) = i /\ Doubled(n) = CoolingOff * PowersOfTwo[i + 1]
                           /\ PowersOfTwo[i + 1] \in 1 .. 256 /\ Doubled(n) \in Nat
<1>1. Doublings(n) \in 0 .. 8
  BY DEF Doublings
<1>2. \A i \in 0 .. 8 : PowersOfTwo[i + 1] \in 1 .. 256
  BY DEF PowersOfTwo
<1>3. ASSUME NEW i \in 0 .. 8 PROVE CoolingOff * PowersOfTwo[i + 1] \in Nat
  <2>1. PowersOfTwo[i + 1] \in Nat
    BY DEF PowersOfTwo
  <2> QED BY <2>1, Products, DeadLettersAssumption
<1> QED BY <1>1, <1>2, <1>3 DEF Doubled

LEMMA PauseIsNat ==
  ASSUME NEW a, NEW n \in Nat
  PROVE  Pause(a, n) \in Nat
BY DoubledIsNat, DeadLettersAssumption DEF Pause, Backoff

LEMMA RetriedIsRecord ==
  ASSUME NEW a, NEW r \in Record
  PROVE  /\ Retried(a, r) \in Record
         /\ Retried(a, r).letter = r.letter
         /\ Retried(a, r).attempts = r.attempts + 1
<1>1. r.letter \in Letters /\ r.attempts + 1 \in Nat
  BY DEF Record
<1> QED BY <1>1, PauseIsNat DEF Retried, Record

LEMMA OlderIsRecord ==
  ASSUME NEW r \in Record
  PROVE  /\ Older(r) \in Record
         /\ Older(r).letter = r.letter
         /\ Older(r).attempts = r.attempts
<1>1. CASE Due(r)
  BY <1>1 DEF Older
<1>2. CASE ~ Due(r)
  <2>1. Older(r) = [r EXCEPT !.wait = r.wait - 1] /\ r.wait - 1 \in Nat
    BY <1>2, DeadLettersAssumption DEF Older, Due, Record
  <2> QED BY <2>1 DEF Record
<1> QED BY <1>1, <1>2

(* What passing time leaves of a bucket.                                   *)
LEMMA ElapseFacts ==
  ASSUME TypeOK, Elapse, NEW j \in Keys
  PROVE  /\ Has(dlq', j) <=> Has(dlq, j)
         /\ Has(dlq, j) => /\ dlq'[j] \in Record
                           /\ dlq'[j].letter = dlq[j].letter
                           /\ dlq'[j].attempts = dlq[j].attempts
         /\ ~ Has(dlq, j) => dlq'[j] = None
<1>1. dlq'[j] = Older(dlq[j])
  BY DEF Elapse
<1>2. CASE dlq[j] = None
  BY <1>1, <1>2 DEF Older, Has
<1>3. CASE dlq[j] \in Record
  BY <1>1, <1>3, OlderIsRecord, DeadLettersAssumption DEF Has
<1> QED BY <1>2, <1>3 DEF TypeOK, Bucket

(* One step per action; Next groups them by what they quantify over.       *)
LEMMA StepTypeOK == ASSUME IInv, [Next]_vars PROVE TypeOK'
<1>0. TypeOK
  BY DEF IInv
<1> USE DeadLettersAssumption, <1>0 DEF TypeOK, Bucket, Has
<1>1. ASSUME NEW l \in Letters, NEW k \in Keys, Bury(l, k) PROVE TypeOK'
  BY <1>1 DEF Bury, Save, NewRecord, Record
<1>2. ASSUME Elapse PROVE TypeOK'
  <2>1. dlq' = [k \in Keys |-> Older(dlq[k])]
    BY <1>2 DEF Elapse
  <2>2. ASSUME NEW k \in Keys PROVE dlq'[k] \in Record \cup {None}
    BY <1>2, <2>1, ElapseFacts
  <2>3. dlq' \in Bucket
    BY <2>1, <2>2
  <2>4. age' \in [Keys -> 0 .. MaxAge]
    BY <1>2 DEF Elapse
  <2> QED BY <1>2, <2>3, <2>4 DEF Elapse
<1>3. ASSUME NEW a \in Actors, ListKeys(a) PROVE TypeOK'
  BY <1>3 DEF ListKeys
<1>4. ASSUME NEW a \in Actors, NEW k \in Keys, LoadKey(a, k) PROVE TypeOK'
  BY <1>4 DEF LoadKey
<1>5. ASSUME NEW a \in Actors, LoadFails(a) PROVE TypeOK'
  BY <1>5 DEF LoadFails, Fault, Rest
<1>6. ASSUME NEW a \in Actors, Loaded(a) PROVE TypeOK'
  BY <1>6 DEF Loaded
<1>7. ASSUME NEW a \in Actors, NEW k \in Keys, Skip(a, k) PROVE TypeOK'
  BY <1>7 DEF Skip
<1>8. ASSUME NEW a \in Actors, NEW k \in Keys, Spawn(a, k) PROVE TypeOK'
  BY <1>8 DEF Spawn
<1>9. ASSUME NEW a \in Actors, NEW k \in Keys, Replay(a, k) PROVE TypeOK'
  BY <1>9 DEF Replay
<1>10. ASSUME NEW a \in Actors, NEW k \in Keys, PostSucceeds(a, k) PROVE TypeOK'
  <2>1. copy[a][k] \in Record
    BY <1>10, ReplayedRecord DEF PostSucceeds
  <2> QED BY <1>10, <2>1 DEF PostSucceeds, Record
<1>11. ASSUME NEW a \in Actors, NEW k \in Keys, PostFails(a, k) PROVE TypeOK'
  BY <1>11 DEF PostFails
<1>12. ASSUME NEW a \in Actors, NEW k \in Keys, Update(a, k) PROVE TypeOK'
  <2>1. Retried(a, copy[a][k]) \in Record
    BY <1>12, ReplayedRecord, RetriedIsRecord DEF Update
  <2>2. dlq' \in Bucket
    BY <1>12, <2>1 DEF Update, AfterReplay, Save, Delete
  <2> QED BY <1>12, <2>2 DEF Update, EndReplay
<1>13. ASSUME NEW a \in Actors, NEW k \in Keys, UpdateFails(a, k) PROVE TypeOK'
  BY <1>13 DEF UpdateFails, EndReplay, Fault
<1>14. ASSUME NEW a \in Actors, Finish(a) PROVE TypeOK'
  BY <1>14 DEF Finish, Rest
<1>15. ASSUME NEW k \in Keys, Discard(k) PROVE TypeOK'
  BY <1>15 DEF Discard, Delete, Record
<1>16. ASSUME Crash PROVE TypeOK'
  BY <1>16 DEF Crash, Fault, Rest
<1>17. CASE UNCHANGED vars
  BY <1>17 DEF vars
<1> QED BY <1>1, <1>2, <1>3, <1>4, <1>5, <1>6, <1>7, <1>8, <1>9, <1>10, <1>11,
           <1>12, <1>13, <1>14, <1>15, <1>16, <1>17 DEF Next, Run

-----------------------------------------------------------------------------
(* Copies.                                                                 *)

LEMMA StepCopyOK ==
  ASSUME IInv, [Next]_vars, NEW b \in Actors, NEW j \in Keys
  PROVE  CopyOK(b, j)'
<1>0. TypeOK /\ CopyOK(b, j) /\ RecordOK(j)
  BY DEF IInv
<1> USE DeadLettersAssumption, <1>0 DEF TypeOK, Bucket, Has, CopyOK
<1>1. ASSUME NEW l \in Letters, NEW k \in Keys, Bury(l, k) PROVE CopyOK(b, j)'
  <2>1. copy[b][k] = None
    <3>1. CopyOK(b, k) /\ owner[k] = None
      BY <1>1 DEF IInv, Bury
    <3> QED BY <3>1 DEF Record
  <2>2. step[b][k] \notin {"loaded", "posting", "acked", "failed"}
    BY <2>1 DEF IInv
  <2> QED BY <1>1, <2>1, <2>2 DEF Bury
<1>2. ASSUME Elapse PROVE CopyOK(b, j)'
  BY <1>2 DEF Elapse
<1>3. ASSUME NEW a \in Actors, ListKeys(a) PROVE CopyOK(b, j)'
  BY <1>3 DEF ListKeys
<1>4. ASSUME NEW a \in Actors, NEW k \in Keys, LoadKey(a, k) PROVE CopyOK(b, j)'
  BY <1>4 DEF LoadKey, RecordOK
<1>5. ASSUME NEW a \in Actors, LoadFails(a) PROVE CopyOK(b, j)'
  BY <1>5 DEF LoadFails
<1>6. ASSUME NEW a \in Actors, Loaded(a) PROVE CopyOK(b, j)'
  BY <1>6 DEF Loaded
<1>7. ASSUME NEW a \in Actors, NEW k \in Keys, Skip(a, k) PROVE CopyOK(b, j)'
  BY <1>7 DEF Skip
<1>8. ASSUME NEW a \in Actors, NEW k \in Keys, Spawn(a, k) PROVE CopyOK(b, j)'
  BY <1>8 DEF Spawn
<1>9. ASSUME NEW a \in Actors, NEW k \in Keys, Replay(a, k) PROVE CopyOK(b, j)'
  BY <1>9 DEF Replay, RecordOK
<1>10. ASSUME NEW a \in Actors, NEW k \in Keys, PostSucceeds(a, k) PROVE CopyOK(b, j)'
  <2>1. copy[a][k] \in Record /\ copy[a][k].letter = owner[k]
    BY <1>10, ReplayedRecord DEF PostSucceeds, IInv
  <2>2. copy[b][j] # None => copy[b][j].attempts \in Nat
    BY DEF Record
  <2> QED BY <1>10, <2>1, <2>2 DEF PostSucceeds
<1>11. ASSUME NEW a \in Actors, NEW k \in Keys, PostFails(a, k) PROVE CopyOK(b, j)'
  <2>1. copy[b][j] # None => copy[b][j].attempts \in Nat
    BY DEF Record
  <2> QED BY <1>11, <2>1 DEF PostFails
<1>12. ASSUME NEW a \in Actors, NEW k \in Keys, Update(a, k) PROVE CopyOK(b, j)'
  BY <1>12 DEF Update, EndReplay
<1>13. ASSUME NEW a \in Actors, NEW k \in Keys, UpdateFails(a, k) PROVE CopyOK(b, j)'
  BY <1>13 DEF UpdateFails, EndReplay
<1>14. ASSUME NEW a \in Actors, Finish(a) PROVE CopyOK(b, j)'
  BY <1>14 DEF Finish
<1>15. ASSUME NEW k \in Keys, Discard(k) PROVE CopyOK(b, j)'
  BY <1>15 DEF Discard
<1>16. ASSUME Crash PROVE CopyOK(b, j)'
  BY <1>16 DEF Crash
<1>17. CASE UNCHANGED vars
  BY <1>17 DEF vars
<1> QED BY <1>1, <1>2, <1>3, <1>4, <1>5, <1>6, <1>7, <1>8, <1>9, <1>10, <1>11,
           <1>12, <1>13, <1>14, <1>15, <1>16, <1>17 DEF Next, Run

-----------------------------------------------------------------------------
(* Records.  Six actions change what RecordOK speaks of.                   *)

LEMMA StepRecordOK ==
  ASSUME IInv, [Next]_vars, NEW j \in Keys
  PROVE  RecordOK(j)'
<1>0. TypeOK /\ RecordOK(j)
  BY DEF IInv
<1> USE DeadLettersAssumption, <1>0 DEF TypeOK, Bucket, Has, RecordOK
<1>1. ASSUME NEW l \in Letters, NEW k \in Keys, Bury(l, k) PROVE RecordOK(j)'
  <2>1. NewRecord(l) \in Record
    BY DEF NewRecord, Record
  <2>2. NewRecord(l) # None /\ NewRecord(l).letter = l /\ NewRecord(l).attempts = 0
    BY <2>1 DEF NewRecord
  <2> QED BY <1>1, <2>2 DEF Bury, Save
<1>2. ASSUME Elapse PROVE RecordOK(j)'
  BY <1>2, ElapseFacts DEF Elapse
<1>3. ASSUME NEW a \in Actors, NEW k \in Keys, PostSucceeds(a, k) \/ PostFails(a, k)
      PROVE  RecordOK(j)'
  <2>1. Has(dlq, j) => dlq[j].attempts \in Nat
    BY DEF Record
  <2>2. /\ tried[j] \in Nat /\ tried'[j] \in {tried[j], tried[j] + 1}
        /\ acked \subseteq acked' /\ UNCHANGED <<dlq, owner, discarded>>
    BY <1>3 DEF PostSucceeds, PostFails
  <2> HIDE DEF TypeOK
  <2> QED BY <2>1, <2>2
<1>4. ASSUME NEW a \in Actors, NEW k \in Keys, Update(a, k) PROVE RecordOK(j)'
  <2>1. copy[a][k] \in Record
    BY <1>4, ReplayedRecord DEF Update
  <2>2. CopyOK(a, k)
    BY DEF IInv
  <2>3. CASE step[a][k] = "acked"
    <3>1. dlq' = Delete(dlq, k) /\ owner[k] \in acked
      BY <1>4, <2>2, <2>3 DEF Update, AfterReplay, CopyOK
    <3> QED BY <1>4, <3>1 DEF Update, Delete
  <2>4. CASE step[a][k] = "failed"
    <3> DEFINE r == Retried(a, copy[a][k])
    <3>1. dlq' = Save(dlq, k, r)
      BY <1>4, <2>4 DEF Update, AfterReplay
    <3>2. r \in Record /\ r.letter = owner[k] /\ r.attempts <= tried[k]
      BY <2>1, <2>2, <2>4, RetriedIsRecord DEF CopyOK
    <3> HIDE DEF r
    <3> QED BY <1>4, <3>1, <3>2 DEF Update, Save
  <2> QED BY <1>4, <2>3, <2>4 DEF Update
<1>5. ASSUME NEW k \in Keys, Discard(k) PROVE RecordOK(j)'
  BY <1>5 DEF Discard, Delete
<1>6. ASSUME UNCHANGED <<dlq, owner, tried, acked, discarded>> PROVE RecordOK(j)'
  BY <1>6
<1>7. \/ \E l \in Letters, k \in Keys : Bury(l, k)
      \/ Elapse
      \/ \E k \in Keys : Discard(k)
      \/ \E a \in Actors, k \in Keys : PostSucceeds(a, k) \/ PostFails(a, k) \/ Update(a, k)
      \/ UNCHANGED <<dlq, owner, tried, acked, discarded>>
  BY DEF Next, Run, ListKeys, LoadFails, Loaded, Finish, LoadKey, Skip, Spawn,
         UpdateFails, Replay, Crash, vars
<1> QED BY <1>1, <1>2, <1>3, <1>4, <1>5, <1>6, <1>7

-----------------------------------------------------------------------------
(* The results.                                                            *)

LEMMA Inductive == ASSUME IInv, [Next]_vars PROVE IInv'
BY StepTypeOK, StepCopyOK, StepRecordOK DEF IInv

LEMMA Invariance == Spec => []IInv
<1>1. Init => IInv
  BY InitIInv
<1>2. IInv /\ [Next]_vars => IInv'
  BY Inductive
<1> QED BY <1>1, <1>2, PTL DEF Spec

(* The state of the DLQ and of those who replay it keeps its types: above  *)
(* all, nobody ever writes back a record that is not one (dlq.go:82-91).   *)
THEOREM TypeCorrect == Spec => []TypeOK
<1>1. IInv => TypeOK
  BY DEF IInv
<1> QED BY <1>1, Invariance, PTL

(* A letter in the DLQ stays there until it is acknowledged or removed, in *)
(* every interleaving of the scheduler, the handlers and crashes           *)
(* (worker_dispatcher.go:329-377, dlq_handlers.go:101-233).                *)
THEOREM LettersKept == Spec => []NoLetterLost
<1>1. IInv => NoLetterLost
  BY DEF IInv, RecordOK, NoLetterLost
<1> QED BY <1>1, Invariance, PTL

(* A record is terminal only when DLQMaxAttempts replays of it were made   *)
(* (dlq.go:58-62).                                                         *)
THEOREM NoEarlyEnd == Spec => []NotAbandonedEarly
<1>1. IInv => NotAbandonedEarly
  <2> SUFFICES ASSUME IInv, NEW k \in Keys, Has(dlq, k), Terminal(dlq[k])
               PROVE  tried[k] >= DLQMaxAttempts
    BY DEF NotAbandonedEarly
  <2>1. dlq[k] \in Record /\ tried[k] \in Nat /\ dlq[k].attempts <= tried[k]
    BY DEF IInv, TypeOK, Bucket, Has, RecordOK
  <2> QED BY <2>1, DeadLettersAssumption DEF Terminal, IsTerminal, Record
<1> QED BY <1>1, Invariance, PTL

-----------------------------------------------------------------------------
(* The scheduler alone: neither requests nor faults.  The record and the   *)
(* copy of it count the replays whose outcome is written, and a replay     *)
(* starts below the bound.                                                 *)

SchedulerAlone == Requests = {} /\ MaxFaults = 0

Pending(k) == step[Scheduler][k] \in {"acked", "failed"}

Written(k) == IF Pending(k) THEN tried[k] - 1 ELSE tried[k]

CountOK(k) ==
  /\ at[Scheduler] # "replaying" => step[Scheduler][k] \in {"none", "listed", "loaded"}
  /\ owner[k] = None => tried[k] = 0
  /\ copy[Scheduler][k] # None => copy[Scheduler][k].attempts = Written(k)
  /\ Has(dlq, k) => dlq[k].attempts = Written(k)
  /\ step[Scheduler][k] = "posting" => tried[k] < DLQMaxAttempts
  /\ tried[k] <= DLQMaxAttempts

LEMMA InitCountOK == ASSUME Init, NEW k \in Keys PROVE CountOK(k)
<1>1. at[Scheduler] = "idle" /\ step[Scheduler][k] = "none" /\ copy[Scheduler][k] = None
  BY DEF Init, Actors
<1>2. tried[k] = 0 /\ dlq[k] = None
  BY DEF Init, EmptyBucket
<1> QED BY <1>1, <1>2, DeadLettersAssumption DEF CountOK, Has

LEMMA StepCountOK ==
  ASSUME SchedulerAlone, IInv, \A k \in Keys : CountOK(k), [Next]_vars, NEW j \in Keys
  PROVE  CountOK(j)'
<1> DEFINE S == Scheduler
<1>0. /\ TypeOK /\ CopyOK(S, j) /\ CountOK(j) /\ S \in Actors
      /\ \A a \in Actors : a = S
      /\ Has(dlq, j) => dlq[j].attempts \in Nat
      /\ copy[S][j] # None => copy[S][j].attempts \in Nat
  BY DEF IInv, Actors, SchedulerAlone, TypeOK, Bucket, Record, Has
<1>00. ~ Fault
  BY <1>0, DeadLettersAssumption DEF Fault, SchedulerAlone, TypeOK
<1> USE DeadLettersAssumption, <1>0 DEF TypeOK, Bucket, Has, CountOK, Written, Pending
<1>1. ASSUME NEW l \in Letters, NEW k \in Keys, Bury(l, k) PROVE CountOK(j)'
  <2>1. copy[S][j] # None => j # k
    BY <1>1 DEF CopyOK, Bury, Record
  <2>2. step[S][k] \notin {"loaded", "posting", "acked", "failed"} /\ tried[k] = 0
    BY <1>1 DEF IInv, CopyOK, Bury, Record
  <2>3. NewRecord(l).attempts = 0
    BY DEF NewRecord
  <2> QED BY <1>1, <2>1, <2>2, <2>3 DEF Bury, Save
<1>2. ASSUME Elapse PROVE CountOK(j)'
  <2>1. UNCHANGED <<at, step, copy, owner, tried>>
    BY <1>2 DEF Elapse
  <2>2. Has(dlq, j)' => Has(dlq, j) /\ dlq'[j].attempts = dlq[j].attempts
    BY <1>2, ElapseFacts
  <2> QED BY <2>1, <2>2
<1>3. ASSUME NEW a \in Actors, ListKeys(a) PROVE CountOK(j)'
  BY <1>3 DEF ListKeys
<1>4. ASSUME NEW a \in Actors, NEW k \in Keys, LoadKey(a, k) PROVE CountOK(j)'
  BY <1>4 DEF LoadKey
<1>6. ASSUME NEW a \in Actors, Loaded(a) PROVE CountOK(j)'
  BY <1>6 DEF Loaded
<1>7. ASSUME NEW a \in Actors, NEW k \in Keys, Skip(a, k) PROVE CountOK(j)'
  BY <1>7 DEF Skip
<1>8. ASSUME NEW a \in Actors, NEW k \in Keys, Spawn(a, k) PROVE CountOK(j)'
  <2>1. copy[S][k] # None /\ ~ Terminal(copy[S][k]) /\ step[S][k] = "loaded" /\ copy[S][k].attempts \in Nat
    BY <1>8, ReplayedRecord DEF Spawn, Eligible, Record
  <2>2. CountOK(k)
    OBVIOUS
  <2>3. tried[k] < DLQMaxAttempts
    BY <2>1, <2>2 DEF Terminal, IsTerminal
  <2> QED BY <1>8, <2>1, <2>3 DEF Spawn
<1>10. ASSUME NEW a \in Actors, NEW k \in Keys, PostSucceeds(a, k) \/ PostFails(a, k) PROVE CountOK(j)'
  <2>1. /\ a = S /\ step[S][k] = "posting" /\ at' = at /\ copy' = copy /\ owner' = owner /\ dlq' = dlq
        /\ tried' = [tried EXCEPT ![k] = @ + 1]
        /\ \E s \in {"acked", "failed"} : step' = [step EXCEPT ![S][k] = s]
    BY <1>10 DEF PostSucceeds, PostFails
  <2>2. CASE j = k
    <3>1. tried'[j] = tried[j] + 1 /\ Pending(j)' /\ ~ Pending(j) /\ tried[j] \in Nat
      BY <2>1, <2>2
    <3>2. /\ Written(j)' = tried[j] /\ Written(j) = tried[j] /\ at'[S] = "replaying"
          /\ tried[j] < DLQMaxAttempts /\ owner[j] # None /\ step'[S][j] # "posting"
      <4>1. tried[j] < DLQMaxAttempts /\ at[S] = "replaying" /\ owner[j] # None
        BY <2>1, <2>2, ReplayedRecord DEF CopyOK, Record
      <4>2. at'[S] = "replaying" /\ step'[S][j] \in {"acked", "failed"} /\ step[S][j] = "posting"
        BY <2>1, <2>2, <4>1
      <4>3. Written(j)' = tried[j] /\ Written(j) = tried[j]
        <5>1. Written(j)' = tried'[j] - 1
          BY <4>2
        <5>2. tried'[j] - 1 = tried[j]
          BY <3>1
        <5>3. Written(j) = tried[j]
          BY <4>2
        <5> QED BY <5>1, <5>2, <5>3
      <4>4. step'[S][j] # "posting"
        BY <4>2
      <4> HIDE DEF Written, Pending, CountOK
      <4> QED BY <4>1, <4>2, <4>3, <4>4
    <3> QED BY <2>1, <3>1, <3>2
  <2>3. CASE j # k
    BY <2>1, <2>3
  <2> QED BY <2>2, <2>3
<1>12. ASSUME NEW a \in Actors, NEW k \in Keys, Update(a, k) PROVE CountOK(j)'
  <2>1. copy[S][k] \in Record /\ a = S /\ Pending(k)
    BY <1>12, ReplayedRecord DEF Update
  <2>2. CountOK(k) /\ at' = at /\ owner' = owner /\ tried' = tried
    BY <1>12 DEF Update
  <2>3. step' = [step EXCEPT ![S][k] = "none"] /\ copy' = [copy EXCEPT ![S][k] = None]
    BY <1>12 DEF Update, EndReplay
  <2>4. dlq' = Delete(dlq, k) \/ dlq' = Save(dlq, k, Retried(S, copy[S][k]))
    BY <1>12 DEF Update, AfterReplay
  <2>5. Retried(S, copy[S][k]).attempts = tried[k]
    BY <2>1, <2>2, RetriedIsRecord DEF Record
  <2> QED BY <2>1, <2>2, <2>3, <2>4, <2>5 DEF Delete, Save
<1>14. ASSUME NEW a \in Actors, Finish(a) PROVE CountOK(j)'
  BY <1>14 DEF Finish
<1>15. ASSUME NEW k \in Keys, Discard(k) PROVE CountOK(j)'
  BY <1>15 DEF Discard, Delete
<1>17. CASE UNCHANGED vars
  BY <1>17 DEF vars
<1> QED BY <1>00, <1>1, <1>2, <1>3, <1>4, <1>6, <1>7, <1>8, <1>10, <1>12, <1>14, <1>15, <1>17
        DEF Next, Run, LoadFails, UpdateFails, Crash, Replay

LEMMA CountInvariance == SchedulerAlone => (Spec => [](IInv /\ \A k \in Keys : CountOK(k)))
<1> SUFFICES ASSUME SchedulerAlone PROVE Spec => [](IInv /\ \A k \in Keys : CountOK(k))
  OBVIOUS
<1>1. Init => \A k \in Keys : CountOK(k)
  BY InitCountOK
<1>2. IInv /\ (\A k \in Keys : CountOK(k)) /\ [Next]_vars => (\A k \in Keys : CountOK(k))'
  BY StepCountOK
<1> QED BY <1>1, <1>2, Invariance, PTL DEF Spec

(* Attempts counts the replays made, for any number of records, removals   *)
(* and slots, when only the scheduler replays (dlq.go:39-41).              *)
THEOREM AttemptsAreReplays == SchedulerAlone => (Spec => []AttemptsExact)
<1> SUFFICES ASSUME SchedulerAlone PROVE Spec => []AttemptsExact
  OBVIOUS
<1>1. IInv /\ (\A k \in Keys : CountOK(k)) => AttemptsExact
  BY DEF AttemptsExact, CountOK, Written, Pending, Actors
<1> QED BY <1>1, CountInvariance, PTL

(* The scheduler alone replays no record more than DLQMaxAttempts times,   *)
(* removals by operators included (worker_dispatcher.go:317-360).          *)
THEOREM ReplaysBounded == SchedulerAlone => (Spec => []RetryBound)
<1> SUFFICES ASSUME SchedulerAlone PROVE Spec => []RetryBound
  OBVIOUS
<1>1. (\A k \in Keys : CountOK(k)) => RetryBound
  BY DEF RetryBound, CountOK
<1> QED BY <1>1, CountInvariance, PTL

-----------------------------------------------------------------------------
(* How the pauses add up when the scheduler is alone.                      *)

(* Sums exist: a function defined by recursion is the one that extends the *)
(* functions on 0 .. m which satisfy its equation.                         *)
LEMMA LeastNumber ==
  ASSUME NEW T \in SUBSET Nat, T # {}
  PROVE  \E m \in T : \A k \in T : ~ (k < m)
<1> DEFINE R == OpToRel(<, Nat)
<1>1. IsWellFoundedOn(R, Nat)
  BY NatLessThanWellFounded
<1>2. \A x, y \in Nat : x < y => <<x, y>> \in R
  BY DEF OpToRel
<1> HIDE DEF R
<1>3. \E x \in T : \A y \in T : ~ (<<y, x>> \in R)
  BY <1>1, WFMin
<1> QED BY <1>2, <1>3

SumsUpTo(m, a, c, h) ==
  /\ a \in [0 .. m -> Nat]
  /\ \A i \in 0 .. m : a[i] = IF i <= 1 THEN c ELSE a[i - 1] + h[i - 1]

(* Finite sums can be formed: the least m for which not cannot be 0, and a *)
(* sum up to m - 1 extends to m.                                           *)
LEMMA SumsExist ==
  ASSUME NEW c \in Nat, NEW h \in [Nat -> Nat], NEW m \in Nat
  PROVE  \E a : SumsUpTo(m, a, c, h)
<1> DEFINE T == {i \in Nat : ~ \E a : SumsUpTo(i, a, c, h)}
<1> SUFFICES ASSUME T # {} PROVE FALSE
  OBVIOUS
<1>1. PICK i \in T : \A k \in T : ~ (k < i)
  BY LeastNumber
<1>2. CASE i = 0
  <2>1. SumsUpTo(0, [j \in 0 .. 0 |-> c], c, h)
    BY DEF SumsUpTo
  <2> QED BY <1>1, <1>2, <2>1
<1>3. CASE i # 0
  <2>1. i - 1 \in Nat /\ i - 1 < i
    BY <1>1, <1>3
  <2>2. PICK a : SumsUpTo(i - 1, a, c, h)
    BY <1>1, <2>1
  <2> DEFINE x == IF i <= 1 THEN c ELSE a[i - 1] + h[i - 1]
             b == [j \in 0 .. i |-> IF j = i THEN x ELSE a[j]]
  <2>3. x \in Nat
    <3>1. i - 1 \in 0 .. i - 1
      BY <2>1
    <3>2. a \in [0 .. i - 1 -> Nat]
      BY <2>2 DEF SumsUpTo
    <3>3. a[i - 1] \in Nat /\ h[i - 1] \in Nat
      BY <2>1, <3>1, <3>2
    <3> QED BY <3>3
  <2> HIDE DEF x
  <2>4. b \in [0 .. i -> Nat]
    <3> SUFFICES ASSUME NEW j \in 0 .. i, j # i PROVE a[j] \in Nat
      BY <2>3
    <3>1. j \in 0 .. i - 1
      BY <1>1
    <3> QED BY <2>2, <3>1 DEF SumsUpTo
  <2>5. ASSUME NEW j \in 0 .. i PROVE b[j] = IF j <= 1 THEN c ELSE b[j - 1] + h[j - 1]
    <3>1. CASE j = i
      BY <2>1, <3>1 DEF x
    <3>2. CASE j # i
      <4>1. j \in 0 .. i - 1 /\ (j > 1 => j - 1 \in 0 .. i - 1 /\ j - 1 # i)
        BY <1>1, <3>2
      <4>2. a[j] = IF j <= 1 THEN c ELSE a[j - 1] + h[j - 1]
        BY <2>2, <4>1 DEF SumsUpTo
      <4>3. b[j] = a[j] /\ (j > 1 => b[j - 1] = a[j - 1])
        BY <1>1, <3>2, <4>1
      <4>4. CASE j <= 1
        BY <4>2, <4>3, <4>4
      <4>5. CASE ~ (j <= 1)
        BY <4>2, <4>3, <4>5
      <4> QED BY <4>4, <4>5
    <3> QED BY <3>1, <3>2
  <2>6. SumsUpTo(i, b, c, h)
    BY <2>4, <2>5 DEF SumsUpTo
  <2> QED BY <1>1, <2>6
<1> QED BY <1>2, <1>3

(* And in one way only.                                                    *)
LEMMA SumsAgree ==
  ASSUME NEW c \in Nat, NEW h \in [Nat -> Nat], NEW m \in Nat, NEW n \in Nat, m <= n,
         NEW a, SumsUpTo(m, a, c, h), NEW b, SumsUpTo(n, b, c, h), NEW i \in 0 .. m
  PROVE  a[i] = b[i]
<1> DEFINE T == {j \in 0 .. m : a[j] # b[j]}
<1> SUFFICES ASSUME T # {} PROVE FALSE
  OBVIOUS
<1>0. T \in SUBSET Nat
  OBVIOUS
<1> HIDE DEF T
<1>1. PICK j \in T : \A k \in T : ~ (k < j)
  BY <1>0, LeastNumber
<1> USE DEF T
<1>2. j \in Nat /\ j \in 0 .. m /\ j \in 0 .. n
  BY <1>1
<1>22. /\ a[j] = IF j <= 1 THEN c ELSE a[j - 1] + h[j - 1]
       /\ b[j] = IF j <= 1 THEN c ELSE b[j - 1] + h[j - 1]
  BY <1>2 DEF SumsUpTo
<1>3. CASE j <= 1
  BY <1>1, <1>22, <1>3
<1>4. CASE ~ (j <= 1)
  <2>1. j - 1 \in 0 .. m /\ j - 1 < j
    BY <1>2, <1>4
  <2>2. a[j - 1] = b[j - 1]
    BY <1>1, <2>1
  <2> QED BY <1>1, <1>22, <1>4, <2>2
<1> QED BY <1>3, <1>4

(* Together they are a function on all numbers.                            *)
LEMMA SumFunction ==
  ASSUME NEW c \in Nat, NEW h \in [Nat -> Nat]
  PROVE  \E g \in [Nat -> Nat] : g = [n \in Nat |-> IF n <= 1 THEN c ELSE g[n - 1] + h[n - 1]]
<1> DEFINE A(n) == CHOOSE a : SumsUpTo(n, a, c, h)
           g == [n \in Nat |-> A(n)[n]]
<1>1. \A n \in Nat : SumsUpTo(n, A(n), c, h)
  BY SumsExist
<1> HIDE DEF A
<1>2. g \in [Nat -> Nat]
  BY <1>1 DEF SumsUpTo
<1>3. ASSUME NEW n \in Nat PROVE g[n] = IF n <= 1 THEN c ELSE g[n - 1] + h[n - 1]
  <2>1. A(n)[n] = IF n <= 1 THEN c ELSE A(n)[n - 1] + h[n - 1]
    BY <1>1 DEF SumsUpTo
  <2>2. CASE n <= 1
    BY <2>1, <2>2
  <2>3. CASE ~ (n <= 1)
    <3>1. n - 1 \in Nat /\ n - 1 <= n /\ n - 1 \in 0 .. n - 1
      BY <2>3
    <3>2. A(n - 1)[n - 1] = A(n)[n - 1]
      BY <1>1, <3>1, SumsAgree
    <3> QED BY <2>1, <2>3, <3>1, <3>2
  <2> QED BY <2>2, <2>3
<1> HIDE DEF g
<1>4. g = [n \in Nat |-> IF n <= 1 THEN c ELSE g[n - 1] + h[n - 1]]
  BY <1>2, <1>3
<1> QED BY <1>2, <1>4

(* The pause announced for the n-th failed replay is the one the code      *)
(* makes: eight doublings at most, up to MaxBackoff.                       *)
LEMMA AnnouncedIsDoubled ==
  ASSUME NEW n \in Nat \ {0}
  PROVE  /\ Announced(n) = Doubled(n) /\ Doubled(n) \in Nat
         /\ (IF Announced(n) < MaxBackoff THEN Announced(n) ELSE MaxBackoff) = Backoff(n)
         /\ Backoff(n) \in Nat
<1> DEFINE e == IF n > 9 THEN 8 ELSE n - 1
<1>1. e \in 0 .. 8 /\ Doublings(n) = e
  BY DEF Doublings
<1>2. 2 ^ e = PowersOfTwo[e + 1]
  <2> HIDE DEF e
  <2>1. CASE e = 0
    <3>1. 2 ^ 0 = 1 /\ PowersOfTwo[0 + 1] = 1
      BY DEF PowersOfTwo
    <3> QED BY <2>1, <3>1, Zenon
  <2>2. CASE e = 1
    <3>1. 2 ^ 1 = 2 /\ PowersOfTwo[1 + 1] = 2
      BY DEF PowersOfTwo
    <3> QED BY <2>2, <3>1, Zenon
  <2>3. CASE e = 2
    <3>1. 2 ^ 2 = 4 /\ PowersOfTwo[2 + 1] = 4
      BY DEF PowersOfTwo
    <3> QED BY <2>3, <3>1, Zenon
  <2>4. CASE e = 3
    <3>1. 2 ^ 3 = 8 /\ PowersOfTwo[3 + 1] = 8
      BY DEF PowersOfTwo
    <3> QED BY <2>4, <3>1, Zenon
  <2>5. CASE e = 4
    <3>1. 2 ^ 4 = 16 /\ PowersOfTwo[4 + 1] = 16
      BY DEF PowersOfTwo
    <3> QED BY <2>5, <3>1, Zenon
  <2>6. CASE e = 5
    <3>1. 2 ^ 5 = 32 /\ PowersOfTwo[5 + 1] = 32
      BY DEF PowersOfTwo
    <3> QED BY <2>6, <3>1, Zenon
  <2>7. CASE e = 6
    <3>1. 2 ^ 6 = 64 /\ PowersOfTwo[6 + 1] = 64
      BY DEF PowersOfTwo
    <3> QED BY <2>7, <3>1, Zenon
  <2>8. CASE e = 7
    <3>1. 2 ^ 7 = 128 /\ PowersOfTwo[7 + 1] = 128
      BY DEF PowersOfTwo
    <3> QED BY <2>8, <3>1, Zenon
  <2>9. CASE e = 8
    <3>1. 2 ^ 8 = 256 /\ PowersOfTwo[8 + 1] = 256
      BY DEF PowersOfTwo
    <3> QED BY <2>9, <3>1, Zenon
  <2> QED BY <1>1, <2>1, <2>2, <2>3, <2>4, <2>5, <2>6, <2>7, <2>8, <2>9
<1>3. Announced(n) = Doubled(n)
  BY <1>1, <1>2 DEF Announced, Doubled
<1>4. Doubled(n) \in Nat
  BY DoubledIsNat
<1> QED BY <1>3, <1>4, DeadLettersAssumption DEF Backoff

(* So Earliest is what its equation says, and grows by the pause made.     *)
LEMMA EarliestUnfolds ==
  /\ Earliest[1] = CoolingOff
  /\ \A n \in Nat \ {0} : /\ Earliest[n] \in Nat
                          /\ Earliest[n + 1] = Earliest[n] + Backoff(n)
<1> DEFINE Capped(n) == IF Announced(n) < MaxBackoff THEN Announced(n) ELSE MaxBackoff
           h == [n \in Nat |-> IF n = 0 THEN 0 ELSE Backoff(n)]
           Eq(g) == g = [n \in Nat |-> IF n <= 1 THEN CoolingOff ELSE g[n - 1] + Capped(n - 1)]
<1>1. h \in [Nat -> Nat]
  BY AnnouncedIsDoubled
<1> HIDE DEF h
<1>2. PICK g \in [Nat -> Nat] : g = [n \in Nat |-> IF n <= 1 THEN CoolingOff ELSE g[n - 1] + h[n - 1]]
  <2>1. CoolingOff \in Nat
    BY DeadLettersAssumption
  <2> QED BY <1>1, <2>1, SumFunction
<1>3. \A n \in Nat \ {0} : Capped(n) = Backoff(n) /\ Capped(n) \in Nat
  BY AnnouncedIsDoubled
<1> HIDE DEF Capped
<1>4. Eq(g)
  <2>1. ASSUME NEW n \in Nat, ~ (n <= 1) PROVE h[n - 1] = Capped(n - 1)
    <3>1. n - 1 \in Nat \ {0}
      BY <2>1
    <3> QED BY <1>3, <2>1, <3>1 DEF h
  <2> QED BY <1>2, <2>1
<1>5. Eq(Earliest)
  <2>1. Earliest = CHOOSE f : Eq(f)
    BY DEF Earliest, Capped
  <2> HIDE DEF Eq
  <2> QED BY <1>4, <2>1
<1>6. \A n \in Nat : Earliest[n] = IF n <= 1 THEN CoolingOff ELSE Earliest[n - 1] + Capped(n - 1)
  BY <1>5
<1>7. ASSUME NEW n \in Nat PROVE Earliest[n] \in Nat
  <2> DEFINE T == {i \in Nat : Earliest[i] \notin Nat}
  <2> SUFFICES ASSUME T # {} PROVE FALSE
    OBVIOUS
  <2>1. PICK i \in T : \A k \in T : ~ (k < i)
    BY LeastNumber
  <2>2. ~ (i <= 1)
    BY <1>6, <2>1, DeadLettersAssumption
  <2>3. i - 1 \in Nat \ {0} /\ i - 1 < i
    BY <2>1, <2>2
  <2>4. Earliest[i - 1] \in Nat
    BY <2>1, <2>3
  <2>5. Capped(i - 1) \in Nat
    BY <1>3, <2>3
  <2> QED BY <1>6, <2>1, <2>2, <2>4, <2>5
<1>8. Earliest[1] = CoolingOff
  BY <1>6
<1>9. ASSUME NEW n \in Nat \ {0} PROVE Earliest[n + 1] = Earliest[n] + Backoff(n)
  <2>1. n + 1 \in Nat /\ ~ (n + 1 <= 1) /\ n + 1 - 1 = n
    OBVIOUS
  <2>2. Earliest[n + 1] = Earliest[n + 1 - 1] + Capped(n + 1 - 1)
    BY <1>6, <2>1
  <2> QED BY <1>3, <2>1, <2>2
<1> QED BY <1>7, <1>8, <1>9

(* The time left until the replay after the ones r counts brings it to     *)
(* where that replay may be, or age has ceased to count.                   *)
Late(g, r) == g + r.wait >= Earliest[r.attempts + 1] \/ g = MaxAge

(* So it is of a record and of the copy the scheduler has of it, which was *)
(* due if it is being replayed; and replays made were not early.           *)
PauseOK(k) ==
  /\ owner[k] = None => age[k] = 0
  /\ Has(dlq, k) => Late(age[k], dlq[k])
  /\ step[Scheduler][k] \in {"loaded", "posting"} => Late(age[k], copy[Scheduler][k])
  /\ step[Scheduler][k] = "posting" => Due(copy[Scheduler][k])
  /\ tried[k] > 0 => age[k] >= Earliest[tried[k]] \/ age[k] = MaxAge

(* At first nothing is stored.                                             *)
LEMMA InitPauseOK == ASSUME Init, NEW k \in Keys PROVE PauseOK(k)
BY DEF Init, PauseOK, Has, EmptyBucket, Actors

(* More age is as good.                                                    *)
LEMMA LateStays ==
  ASSUME NEW r \in Record, NEW g \in 0 .. MaxAge, NEW h \in 0 .. MaxAge, g <= h, Late(g, r)
  PROVE  Late(h, r)
<1>1. r.wait \in Nat /\ r.attempts + 1 \in Nat \ {0} /\ MaxAge \in Nat
  BY DeadLettersAssumption DEF Record
<1>2. Earliest[r.attempts + 1] \in Nat
  BY <1>1, EarliestUnfolds
<1> QED BY <1>1, <1>2 DEF Late

(* A unit of time takes from the wait what it adds to the age.             *)
LEMMA ElapsePauseOK ==
  ASSUME IInv, Elapse, NEW j \in Keys, PauseOK(j)
  PROVE  PauseOK(j)'
<1>1. /\ UNCHANGED <<step, copy, owner, tried>>
      /\ age'[j] = IF owner[j] # None /\ age[j] < MaxAge THEN age[j] + 1 ELSE age[j]
      /\ dlq'[j] = Older(dlq[j])
  BY DEF Elapse
<1>2. TypeOK /\ RecordOK(j) /\ MaxAge \in Nat /\ CopyOK(Scheduler, j) /\ Scheduler \in Actors
  BY DeadLettersAssumption DEF IInv, Actors
<1>3. age[j] \in 0 .. MaxAge /\ age'[j] \in 0 .. MaxAge /\ age[j] <= age'[j]
      /\ (age[j] = MaxAge => age'[j] = MaxAge)
      /\ (owner[j] # None => age'[j] = age[j] + 1 \/ age'[j] = MaxAge)
      /\ (owner[j] = None => age'[j] = age[j])
  <2>1. age[j] \in 0 .. MaxAge
    BY <1>2 DEF TypeOK
  <2>2. CASE owner[j] # None /\ age[j] < MaxAge
    <3>1. age'[j] = age[j] + 1
      BY <1>1, <2>2
    <3> QED BY <1>2, <2>1, <2>2, <3>1
  <2>3. CASE ~ (owner[j] # None /\ age[j] < MaxAge)
    <3>1. age'[j] = age[j]
      BY <1>1, <2>3
    <3> QED BY <1>2, <2>1, <2>3, <3>1
  <2> QED BY <2>2, <2>3
<1>4. ASSUME Has(dlq, j)' PROVE Late(age'[j], dlq'[j])
  <2>1. Has(dlq, j) /\ dlq[j] \in Record /\ dlq'[j] \in Record /\ Late(age[j], dlq[j])
    BY <1>2, <1>4, ElapseFacts DEF TypeOK, Bucket, Has, PauseOK
  <2>2. CASE Due(dlq[j])
    <3>1. dlq'[j] = dlq[j]
      BY <1>1, <2>2 DEF Older
    <3> QED BY <1>3, <2>1, <3>1, LateStays
  <2>3. CASE ~ Due(dlq[j])
    <3>1. dlq'[j] = [dlq[j] EXCEPT !.wait = dlq[j].wait - 1]
      BY <1>1, <2>1, <2>3, DeadLettersAssumption DEF Older
    <3>2. /\ dlq'[j].wait = dlq[j].wait - 1 /\ dlq'[j].attempts = dlq[j].attempts
          /\ dlq[j].wait \in Nat /\ dlq[j].attempts + 1 \in Nat \ {0}
      BY <2>1, <3>1 DEF Record
    <3>3. owner[j] # None
      BY <1>2, <2>1, DeadLettersAssumption DEF RecordOK, Record
    <3>4. Earliest[dlq[j].attempts + 1] \in Nat
      BY <3>2, EarliestUnfolds
    <3> QED BY <1>3, <2>1, <3>2, <3>3, <3>4 DEF Late
  <2> QED BY <2>2, <2>3
<1>5. ASSUME step[Scheduler][j] \in {"loaded", "posting"} PROVE Late(age'[j], copy[Scheduler][j])
  <2>1. copy[Scheduler][j] \in Record
    BY <1>2, <1>5, ReplayedRecord
  <2> QED BY <1>3, <1>5, <2>1, LateStays DEF PauseOK
<1>6. ASSUME tried[j] > 0 PROVE age'[j] >= Earliest[tried[j]] \/ age'[j] = MaxAge
  <2>1. tried[j] \in Nat \ {0}
    BY <1>2, <1>6 DEF TypeOK
  <2>2. Earliest[tried[j]] \in Nat
    BY <2>1, EarliestUnfolds
  <2> QED BY <1>3, <1>6, <2>2 DEF PauseOK
<1> QED BY <1>1, <1>3, <1>4, <1>5, <1>6 DEF PauseOK

(* A replay that failed adds to the wait what Earliest grows by.           *)
LEMMA StepPauseOK ==
  ASSUME SchedulerAlone, IInv, \A k \in Keys : CountOK(k), [Next]_vars,
         NEW j \in Keys, PauseOK(j)
  PROVE  PauseOK(j)'
<1> DEFINE S == Scheduler
<1>0. TypeOK /\ S \in Actors /\ (\A a \in Actors : a = S) /\ ~ Fault /\ CountOK(j)
      /\ CopyOK(S, j) /\ RecordOK(j)
  BY DeadLettersAssumption DEF IInv, Actors, SchedulerAlone, TypeOK, Fault
<1> USE <1>0 DEF TypeOK, Bucket, Has, PauseOK
<1>1. ASSUME NEW l \in Letters, NEW k \in Keys, Bury(l, k) PROVE PauseOK(j)'
  <2>1. /\ owner[k] = None /\ owner' = [owner EXCEPT ![k] = l]
        /\ dlq' = [dlq EXCEPT ![k] = NewRecord(l)]
        /\ UNCHANGED <<step, copy, tried, age>>
    BY <1>1 DEF Bury, Save
  <2>2. CASE j # k
    BY <2>1, <2>2
  <2>3. CASE j = k
    <3>1. tried[j] = 0 /\ age[j] = 0 /\ step[S][j] \notin {"loaded", "posting"}
      BY <2>1, <2>3, DeadLettersAssumption DEF CountOK, CopyOK, Record
    <3>2. dlq'[j] = NewRecord(l) /\ NewRecord(l).attempts = 0 /\ NewRecord(l).wait = CoolingOff
      BY <2>1, <2>3 DEF NewRecord
    <3>3. Late(0, NewRecord(l))
      <4>1. 0 + CoolingOff >= Earliest[0 + 1]
        BY EarliestUnfolds, DeadLettersAssumption
      <4> QED BY <3>2, <4>1 DEF Late
    <3> QED BY <2>1, <2>3, <3>1, <3>2, <3>3, DeadLettersAssumption
  <2> QED BY <2>2, <2>3
<1>2. ASSUME Elapse PROVE PauseOK(j)'
  BY <1>2, ElapsePauseOK
<1>3. ASSUME NEW a \in Actors, ListKeys(a) PROVE PauseOK(j)'
  BY <1>3 DEF ListKeys
<1>4. ASSUME NEW a \in Actors, NEW k \in Keys, LoadKey(a, k) PROVE PauseOK(j)'
  BY <1>4 DEF LoadKey
<1>5. ASSUME NEW a \in Actors, NEW k \in Keys, Skip(a, k) PROVE PauseOK(j)'
  BY <1>5 DEF Skip
<1>6. ASSUME NEW a \in Actors, NEW k \in Keys, Spawn(a, k) PROVE PauseOK(j)'
  BY <1>6 DEF Spawn, Eligible
<1>7. ASSUME NEW a \in Actors, NEW k \in Keys, PostSucceeds(a, k) \/ PostFails(a, k) PROVE PauseOK(j)'
  <2>1. /\ a = S /\ step[S][k] = "posting" /\ UNCHANGED <<dlq, copy, owner, age>>
        /\ tried' = [tried EXCEPT ![k] = @ + 1]
        /\ \E s \in {"acked", "failed"} : step' = [step EXCEPT ![S][k] = s]
    BY <1>7 DEF PostSucceeds, PostFails
  <2>2. CASE j # k
    BY <2>1, <2>2
  <2>3. CASE j = k
    <3> DEFINE r == copy[S][j]
    <3>1. r \in Record /\ Late(age[j], r) /\ Due(r)
      BY <2>1, <2>3, ReplayedRecord
    <3>2. r.attempts = tried[j] /\ tried[j] \in Nat
      BY <2>1, <2>3, <3>1, DeadLettersAssumption DEF CountOK, Written, Pending
    <3>3. tried'[j] = r.attempts + 1 /\ step'[S][j] \notin {"loaded", "posting"}
      BY <2>1, <2>3, <3>2
    <3>4. age[j] + 0 >= Earliest[tried'[j]] \/ age[j] = MaxAge
      BY <3>1, <3>3 DEF Late, Due
    <3>5. age[j] + 0 = age[j]
      BY DeadLettersAssumption
    <3> HIDE DEF r
    <3> QED BY <2>1, <3>3, <3>4, <3>5
  <2> QED BY <2>2, <2>3
<1>8. ASSUME NEW a \in Actors, NEW k \in Keys, Update(a, k) PROVE PauseOK(j)'
  <2>1. /\ a = S /\ Pending(k) /\ UNCHANGED <<owner, tried, age>>
        /\ step' = [step EXCEPT ![S][k] = "none"] /\ copy' = [copy EXCEPT ![S][k] = None]
        /\ dlq' = Delete(dlq, k) \/ dlq' = Save(dlq, k, Retried(S, copy[S][k]))
    BY <1>8 DEF Update, EndReplay, AfterReplay, Pending
  <2>2. CASE j # k
    BY <2>1, <2>2 DEF Delete, Save
  <2>3. CASE j = k
    <3> DEFINE r == Retried(S, copy[S][j])
    <3>1. step'[S][j] \notin {"loaded", "posting"} /\ (dlq'[j] = None \/ dlq'[j] = r)
      BY <2>1, <2>3 DEF Delete, Save
    <3>2. copy[S][j] \in Record
      BY <2>1, <2>3, ReplayedRecord DEF Pending
    <3>3. copy[S][j].attempts \in Nat /\ copy[S][j].attempts = tried[j] - 1 /\ tried[j] \in Nat
      BY <2>1, <2>3, <3>2, DeadLettersAssumption DEF CountOK, Written, Record
    <3>4. tried[j] \in Nat \ {0} /\ copy[S][j].attempts + 1 = tried[j]
      BY <3>3
    <3>5. r.attempts = tried[j] /\ r.wait = Backoff(tried[j])
      BY <3>4 DEF Retried, Pause
    <3>6. age[j] >= Earliest[tried[j]] \/ age[j] = MaxAge
      BY <3>4
    <3>7. /\ Earliest[tried[j]] \in Nat /\ Backoff(tried[j]) \in Nat
          /\ Earliest[tried[j] + 1] = Earliest[tried[j]] + Backoff(tried[j])
      BY <3>4, EarliestUnfolds, AnnouncedIsDoubled
    <3>8. age[j] \in Nat
      BY DeadLettersAssumption
    <3> HIDE DEF r
    <3>9. Late(age[j], r)
      BY <3>5, <3>6, <3>7, <3>8 DEF Late
    <3> QED BY <2>1, <3>1, <3>9
  <2> QED BY <2>2, <2>3
<1>9. ASSUME NEW k \in Keys, Discard(k) PROVE PauseOK(j)'
  BY <1>9 DEF Discard, Delete
<1>10. CASE UNCHANGED <<dlq, step, copy, owner, tried, age>>
  BY <1>10
<1>11. \/ Elapse
       \/ \E l \in Letters, k \in Keys : Bury(l, k)
       \/ \E a \in Actors : ListKeys(a)
       \/ \E a \in Actors, k \in Keys :
            \/ LoadKey(a, k) \/ Skip(a, k) \/ Spawn(a, k) \/ Update(a, k)
            \/ PostSucceeds(a, k) \/ PostFails(a, k)
       \/ \E k \in Keys : Discard(k)
       \/ UNCHANGED <<dlq, step, copy, owner, tried, age>>
  BY <1>0 DEF Next, Run, LoadFails, UpdateFails, Crash, Replay, Loaded, Finish, vars
<1> QED BY <1>1, <1>2, <1>3, <1>4, <1>5, <1>6, <1>7, <1>8, <1>9, <1>10, <1>11

(* The n-th replay of a record by the scheduler alone comes no earlier     *)
(* than the cooling-off of the burst and the n - 1 announced pauses after  *)
(* it, for any number of records and slots and whatever the order of       *)
(* passes, goroutines and the clock (worker_dispatcher.go:329-377).        *)
THEOREM PausesAddUp == SchedulerAlone => (Spec => []BackoffAddsUp)
<1> DEFINE Counts == \A k \in Keys : CountOK(k)
           Pauses == \A k \in Keys : PauseOK(k)
<1> SUFFICES ASSUME SchedulerAlone PROVE Spec => []BackoffAddsUp
  OBVIOUS
<1>1. Init => Pauses
  BY InitPauseOK
<1>2. IInv /\ Counts /\ Pauses /\ [Next]_vars => Pauses'
  BY StepPauseOK
<1>3. Pauses => BackoffAddsUp
  BY DEF PauseOK, BackoffAddsUp
<1>4. Spec => [](IInv /\ Counts)
  BY CountInvariance
<1> QED BY <1>1, <1>2, <1>3, <1>4, PTL DEF Spec


(* A copy the scheduler has loaded is as old as the record, or older.      *)
CopyWaits(k) ==
  step[Scheduler][k] = "loaded" /\ Has(dlq, k) /\ Due(copy[Scheduler][k]) => Due(dlq[k])

LEMMA StepCopyWaits ==
  ASSUME SchedulerAlone, IInv, [Next]_vars, NEW j \in Keys, CopyWaits(j)
  PROVE  CopyWaits(j)'
<1> DEFINE S == Scheduler
<1>0. TypeOK /\ S \in Actors /\ (\A a \in Actors : a = S) /\ ~ Fault
  BY DeadLettersAssumption DEF IInv, Actors, SchedulerAlone, TypeOK, Fault
<1> USE <1>0 DEF TypeOK, Bucket, Has, CopyWaits, Due
<1>1. ASSUME NEW l \in Letters, NEW k \in Keys, Bury(l, k) PROVE CopyWaits(j)'
  <2>1. step[S][k] # "loaded"
    BY <1>1, DeadLettersAssumption DEF IInv, CopyOK, Bury, Record
  <2> QED BY <1>1, <2>1 DEF Bury, Save
<1>2. ASSUME Elapse PROVE CopyWaits(j)'
  <2>1. UNCHANGED <<step, copy>> /\ dlq'[j] = Older(dlq[j])
    BY <1>2 DEF Elapse
  <2>2. Has(dlq, j)' => Has(dlq, j)
    BY <1>2, ElapseFacts
  <2> QED BY <2>1, <2>2 DEF Older
<1>3. ASSUME NEW a \in Actors, ListKeys(a) PROVE CopyWaits(j)'
  BY <1>3 DEF ListKeys
<1>4. ASSUME NEW a \in Actors, NEW k \in Keys, LoadKey(a, k) PROVE CopyWaits(j)'
  BY <1>4 DEF LoadKey
<1>5. ASSUME NEW a \in Actors, NEW k \in Keys,
             Skip(a, k) \/ Spawn(a, k) \/ PostSucceeds(a, k) \/ PostFails(a, k)
      PROVE  CopyWaits(j)'
  BY <1>5 DEF Skip, Spawn, PostSucceeds, PostFails
<1>6. ASSUME NEW a \in Actors, NEW k \in Keys, Update(a, k) PROVE CopyWaits(j)'
  BY <1>6 DEF Update, EndReplay, AfterReplay, Save, Delete
<1>7. ASSUME NEW k \in Keys, Discard(k) PROVE CopyWaits(j)'
  BY <1>7 DEF Discard, Delete
<1>8. CASE UNCHANGED <<dlq, step, copy>>
  BY <1>8
<1>9. \/ Elapse
      \/ \E l \in Letters, k \in Keys : Bury(l, k)
      \/ \E a \in Actors : ListKeys(a)
      \/ \E a \in Actors, k \in Keys : LoadKey(a, k)
      \/ \E a \in Actors, k \in Keys :
           Skip(a, k) \/ Spawn(a, k) \/ PostSucceeds(a, k) \/ PostFails(a, k)
      \/ \E a \in Actors, k \in Keys : Update(a, k)
      \/ \E k \in Keys : Discard(k)
      \/ UNCHANGED <<dlq, step, copy>>
  BY <1>0 DEF Next, Run, LoadFails, UpdateFails, Crash, Replay, Loaded, Finish, vars
<1> QED BY <1>1, <1>2, <1>3, <1>4, <1>5, <1>6, <1>7, <1>8, <1>9

(* The scheduler alone posts no record that is cooling off in the store,   *)
(* although it decides on a copy (worker_dispatcher.go:300-315).           *)
THEOREM CoolingOffHolds == SchedulerAlone => (Spec => CoolingOffRespected)
<1> DEFINE Waits == \A k \in Keys : CopyWaits(k)
<1> SUFFICES ASSUME SchedulerAlone PROVE Spec => CoolingOffRespected
  OBVIOUS
<1>1. Init => Waits
  BY DEF Init, CopyWaits, Has, EmptyBucket
<1>2. IInv /\ Waits /\ [Next]_vars => Waits'
  BY StepCopyWaits
<1>3. IInv /\ Waits /\ [Next]_vars =>
        [\A k \in Keys :
           step[Scheduler][k] = "loaded" /\ step'[Scheduler][k] = "posting" /\ Has(dlq, k)
             => Due(dlq[k])]_vars
  <2> SUFFICES ASSUME IInv, Waits, Next, NEW k \in Keys, step[Scheduler][k] = "loaded",
                      step'[Scheduler][k] = "posting", Has(dlq, k)
               PROVE  Due(dlq[k])
    BY DEF vars
  <2>1. TypeOK /\ (\A a \in Actors : a = Scheduler) /\ Scheduler \in Actors
    BY DEF IInv, Actors, SchedulerAlone
  <2>2. Spawn(Scheduler, k)
    BY <2>1 DEF Next, Run, Bury, Elapse, ListKeys, LoadKey, LoadFails, Loaded, Skip, Spawn, Replay,
                PostSucceeds, PostFails, Update, UpdateFails, EndReplay, Finish, Discard, Crash, TypeOK
  <2> QED BY <2>2 DEF Spawn, Eligible, CopyWaits
<1> QED BY <1>1, <1>2, <1>3, Invariance, PTL DEF Spec, CoolingOffRespected

(* Pauses never shrink and stay within MaxBackoff; where MaxBackoff is 256 *)
(* cooling-offs or more they stop at 256 and MaxBackoff is never reached,  *)
(* as with the defaults: 256 times five minutes is less than the 24 hours  *)
(* that worker_dispatcher.go:353 announces.                                *)
THEOREM BackoffShape ==
  ASSUME NEW n \in Nat \ {0}
  PROVE  /\ Backoff(n) \in 0 .. MaxBackoff
         /\ Backoff(n) <= Backoff(n + 1)
         /\ 256 * CoolingOff <= MaxBackoff => Backoff(n) <= 256 * CoolingOff
<1>1. Doubled(n) \in Nat /\ Doubled(n + 1) \in Nat /\ Doubled(n) <= 256 * CoolingOff
  <2>1. Doubled(n) \in Nat /\ Doubled(n + 1) \in Nat
    BY DoubledIsNat
  <2>2. PICK i \in 0 .. 8 : /\ Doubled(n) = CoolingOff * PowersOfTwo[i + 1]
                            /\ PowersOfTwo[i + 1] \in 1 .. 256
    BY DoubledIsNat
  <2>3. CoolingOff * PowersOfTwo[i + 1] <= CoolingOff * 256
    BY <2>2, Products, DeadLettersAssumption
  <2>4. CoolingOff * 256 = 256 * CoolingOff
    BY DeadLettersAssumption
  <2> QED BY <2>1, <2>2, <2>3, <2>4
<1>2. Doubled(n) <= Doubled(n + 1)
  <2>1. \A i, j \in 0 .. 8 : i <= j => PowersOfTwo[i + 1] <= PowersOfTwo[j + 1]
    BY DEF PowersOfTwo
  <2>2. Doublings(n) \in 0 .. 8 /\ Doublings(n + 1) \in 0 .. 8 /\ Doublings(n) <= Doublings(n + 1)
    BY DEF Doublings
  <2>3. PowersOfTwo[Doublings(n) + 1] <= PowersOfTwo[Doublings(n + 1) + 1]
    BY <2>1, <2>2
  <2>4. \A i \in 0 .. 8 : PowersOfTwo[i + 1] \in Nat
    BY DEF PowersOfTwo
  <2> QED BY <2>2, <2>3, <2>4, Products, DeadLettersAssumption DEF Doubled
<1> QED BY <1>1, <1>2, DeadLettersAssumption DEF Backoff

=============================================================================
