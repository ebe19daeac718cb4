------------------------- MODULE SitePipelineProofs -------------------------
(***************************************************************************)
(* What holds of the requests to sites for every number of requests, sites *)
(* and restarts: the audit trail is true and complete, events tell of what *)
(* is in it, refused requests leave nothing, and stores in use are open.   *)
(***************************************************************************)
EXTENDS SitePipeline, TLAPS

HasEntry(r) == \E s \in Sites : \E e \in trail[s] : e.of = r

(* Of one request: what its place says of its operation, of its answer and *)
(* of what it leaves.                                                      *)
RequestOK(r) ==
  /\ op[r] = None <=> pc[r] = "idle"
  /\ pc[r] \in {"opening", "config", "auth", "handler"} => op[r].site \in Sites
  /\ pc[r] \in {"idle", "resolve", "opening", "config", "auth", "handler"} =>
       answer[r] = None
  /\ pc[r] = "handler" => ~ Refused(op[r])
  /\ pc[r] = "done" => answer[r] # None
  /\ pc[r] \in {"audit", "dispatch"} =>
       answer[r] # None /\ answer[r].by = "handler" /\ Mutating(op[r])
  /\ answer[r] # None /\ answer[r].by = "handler" =>
       op[r].site \in Sites /\ ~ Refused(op[r])

TracesOK(r) ==
  /\ answer[r] = None \/ answer[r].by # "handler" \/ pc[r] = "audit" => ~ HasEntry(r)
  /\ answer[r] = None \/ answer[r].by # "handler" => key[r] = None /\ r \notin sent
  /\ r \in sent => HasEntry(r) \/ r \in unaudited
  /\ pc[r] \in {"dispatch", "done"} /\ answer[r] # None /\ answer[r].by = "handler"
       /\ Mutating(op[r]) => HasEntry(r) \/ r \in unaudited

(* Of one entry.  Keys grow: no later entry takes the key of an earlier.   *)
EntryOK(s, e) ==
  /\ op[e.of] # None /\ op[e.of].site = s /\ Mutating(op[e.of])
  /\ answer[e.of] = [by |-> "handler", code |-> e.status]
  /\ e.key[1] <= now
  /\ mode # "down" /\ e.key[1] = now => e.key[2] <= seq
  /\ \A f \in trail[s] : f.of = e.of => f = e

Cached == \A s \in stores : file[s] = "here"

DownIsEmpty == mode = "down" => \A r \in Requests : ~ InFlight(r)

IInv ==
  /\ TypeOK
  /\ \A r \in Requests : RequestOK(r)
  /\ \A r \in Requests : TracesOK(r)
  /\ \A s \in Sites : \A e \in trail[s] : EntryOK(s, e)
  /\ Cached
  /\ DownIsEmpty
  /\ StoresLive

-----------------------------------------------------------------------------
(* Types.                                                                  *)

LEMMA InitIInv == ASSUME Init PROVE IInv
<1>1. TypeOK
  BY PipelineAssumption DEF Init, TypeOK, Times, Places
<1>2. ASSUME NEW r \in Requests PROVE RequestOK(r) /\ TracesOK(r)
  BY DEF Init, RequestOK, TracesOK, HasEntry
<1>3. (\A s \in Sites : \A e \in trail[s] : EntryOK(s, e)) /\ Cached /\ DownIsEmpty /\ StoresLive
  BY DEF Init, Cached, DownIsEmpty, StoresLive
<1> QED BY <1>1, <1>2, <1>3 DEF IInv

LEMMA AnswerType ==
  ASSUME TypeOK, NEW r \in Requests, NEW who \in {"site", "auth", "handler"},
         NEW status \in Codes, Answer(r, who, status)
  PROVE  answer' \in [Requests -> Answers \cup {None}]
<1>1. [by |-> who, code |-> status] \in Answers
  BY DEF Answers
<1> QED BY <1>1 DEF Answer, TypeOK

LEMMA GotoType ==
  ASSUME TypeOK, NEW r \in Requests, NEW place \in Places, Goto(r, place)
  PROVE  pc' \in [Requests -> Places]
BY DEF Goto, TypeOK

LEMMA EntryType ==
  ASSUME TypeOK, NEW r \in Requests, answer[r] # None
  PROVE  Entry(r) \in Entries
<1>1. <<now, seq + 1>> \in Times \X Nat /\ answer[r].code \in Codes
  BY DEF TypeOK, Answers
<1> QED BY <1>1 DEF Entry, Entries, AuditKey, RecordedStatus

LEMMA StepTypeOK == ASSUME IInv, [Next]_vars PROVE TypeOK'
<1>0. TypeOK /\ (\A r \in Requests : RequestOK(r)) /\ (\A r \in Requests : op[r] # None => op[r] \in Op)
  BY DEF IInv, TypeOK
<1> USE PipelineAssumption, <1>0 DEF process, data, history
<1>1. ASSUME NEW r \in Requests, NEW o \in Ops, Arrive(r, o) PROVE TypeOK'
  <2>1. o \in Op
    OBVIOUS
  <2> QED BY <1>1, <2>1, GotoType DEF Arrive, TypeOK, Places
<1>2. ASSUME NEW r \in Requests, Unresolved(r) \/ OpenRefused(r) \/ ConfigFails(r) \/ Refuse(r)
      PROVE  TypeOK'
  <2>1. /\ Answer(r, "site", 404) \/ Answer(r, "site", 500) \/ Answer(r, "auth", 401)
        /\ Goto(r, "done") /\ UNCHANGED <<mode, now, op, key, process, data, history>>
    BY <1>2 DEF Unresolved, OpenRefused, ConfigFails, Refuse
  <2>2. answer' \in [Requests -> Answers \cup {None}]
    BY <2>1, AnswerType DEF Codes
  <2> QED BY <2>1, <2>2, GotoType DEF TypeOK, Places
<1>3. ASSUME NEW r \in Requests, FindStore(r) \/ LoadConfig(r) \/ Allow(r) PROVE TypeOK'
  BY <1>3, GotoType DEF FindStore, LoadConfig, Allow, TypeOK, Places
<1>4. ASSUME NEW r \in Requests, StartOpen(r) PROVE TypeOK'
  BY <1>4, GotoType DEF StartOpen, TypeOK, Places
<1>5. ASSUME NEW r \in Requests, OpenSucceeds(r) PROVE TypeOK'
  <2>1. op[r].site \in Sites
    BY <1>5 DEF OpenSucceeds, RequestOK
  <2> QED BY <1>5, <2>1, GotoType DEF OpenSucceeds, TypeOK, Places
<1>6. ASSUME NEW r \in Requests, OpenFails(r) PROVE TypeOK'
  <2>1. answer' \in [Requests -> Answers \cup {None}]
    BY <1>6, AnswerType DEF OpenFails, Codes
  <2> QED BY <1>6, <2>1, GotoType DEF OpenFails, TypeOK, Places
<1>7. ASSUME NEW r \in Requests, NEW status \in Codes, Handled(r, status)
      PROVE  /\ answer' \in [Requests -> Answers \cup {None}]
             /\ pc' \in [Requests -> Places]
             /\ UNCHANGED <<mode, now, op, process, trail, unaudited, sent>>
             /\ op[r].site \in Sites
  <2>1. AfterHandler(op[r]) \in Places
    BY DEF AfterHandler, Places
  <2>2. pc[r] = "handler"
    BY <1>7 DEF Handled
  <2> QED BY <1>7, <2>1, <2>2, AnswerType, GotoType DEF Handled, RequestOK
<1>8. ASSUME NEW r \in Requests, Create(r) PROVE TypeOK'
  <2>1. now \in Times /\ op[r].site \in Sites
    BY <1>7, <1>8 DEF Create, Codes, TypeOK
  <2> QED BY <1>7, <1>8, <2>1 DEF Create, Key, StoreOf, Codes, TypeOK
<1>9. ASSUME NEW r \in Requests, NEW t \in Times, Remove(r, t) PROVE TypeOK'
  BY <1>7, <1>9 DEF Remove, StoreOf, Codes, TypeOK
<1>10. ASSUME NEW r \in Requests, HandleOtherwise(r) PROVE TypeOK'
  <2>1. PICK status \in Statuses[op[r].kind] : Handled(r, status)
    BY <1>10 DEF HandleOtherwise
  <2>2. op[r].kind \in {"create", "remove", "read", "stray"}
    BY <1>10 DEF HandleOtherwise, RequestOK, Op
  <2>3. status \in Codes
    BY <2>2 DEF Statuses, Codes
  <2> QED BY <1>7, <1>10, <2>1, <2>3 DEF HandleOtherwise, TypeOK
<1>11. ASSUME NEW r \in Requests, AuditWrite(r) PROVE TypeOK'
  <2>1. Entry(r) \in Entries
    BY <1>11, EntryType DEF AuditWrite, RequestOK
  <2>2. trail' \in [Sites -> SUBSET Entries]
    BY <1>11, <2>1 DEF AuditWrite, TypeOK
  <2> QED BY <1>11, <2>2, GotoType DEF AuditWrite, TypeOK, Places
<1>12. ASSUME NEW r \in Requests, AuditFails(r) PROVE TypeOK'
  BY <1>12, GotoType DEF AuditFails, TypeOK, Places
<1>13. ASSUME NEW r \in Requests, DispatchEvent(r) PROVE TypeOK'
  BY <1>13, GotoType DEF DispatchEvent, TypeOK, Places
<1>14. ASSUME Signal \/ Start \/ Tick PROVE TypeOK'
  BY <1>14 DEF Signal, Start, Tick, TypeOK, Times
<1>15. ASSUME CloseAll PROVE TypeOK'
  BY <1>15 DEF CloseAll, Leave, TypeOK
<1>16. ASSUME Kill PROVE TypeOK'
  BY <1>16 DEF Kill, Leave, TypeOK, Places
<1>17. ASSUME NEW s \in Sites, Release(s) PROVE TypeOK'
  BY <1>17 DEF Release, TypeOK
<1>18. CASE UNCHANGED vars
  BY <1>18 DEF vars, TypeOK
<1> QED BY <1>1, <1>2, <1>3, <1>4, <1>5, <1>6, <1>8, <1>9, <1>10, <1>11, <1>12, <1>13,
           <1>14, <1>15, <1>16, <1>17, <1>18 DEF Next, Step, Stopped

-----------------------------------------------------------------------------
(* One request.  The steps of another leave its place, operation and       *)
(* answer alone; Kill can only cut it off.                                 *)

LEMMA StepRequestOK ==
  ASSUME IInv, [Next]_vars, NEW q \in Requests
  PROVE  RequestOK(q)'
<1>0. TypeOK /\ RequestOK(q) /\ (op[q] # None => op[q] \in Op)
  BY DEF IInv, TypeOK
<1> USE PipelineAssumption, <1>0 DEF TypeOK, RequestOK, Goto, Answer
<1>1. ASSUME NEW r \in Requests, NEW o \in Ops, Arrive(r, o) PROVE RequestOK(q)'
  <2>1. o \in Op /\ o # None
    OBVIOUS
  <2> QED BY <1>1, <2>1 DEF Arrive
<1>2. ASSUME NEW r \in Requests, Unresolved(r) \/ OpenRefused(r) \/ ConfigFails(r) \/ Refuse(r)
                                 \/ OpenFails(r)
      PROVE  RequestOK(q)'
  <2>1. /\ \/ Answer(r, "site", 404) \/ Answer(r, "site", 500) \/ Answer(r, "auth", 401)
        /\ Goto(r, "done") /\ op' = op /\ pc[r] # "idle"
    BY <1>2 DEF Unresolved, OpenRefused, ConfigFails, Refuse, OpenFails
  <2>2. CASE q = r
    <3>1. answer'[q] \in Answers /\ answer'[q].by \in {"site", "auth"} /\ pc'[q] = "done"
      BY <2>1, <2>2 DEF Answers, Codes
    <3>2. answer'[q] # None
      BY <3>1
    <3> QED BY <2>1, <2>2, <3>1, <3>2
  <2>3. CASE q # r
    BY <2>1, <2>3
  <2> QED BY <2>2, <2>3
<1>3. ASSUME NEW r \in Requests, FindStore(r) \/ StartOpen(r) \/ OpenSucceeds(r) \/ LoadConfig(r) \/ Allow(r)
      PROVE  RequestOK(q)'
  BY <1>3 DEF FindStore, StartOpen, OpenSucceeds, LoadConfig, Allow
<1>4. ASSUME NEW r \in Requests, NEW status \in Codes, Handled(r, status) PROVE RequestOK(q)'
  <2>1. [by |-> "handler", code |-> status] \in Answers
    BY DEF Answers
  <2>2. CASE q = r
    <3>1. /\ answer'[q] # None /\ answer'[q].by = "handler" /\ op' = op /\ pc[q] = "handler"
          /\ pc'[q] = AfterHandler(op[q])
      BY <1>4, <2>1, <2>2 DEF Handled
    <3> QED BY <3>1 DEF AfterHandler
  <2>3. CASE q # r
    BY <1>4, <2>3 DEF Handled
  <2> QED BY <2>2, <2>3
<1>5. ASSUME NEW r \in Requests, NEW t \in Times, Create(r) \/ Remove(r, t) \/ HandleOtherwise(r)
      PROVE  RequestOK(q)'
  <2>1. CASE Create(r) \/ Remove(r, t)
    BY <1>4, <2>1 DEF Create, Remove, Codes
  <2>2. CASE HandleOtherwise(r)
    <3>1. PICK status \in Statuses[op[r].kind] : Handled(r, status)
      BY <2>2 DEF HandleOtherwise
    <3>2. op[r].kind \in {"create", "remove", "read", "stray"}
      BY <2>2 DEF HandleOtherwise, IInv, Op
    <3>3. status \in Codes
      BY <3>2 DEF Statuses, Codes
    <3> QED BY <1>4, <3>1, <3>3
  <2> QED BY <1>5, <2>1, <2>2
<1>6. ASSUME NEW r \in Requests, AuditWrite(r) \/ AuditFails(r) \/ DispatchEvent(r) PROVE RequestOK(q)'
  BY <1>6 DEF AuditWrite, AuditFails, DispatchEvent
<1>7. ASSUME Kill PROVE RequestOK(q)'
  BY <1>7 DEF Kill, Leave, InFlight
<1>8. CASE UNCHANGED <<pc, op, answer>>
  BY <1>8
<1>9. Signal \/ CloseAll \/ Start \/ Tick \/ (\E s \in Sites : Release(s)) \/ UNCHANGED vars
        => UNCHANGED <<pc, op, answer>>
  BY DEF Signal, CloseAll, Leave, Start, Tick, Release, vars
<1>10. 0 \in Times
  BY DEF Times
<1> QED BY <1>1, <1>2, <1>3, <1>5, <1>6, <1>7, <1>8, <1>9, <1>10 DEF Next, Step, Stopped

-----------------------------------------------------------------------------
(* What a request leaves behind.                                           *)

(* The key of a new entry is new: what is there stays there.               *)
LEMMA EntryAdded ==
  ASSUME IInv, NEW r \in Requests, AuditWrite(r)
  PROVE  /\ trail' = [trail EXCEPT ![op[r].site] = @ \cup {Entry(r)}]
         /\ op[r].site \in Sites /\ mode # "down"
         /\ Entry(r).of = r /\ Entry(r).key = <<now, seq + 1>>
         /\ Entry(r).status = answer[r].code
<1>1. /\ RequestOK(r) /\ DownIsEmpty /\ TypeOK
      /\ \A s \in Sites : \A e \in trail[s] : EntryOK(s, e)
  BY DEF IInv
<1>2. op[r].site \in Sites /\ mode # "down"
  BY <1>1 DEF AuditWrite, RequestOK, DownIsEmpty, InFlight
<1>3. Entry(r).of = r /\ Entry(r).key = <<now, seq + 1>> /\ Entry(r).status = answer[r].code
  BY DEF Entry, AuditKey, RecordedStatus
<1>4. ASSUME NEW e \in trail[op[r].site] PROVE e.key # Entry(r).key
  <2>1. now \in Nat /\ seq \in Nat /\ e.key[1] <= now /\ (e.key[1] = now => e.key[2] <= seq)
    <3>1. EntryOK(op[r].site, e)
      BY <1>1, <1>2
    <3>2. now \in Nat /\ seq \in Nat
      BY <1>1, PipelineAssumption DEF TypeOK, Times
    <3> QED BY <1>2, <3>1, <3>2 DEF EntryOK
  <2>2. ~ (seq + 1 <= seq)
    BY <2>1
  <2> QED BY <1>3, <2>1, <2>2
<1> QED BY <1>2, <1>3, <1>4 DEF AuditWrite, StoreOf

LEMMA StepTracesOK ==
  ASSUME IInv, [Next]_vars, NEW q \in Requests
  PROVE  TracesOK(q)'
<1>0. TypeOK /\ RequestOK(q) /\ TracesOK(q)
  BY DEF IInv
<1>00. trail' = trail => (HasEntry(q)' <=> HasEntry(q))
  BY DEF HasEntry
<1> USE PipelineAssumption, <1>0, <1>00 DEF TypeOK, RequestOK, TracesOK, Goto, Answer, data, history
<1>1. ASSUME NEW r \in Requests, NEW o \in Ops, Arrive(r, o) PROVE TracesOK(q)'
  BY <1>1 DEF Arrive
<1>2. ASSUME NEW r \in Requests, Unresolved(r) \/ OpenRefused(r) \/ ConfigFails(r) \/ Refuse(r)
                                 \/ OpenFails(r)
      PROVE  TracesOK(q)'
  <2>1. /\ \/ Answer(r, "site", 404) \/ Answer(r, "site", 500) \/ Answer(r, "auth", 401)
        /\ UNCHANGED <<op, key, trail, unaudited, sent>> /\ Goto(r, "done")
        /\ pc[r] \in {"resolve", "opening", "config", "auth"}
    BY <1>2 DEF Unresolved, OpenRefused, ConfigFails, Refuse, OpenFails
  <2>2. CASE q = r
    <3>1. answer[q] = None /\ answer'[q].by # "handler" /\ pc'[q] = "done"
      BY <2>1, <2>2
    <3> QED BY <2>1, <3>1
  <2>3. CASE q # r
    BY <2>1, <2>3
  <2> QED BY <2>2, <2>3
<1>3. ASSUME NEW r \in Requests, FindStore(r) \/ StartOpen(r) \/ OpenSucceeds(r) \/ LoadConfig(r) \/ Allow(r)
      PROVE  TracesOK(q)'
  BY <1>3 DEF FindStore, StartOpen, OpenSucceeds, LoadConfig, Allow
<1>4. ASSUME NEW r \in Requests, NEW status \in {200, 201, 204, 400, 401, 404, 405, 500},
             Handled(r, status), key' = key \/ key' = [key EXCEPT ![r] = Key(now)]
      PROVE  TracesOK(q)'
  <2>1. [by |-> "handler", code |-> status] \in Answers
    BY DEF Answers, Codes
  <2>2. CASE q = r
    <3>1. /\ answer'[q] # None /\ answer'[q].by = "handler" /\ answer[q] = None
          /\ UNCHANGED <<op, trail, unaudited, sent>>
          /\ pc'[q] = AfterHandler(op[q])
      BY <1>4, <2>1, <2>2 DEF Handled
    <3> QED BY <3>1 DEF AfterHandler
  <2>3. CASE q # r
    BY <1>4, <2>3 DEF Handled
  <2> QED BY <2>2, <2>3
<1>5. ASSUME NEW r \in Requests, NEW t \in Times, Create(r) \/ Remove(r, t) \/ HandleOtherwise(r)
      PROVE  TracesOK(q)'
  <2>1. CASE Create(r) \/ Remove(r, t)
    BY <1>4, <2>1 DEF Create, Remove
  <2>2. CASE HandleOtherwise(r)
    <3>1. PICK status \in Statuses[op[r].kind] : Handled(r, status)
      BY <2>2 DEF HandleOtherwise
    <3>2. op[r].kind \in {"create", "remove", "read", "stray"}
      BY <2>2 DEF HandleOtherwise, IInv, Op
    <3>3. status \in {200, 201, 204, 400, 401, 404, 405, 500}
      BY <3>2 DEF Statuses
    <3> QED BY <1>4, <2>2, <3>1, <3>3 DEF HandleOtherwise
  <2> QED BY <1>5, <2>1, <2>2
<1>6. ASSUME NEW r \in Requests, AuditWrite(r) PROVE TracesOK(q)'
  <2>1. /\ pc[r] = "audit" /\ pc' = [pc EXCEPT ![r] = "dispatch"]
        /\ UNCHANGED <<op, answer, key, unaudited, sent>>
    BY <1>6 DEF AuditWrite
  <2>2. HasEntry(r)'
    BY <1>6, EntryAdded DEF HasEntry
  <2>3. q # r => (HasEntry(q)' <=> HasEntry(q))
    <3>1. ASSUME NEW s \in Sites, NEW e, q # r, e.of = q PROVE e \in trail'[s] <=> e \in trail[s]
      BY <1>6, <3>1, EntryAdded
    <3> QED BY <3>1 DEF HasEntry
  <2> QED BY <2>1, <2>2, <2>3
<1>7. ASSUME NEW r \in Requests, AuditFails(r) PROVE TracesOK(q)'
  BY <1>7 DEF AuditFails
<1>8. ASSUME NEW r \in Requests, DispatchEvent(r) PROVE TracesOK(q)'
  <2>1. /\ pc[r] = "dispatch" /\ pc' = [pc EXCEPT ![r] = "done"]
        /\ UNCHANGED <<op, answer, key, trail, unaudited>>
        /\ sent' \in {sent, sent \cup {r}}
    BY <1>8 DEF DispatchEvent
  <2> QED BY <2>1
<1>9. ASSUME Kill PROVE TracesOK(q)'
  BY <1>9 DEF Kill, Leave, InFlight
<1>10. CASE UNCHANGED <<pc, op, answer, key, trail, unaudited, sent>>
  BY <1>10
<1>11. Signal \/ CloseAll \/ Start \/ Tick \/ (\E s \in Sites : Release(s)) \/ UNCHANGED vars
         => UNCHANGED <<pc, op, answer, key, trail, unaudited, sent>>
  BY DEF Signal, CloseAll, Leave, Start, Tick, Release, vars
<1>12. 0 \in Times
  BY DEF Times
<1> QED BY <1>1, <1>2, <1>3, <1>5, <1>6, <1>7, <1>8, <1>9, <1>10, <1>11, <1>12
        DEF Next, Step, Stopped

-----------------------------------------------------------------------------
(* Entries: the answer of an audited request does not change any more, and *)
(* the clock and the sequence number only grow while the process runs.     *)

LEMMA StepEntryOK ==
  ASSUME IInv, [Next]_vars, NEW s \in Sites, NEW e \in trail'[s]
  PROVE  EntryOK(s, e)'
<1>0. TypeOK /\ e \in Entries
  BY StepTypeOK DEF IInv, TypeOK
<1>1. /\ e.of \in Requests /\ e.key[1] \in Nat /\ e.key[2] \in Nat /\ now \in Nat /\ seq \in Nat
  BY <1>0, PipelineAssumption DEF Entries, TypeOK, Times
<1>2. RequestOK(e.of) /\ TracesOK(e.of)
  BY <1>1 DEF IInv
<1>3. ASSUME NEW r \in Requests, AuditWrite(r) PROVE EntryOK(s, e)'
  <2>1. /\ pc[r] = "audit" /\ seq' = seq + 1 /\ UNCHANGED <<mode, now, op, answer>>
        /\ answer[r] # None /\ answer[r].by = "handler" /\ Mutating(op[r]) /\ op[r] # None
        /\ answer[r] = [by |-> "handler", code |-> answer[r].code]
        /\ ~ HasEntry(r)
    BY <1>3 DEF AuditWrite, IInv, RequestOK, TracesOK, TypeOK, Answers
  <2>2. /\ trail' = [trail EXCEPT ![op[r].site] = @ \cup {Entry(r)}]
        /\ op[r].site \in Sites
        /\ Entry(r).of = r /\ Entry(r).key = <<now, seq + 1>>
        /\ Entry(r).status = answer[r].code
    BY <1>3, EntryAdded
  <2>3. CASE e \in trail[s]
    <3>1. EntryOK(s, e) /\ e.of # r
      BY <2>1, <2>3 DEF IInv, HasEntry
    <3>2. \A f \in trail'[s] : f.of = e.of => f = e
      BY <2>2, <3>1, <1>0 DEF EntryOK, TypeOK
    <3> QED BY <1>1, <2>1, <3>1, <3>2 DEF EntryOK
  <2>4. CASE e \notin trail[s]
    <3>1. e = Entry(r) /\ s = op[r].site
      BY <1>0, <2>2, <2>4 DEF TypeOK
    <3>2. \A f \in trail'[s] : f.of = e.of => f = e
      BY <1>0, <2>1, <2>2, <3>1 DEF HasEntry, TypeOK
    <3>3. e.key[1] = now /\ e.key[2] = seq + 1
      BY <2>2, <3>1
    <3> QED BY <1>1, <2>1, <2>2, <3>1, <3>2, <3>3 DEF EntryOK
  <2> QED BY <2>3, <2>4
<1>4. ASSUME trail' = trail,
             op'[e.of] = op[e.of] \/ op[e.of] = None,
             answer'[e.of] = answer[e.of] \/ answer[e.of] = None,
             \/ UNCHANGED <<mode, now, seq>>
             \/ UNCHANGED <<mode, now>> /\ seq' = seq + 1
             \/ UNCHANGED now /\ mode' = "down"
             \/ now' = now + 1
             \/ UNCHANGED <<now, seq>> /\ mode # "down"
      PROVE  EntryOK(s, e)'
  <2>1. EntryOK(s, e) /\ e \in trail[s]
    BY <1>4 DEF IInv
  <2>2. op[e.of] # None /\ answer[e.of] # None
    <3>1. [by |-> "handler", code |-> e.status] \in Answers
      BY <1>0 DEF Entries, Answers
    <3> QED BY <2>1, <3>1, PipelineAssumption DEF EntryOK
  <2> QED BY <1>1, <1>4, <2>1, <2>2 DEF EntryOK
<1>5. ASSUME NEW r \in Requests, NEW o \in Ops, Arrive(r, o)
      PROVE  EntryOK(s, e)'
  <2>1. op[r] = None
    BY <1>5 DEF Arrive, IInv, RequestOK
  <2> QED BY <1>0, <1>1, <1>4, <1>5, <2>1 DEF Arrive, process, data, TypeOK
<1>6. ASSUME NEW r \in Requests, NEW t \in Times,
             \/ Unresolved(r) \/ FindStore(r) \/ StartOpen(r) \/ OpenRefused(r)
             \/ OpenSucceeds(r) \/ OpenFails(r) \/ ConfigFails(r) \/ LoadConfig(r)
             \/ Refuse(r) \/ Allow(r) \/ Create(r) \/ Remove(r, t) \/ HandleOtherwise(r)
      PROVE  EntryOK(s, e)'
  <2>1. pc[r] \in {"resolve", "opening", "config", "auth", "handler"}
    BY <1>6 DEF Unresolved, FindStore, StartOpen, OpenRefused, OpenSucceeds, OpenFails, ConfigFails,
                LoadConfig, Refuse, Allow, Create, Remove, HandleOtherwise, Handled
  <2>2. answer[r] = None
    BY <2>1 DEF IInv, RequestOK
  <2>3. /\ UNCHANGED <<mode, now, seq, op, trail>>
        /\ answer' = answer \/ \E v : answer' = [answer EXCEPT ![r] = v]
    BY <1>6 DEF Unresolved, FindStore, StartOpen, OpenRefused, OpenSucceeds, OpenFails, ConfigFails,
                LoadConfig, Refuse, Allow, Create, Remove, HandleOtherwise, Handled, Answer, process, data
  <2>4. answer'[e.of] = answer[e.of] \/ answer[e.of] = None
    BY <1>0, <1>1, <2>2, <2>3 DEF TypeOK
  <2> QED BY <1>4, <2>3, <2>4
<1>7. ASSUME NEW r \in Requests, AuditFails(r) \/ DispatchEvent(r) PROVE EntryOK(s, e)'
  BY <1>4, <1>7 DEF AuditFails, DispatchEvent, process, data
<1>8. ASSUME Signal \/ CloseAll \/ Kill \/ Start \/ Tick \/ UNCHANGED vars
      PROVE  EntryOK(s, e)'
  BY <1>4, <1>8 DEF Signal, CloseAll, Kill, Leave, Start, Tick, vars, process, data
<1>9. ASSUME NEW p \in Sites, Release(p) PROVE EntryOK(s, e)'
  BY <1>4, <1>9 DEF Release, data
<1>10. 0 \in Times
  BY PipelineAssumption DEF Times
<1> QED BY <1>3, <1>5, <1>6, <1>7, <1>8, <1>9, <1>10 DEF Next, Step, Stopped

-----------------------------------------------------------------------------
(* Stores.                                                                 *)

LEMMA StepStores ==
  ASSUME IInv, [Next]_vars
  PROVE  Cached' /\ DownIsEmpty' /\ StoresLive'
<1> DEFINE Using == {"config", "auth", "handler", "audit", "dispatch"}
<1>0. TypeOK /\ Cached /\ DownIsEmpty /\ StoresLive /\ \A r \in Requests : RequestOK(r)
  BY DEF IInv
<1> USE PipelineAssumption, <1>0 DEF TypeOK, Cached, DownIsEmpty, StoresLive, InFlight, Goto, process
<1>1. ASSUME NEW r \in Requests, NEW o \in Ops, Arrive(r, o) PROVE Cached' /\ DownIsEmpty' /\ StoresLive'
  BY <1>1 DEF Arrive
<1>2. ASSUME NEW r \in Requests, FindStore(r) PROVE Cached' /\ DownIsEmpty' /\ StoresLive'
  BY <1>2 DEF FindStore
<1>3. ASSUME NEW r \in Requests, OpenSucceeds(r) PROVE Cached' /\ DownIsEmpty' /\ StoresLive'
  BY <1>3 DEF OpenSucceeds, RequestOK
<1>4. ASSUME NEW r \in Requests, NEW place \in Places \ {"idle"}, Goto(r, place), pc[r] \notin {"idle", "done", "cut"},
             place \in Using => pc[r] \in Using,
             UNCHANGED <<mode, op, stores, file>>
      PROVE  Cached' /\ DownIsEmpty' /\ StoresLive'
  BY <1>4
<1>5. ASSUME NEW r \in Requests, NEW t \in Times,
             \/ Unresolved(r) \/ StartOpen(r) \/ OpenRefused(r)
             \/ OpenFails(r) \/ ConfigFails(r) \/ LoadConfig(r)
             \/ Refuse(r) \/ Allow(r) \/ Create(r) \/ Remove(r, t) \/ HandleOtherwise(r)
             \/ AuditWrite(r) \/ AuditFails(r) \/ DispatchEvent(r)
      PROVE  Cached' /\ DownIsEmpty' /\ StoresLive'
  <2>1. UNCHANGED <<mode, op, stores, file>> /\ pc[r] \notin {"idle", "done", "cut"}
    BY <1>5 DEF Unresolved, StartOpen, OpenRefused, OpenFails, ConfigFails, LoadConfig, Refuse, Allow,
                Create, Remove, HandleOtherwise, Handled, AuditWrite, AuditFails, DispatchEvent
  <2>2. \E place \in Places \ {"idle"} : Goto(r, place) /\ (place \in Using => pc[r] \in Using)
    <3>1. CASE Create(r) \/ Remove(r, t) \/ HandleOtherwise(r)
      <4>1. Goto(r, AfterHandler(op[r])) /\ pc[r] \in Using
        BY <3>1 DEF Create, Remove, HandleOtherwise, Handled
      <4>2. AfterHandler(op[r]) \in Places \ {"idle"}
        BY DEF AfterHandler, Places
      <4> QED BY <4>1, <4>2
    <3>2. CASE ~ (Create(r) \/ Remove(r, t) \/ HandleOtherwise(r))
      <4>1. \/ Goto(r, "done") \/ Goto(r, "opening")
            \/ pc[r] = "config" /\ Goto(r, "auth")
            \/ pc[r] = "auth" /\ Goto(r, "handler")
            \/ pc[r] = "audit" /\ Goto(r, "dispatch")
        BY <1>5, <3>2 DEF Unresolved, StartOpen, OpenRefused, OpenFails, ConfigFails, LoadConfig, Refuse,
                          Allow, AuditWrite, AuditFails, DispatchEvent
      <4> HIDE DEF Goto
      <4> QED BY <4>1 DEF Places
    <3> QED BY <3>1, <3>2
  <2> QED BY <1>4, <2>1, <2>2
<1>6. ASSUME CloseAll PROVE Cached' /\ DownIsEmpty' /\ StoresLive'
  BY <1>6 DEF CloseAll, Leave, HandlersDone
<1>7. ASSUME Kill PROVE Cached' /\ DownIsEmpty' /\ StoresLive'
  BY <1>7 DEF Kill, Leave
<1>8. ASSUME Signal \/ Start \/ Tick \/ UNCHANGED vars PROVE Cached' /\ DownIsEmpty' /\ StoresLive'
  BY <1>8 DEF Signal, Start, Tick, vars
<1>9. ASSUME NEW s \in Sites, Release(s) PROVE Cached' /\ DownIsEmpty' /\ StoresLive'
  BY <1>9 DEF Release
<1>10. 0 \in Times
  BY DEF Times
<1> QED BY <1>1, <1>2, <1>3, <1>5, <1>6, <1>7, <1>8, <1>9, <1>10 DEF Next, Step, Stopped

-----------------------------------------------------------------------------
(* What was created.  Only a later creation under the same key, or a       *)
(* removal, takes the place of a creation.                                 *)

CreatedOK(q) ==
  answer[q] # None /\ answer[q].code = 201 =>
    /\ key[q] \in Times /\ op[q].site \in Sites
    /\ \/ artifacts[op[q].site][key[q]] = q
       \/ <<op[q].site, key[q]>> \in removed
       \/ \E r \in Requests \ {q} : op[r] # None /\ op[r].site = op[q].site /\ key[r] = key[q]

LEMMA StepCreatedOK ==
  ASSUME IInv, [Next]_vars, NEW q \in Requests, CreatedOK(q)
  PROVE  CreatedOK(q)'
<1>0. /\ TypeOK /\ (\A r \in Requests : RequestOK(r) /\ TracesOK(r))
      /\ answer[q] # None => op[q] # None
  BY DEF IInv, RequestOK
<1> USE PipelineAssumption, <1>0 DEF TypeOK, CreatedOK
<1>1. ASSUME UNCHANGED <<key, artifacts, removed>>,
             answer' = answer \/ answer'[q] = answer[q] \/ answer'[q].code # 201,
             \A p \in Requests : op'[p] = op[p] \/ (op[p] = None /\ answer[p] = None),
             answer[q] = None => answer'[q] = None \/ answer'[q].code # 201
      PROVE  CreatedOK(q)'
  <2> SUFFICES ASSUME answer'[q] # None /\ answer'[q].code = 201
               PROVE  CreatedOK(q)'
    BY DEF CreatedOK
  <2>1. answer[q] # None /\ answer[q].code = 201
    BY <1>1
  <2>2. \A p \in Requests : op[p] # None => op'[p] = op[p]
    BY <1>1
  <2>3. op'[q] = op[q]
    BY <2>1, <2>2
  <2>4. UNCHANGED <<key, artifacts, removed>>
    BY <1>1
  <2> QED BY <2>1, <2>2, <2>3, <2>4
<1>2. ASSUME NEW r \in Requests, NEW o \in Ops, Arrive(r, o) PROVE CreatedOK(q)'
  <2>1. op[r] = None /\ answer[r] = None
    BY <1>2 DEF Arrive, RequestOK
  <2>2. UNCHANGED <<key, artifacts, removed, answer>> /\ op' = [op EXCEPT ![r] = o]
    BY <1>2 DEF Arrive, data, history
  <2>3. \A p \in Requests : op'[p] = op[p] \/ (op[p] = None /\ answer[p] = None)
    BY <2>1, <2>2
  <2> HIDE DEF CreatedOK
  <2> QED BY <1>1, <2>2, <2>3
<1>3. ASSUME NEW r \in Requests, Create(r) PROVE CreatedOK(q)'
  <2>1. /\ key' = [key EXCEPT ![r] = now] /\ op' = op /\ removed' = removed
        /\ answer' = [answer EXCEPT ![r] = [by |-> "handler", code |-> 201]]
        /\ artifacts' = [artifacts EXCEPT ![op[r].site][now] = r]
        /\ op[r].site \in Sites /\ op[r] # None /\ now \in Times
    BY <1>3 DEF Create, Handled, Answer, Key, StoreOf, RequestOK
  <2>2. CASE q = r
    BY <2>1, <2>2
  <2>3. CASE q # r /\ op[q] # None
    <3>1. CASE op[q].site = op[r].site /\ key[q] = now
      BY <2>1, <2>3, <3>1
    <3>2. CASE ~ (op[q].site = op[r].site /\ key[q] = now)
      <4>1. answer[q] = None \/ answer[q].code # 201 \/ artifacts[op[q].site][key[q]] = q
              => (answer[q] = None \/ answer[q].code # 201 \/ artifacts'[op[q].site][key[q]] = q)
        BY <2>1, <2>3, <3>2
      <4>2. ASSUME NEW p \in Requests \ {q}, op[p].site = op[q].site, op[p] # None, key[p] = key[q],
                   key[q] \in Times
            PROVE  key'[p] = key[p]
        <5>1. key[r] = None
          BY <1>3 DEF Create, Handled, RequestOK, TracesOK
        <5> QED BY <2>1, <4>2, <5>1
      <4> QED BY <2>1, <2>3, <4>1, <4>2
    <3> QED BY <3>1, <3>2
  <2>4. CASE q # r /\ op[q] = None
    BY <2>1, <2>4
  <2> QED BY <2>2, <2>3, <2>4
<1>4. ASSUME NEW r \in Requests, NEW t \in Times, Remove(r, t) PROVE CreatedOK(q)'
  <2>1. /\ UNCHANGED <<key, op>> /\ removed' = removed \cup {<<op[r].site, t>>}
        /\ answer' = [answer EXCEPT ![r] = [by |-> "handler", code |-> 204]]
        /\ artifacts' = [artifacts EXCEPT ![op[r].site][t] = None]
    BY <1>4 DEF Remove, Handled, Answer, StoreOf
  <2>2. CASE q = r
    BY <2>1, <2>2
  <2>3. CASE q # r /\ answer[q] # None /\ answer[q].code = 201
    <3>1. answer'[q] = answer[q] /\ key'[q] = key[q] /\ op'[q] = op[q] /\ removed \subseteq removed'
      BY <2>1, <2>3
    <3>2. CASE artifacts[op[q].site][key[q]] = q
      <4>1. CASE op[q].site = op[r].site /\ key[q] = t
        BY <2>1, <3>1, <4>1, <2>3
      <4>2. CASE ~ (op[q].site = op[r].site /\ key[q] = t)
        <5>1. artifacts'[op[q].site][key[q]] = artifacts[op[q].site][key[q]]
          <6>1. artifacts \in [Sites -> [Times -> Requests \cup {None}]] /\ key[q] \in Times
            BY <2>3
          <6>2. op[q].site \in Sites
            BY <2>3
          <6> QED BY <2>1, <4>2, <6>1, <6>2
        <5> QED BY <2>3, <3>1, <3>2, <5>1
      <4> QED BY <4>1, <4>2
    <3> QED BY <2>1, <2>3, <3>1, <3>2
  <2>4. CASE q # r /\ ~ (answer[q] # None /\ answer[q].code = 201)
    BY <2>1, <2>4
  <2> QED BY <2>2, <2>3, <2>4
<1>5. ASSUME NEW r \in Requests,
             \/ Unresolved(r) \/ FindStore(r) \/ StartOpen(r) \/ OpenRefused(r)
             \/ OpenSucceeds(r) \/ OpenFails(r) \/ ConfigFails(r) \/ LoadConfig(r)
             \/ Refuse(r) \/ Allow(r) \/ AuditWrite(r) \/ AuditFails(r) \/ DispatchEvent(r)
      PROVE  CreatedOK(q)'
  <2>1. /\ UNCHANGED <<op, key, artifacts, removed>>
        /\ \/ answer' = answer
           \/ \E who \in {"site", "auth"}, status \in {404, 500, 401} : Answer(r, who, status)
    BY <1>5 DEF Unresolved, FindStore, StartOpen, OpenRefused, OpenSucceeds, OpenFails, ConfigFails,
                LoadConfig, Refuse, Allow, AuditWrite, AuditFails, DispatchEvent, data, history
  <2>2. answer' = answer \/ answer'[q] = answer[q] \/ answer'[q].code # 201
    BY <2>1 DEF Answer
  <2>3. answer[q] = None => answer'[q] = None \/ answer'[q].code # 201
    BY <2>1 DEF Answer
  <2> QED BY <1>1, <2>1, <2>2, <2>3
<1>6. ASSUME NEW r \in Requests, HandleOtherwise(r) PROVE CreatedOK(q)'
  <2>1. PICK status \in Statuses[op[r].kind] : Handled(r, status)
    BY <1>6 DEF HandleOtherwise
  <2>2. op[r].kind \in {"create", "remove", "read", "stray"}
    BY <1>6 DEF HandleOtherwise, RequestOK, Op
  <2>3. status \in {400, 500, 404, 200, 405}
    BY <2>2 DEF Statuses
  <2>4. /\ UNCHANGED <<op, key, artifacts, removed>>
        /\ answer' = [answer EXCEPT ![r] = [by |-> "handler", code |-> status]]
    BY <1>6, <2>1 DEF HandleOtherwise, Handled, Answer
  <2>5. answer'[q] = answer[q] \/ answer'[q].code # 201
    BY <2>3, <2>4
  <2>6. answer[q] = None => answer'[q] = None \/ answer'[q].code # 201
    BY <2>3, <2>4
  <2> QED BY <1>1, <2>4, <2>5, <2>6
<1>7. CASE UNCHANGED <<op, answer, key, artifacts, removed>>
  BY <1>1, <1>7
<1>8. Signal \/ CloseAll \/ Kill \/ Start \/ Tick \/ (\E s \in Sites : Release(s)) \/ UNCHANGED vars
        => UNCHANGED <<op, answer, key, artifacts, removed>>
  BY DEF Signal, CloseAll, Kill, Leave, Start, Tick, Release, vars, data, history
<1> HIDE DEF CreatedOK, TypeOK
<1> QED BY <1>2, <1>3, <1>4, <1>5, <1>6, <1>7, <1>8 DEF Next, Step, Stopped

-----------------------------------------------------------------------------
(* The results.                                                            *)

LEMMA Inductive == ASSUME IInv, [Next]_vars PROVE IInv'
BY StepTypeOK, StepRequestOK, StepTracesOK, StepEntryOK, StepStores DEF IInv

LEMMA Invariance == Spec => []IInv
<1>1. Init => IInv
  BY InitIInv
<1>2. IInv /\ [Next]_vars => IInv'
  BY Inductive
<1> QED BY <1>1, <1>2, PTL DEF Spec

LEMMA EntriesAre ==
  ASSUME NEW r
  PROVE  /\ EntriesOf(r) # {} <=> HasEntry(r)
         /\ \A e : e \in EntriesOf(r) <=> e.of = r /\ \E s \in Sites : e \in trail[s]
BY DEF EntriesOf, HasEntry

(* The state of the pipeline keeps its types.                              *)
THEOREM TypeCorrect == Spec => []TypeOK
<1>1. IInv => TypeOK
  BY DEF IInv
<1> QED BY <1>1, Invariance, PTL

(* Nothing is in the trail of a site but what happened there, and once     *)
(* (middleware.go:155-190, audit.go:29-45).                                *)
THEOREM TrailIsTrue == Spec => []EntriesTrue
<1>1. IInv => EntriesTrue
  <2> SUFFICES ASSUME IInv, NEW s \in Sites, NEW e \in trail[s]
               PROVE  /\ op[e.of].site = s /\ Mutating(op[e.of])
                      /\ answer[e.of] = [by |-> "handler", code |-> e.status]
                      /\ EntriesOf(e.of) = {e}
    BY DEF EntriesTrue
  <2>1. EntryOK(s, e)
    BY DEF IInv
  <2>2. ASSUME NEW p \in Sites, NEW f \in trail[p], f.of = e.of PROVE f = e
    <3>1. EntryOK(p, f)
      BY DEF IInv
    <3> QED BY <2>1, <2>2, <3>1 DEF EntryOK
  <2>3. EntriesOf(e.of) = {e}
    BY <2>2, EntriesAre
  <2> QED BY <2>1, <2>3 DEF EntryOK
<1> QED BY <1>1, Invariance, PTL

(* No entry is missing or overwritten, restarts and equal clock readings   *)
(* notwithstanding (middleware.go:183-185, audit.go:25-40).                *)
THEOREM TrailIsComplete == Spec => []AuditComplete
<1>1. IInv => AuditComplete
  <2> SUFFICES ASSUME IInv, NEW r \in Requests, pc[r] = "done", Mutating(op[r]), answer[r].by = "handler"
               PROVE  HasEntry(r) \/ r \in unaudited
    BY EntriesAre DEF AuditComplete
  <2> QED BY DEF IInv, RequestOK, TracesOK
<1> QED BY <1>1, Invariance, PTL

(* Authentication comes before everything a request could leave            *)
(* (middleware.go:89-120, router.go:73-75).                                *)
THEOREM RefusalLeavesNothing == Spec => []RefusedLeavesNothing
<1>1. IInv => RefusedLeavesNothing
  <2> SUFFICES ASSUME IInv, NEW r \in Requests, op[r] # None, Unauthorised(op[r])
               PROVE  ~ HasEntry(r) /\ key[r] = None /\ r \notin sent
    BY EntriesAre DEF RefusedLeavesNothing
  <2>1. Refused(op[r])
    BY DEF Unauthorised, Refused, Mutating
  <2> QED BY <2>1 DEF IInv, RequestOK, TracesOK
<1> QED BY <1>1, Invariance, PTL

(* What Dispatch accepted is in the trail, or the store refused it         *)
(* (middleware.go:183-200).                                                *)
THEOREM EventsFollow == Spec => []EventsTellOfEntries
<1>1. IInv => EventsTellOfEntries
  <2> SUFFICES ASSUME IInv, NEW r \in sent PROVE HasEntry(r) \/ r \in unaudited
    BY EntriesAre DEF EventsTellOfEntries
  <2> QED BY DEF IInv, TypeOK, TracesOK
<1> QED BY <1>1, Invariance, PTL

(* No handler works on a store that is closed or that is not the one of    *)
(* the registry (registry.go:25-50, main.go:187-204).                      *)
THEOREM StoresStayOpen == Spec => []StoresLive
<1>1. IInv => StoresLive
  BY DEF IInv
<1> QED BY <1>1, Invariance, PTL

(* A creation lasts until a removal or a creation of the same nanosecond   *)
(* (handlers.go:57-64, 188-195, 426-436).                                  *)
THEOREM CreationsLast == Spec => []CreatedStays
<1> DEFINE Created == \A q \in Requests : CreatedOK(q)
<1>1. Init => Created
  BY DEF Init, CreatedOK
<1>2. IInv /\ Created /\ [Next]_vars => Created'
  BY StepCreatedOK
<1>3. Created => CreatedStays
  BY DEF CreatedStays, CreatedOK
<1> QED BY <1>1, <1>2, <1>3, Invariance, PTL DEF Spec

=============================================================================
