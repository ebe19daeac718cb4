---------------------------- MODULE SitePipeline ----------------------------
(***************************************************************************)
(* Requests to /sites/{site_id} (internal/http): SiteMiddleware finds the  *)
(* store of the site in the registry of internal/storage and reads its     *)
(* config, AuthMiddleware may refuse, the handler changes the store,       *)
(* AuditMiddleware writes an entry and dispatches an event.  Requests run  *)
(* concurrently; main drains and closes; the process may be killed between *)
(* any two steps and started again on what the store files hold.           *)
(*                                                                         *)
(* Abstracted: bodies, names, settings; the queue behind Dispatch, which   *)
(* module Dispatcher models.  Events are artifacts that nothing removes.   *)
(***************************************************************************)
EXTENDS Naturals, FiniteSets

CONSTANTS
  Requests,
  Sites,      \* the sites of the registry file
  Secured,    \* those with an api_key
  Unknown,    \* a site_id that is not in the registry file
  None,
  Ops,        \* what requests ask for
  MaxTime     \* how many nanoseconds the clock counts

Op == [kind : {"create", "remove", "read", "stray"}, site : Sites \cup {Unknown}, token : BOOLEAN]

(* An answer, and the middleware or handler that gave it.                  *)
Codes == {200, 201, 204, 400, 401, 404, 405, 500}
Answers == [by : {"site", "auth", "handler"}, code : Codes]

Times == 0 .. MaxTime

ASSUME PipelineAssumption ==
  /\ Secured \subseteq Sites /\ Unknown \notin Sites
  /\ Ops \subseteq Op
  /\ None \notin Requests /\ None \notin Op /\ None \notin Answers /\ None \notin Times
  /\ MaxTime \in Nat

VARIABLES
  mode,       \* main: "serving", "draining" after a signal, "down"
  now,        \* the clock of the machine
  pc,         \* pc[r]: the middleware or handler r is in
  op,         \* op[r]: what r asks for
  answer,     \* answer[r]: the status, and who answered
  key,        \* key[r]: the storage key r created
  mutex,      \* the request that holds Registry.mu, or None
  stores,     \* Registry.stores: the sites whose store is cached
  file,       \* file[s]: who holds the lock on the database file
  seq,        \* auditSeq, a counter of the process
  artifacts,  \* artifacts[s][t]: the request whose body is stored under t
  trail,      \* trail[s]: the entries in the bucket "audit"
  unaudited,  \* history: requests whose audit write failed
  removed,    \* history: storage keys removed
  sent        \* history: requests whose event Dispatch accepted

process == <<mutex, stores, file, seq>>
data == <<artifacts, trail>>
history == <<unaudited, removed, sent>>
vars == <<mode, now, pc, op, answer, key, process, data, history>>

-----------------------------------------------------------------------------
(* What the steps are made of, with a plausible slip before the true form. *)

(* POST, PUT, PATCH and DELETE; a stray one has no route: 404 or 405.      *)
Mutating(o) == o.kind # "read"

(* The slip: every site gets the store opened first.                       *)
StoreShared(o) == CHOOSE s \in Sites : TRUE
StoreOf(o) == o.site

MutexIgnored == TRUE
MutexFree == mutex = None

TokenIgnored(o) == FALSE
Refused(o) == Mutating(o) /\ o.site \in Secured /\ ~ o.token

KeyAhead(t) == t + 1
Key(t) == t

(* The slips: no sequence number; the recorder's default status.           *)
AuditKeyOfTime(t, n) == <<t, 0>>
AuditKey(t, n) == <<t, n>>
DefaultStatus(a) == 200
RecordedStatus(a) == a.code

AfterHandlerUnaudited(o) == IF Mutating(o) THEN "dispatch" ELSE "done"
AfterHandler(o) == IF Mutating(o) THEN "audit" ELSE "done"

InFlight(r) == pc[r] \notin {"idle", "done", "cut"}

NoWait == TRUE
HandlersDone == \A r \in Requests : ~ InFlight(r)

Goto(r, place) == pc' = [pc EXCEPT ![r] = place]
Answer(r, who, status) == answer' = [answer EXCEPT ![r] = [by |-> who, code |-> status]]

-----------------------------------------------------------------------------
(* At first the file of a site may still be locked by the process before.  *)
Init ==
  /\ mode = "serving"
  /\ now = 0
  /\ pc = [r \in Requests |-> "idle"]
  /\ op = [r \in Requests |-> None]
  /\ answer = [r \in Requests |-> None]
  /\ key = [r \in Requests |-> None]
  /\ mutex = None
  /\ stores = {}
  /\ file \in [Sites -> {"free", "elsewhere"}]
  /\ seq = 0
  /\ artifacts = [s \in Sites |-> [t \in Times |-> None]]
  /\ trail = [s \in Sites |-> {}]
  /\ unaudited = {} /\ removed = {} /\ sent = {}

Arrive(r, o) ==
  /\ mode = "serving"
  /\ pc[r] = "idle"
  /\ op' = [op EXCEPT ![r] = o]
  /\ Goto(r, "resolve")
  /\ UNCHANGED <<mode, now, answer, key, process, data, history>>

-----------------------------------------------------------------------------
(* SiteMiddleware.                                                         *)

Unresolved(r) ==
  /\ pc[r] = "resolve"
  /\ op[r].site \notin Sites
  /\ Answer(r, "site", 404)
  /\ Goto(r, "done")
  /\ UNCHANGED <<mode, now, op, key, process, data, history>>

(* Registry.Open: a cached store, under the mutex for an instant,          *)
FindStore(r) ==
  /\ pc[r] = "resolve"
  /\ op[r].site \in stores
  /\ MutexFree
  /\ Goto(r, "config")
  /\ UNCHANGED <<mode, now, op, answer, key, process, data, history>>

(* or the mutex kept while the file is opened: without a timeout, bbolt    *)
(* waits for the lock on the file as long as anyone has it.                *)
StartOpen(r) ==
  /\ pc[r] = "resolve"
  /\ op[r].site \in Sites \ stores
  /\ MutexFree
  /\ mutex' = r
  /\ Goto(r, "opening")
  /\ UNCHANGED <<mode, now, op, answer, key, stores, file, seq, data, history>>

OpenSucceeds(r) ==
  /\ pc[r] = "opening"
  /\ file[op[r].site] = "free"
  /\ file' = [file EXCEPT ![op[r].site] = "here"]
  /\ stores' = stores \cup {op[r].site}
  /\ mutex' = None
  /\ Goto(r, "config")
  /\ UNCHANGED <<mode, now, op, answer, key, seq, data, history>>

(* Nothing is cached after an error: the next request opens again.  Either *)
(* the file cannot be opened, before any wait, or it is no database.       *)
OpenRefused(r) ==
  /\ pc[r] = "resolve"
  /\ op[r].site \in Sites \ stores
  /\ MutexFree
  /\ Answer(r, "site", 500)
  /\ Goto(r, "done")
  /\ UNCHANGED <<mode, now, op, key, process, data, history>>

OpenFails(r) ==
  /\ pc[r] = "opening"
  /\ file[op[r].site] = "free"
  /\ mutex' = None
  /\ Answer(r, "site", 500)
  /\ Goto(r, "done")
  /\ UNCHANGED <<mode, now, op, key, stores, file, seq, data, history>>

ConfigFails(r) ==
  /\ pc[r] = "config"
  /\ Answer(r, "site", 500)
  /\ Goto(r, "done")
  /\ UNCHANGED <<mode, now, op, key, process, data, history>>

LoadConfig(r) ==
  /\ pc[r] = "config"
  /\ Goto(r, "auth")
  /\ UNCHANGED <<mode, now, op, answer, key, process, data, history>>

-----------------------------------------------------------------------------
(* AuthMiddleware: outside the audit.                                      *)

Refuse(r) ==
  /\ pc[r] = "auth"
  /\ Refused(op[r])
  /\ Answer(r, "auth", 401)
  /\ Goto(r, "done")
  /\ UNCHANGED <<mode, now, op, key, process, data, history>>

Allow(r) ==
  /\ pc[r] = "auth"
  /\ ~ Refused(op[r])
  /\ Goto(r, "handler")
  /\ UNCHANGED <<mode, now, op, answer, key, process, data, history>>

-----------------------------------------------------------------------------
(* The handlers: one transaction at most.                                  *)

Handled(r, status) ==
  /\ pc[r] = "handler"
  /\ Answer(r, "handler", status)
  /\ Goto(r, AfterHandler(op[r]))
  /\ UNCHANGED <<mode, now, op, process, trail, unaudited, sent>>

Create(r) ==
  /\ Handled(r, 201)
  /\ op[r].kind = "create"
  /\ key' = [key EXCEPT ![r] = Key(now)]
  /\ artifacts' = [artifacts EXCEPT ![StoreOf(op[r])][Key(now)] = r]
  /\ UNCHANGED removed

Remove(r, t) ==
  /\ Handled(r, 204)
  /\ op[r].kind = "remove"
  /\ artifacts[StoreOf(op[r])][t] # None
  /\ artifacts' = [artifacts EXCEPT ![StoreOf(op[r])][t] = None]
  /\ removed' = removed \cup {<<op[r].site, t>>}
  /\ UNCHANGED key

(* 400 for a body that is no JSON or a bad name, 404 for an absent key or  *)
(* route, 405, 500 for a store that fails; 200 for what reads find.        *)
Statuses == [create |-> {400, 500}, remove |-> {400, 404, 500},
             read |-> {200, 400, 404, 405, 500}, stray |-> {404, 405}]

HandleOtherwise(r) ==
  /\ pc[r] = "handler"
  /\ \E status \in Statuses[op[r].kind] : Handled(r, status)
  /\ UNCHANGED <<key, artifacts, removed>>

-----------------------------------------------------------------------------
(* AuditMiddleware: after the handler, when the answer is decided.         *)

Entry(r) ==
  [key |-> AuditKey(now, seq + 1), of |-> r, status |-> RecordedStatus(answer[r])]

AuditWrite(r) ==
  /\ pc[r] = "audit"
  /\ seq' = seq + 1
  /\ trail' = [trail EXCEPT ![StoreOf(op[r])] = {e \in @ : e.key # Entry(r).key} \cup {Entry(r)}]
  /\ Goto(r, "dispatch")
  /\ UNCHANGED <<mode, now, op, answer, key, mutex, stores, file, artifacts, history>>

(* The error is logged; the event is dispatched all the same.              *)
AuditFails(r) ==
  /\ pc[r] = "audit"
  /\ seq' = seq + 1
  /\ unaudited' = unaudited \cup {r}
  /\ Goto(r, "dispatch")
  /\ UNCHANGED <<mode, now, op, answer, key, mutex, stores, file, data, removed, sent>>

(* Dispatch takes the event, or has no room for two seconds.               *)
DispatchEvent(r) ==
  /\ pc[r] = "dispatch"
  /\ \E accepted \in BOOLEAN : sent' = IF accepted THEN sent \cup {r} ELSE sent
  /\ Goto(r, "done")
  /\ UNCHANGED <<mode, now, op, answer, key, process, data, unaudited, removed>>

-----------------------------------------------------------------------------
(* main, and the machine around it.                                        *)

Signal ==
  /\ mode = "serving"
  /\ mode' = "draining"
  /\ UNCHANGED <<now, pc, op, answer, key, process, data, history>>

(* What is left of the process once it is gone: nothing but its files.     *)
Leave ==
  /\ mode' = "down"
  /\ mutex' = None
  /\ stores' = {}
  /\ file' = [s \in Sites |-> IF file[s] = "here" THEN "free" ELSE file[s]]
  /\ seq' = 0
  /\ UNCHANGED <<now, op, answer, key, data, history>>

(* Shutdown returned: no handler runs.  CloseAll, and main returns.        *)
CloseAll ==
  /\ mode = "draining"
  /\ HandlersDone
  /\ Leave
  /\ UNCHANGED pc

(* Shutdown times out and main exits, or the process is killed: requests   *)
(* in flight get no answer and stores are not closed.                      *)
Kill ==
  /\ mode # "down"
  /\ Leave
  /\ pc' = [r \in Requests |-> IF InFlight(r) THEN "cut" ELSE pc[r]]

(* A restart takes longer than the clock needs to advance.                 *)
Start ==
  /\ mode = "down"
  /\ now < MaxTime
  /\ mode' = "serving"
  /\ now' = now + 1
  /\ UNCHANGED <<pc, op, answer, key, process, data, history>>

Tick ==
  /\ mode # "down"
  /\ now < MaxTime
  /\ now' = now + 1
  /\ UNCHANGED <<mode, pc, op, answer, key, process, data, history>>

(* The process before lets go of a file.                                   *)
Release(s) ==
  /\ file[s] = "elsewhere"
  /\ file' = [file EXCEPT ![s] = "free"]
  /\ UNCHANGED <<mode, now, pc, op, answer, key, mutex, stores, seq, data, history>>

Stopped == mode = "down" /\ now = MaxTime /\ UNCHANGED vars

-----------------------------------------------------------------------------
Step(r) ==
  \/ Unresolved(r) \/ FindStore(r) \/ StartOpen(r) \/ OpenRefused(r)
  \/ OpenSucceeds(r) \/ OpenFails(r)
  \/ ConfigFails(r) \/ LoadConfig(r)
  \/ Refuse(r) \/ Allow(r)
  \/ Create(r) \/ (\E t \in Times : Remove(r, t)) \/ HandleOtherwise(r)
  \/ AuditWrite(r) \/ AuditFails(r)
  \/ DispatchEvent(r)

Next ==
  \/ \E r \in Requests : Step(r) \/ \E o \in Ops : Arrive(r, o)
  \/ Signal \/ CloseAll \/ Kill \/ Start \/ Tick
  \/ \E s \in Sites : Release(s)
  \/ Stopped

Spec == Init /\ [][Next]_vars

(* Handlers run, and the process before ends: what bolt.Open relies on.    *)
Fairness ==
  /\ \A r \in Requests : WF_vars(Step(r))
  /\ \A s \in Sites : WF_vars(Release(s))

FairSpec == Spec /\ Fairness

-----------------------------------------------------------------------------
(* Properties.                                                             *)

Places == {"idle", "resolve", "opening", "config", "auth", "handler", "audit", "dispatch",
           "done", "cut"}
Entries == [key : Times \X Nat, of : Requests, status : Codes]

(* Type correctness.                                                       *)
TypeOK ==
  /\ mode \in {"serving", "draining", "down"}
  /\ now \in Times
  /\ pc \in [Requests -> Places]
  /\ op \in [Requests -> Op \cup {None}]
  /\ answer \in [Requests -> Answers \cup {None}]
  /\ key \in [Requests -> Times \cup {None}]
  /\ mutex \in Requests \cup {None}
  /\ stores \subseteq Sites
  /\ file \in [Sites -> {"free", "here", "elsewhere"}]
  /\ seq \in Nat
  /\ artifacts \in [Sites -> [Times -> Requests \cup {None}]]
  /\ trail \in [Sites -> SUBSET Entries]
  /\ unaudited \subseteq Requests
  /\ removed \subseteq Sites \X Times
  /\ sent \subseteq Requests

EntriesOf(r) == {e \in UNION {trail[s] : s \in Sites} : e.of = r}

(* No entry of the trail says what did not happen: it is in the bucket of  *)
(* the site asked for, of a request the handler answered with the status   *)
(* the entry has, and a request has one at most (middleware.go:155-190).   *)
EntriesTrue ==
  \A s \in Sites : \A e \in trail[s] :
    /\ op[e.of].site = s /\ Mutating(op[e.of])
    /\ answer[e.of] = [by |-> "handler", code |-> e.status]
    /\ EntriesOf(e.of) = {e}

(* Every mutating request that got past authentication and ended has its   *)
(* entry for good, whatever entries were written in the same nanosecond    *)
(* and however often the process was restarted, unless the store refused   *)
(* to write it (audit.go:25-45).                                           *)
AuditComplete ==
  \A r \in Requests :
    pc[r] = "done" /\ Mutating(op[r]) /\ answer[r].by = "handler" =>
      EntriesOf(r) # {} \/ r \in unaudited

(* What AuthMiddleware is there to keep out (middleware.go:76-88).         *)
Unauthorised(o) == o.kind # "read" /\ o.site \in Secured /\ ~ o.token

(* A refused request leaves nothing behind: neither a change, nor an entry *)
(* of its own, nor an event (router.go:72-76).                             *)
RefusedLeavesNothing ==
  \A r \in Requests :
    op[r] # None /\ Unauthorised(op[r]) => EntriesOf(r) = {} /\ key[r] = None /\ r \notin sent

(* Whatever was answered 201 is in the store of the site asked for until a *)
(* DELETE there, or until a request that read the same nanosecond: keys of *)
(* events and artifacts have no sequence number (handlers.go:435).         *)
CreatedStays ==
  \A r \in Requests : answer[r] # None /\ answer[r].code = 201 =>
    \/ artifacts[op[r].site][key[r]] = r
    \/ <<op[r].site, key[r]>> \in removed
    \/ \E q \in Requests \ {r} : op[q] # None /\ op[q].site = op[r].site /\ key[q] = key[r]

(* An event tells of an entry, or of one the store refused: a subscriber   *)
(* can look up what it is told (middleware.go:183-200).                    *)
EventsTellOfEntries == \A r \in sent : EntriesOf(r) # {} \/ r \in unaudited

(* From Open to the end of the request its store is cached and open:       *)
(* CloseAll comes after the last handler, and no site has two stores.      *)
StoresLive ==
  \A r \in Requests :
    pc[r] \in {"config", "auth", "handler", "audit", "dispatch"} =>
      op[r].site \in stores /\ file[op[r].site] = "here"

(* Every request ends, answered or cut off by the end of the process, even *)
(* when the mutex of the registry is held while a file is locked.          *)
Answered == \A r \in Requests : InFlight(r) ~> ~ InFlight(r)

=============================================================================
