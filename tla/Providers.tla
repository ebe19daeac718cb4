----------------------------- MODULE Providers ------------------------------
(***************************************************************************)
(* The listing of subscriptions a worker asks for before it delivers an    *)
(* event: MultiProvider (internal/webhooks/multi_provider.go) asks its     *)
(* sources one after the other, the local store first and the remote API   *)
(* second, and merges what they answer.  Each source changes on its own,   *)
(* also between the two questions of one query.                            *)
(*                                                                         *)
(* Abstracted: the query's filters, which each source applies itself, and  *)
(* the tenant, which stands with the URL.                                  *)
(***************************************************************************)
EXTENDS Naturals, Sequences

CONSTANTS
  N,          \* number of sources
  Listed,     \* subscriptions that sources may list
  NoID,       \* the empty ID
  Lists,      \* the lists a source may give, duplicates included
  Silent,     \* the content of a source that does not answer
  Failed,     \* what is known of a source that failed
  NotAsked    \* and of one that was not asked yet

Sources == 1 .. N

ASSUME ProvidersAssumption ==
  /\ N \in Nat \ {0}
  /\ Lists \subseteq Seq(Listed)
  /\ {Silent, Failed, NotAsked} \cap Lists = {}
  /\ Failed # NotAsked

VARIABLES
  content,   \* content[p]: what source p would answer now
  stage,     \* "idle", "asking", "merging", "returned"
  turn,      \* which source is asked or merged
  next,      \* next entry of its answer
  seen,      \* deduplication keys
  out,       \* the merged list
  answers,   \* history: answers[p] of this query
  kept       \* history: kept[p], what p has listed ever since the query began

query == <<stage, turn, next, seen, out, answers>>
vars == <<content, query, kept>>

-----------------------------------------------------------------------------
(* multiDedupeKey.                                                         *)
Key(x) == IF x.id # NoID THEN <<"id", x.id>> ELSE <<"url", x.url>>

Entries(c) == IF c = Silent THEN {} ELSE {c[i] : i \in DOMAIN c}

(* The slips: only IDs compared; remote first; return at an error; a wait  *)
(* without a timeout; an entry stepped over.                               *)
FreshByID(x) == x.id = NoID \/ Key(x) \notin seen
Fresh(x) == Key(x) \notin seen

SourceBackwards(n) == N + 1 - n
Source(n) == n

AfterErrorReturn(n) == N + 1
AfterError(n) == n + 1

NeverGivesUp(c) == c # Silent
GivesUp(c) == TRUE

EntryAfterNext(i) == i + 2
NextEntry(i) == i + 1

Asked == Source(turn)

-----------------------------------------------------------------------------
Init ==
  /\ content \in [Sources -> Lists \cup {Silent}]
  /\ stage = "idle"
  /\ turn = 1 /\ next = 1
  /\ seen = {} /\ out = <<>>
  /\ answers = [p \in Sources |-> NotAsked]
  /\ kept = [p \in Sources |-> {}]

Begin ==
  /\ stage \in {"idle", "returned"}
  /\ stage' = "asking"
  /\ turn' = 1 /\ next' = 1
  /\ seen' = {} /\ out' = <<>>
  /\ answers' = [p \in Sources |-> NotAsked]
  /\ kept' = [p \in Sources |-> Entries(content[p])]
  /\ UNCHANGED content

(* RemoteProvider: status 200 and a body that decodes.  StoreProvider: one *)
(* scan without an error.                                                  *)
Answers ==
  /\ stage = "asking" /\ turn <= N
  /\ content[Asked] # Silent
  /\ answers' = [answers EXCEPT ![Asked] = content[Asked]]
  /\ stage' = "merging"
  /\ next' = 1
  /\ UNCHANGED <<content, turn, seen, out, kept>>

(* Any other status or body, an error of the store, ten seconds of silence:*)
(* logged, and the source is skipped.                                      *)
Fails ==
  /\ stage = "asking" /\ turn <= N
  /\ GivesUp(content[Asked])
  /\ answers' = [answers EXCEPT ![Asked] = Failed]
  /\ turn' = AfterError(turn)
  /\ UNCHANGED <<content, stage, next, seen, out, kept>>

Left == next <= Len(answers[Asked])
Current == answers[Asked][next]

Take ==
  /\ stage = "merging" /\ Left
  /\ Fresh(Current)
  /\ seen' = seen \cup {Key(Current)}
  /\ out' = Append(out, Current)
  /\ next' = NextEntry(next)
  /\ UNCHANGED <<content, stage, turn, answers, kept>>

Drop ==
  /\ stage = "merging" /\ Left
  /\ ~ Fresh(Current)
  /\ next' = NextEntry(next)
  /\ UNCHANGED <<content, stage, turn, seen, out, answers, kept>>

NextSource ==
  /\ stage = "merging" /\ ~ Left
  /\ stage' = "asking"
  /\ turn' = turn + 1
  /\ UNCHANGED <<content, next, seen, out, answers, kept>>

(* Never with an error, even if every source failed.                       *)
Return ==
  /\ stage = "asking" /\ turn > N
  /\ stage' = "returned"
  /\ UNCHANGED <<content, turn, next, seen, out, answers, kept>>

(* Operators of the store, and the remote system, change a source.         *)
Change(p, c) ==
  /\ content' = [content EXCEPT ![p] = c]
  /\ kept' = [kept EXCEPT ![p] = @ \cap Entries(c)]
  /\ UNCHANGED query

-----------------------------------------------------------------------------
Query == Answers \/ Fails \/ Take \/ Drop \/ NextSource \/ Return

Next ==
  \/ Begin \/ Query
  \/ \E p \in Sources, c \in Lists \cup {Silent} : Change(p, c)

Spec == Init /\ [][Next]_vars

(* A worker that lists goes on: each source answers or times out.          *)
Fairness == WF_vars(Query)

FairSpec == Spec /\ Fairness

-----------------------------------------------------------------------------
(* Properties.                                                             *)

(* Type correctness.                                                       *)
TypeOK ==
  /\ content \in [Sources -> Lists \cup {Silent}]
  /\ stage \in {"idle", "asking", "merging", "returned"}
  /\ turn \in 1 .. N + 1
  /\ next \in Nat \ {0}
  /\ stage = "merging" => turn <= N /\ next <= Len(answers[Asked]) + 1
  /\ seen \subseteq {Key(x) : x \in Listed}
  /\ out \in Seq(Listed)
  /\ answers \in [Sources -> Lists \cup {Failed, NotAsked}]
  /\ kept \in [Sources -> SUBSET Listed]

Answered(p) == answers[p] \notin {Failed, NotAsked}

HasKey(k) == \E n \in 1 .. Len(out) : Key(out[n]) = k

(* No event goes twice to a subscription: one ID, or without ID one URL,   *)
(* is listed once, whichever sources know it and however often             *)
(* (multi_provider.go:46-53).                                              *)
NoDuplicates ==
  \A m, n \in 1 .. Len(out) : Key(out[m]) = Key(out[n]) => m = n

(* What is listed was answered, and where several entries share a key it   *)
(* is the first, the store's before the remote's (multi_provider.go:15-16).*)
Before(q, j, p, i) == q < p \/ (q = p /\ j < i)

FirstWins ==
  \A n \in 1 .. Len(out) :
    \E p \in Sources : Answered(p) /\
      \E i \in DOMAIN answers[p] :
        /\ answers[p][i] = out[n]
        /\ \A q \in Sources : Answered(q) => \A j \in DOMAIN answers[q] :
             Before(q, j, p, i) => Key(answers[q][j]) # Key(out[n])

(* A subscription that one source lists throughout the query is in the     *)
(* result, itself or by another with its key, unless that very source      *)
(* failed: neither the failure nor a change of another source hides it     *)
(* (multi_provider.go:18-20).                                              *)
StableServed ==
  stage = "returned" =>
    \A p \in Sources : answers[p] # Failed => \A x \in kept[p] : HasKey(Key(x))

(* A query returns, although a source may never answer.                    *)
Returns == stage = "asking" ~> stage = "returned"

=============================================================================
