----------------------------- MODULE Pagination -----------------------------
(***************************************************************************)
(* A client that walks a listing page by page while other requests add and *)
(* remove keys.  The program has two ways to cut a page:                   *)
(*   BBoltStore.ListPage, then one read per record, for DLQ records and    *)
(*   subscriptions ("records");                                            *)
(*   listFilteredPage of internal/http/handlers.go, on the list of all     *)
(*   keys, for "events", "artifacts" and "audit" entries.                  *)
(* A key is its place in byte order, and that is also the time in it.      *)
(* Abstracted: the values, and which keys have a prefix or contain a text. *)
(***************************************************************************)
EXTENDS Naturals, SequencesExt

CONSTANTS
  Keys,          \* keys a bucket may hold
  Filters,       \* filters the client may ask for
  Limits,        \* limits the client may ask for, None for no limit parameter
  DefaultLimit,  \* defaultPageLimit
  MaxLimit,      \* maxPageLimit
  MaxChanges,    \* keys added and removed in one behaviour at most
  None           \* no cursor, no limit, no bound

ASSUME PaginationAssumption ==
  /\ Keys \subseteq Nat /\ IsFiniteSet(Keys)
  /\ None \notin Nat
  /\ Limits \subseteq Nat \cup {None}
  /\ DefaultLimit \in 1 .. MaxLimit /\ MaxLimit \in Nat /\ MaxChanges \in Nat
  /\ \A f \in Filters : /\ f.text \subseteq Keys
                        /\ {f.since, f.until} \subseteq Nat \cup {None}

VARIABLES
  listing,  \* what the client lists
  bucket,   \* keys in its bucket
  client,   \* "new", "asking", "loading" (its request reads records), "done", "refused"
  filter,   \* its filter
  cursor,   \* the cursor it passes next
  page,     \* keys of the page whose records are still to be read
  next,     \* the next_cursor of that page
  seen,     \* what it was given so far, in order
  stable,   \* history: keys in the bucket ever since the walk began
  changes   \* keys added and removed so far

vars == <<listing, bucket, client, filter, cursor, page, next, seen, stable, changes>>

Listings == {"records", "events", "artifacts", "audit"}

(* An audit key is "<ns>-<seq>.json", a key of the others "<ns>.json".      *)
Plain == listing # "audit"

(* No handler deletes an event or an audit entry.                          *)
Removable == listing \in {"records", "artifacts"}

-----------------------------------------------------------------------------
(* Parameters of a request.                                                *)

BadLimit(n) == n # None /\ n < 1

LimitUnclamped(n) == IF n = None THEN DefaultLimit ELSE n
Limit(n) == CASE n = None -> DefaultLimit
              [] n # None /\ n > MaxLimit -> MaxLimit
              [] OTHER -> n

HasBounds(f) == f.since # None \/ f.until # None

BadFilter(f) == f.since # None /\ f.until # None /\ f.since > f.until

(* keyNS reads no time from a key with a sequence suffix, and a bounded    *)
(* filter excludes what it reads no time from.                             *)
MatchesFilter(k, f) ==
  /\ k \in f.text
  /\ HasBounds(f) => /\ Plain
                     /\ f.since # None => k >= f.since
                     /\ f.until # None => k <= f.until

NoFilter == [text |-> Keys, since |-> None, until |-> None]

-----------------------------------------------------------------------------
(* The two ways to cut a page.                                             *)

(* All keys in ascending order.                                            *)
Rank(b, k) == Cardinality({j \in b : j < k})
List(b) == [i \in 1 .. Cardinality(b) |-> CHOOSE k \in b : Rank(b, k) = i - 1]

Take(s, n) == SubSeq(s, 1, IF Len(s) < n THEN Len(s) ELSE n)

(* Seek finds the cursor itself when it is there; the slip keeps it.       *)
AtOrAfter(k, c) == c # None => k >= c
After(k, c) == c # None => k > c

(* A short page is the last one.  The slip: so is a full one.              *)
NeverNext(keys, n) == IF Len(keys) <= n THEN None ELSE Last(keys)
NextCursor(keys, n) == IF Len(keys) < n THEN None ELSE Last(keys)

(* BBoltStore.ListPage.  The slip: an empty page repeats the cursor.       *)
StorePageEcho(b, c, n) ==
  LET keys == Take(List({k \in b : After(k, c)}), n)
  IN  [keys |-> keys, next |-> IF keys = <<>> THEN c ELSE NextCursor(keys, n)]
StorePage(b, c, n) ==
  LET keys == Take(List({k \in b : After(k, c)}), n)
  IN  [keys |-> keys, next |-> NextCursor(keys, n)]

(* Where listFilteredPage finds the cursor; 0 when it is not there, or the *)
(* filter leaves it out.                                                   *)
CursorAt(all, c, f) ==
  IF c \in ToSet(all) /\ MatchesFilter(c, f) THEN CHOOSE i \in DOMAIN all : all[i] = c ELSE 0

(* Where it starts.                                                        *)
Start(all, c, f) == CursorAt(all, c, f) + 1

(* A key that matches behind the last one of the page.  The slip of        *)
(* ListPage: a full page has a successor.                                  *)
FullPage(out, all, f, n) == Len(out) = n
HasMore(out, all, f, n) ==
  \E i, j \in DOMAIN all : i < j /\ all[i] = Last(out) /\ MatchesFilter(all[j], f)

(* The positions of keys that match, from start on, in ascending order.    *)
Hits(all, start, f) == List({i \in start .. Len(all) : MatchesFilter(all[i], f)})

(* listFilteredPage.                                                       *)
FilteredPage(b, c, n, f) ==
  LET all == List(b)
      hits == Take(Hits(all, Start(all, c, f), f), n)
      out == [i \in DOMAIN hits |-> all[hits[i]]]
  IN  [keys |-> out,
       next |-> IF out # <<>> /\ HasMore(out, all, f, n) THEN Last(out) ELSE None]

-----------------------------------------------------------------------------
Init ==
  /\ listing \in Listings
  /\ bucket \in SUBSET Keys
  /\ client = "new"
  /\ filter = NoFilter
  /\ cursor = None
  /\ page = <<>>
  /\ next = None
  /\ seen = <<>>
  /\ stable = {}
  /\ changes = 0

(* The client chooses a filter; the listings of records do not look at it. *)
Begin ==
  /\ client = "new"
  /\ \E f \in Filters : filter' = f
  /\ client' = IF listing # "records" /\ BadFilter(filter') THEN "refused" ELSE "asking"
  /\ stable' = bucket
  /\ UNCHANGED <<listing, bucket, cursor, page, next, seen, changes>>

(* 400: the walk goes no further.                                          *)
AskBadly(n) ==
  /\ client = "asking"
  /\ BadLimit(n)
  /\ client' = "refused"
  /\ UNCHANGED <<listing, bucket, filter, cursor, page, next, seen, stable, changes>>

Follow(c) ==
  /\ cursor' = c
  /\ client' = IF c = None THEN "done" ELSE "asking"

(* ListEventsHandler, ListArtifactsHandler, ListAuditHandler: a single     *)
(* transaction reads all keys.                                             *)
AskFiltered(n) ==
  /\ listing # "records"
  /\ client = "asking"
  /\ ~ BadLimit(n)
  /\ \E p \in {FilteredPage(bucket, cursor, Limit(n), filter)} :
       seen' = seen \o p.keys /\ Follow(p.next)
  /\ UNCHANGED <<listing, bucket, filter, page, next, stable, changes>>

(* ListDLQHandler, ListSubscriptionsHandler: a transaction for the keys,   *)
(* and one for each record; a record deleted in between is left out.       *)
AskStore(n) ==
  /\ listing = "records"
  /\ client = "asking"
  /\ ~ BadLimit(n)
  /\ \E p \in {StorePage(bucket, cursor, Limit(n))} : page' = p.keys /\ next' = p.next
  /\ client' = "loading"
  /\ UNCHANGED <<listing, bucket, filter, cursor, seen, stable, changes>>

LoadRecord ==
  /\ client = "loading"
  /\ page # <<>>
  /\ seen' = IF Head(page) \in bucket THEN Append(seen, Head(page)) ELSE seen
  /\ page' = Tail(page)
  /\ UNCHANGED <<listing, bucket, client, filter, cursor, next, stable, changes>>

Answer ==
  /\ client = "loading"
  /\ page = <<>>
  /\ Follow(next)
  /\ UNCHANGED <<listing, bucket, filter, page, next, seen, stable, changes>>

(* Other requests, workers and the scheduler.  A key may be added anywhere,*)
(* and again after it was removed: a stale write puts it back.             *)
Add(k) ==
  /\ changes < MaxChanges
  /\ k \notin bucket
  /\ bucket' = bucket \cup {k}
  /\ changes' = changes + 1
  /\ UNCHANGED <<listing, client, filter, cursor, page, next, seen, stable>>

Delete(k) ==
  /\ changes < MaxChanges
  /\ Removable
  /\ k \in bucket
  /\ bucket' = bucket \ {k}
  /\ stable' = stable \ {k}
  /\ changes' = changes + 1
  /\ UNCHANGED <<listing, client, filter, cursor, page, next, seen>>

Walk ==
  \/ \E n \in Limits : AskFiltered(n) \/ AskStore(n)
  \/ LoadRecord
  \/ Answer

Stopped == client \in {"done", "refused"} /\ UNCHANGED vars

Next ==
  \/ Begin
  \/ \E n \in Limits : AskBadly(n)
  \/ Walk
  \/ \E k \in Keys : Add(k) \/ Delete(k)
  \/ Stopped

Spec == Init /\ [][Next]_vars

(* Handlers return, and the client goes on as long as there is a cursor.   *)
Fairness == WF_vars(Walk)

FairSpec == Spec /\ Fairness

-----------------------------------------------------------------------------
(* Properties.                                                             *)

Wanted == IF listing = "records" THEN Keys ELSE {k \in Keys : MatchesFilter(k, filter)}

(* Type correctness.                                                       *)
TypeOK ==
  /\ listing \in Listings
  /\ bucket \subseteq Keys
  /\ client \in {"new", "asking", "loading", "done", "refused"}
  /\ filter \in Filters \cup {NoFilter}
  /\ cursor \in Keys \cup {None}
  /\ page \in Seq(Keys) /\ Len(page) <= MaxLimit
  /\ next \in Keys \cup {None}
  /\ seen \in Seq(Keys)
  /\ stable \subseteq bucket
  /\ changes \in 0 .. MaxChanges

(* No matter what is added and removed between pages, a walk that came to  *)
(* its end has met every key that was there all along: handlers.go:543-606,*)
(* bbolt.go:109-152.                                                       *)
WalkComplete == client = "done" => stable \cap Wanted \subseteq ToSet(seen)

(* No page repeats a key of an earlier one: a cursor "means start strictly *)
(* after this key", handlers.go:544, store.go:20-21.  Except of artifacts: *)
(* when the one the cursor names is deleted, the next page starts over.    *)
NoRepeats ==
  listing # "artifacts" => \A i, j \in DOMAIN seen : i < j => seen[i] < seen[j]

(* Against the definition a page should have: the first keys that match    *)
(* behind a cursor that is in the list, and a next_cursor exactly when one *)
(* more follows: handlers.go:543-606.  The states before a walk have every *)
(* possible bucket.                                                        *)
FilteredPageIsWindow ==
  client = "new" =>
    \A f \in Filters, n \in 1 .. MaxLimit, c \in bucket \cup {None} :
      LET fits == {k \in bucket : MatchesFilter(k, f)}
          rest == {k \in fits : c # None => k > c}
          p == FilteredPage(bucket, c, n, f)
      IN  c \in fits \cup {None} =>
            /\ p.keys = Take(List(rest), n)
            /\ p.next = None <=> rest \subseteq ToSet(p.keys)
            /\ p.next # None => p.next = Last(p.keys)

(* handlers.go:306-308: the audit listing "also supports filtering via     *)
(* since_ns/until_ns": an entry of the time asked for is listed.           *)
TimeFilterFindsEntries ==
  client = "done" =>
    \A k \in stable \cap filter.text :
      /\ filter.since # None => k >= filter.since
      /\ filter.until # None => k <= filter.until
      => k \in ToSet(seen)

(* A walk comes to an end.                                                 *)
WalkEnds == (client = "asking") ~> (client \in {"done", "refused"})

=============================================================================
