--------------------------- MODULE ProvidersProofs --------------------------
(***************************************************************************)
(* What a query returns, for every number of sources, whatever lists they  *)
(* may give and however they change and fail while they are asked.         *)
(***************************************************************************)
EXTENDS Providers, TLAPS

(* The sources that were asked are those before the turn, and the one      *)
(* whose answer is merged.                                                 *)
Order ==
  /\ \A p \in Sources :
       answers[p] = NotAsked <=> (p > turn \/ (p = turn /\ stage # "merging"))
  /\ stage = "merging" => answers[turn] \in Lists
  /\ stage = "returned" => turn = N + 1

(* Entry i of source p was merged.                                         *)
Merged(p, i) == p < turn \/ (p = turn /\ stage = "merging" /\ i < next)

SeenIsListed == \A k \in seen : HasKey(k)

ListedIsSeen == \A n \in 1 .. Len(out) : Key(out[n]) \in seen

MergedIsSeen ==
  \A p \in Sources : Answered(p) =>
    \A i \in DOMAIN answers[p] : Merged(p, i) => Key(answers[p][i]) \in seen

(* No source gave another entry with this key before entry i of p.         *)
NoneBefore(k, p, i) ==
  \A q \in Sources : Answered(q) => \A j \in DOMAIN answers[q] :
    Before(q, j, p, i) => Key(answers[q][j]) # k

FirstIs(x, p, i) ==
  /\ Answered(p) /\ i \in DOMAIN answers[p] /\ Merged(p, i)
  /\ answers[p][i] = x
  /\ NoneBefore(Key(x), p, i)

Origins ==
  \A n \in 1 .. Len(out) : \E p \in Sources : \E i \in Nat : FirstIs(out[n], p, i)

(* What a source has listed ever since is in its answer, once it is given. *)
KeptIsGiven ==
  \A p \in Sources :
    /\ stage # "idle" => kept[p] \subseteq Entries(content[p])
    /\ Answered(p) => kept[p] \subseteq Entries(answers[p])

IInv ==
  /\ TypeOK /\ Order
  /\ SeenIsListed /\ ListedIsSeen /\ MergedIsSeen
  /\ NoDuplicates /\ Origins
  /\ KeptIsGiven

-----------------------------------------------------------------------------
(* Types.                                                                  *)

LEMMA EntriesAreListed == ASSUME NEW c \in Lists \cup {Silent} PROVE Entries(c) \subseteq Listed
<1>1. CASE c = Silent
  BY <1>1 DEF Entries
<1>2. CASE c # Silent
  <2>1. c \in Seq(Listed)
    BY <1>2, ProvidersAssumption
  <2>2. \A i \in DOMAIN c : c[i] \in Listed
    BY <2>1
  <2> QED BY <1>2, <2>2 DEF Entries
<1> QED BY <1>1, <1>2

LEMMA CurrentIsListed ==
  ASSUME TypeOK, Order, stage = "merging", Left
  PROVE  /\ Asked \in Sources /\ Asked = turn
         /\ answers[turn] \in Seq(Listed)
         /\ next \in DOMAIN answers[turn] /\ next \in 1 .. Len(answers[turn])
         /\ Current \in Listed /\ Current = answers[turn][next]
<1>1. Asked = turn /\ turn \in Sources
  BY ProvidersAssumption DEF Asked, Source, Sources, TypeOK
<1>2. answers[turn] \in Seq(Listed)
  BY ProvidersAssumption DEF Order
<1>3. next \in 1 .. Len(answers[turn])
  BY <1>1, <1>2 DEF Left, TypeOK
<1> QED BY <1>1, <1>2, <1>3 DEF Current

LEMMA InitIInv == ASSUME Init PROVE IInv
<1>1. TypeOK
  BY ProvidersAssumption DEF Init, TypeOK
<1>2. Order
  BY ProvidersAssumption DEF Init, Order, Sources
<1>3. SeenIsListed /\ ListedIsSeen /\ MergedIsSeen /\ NoDuplicates /\ Origins /\ KeptIsGiven
  BY DEF Init, SeenIsListed, ListedIsSeen, MergedIsSeen, NoDuplicates, Origins, KeptIsGiven,
         Answered
<1> QED BY <1>1, <1>2, <1>3 DEF IInv

LEMMA StepTypeOK == ASSUME TypeOK, Order, [Next]_vars PROVE TypeOK'
<1> USE ProvidersAssumption DEF Sources
<1>1. CASE Begin
  <2>1. \A p \in Sources : Entries(content[p]) \subseteq Listed
    BY EntriesAreListed DEF TypeOK
  <2> QED BY <1>1, <2>1 DEF Begin, TypeOK
<1>2. CASE Answers
  <2>1. Asked = turn /\ turn \in Sources /\ content[turn] \in Lists
    BY <1>2 DEF Answers, Asked, Source, TypeOK
  <2>2. content[turn] \in Seq(Listed) /\ Len(content[turn]) \in Nat
    BY <2>1
  <2>3. answers' \in [Sources -> Lists \cup {Failed, NotAsked}] /\ answers'[turn] = content[turn]
    BY <1>2, <2>1 DEF Answers, TypeOK
  <2>4. stage' = "merging" /\ turn' = turn /\ next' = 1 /\ turn <= N
    BY <1>2 DEF Answers
  <2>5. Asked' = turn
    BY <2>4 DEF Asked, Source
  <2> QED BY <1>2, <2>2, <2>3, <2>4, <2>5 DEF Answers, TypeOK
<1>3. CASE Fails
  <2>1. answers' \in [Sources -> Lists \cup {Failed, NotAsked}]
    BY <1>3 DEF Fails, TypeOK
  <2>2. turn' \in 1 .. N + 1 /\ stage' = "asking"
    BY <1>3 DEF Fails, AfterError, TypeOK
  <2> QED BY <1>3, <2>1, <2>2 DEF Fails, TypeOK
<1>4. CASE Take
  <2>1. /\ Asked = turn /\ Current \in Listed /\ next \in 1 .. Len(answers[turn])
        /\ answers[turn] \in Seq(Listed)
    BY <1>4, CurrentIsListed DEF Take
  <2>2. seen' \subseteq {Key(x) : x \in Listed} /\ out' \in Seq(Listed)
    BY <1>4, <2>1 DEF Take, TypeOK
  <2>3. turn' = turn /\ answers' = answers /\ next' = next + 1 /\ Asked' = turn
    BY <1>4 DEF Take, NextEntry, Asked, Source
  <2> QED BY <1>4, <2>1, <2>2, <2>3 DEF Take, TypeOK
<1>5. CASE Drop
  <2>1. /\ Asked = turn /\ next \in 1 .. Len(answers[turn]) /\ answers[turn] \in Seq(Listed)
    BY <1>5, CurrentIsListed DEF Drop
  <2>2. turn' = turn /\ answers' = answers /\ next' = next + 1 /\ Asked' = turn
    BY <1>5 DEF Drop, NextEntry, Asked, Source
  <2> QED BY <1>5, <2>1, <2>2 DEF Drop, TypeOK
<1>6. CASE NextSource \/ Return
  BY <1>6 DEF NextSource, Return, TypeOK
<1>7. ASSUME NEW p \in Sources, NEW c \in Lists \cup {Silent}, Change(p, c) PROVE TypeOK'
  <2>1. Asked' = Asked
    BY <1>7 DEF Change, query, Asked, Source
  <2> QED BY <1>7, <2>1 DEF Change, query, TypeOK
<1>8. CASE UNCHANGED vars
  <2>1. Asked' = Asked
    BY <1>8 DEF vars, query, Asked, Source
  <2> QED BY <1>8, <2>1 DEF vars, query, TypeOK
<1> QED BY <1>1, <1>2, <1>3, <1>4, <1>5, <1>6, <1>7, <1>8 DEF Next, Query

-----------------------------------------------------------------------------
(* The order in which sources are asked.                                   *)

LEMMA StepOrder == ASSUME TypeOK, Order, [Next]_vars PROVE Order'
<1> USE ProvidersAssumption DEF Sources
<1>1. CASE Begin
  BY <1>1 DEF Begin, Order
<1>2. CASE Answers
  <2>1. Asked = turn /\ turn \in Sources /\ content[turn] \in Lists
    BY <1>2 DEF Answers, Asked, Source, TypeOK
  <2> QED BY <1>2, <2>1 DEF Answers, Order, TypeOK
<1>3. CASE Fails
  BY <1>3 DEF Fails, Asked, Source, AfterError, Order, TypeOK
<1>4. CASE Take \/ Drop
  BY <1>4 DEF Take, Drop, Order
<1>5. CASE NextSource
  BY <1>5 DEF NextSource, Order, TypeOK
<1>6. CASE Return
  BY <1>6 DEF Return, Order, TypeOK
<1>7. ASSUME NEW p \in Sources, NEW c \in Lists \cup {Silent}, Change(p, c) PROVE Order'
  BY <1>7 DEF Change, query, Order
<1>8. CASE UNCHANGED vars
  BY <1>8 DEF vars, query, Order
<1> QED BY <1>1, <1>2, <1>3, <1>4, <1>5, <1>6, <1>7, <1>8 DEF Next, Query

-----------------------------------------------------------------------------
(* What is merged.                                                         *)

LEMMA TakeAppends ==
  ASSUME TypeOK, Order, Take
  PROVE  /\ Len(out') = Len(out) + 1 /\ Len(out) \in Nat
         /\ \A n \in 1 .. Len(out) : out'[n] = out[n]
         /\ out'[Len(out) + 1] = Current
         /\ Key(Current) \notin seen
         /\ seen' = seen \cup {Key(Current)}
<1>1. Current \in Listed /\ out \in Seq(Listed)
  BY CurrentIsListed DEF Take, TypeOK
<1> QED BY <1>1 DEF Take, Fresh

LEMMA StepListed ==
  ASSUME TypeOK, Order, SeenIsListed, ListedIsSeen, NoDuplicates, [Next]_vars
  PROVE  SeenIsListed' /\ ListedIsSeen' /\ NoDuplicates'
<1>1. CASE Begin
  BY <1>1 DEF Begin, SeenIsListed, ListedIsSeen, NoDuplicates
<1>2. CASE Take
  <2>1. SeenIsListed'
    <3>1. ASSUME NEW k \in seen, NEW n \in 1 .. Len(out), Key(out[n]) = k PROVE HasKey(k)'
      <4>1. n \in 1 .. Len(out') /\ out'[n] = out[n]
        BY <1>2, TakeAppends
      <4> QED BY <4>1, <3>1 DEF HasKey
    <3>2. \E n \in 1 .. Len(out') : Key(out'[n]) = Key(Current)
      <4>1. Len(out) + 1 \in 1 .. Len(out')
        BY <1>2, TakeAppends
      <4> QED BY <1>2, <4>1, TakeAppends
    <3> QED BY <1>2, <3>1, <3>2, TakeAppends DEF SeenIsListed, HasKey
  <2>2. ListedIsSeen'
    <3>1. ASSUME NEW n \in 1 .. Len(out') PROVE Key(out'[n]) \in seen'
      <4>1. CASE n \in 1 .. Len(out)
        BY <1>2, <4>1, TakeAppends DEF ListedIsSeen
      <4>2. CASE n = Len(out) + 1
        BY <1>2, <4>2, TakeAppends
      <4> QED BY <1>2, <4>1, <4>2, TakeAppends
    <3> QED BY <3>1 DEF ListedIsSeen
  <2>3. NoDuplicates'
    <3>1. \A n \in 1 .. Len(out) : Key(out'[n]) = Key(out[n]) /\ Key(out'[n]) # Key(Current)
      BY <1>2, TakeAppends DEF ListedIsSeen
    <3>2. \A n \in 1 .. Len(out') : n \in 1 .. Len(out) \/ n = Len(out) + 1
      BY <1>2, TakeAppends
    <3>3. Key(out'[Len(out) + 1]) = Key(Current)
      BY <1>2, TakeAppends
    <3> QED BY <3>1, <3>2, <3>3 DEF NoDuplicates
  <2> QED BY <2>1, <2>2, <2>3
<1>3. CASE UNCHANGED <<seen, out>>
  BY <1>3 DEF SeenIsListed, ListedIsSeen, NoDuplicates, HasKey
<1> QED BY <1>1, <1>2, <1>3
        DEF Next, Query, Answers, Fails, Drop, NextSource, Return, Change, query, vars

LEMMA StepMergedIsSeen ==
  ASSUME TypeOK, Order, MergedIsSeen, [Next]_vars PROVE MergedIsSeen'
<1> SUFFICES ASSUME NEW p \in Sources, Answered(p)',
                    NEW i \in DOMAIN answers'[p], Merged(p, i)'
             PROVE  Key(answers'[p][i]) \in seen'
  BY DEF MergedIsSeen
<1>0. \A q \in Sources : Answered(q) => answers[q] \in Seq(Listed)
  BY ProvidersAssumption DEF TypeOK, Answered
<1> USE DEF Sources
<1>1. CASE Begin
  BY <1>1 DEF Begin, Answered
<1>2. CASE Answers
  <2>1. Asked = turn /\ turn \in Sources /\ content[turn] \in Seq(Listed)
    BY <1>2, ProvidersAssumption DEF Answers, Asked, Source, TypeOK
  <2>2. p < turn
    <3>1. p <= turn
      BY <1>2 DEF Answers, Merged, TypeOK
    <3>2. CASE p = turn
      <4>1. answers'[p] = content[turn]
        BY <1>2, <2>1, <3>2 DEF Answers, TypeOK
      <4>2. i \in Nat /\ i >= 1 /\ i < 1
        BY <1>2, <2>1, <3>2, <4>1 DEF Answers, Merged, TypeOK
      <4> QED BY <4>2
    <3> QED BY <3>1, <3>2 DEF TypeOK
  <2>3. answers'[p] = answers[p] /\ seen' = seen
    BY <1>2, <2>1, <2>2 DEF Answers, TypeOK
  <2> QED BY <2>2, <2>3 DEF MergedIsSeen, Merged, Answered
<1>3. CASE Fails
  <2>1. Asked = turn
    BY DEF Asked, Source
  <2>2. p # turn
    BY <1>3, <2>1 DEF Fails, Answered, TypeOK
  <2>3. p < turn
    BY <1>3, <2>2 DEF Fails, AfterError, Merged, TypeOK
  <2>4. answers'[p] = answers[p] /\ seen' = seen
    BY <1>3, <2>1, <2>2 DEF Fails, TypeOK
  <2> QED BY <2>3, <2>4 DEF MergedIsSeen, Merged, Answered
<1>4. CASE Take \/ Drop
  <2>1. /\ answers' = answers /\ turn' = turn /\ stage' = "merging" /\ stage = "merging"
        /\ next' = next + 1 /\ seen \subseteq seen'
    BY <1>4 DEF Take, Drop, NextEntry
  <2>2. Key(Current) \in seen' /\ Current = answers[turn][next]
    BY <1>4, CurrentIsListed DEF Take, Drop, Fresh
  <2>3. CASE Merged(p, i)
    BY <2>1, <2>3 DEF MergedIsSeen, Answered
  <2>4. CASE ~ Merged(p, i)
    <3>1. p = turn /\ i < next + 1 /\ ~ (i < next)
      BY <2>1, <2>4 DEF Merged
    <3>2. i \in Nat
      BY <1>0, <2>1 DEF Answered
    <3>3. i = next
      BY <3>1, <3>2 DEF TypeOK
    <3> QED BY <2>1, <2>2, <3>1, <3>3
  <2> QED BY <2>3, <2>4
<1>5. CASE NextSource
  <2>1. answers' = answers /\ seen' = seen /\ stage = "merging" /\ turn' = turn + 1 /\ stage' = "asking"
    BY <1>5 DEF NextSource
  <2>2. Answered(p) /\ i \in DOMAIN answers[p] /\ p <= turn
    BY <2>1 DEF Answered, Merged, TypeOK
  <2>3. ASSUME p = turn PROVE i < next
    <3>1. ~ (next <= Len(answers[turn]))
      BY <1>5 DEF NextSource, Left, Asked, Source
    <3> QED BY <1>0, <2>2, <2>3, <3>1 DEF TypeOK
  <2>4. Merged(p, i)
    BY <2>1, <2>2, <2>3 DEF Merged, TypeOK
  <2> QED BY <2>1, <2>2, <2>4 DEF MergedIsSeen
<1>6. CASE Return
  BY <1>6 DEF Return, MergedIsSeen, Merged, Answered
<1>7. ASSUME UNCHANGED query PROVE Key(answers'[p][i]) \in seen'
  BY <1>7 DEF query, MergedIsSeen, Merged, Answered
<1> QED BY <1>1, <1>2, <1>3, <1>4, <1>5, <1>6, <1>7 DEF Next, Query, Change, vars

(* An origin stays one while the answers up to it stay.                    *)
LEMMA OriginKept ==
  ASSUME NEW x, NEW p \in Sources, NEW i \in Nat, FirstIs(x, p, i),
         Merged(p, i)',
         \A q \in Sources : q <= p => answers'[q] = answers[q]
  PROVE  FirstIs(x, p, i)'
<1>1. answers'[p] = answers[p]
  BY DEF Sources
<1>2. ASSUME NEW q \in Sources, Answered(q)', NEW j \in DOMAIN answers'[q], Before(q, j, p, i)
      PROVE  Key(answers'[q][j]) # Key(x)
  <2>1. answers'[q] = answers[q]
    BY <1>2 DEF Before, Sources
  <2> QED BY <1>2, <2>1 DEF FirstIs, NoneBefore, Answered
<1> QED BY <1>1, <1>2 DEF FirstIs, NoneBefore, Answered, Before

LEMMA StepOrigins ==
  ASSUME TypeOK, Order, ListedIsSeen, MergedIsSeen, Origins, [Next]_vars
  PROVE  Origins'
<1> USE DEF Sources
(* Steps that list nothing new.                                            *)
<1>0. ASSUME out' = out,
             \A p \in Sources : \A i \in Nat :
               Answered(p) /\ i \in DOMAIN answers[p] /\ Merged(p, i) =>
                 /\ Merged(p, i)'
                 /\ \A q \in Sources : q <= p => answers'[q] = answers[q]
      PROVE  Origins'
  <2>1. ASSUME NEW n \in 1 .. Len(out), NEW x, x = out[n]
        PROVE  \E p \in Sources : \E i \in Nat : FirstIs(x, p, i)'
    <3>1. PICK p \in Sources, i \in Nat : FirstIs(x, p, i)
      BY <2>1 DEF Origins
    <3>2. Merged(p, i)' /\ \A q \in Sources : q <= p => answers'[q] = answers[q]
      BY <1>0, <3>1 DEF FirstIs
    <3>3. FirstIs(x, p, i)'
      BY <3>1, <3>2, OriginKept
    <3> QED BY <3>3
  <2> QED BY <1>0, <2>1 DEF Origins
<1>1. CASE Begin
  BY <1>1 DEF Begin, Origins
<1>2. CASE Answers \/ Fails
  <2>1. Asked = turn
    BY DEF Asked, Source
  <2>2. /\ stage = "asking" /\ out' = out /\ turn' >= turn
        /\ \A q \in Sources : q # turn => answers'[q] = answers[q]
    <3>1. CASE Answers
      BY <2>1, <3>1 DEF Answers, TypeOK
    <3>2. CASE Fails
      BY <2>1, <3>2 DEF Fails, AfterError, TypeOK
    <3> QED BY <1>2, <3>1, <3>2
  <2>3. ASSUME NEW p \in Sources, NEW i \in Nat, Merged(p, i)
        PROVE  Merged(p, i)' /\ \A q \in Sources : q <= p => answers'[q] = answers[q]
    <3>1. p < turn
      BY <2>2, <2>3 DEF Merged
    <3>2. p < turn'
      BY <1>2, <3>1 DEF Answers, Fails, AfterError, TypeOK
    <3> QED BY <2>2, <3>1, <3>2 DEF Merged, TypeOK
  <2> QED BY <1>0, <2>2, <2>3
<1>3. CASE Take
  <2>1. /\ answers' = answers /\ turn' = turn /\ stage' = "merging" /\ stage = "merging"
        /\ next' = next + 1
    BY <1>3 DEF Take, NextEntry
  <2>2. /\ turn \in Sources /\ next \in DOMAIN answers[turn] /\ next \in Nat
        /\ Current = answers[turn][next]
    BY <1>3, CurrentIsListed DEF Take, TypeOK
  <2>3. ASSUME NEW p \in Sources, NEW i \in Nat, Merged(p, i) PROVE Merged(p, i)'
    BY <2>1, <2>3 DEF Merged, TypeOK
  <2>4. ASSUME NEW n \in 1 .. Len(out), NEW x, x = out[n]
        PROVE  \E p \in Sources : \E i \in Nat : FirstIs(x, p, i)'
    <3>1. PICK p \in Sources, i \in Nat : FirstIs(x, p, i)
      BY <2>4 DEF Origins
    <3>2. Merged(p, i)'
      BY <2>3, <3>1 DEF FirstIs
    <3>3. FirstIs(x, p, i)'
      BY <2>1, <3>1, <3>2, OriginKept
    <3> QED BY <3>3
  <2>5. ASSUME NEW x, x = Current, NEW p, p = turn, NEW i, i = next
        PROVE  p \in Sources /\ i \in Nat /\ FirstIs(x, p, i)'
    <3>1. ASSUME NEW q \in Sources, Answered(q), NEW j \in DOMAIN answers[q], Before(q, j, p, i)
          PROVE  Key(answers[q][j]) # Key(x)
      <4>1. Merged(q, j)
        BY <2>1, <2>5, <3>1 DEF Before, Merged
      <4> QED BY <1>3, <2>5, <3>1, <4>1, TakeAppends DEF MergedIsSeen
    <3>2. NoneBefore(Key(x), p, i)'
      BY <2>1, <3>1 DEF NoneBefore, Answered, Before
    <3>3. Answered(p) /\ i \in DOMAIN answers[p] /\ answers[p][i] = x
      BY <2>1, <2>2, <2>5, ProvidersAssumption DEF Order, Answered
    <3>4. Merged(p, i)'
      BY <2>1, <2>2, <2>5 DEF Merged
    <3> QED BY <2>1, <2>2, <2>5, <3>2, <3>3, <3>4 DEF FirstIs, Answered
  <2>6. ASSUME NEW x, x = Current
        PROVE  \E p \in Sources : \E i \in Nat : FirstIs(x, p, i)'
    BY <2>5, <2>6
  <2>7. \A n \in 1 .. Len(out') :
          (n \in 1 .. Len(out) /\ out'[n] = out[n]) \/ (n = Len(out) + 1 /\ out'[n] = Current)
    BY <1>3, TakeAppends
  <2> QED BY <2>4, <2>6, <2>7 DEF Origins
<1>4. CASE Drop \/ NextSource
  <2>1. answers' = answers /\ out' = out
    BY <1>4 DEF Drop, NextSource
  <2>2. \A p \in Sources, i \in Nat : Merged(p, i) => Merged(p, i)'
    BY <1>4 DEF Drop, NextSource, NextEntry, Merged, TypeOK
  <2> QED BY <1>0, <2>1, <2>2
<1>5. CASE Return
  BY <1>0, <1>5 DEF Return, Merged
<1>6. CASE UNCHANGED query
  BY <1>0, <1>6 DEF query, Merged
<1> QED BY <1>1, <1>2, <1>3, <1>4, <1>5, <1>6 DEF Next, Query, Change, vars

-----------------------------------------------------------------------------
(* What is listed throughout.                                              *)

LEMMA StepKept == ASSUME TypeOK, KeptIsGiven, [Next]_vars PROVE KeptIsGiven'
<1> USE ProvidersAssumption
<1>1. CASE Begin
  BY <1>1 DEF Begin, KeptIsGiven, Answered
<1>2. CASE Answers
  <2>1. \A p \in Sources : answers'[p] = answers[p] \/ answers'[p] = content[p]
    BY <1>2 DEF Answers, TypeOK
  <2>2. kept' = kept /\ content' = content /\ stage # "idle"
    BY <1>2 DEF Answers
  <2> QED BY <2>1, <2>2 DEF KeptIsGiven, Answered, Entries
<1>3. CASE Fails
  BY <1>3 DEF Fails, KeptIsGiven, Answered, TypeOK, Entries
<1>4. CASE Take \/ Drop \/ NextSource \/ Return
  BY <1>4 DEF Take, Drop, NextSource, Return, KeptIsGiven, Answered, Entries
<1>5. ASSUME NEW p \in Sources, NEW c \in Lists \cup {Silent}, Change(p, c) PROVE KeptIsGiven'
  <2>1. UNCHANGED query
    BY <1>5 DEF Change
  <2>2. \A q \in Sources : kept'[q] \subseteq kept[q]
    BY <1>5 DEF Change, TypeOK
  <2>3. ASSUME NEW q \in Sources, stage # "idle" PROVE kept'[q] \subseteq Entries(content'[q])
    <3>1. CASE q = p
      BY <1>5, <3>1 DEF Change, TypeOK
    <3>2. CASE q # p
      BY <1>5, <2>3, <3>2 DEF Change, TypeOK, KeptIsGiven
    <3> QED BY <3>1, <3>2
  <2> QED BY <2>1, <2>2, <2>3 DEF KeptIsGiven, Answered, query, Entries
<1>6. CASE UNCHANGED vars
  BY <1>6 DEF vars, query, KeptIsGiven, Answered, Entries
<1> QED BY <1>1, <1>2, <1>3, <1>4, <1>5, <1>6 DEF Next, Query

-----------------------------------------------------------------------------
(* The theorems.                                                           *)

LEMMA Invariance == Spec => []IInv
<1>1. Init => IInv
  BY InitIInv
<1>2. IInv /\ [Next]_vars => IInv'
  BY StepTypeOK, StepOrder, StepListed, StepMergedIsSeen, StepOrigins, StepKept DEF IInv
<1> QED BY <1>1, <1>2, PTL DEF Spec

(* Type correctness.                                                       *)
THEOREM TypeCorrect == Spec => []TypeOK
<1>1. IInv => TypeOK
  BY DEF IInv
<1> QED BY <1>1, Invariance, PTL

(* For any number of sources: a subscription is listed once, however many  *)
(* know it and however often.                                              *)
THEOREM ListedOnce == Spec => []NoDuplicates
<1>1. IInv => NoDuplicates
  BY DEF IInv
<1> QED BY <1>1, Invariance, PTL

(* Of several with one key the first is listed, by the order of sources    *)
(* and then of the list.                                                   *)
THEOREM TheFirstWins == Spec => []FirstWins
<1>1. ASSUME IInv PROVE FirstWins
  <2>1. ASSUME NEW n \in 1 .. Len(out), NEW p \in Sources, NEW i \in Nat, FirstIs(out[n], p, i)
        PROVE  /\ Answered(p) /\ i \in DOMAIN answers[p] /\ answers[p][i] = out[n]
               /\ \A q \in Sources : Answered(q) => \A j \in DOMAIN answers[q] :
                    Before(q, j, p, i) => Key(answers[q][j]) # Key(out[n])
    BY <2>1 DEF FirstIs, NoneBefore
  <2> QED BY <1>1, <2>1 DEF IInv, Origins, FirstWins
<1>2. IInv => FirstWins
  BY <1>1
<1> QED BY <1>2, Invariance, PTL

(* Whatever other sources do, fail or forget: what a source that answered  *)
(* listed throughout the query is served.                                  *)
THEOREM ServedThroughFailures == Spec => []StableServed
<1>1. ASSUME IInv PROVE StableServed
  <2> SUFFICES ASSUME stage = "returned", NEW p \in Sources, answers[p] # Failed, NEW x \in kept[p]
               PROVE  HasKey(Key(x))
    BY DEF StableServed
  <2>1. turn = N + 1 /\ p < turn
    BY <1>1, ProvidersAssumption DEF IInv, Order, Sources
  <2>2. answers[p] # NotAsked
    BY <1>1, <2>1, ProvidersAssumption DEF IInv, Order, Sources
  <2>3. Answered(p)
    BY <2>2 DEF Answered
  <2>4. x \in Entries(answers[p])
    BY <1>1, <2>3 DEF IInv, KeptIsGiven
  <2>5. PICK i \in DOMAIN answers[p] : x = answers[p][i]
    BY <2>4 DEF Entries
  <2>6. Key(x) \in seen
    BY <1>1, <2>1, <2>3, <2>5 DEF IInv, MergedIsSeen, Merged
  <2> QED BY <1>1, <2>6 DEF IInv, SeenIsListed
<1>2. IInv => StableServed
  BY <1>1
<1> QED BY <1>2, Invariance, PTL

=============================================================================
