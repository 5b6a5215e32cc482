---------------------------- MODULE AccountsProofs ----------------------------
(***************************************************************************)
(* Proofs about the three parts of an account: Subscriptions (the timeline *)
(* stays in order, and a trial, a key and a reminder count once), Access   *)
(* and AdminAccess; then about the three together.                         *)
(***************************************************************************)
EXTENDS Accounts, FiniteSetTheorems, WellFoundedInduction, SequenceTheorems, TLAPS

LessThan == {pair \in Nat \X Nat : pair[1] < pair[2]}

\* The natural numbers are well-founded under it.
LEMMA LessThanWellFounded == IsWellFoundedOn(LessThan, Nat)
  BY NatLessThanWellFounded DEF OpToRel, LessThan

\* Every non-empty set of natural numbers has a least element.
LEMMA LeastNat ==
    ASSUME NEW T, T \subseteq Nat, T # {}
    PROVE  \E n \in T : \A m \in T : n <= m
<1>1. PICK n \in T : \A m \in T : <<m, n>> \notin LessThan
  BY LessThanWellFounded, WFMin
<1>2. \A m \in T : ~(m < n)
  BY <1>1 DEF LessThan
<1>3. QED
  BY <1>2

\* Induction over the subsets of a finite set: a set to which every one belongs
\* as soon as all its proper subsets do has all of them.
LEMMA SubsetInduction ==
    ASSUME NEW S, IsFiniteSet(S), NEW P,
           \A T \in SUBSET S : (\A U \in SUBSET T : U # T => U \in P) => T \in P
    PROVE  SUBSET S \subseteq P
<1> DEFINE Bad == {T \in SUBSET S : T \notin P}
           Sizes == {n \in Nat : \E T \in Bad : Cardinality(T) = n}
<1> SUFFICES ASSUME Bad # {} PROVE FALSE
  OBVIOUS
<1>1. \A T \in SUBSET S : IsFiniteSet(T) /\ Cardinality(T) \in Nat
  BY FS_Subset, FS_CardinalityType
<1>2. Sizes # {}
  BY <1>1
<1>3. PICK n \in Sizes : \A m \in Sizes : n <= m
  <2> HIDE DEF Sizes
  <2>1. Sizes \subseteq Nat
    BY DEF Sizes
  <2>2. QED
    BY <1>2, <2>1, LeastNat
<1>4. PICK T \in Bad : Cardinality(T) = n
  BY <1>3
<1>5. ASSUME NEW U \in SUBSET T, U # T
      PROVE  U \in P
  <2>1. IsFiniteSet(T) /\ Cardinality(T) \in Nat /\ Cardinality(U) \in Nat
    BY <1>1
  <2>2. Cardinality(U) < Cardinality(T)
    BY <1>5, <2>1, FS_Subset
  <2>3. Cardinality(U) \notin Sizes
    BY <1>3, <1>4, <2>1, <2>2
  <2>4. QED
    BY <2>1, <2>3
<1>6. QED
  BY <1>4, <1>5

\* Of finitely many elements with numbers one has the greatest.
LEMMA Greatest ==
    ASSUME NEW T, IsFiniteSet(T), T # {}, NEW num, \A x \in T : num[x] \in Nat
    PROVE  \E m \in T : \A x \in T : num[x] <= num[m]
<1> DEFINE Above(x) == {y \in T : num[x] < num[y]}
           Counts == {Cardinality(Above(x)) : x \in T}
<1>1. \A x \in T : IsFiniteSet(Above(x)) /\ Cardinality(Above(x)) \in Nat
  BY FS_Subset, FS_CardinalityType
<1>2. PICK n \in Counts : \A k \in Counts : n <= k
  <2>1. Counts \subseteq Nat /\ Counts # {}
    BY <1>1
  <2> HIDE DEF Counts
  <2>2. QED
    BY <2>1, LeastNat
<1>3. PICK m \in T : n = Cardinality(Above(m))
  BY <1>2
<1>4. ASSUME NEW x \in T, ~(num[x] <= num[m]) PROVE FALSE
  <2>1. num[m] < num[x]
    BY <1>4
  <2>2. Above(x) \subseteq Above(m) /\ x \in Above(m) /\ x \notin Above(x)
    BY <2>1
  <2>3. Cardinality(Above(x)) < Cardinality(Above(m))
    <3>1. IsFiniteSet(Above(m)) /\ Above(x) # Above(m)
      BY <1>1, <2>2
    <3>2. Cardinality(Above(x)) <= Cardinality(Above(m)) /\ (Cardinality(Above(x)) = Cardinality(Above(m)) => Above(x) = Above(m))
      BY <2>2, <3>1, FS_Subset
    <3>3. QED
      BY <1>1, <3>1, <3>2
  <2>4. Cardinality(Above(x)) \in Counts
    OBVIOUS
  <2>5. Cardinality(Above(x)) \in Nat /\ Cardinality(Above(m)) \in Nat
    BY <1>1
  <2> HIDE DEF Above, Counts
  <2>6. QED
    BY <1>2, <1>3, <2>3, <2>4, <2>5
<1>5. QED
  BY <1>4

PlanNames == {Trial.plan} \cup {KeyOf[k].plan : k \in Keys}
Term == [plan : PlanNames, price : Nat, source : Sources, startsAt : Nat, endsAt : Nat]
Seg == {x \in Term : x.startsAt <= x.endsAt}

----------------------------------------------------------------------------
(* The timeline *)

LEMMA MaxIsGreatest ==
    ASSUME NEW S, IsFiniteSet(S), S # {}, S \subseteq Nat
    PROVE  Max(S) \in S /\ \A x \in S : x <= Max(S)
<1> DEFINE num == [x \in S |-> x]
<1>1. \A x \in S : num[x] \in Nat
  OBVIOUS
<1>2. PICK m \in S : \A x \in S : num[x] <= num[m]
  <2> HIDE DEF num
  <2>1. QED
    BY <1>1, Greatest
<1>3. \E x \in S : \A y \in S : x >= y
  BY <1>2
<1>4. QED
  BY <1>3 DEF Max

LEMMA EndsAreFinite ==
    ASSUME NEW segs \in Seq(Seg), NEW t \in Nat
    PROVE  LET ends == {t} \cup {segs[i].endsAt : i \in DOMAIN segs}
           IN  IsFiniteSet(ends) /\ ends \subseteq Nat
<1>1. IsFiniteSet(DOMAIN segs)
  BY FS_Interval
<1>2. \A i \in DOMAIN segs : segs[i] \in Seg
  OBVIOUS
<1> DEFINE end == [i \in DOMAIN segs |-> segs[i].endsAt]
<1>3. IsFiniteSet({segs[i].endsAt : i \in DOMAIN segs}) /\ IsFiniteSet({t})
  <2>1. IsFiniteSet({end[i] : i \in DOMAIN segs})
    <3> HIDE DEF end
    <3>1. end \in [DOMAIN segs -> {end[i] : i \in DOMAIN segs}]
      BY DEF end
    <3>2. end \in Surjection(DOMAIN segs, {end[i] : i \in DOMAIN segs})
      BY <3>1 DEF Surjection
    <3>3. QED
      BY <1>1, <3>2, FS_Surjection
  <2>2. {end[i] : i \in DOMAIN segs} = {segs[i].endsAt : i \in DOMAIN segs}
    OBVIOUS
  <2>3. QED
    BY <2>1, <2>2, FS_Singleton
<1>4. QED
  BY <1>2, <1>3, FS_Union DEF Seg, Term

\* LastEnd is the latest of t and the ends of all segments.
LEMMA LastEndIs ==
    ASSUME NEW segs \in Seq(Seg), NEW t \in Nat
    PROVE  /\ LastEnd(segs, t) \in Nat /\ t <= LastEnd(segs, t)
           /\ \A i \in DOMAIN segs : segs[i].endsAt <= LastEnd(segs, t)
           /\ LastEnd(segs, t) = t \/ \E i \in DOMAIN segs : segs[i].endsAt = LastEnd(segs, t)
<1> DEFINE ends == {t} \cup {segs[i].endsAt : i \in DOMAIN segs}
<1>1. IsFiniteSet(ends) /\ ends \subseteq Nat /\ ends # {}
  BY EndsAreFinite
<1>2. Max(ends) \in ends /\ \A x \in ends : x <= Max(ends)
  <2> HIDE DEF ends
  <2>1. QED
    BY <1>1, MaxIsGreatest
<1>3. QED
  BY <1>1, <1>2 DEF LastEnd

\* While a plan runs, the current segment is one that does.
LEMMA CurrentRuns ==
    ASSUME NEW segs \in Seq(Seg), NEW t \in Nat, ~Expired(segs, t)
    PROVE  Current(segs, t) \in Running(segs, t)
<1> DEFINE running == Running(segs, t)
           start == [i \in running |-> segs[i].startsAt]
<1>1. running \subseteq DOMAIN segs /\ running # {} /\ IsFiniteSet(running)
  <2>1. IsFiniteSet(DOMAIN segs)
    BY FS_Interval
  <2>2. QED
    BY <2>1, FS_Subset DEF Running, Expired
<1>2. \A i \in running : start[i] \in Nat /\ start[i] = segs[i].startsAt
  BY <1>1 DEF Seg, Term
<1>3. PICK m \in running : \A i \in running : start[i] <= start[m]
  <2> HIDE DEF running, start
  <2>1. QED
    BY <1>1, <1>2, Greatest
<1> DEFINE last == {i \in running : start[i] = start[m]}
           place == [i \in last |-> i]
<1>4. PICK n \in last : \A i \in last : place[i] <= place[n]
  <2>1. IsFiniteSet(last)
    <3>1. last \subseteq running
      OBVIOUS
    <3> HIDE DEF last, running
    <3>2. QED
      BY <1>1, <3>1, FS_Subset
  <2>2. m \in last /\ \A i \in last : place[i] \in Nat
    BY <1>1
  <2> HIDE DEF last, place
  <2>3. QED
    BY <2>1, <2>2, Greatest
<1>5. n \in running
  OBVIOUS
<1>6. ASSUME NEW j \in running
      PROVE  \/ segs[j].startsAt < segs[n].startsAt
             \/ segs[j].startsAt = segs[n].startsAt /\ j <= n
  <2>2. start[j] \in Nat /\ start[n] \in Nat /\ start[j] <= start[n]
    BY <1>2, <1>3, <1>5
  <2>3. start[j] = start[n] => j <= n
    BY <1>4
  <2>4. start[j] = segs[j].startsAt /\ start[n] = segs[n].startsAt
    BY <1>2, <1>5
  <2> HIDE DEF start, running, last, place
  <2>5. QED
    BY <2>2, <2>3, <2>4
<1>7. QED
  <2> HIDE DEF start, last, place
  <2>1. QED
    BY <1>5, <1>6 DEF Current

LEMMA SegmentTyped ==
    ASSUME NEW key, key.plan \in PlanNames, key.price \in Nat, NEW source \in Sources,
           NEW from \in Nat, NEW days \in Nat
    PROVE  /\ Segment(key, source, from, days) \in Seg
           /\ Segment(key, source, from, days).startsAt = from
           /\ Segment(key, source, from, days).source = source
<1> DEFINE length == days * DAY_MS
<1>1. length \in Nat
  BY PlanConstants
<1> HIDE DEF length
<1> DEFINE x == [plan |-> key.plan, price |-> key.price, source |-> source,
                 startsAt |-> from, endsAt |-> from + length]
<1>2. x \in Seg /\ x.startsAt = from /\ x.source = source
  BY <1>1 DEF Seg, Term
<1>3. Segment(key, source, from, days) = x
  BY DEF Segment, length
<1>4. QED
  BY <1>2, <1>3

LEMMA KeySegment ==
    ASSUME NEW k \in Keys, NEW from \in Nat, NEW days \in Nat
    PROVE  LET x == Segment(KeyOf[k], "KEY", from, days)
           IN  x \in Seg /\ x.startsAt = from /\ x.source = "KEY"
<1>1. KeyOf[k].plan \in PlanNames /\ KeyOf[k].price \in Nat /\ "KEY" \in Sources
  BY PlanConstants DEF PlanNames, Sources
<1>2. QED
  BY <1>1, SegmentTyped

LEMMA ConvertedTyped ==
    ASSUME NEW cur \in Seg, NEW t \in Nat, t < cur.endsAt, NEW key, key.price \in Nat
    PROVE  ConvertedDays(cur, t, key) \in Nat
<1> DEFINE days == (cur.endsAt - t) \div DAY_MS
<1>1. cur.endsAt - t \in Nat /\ cur.price \in Nat
  BY DEF Seg, Term
<1>2. days \in Nat
  BY <1>1, PlanConstants
<1>3. days * cur.price \in Nat
  <2> HIDE DEF days
  <2>1. QED
    BY <1>1, <1>2
<1> DEFINE worth == days * cur.price
<1>4. key.price > 0 => worth \div key.price \in Nat
  <2> HIDE DEF worth
  <2>1. worth \in Nat
    BY <1>3 DEF worth
  <2>2. QED
    BY <2>1
<1>5. QED
  BY <1>4 DEF ConvertedDays

\* What a redemption makes of a timeline: the same segments, moved or cut, and a
\* new one of the key at the end.
LEMMA AddedTyped ==
    ASSUME NEW segs \in Seq(Seg), NEW t \in Nat, NEW k \in Keys
    PROVE  /\ Added(segs, t, KeyOf[k]) \in Seq(Seg)
           /\ Len(Added(segs, t, KeyOf[k])) = Len(segs) + 1
           /\ Last(Added(segs, t, KeyOf[k])).source = "KEY"
<1> DEFINE start == IF Expired(segs, t) /\ Queued(segs, t) = {} THEN t ELSE LastEnd(segs, t)
           fresh == Segment(KeyOf[k], "KEY", start, KeyOf[k].days)
<1>1. start \in Nat
  BY LastEndIs
<1>2. fresh \in Seg /\ fresh.source = "KEY"
  <2> HIDE DEF start
  <2>1. QED
    BY <1>1, KeySegment, PlanConstants
<1>3. Added(segs, t, KeyOf[k]) = Append(segs, fresh)
  BY DEF Added
<1> HIDE DEF fresh
<1>4. QED
  BY <1>2, <1>3 DEF Last

\* One segment of a switch, and the new one.
Fresh(segs, t, k) ==
    LET c == Current(segs, t)
    IN  Segment(KeyOf[k], "KEY", t, KeyOf[k].days + ConvertedDays(segs[c], t, KeyOf[k]))

Behind(q, from, by) ==
    LET start == from + Later(0, q.startsAt - by)
    IN  [q EXCEPT !.startsAt = start, !.endsAt = start + (q.endsAt - q.startsAt)]

Shifted(segs, t, k) ==
    LET c == Current(segs, t)
    IN  [i \in DOMAIN segs |->
            IF i = c THEN [segs[i] EXCEPT !.endsAt = t]
            ELSE IF i \in Queued(segs, t) THEN Behind(segs[i], Fresh(segs, t, k).endsAt, segs[c].endsAt)
            ELSE segs[i]]

LEMMA SwitchedIs ==
    ASSUME NEW segs, NEW t, NEW k
    PROVE  Switched(segs, t, KeyOf[k]) = Append(Shifted(segs, t, k), Fresh(segs, t, k))
  BY DEF Switched, Shifted, Fresh, Behind

LEMMA FreshTyped ==
    ASSUME NEW segs \in Seq(Seg), NEW t \in Nat, NEW k \in Keys, ~Expired(segs, t)
    PROVE  /\ Fresh(segs, t, k) \in Seg /\ Fresh(segs, t, k).source = "KEY"
           /\ Fresh(segs, t, k).startsAt = t
<1> DEFINE c == Current(segs, t)
           days == KeyOf[k].days + ConvertedDays(segs[c], t, KeyOf[k])
<1>1. segs[c] \in Seg /\ t < segs[c].endsAt
  <2>1. c \in Running(segs, t)
    BY CurrentRuns
  <2>2. c \in DOMAIN segs /\ segs[c].endsAt > t
    BY <2>1 DEF Running
  <2>3. segs[c] \in Seg
    BY <2>2
  <2>4. segs[c].endsAt \in Nat
    BY <2>3 DEF Seg, Term
  <2> HIDE DEF c
  <2>5. QED
    BY <2>2, <2>3, <2>4
<1>2. days \in Nat
  BY <1>1, ConvertedTyped, PlanConstants
<1>3. Fresh(segs, t, k) = Segment(KeyOf[k], "KEY", t, days)
  BY DEF Fresh
<1> HIDE DEF days
<1>4. QED
  BY <1>2, <1>3, KeySegment

LEMMA BehindTyped ==
    ASSUME NEW q \in Seg, NEW from \in Nat, NEW by \in Nat
    PROVE  /\ Behind(q, from, by) \in Seg /\ from <= Behind(q, from, by).startsAt
           /\ Behind(q, from, by).source = q.source
           /\ by <= q.startsAt => /\ Behind(q, from, by).startsAt = q.startsAt + (from - by)
                                  /\ Behind(q, from, by).endsAt = q.endsAt + (from - by)
<1> DEFINE start == from + Later(0, q.startsAt - by)
           length == q.endsAt - q.startsAt
<1>1. start \in Nat /\ from <= start /\ length \in Nat /\ (by <= q.startsAt => start = from + (q.startsAt - by))
  BY DEF Later, Seg, Term
<1>2. [q EXCEPT !.startsAt = start, !.endsAt = start + length] =
        [plan |-> q.plan, price |-> q.price, source |-> q.source, startsAt |-> start, endsAt |-> start + length]
  <2> DEFINE moved == [q EXCEPT !.startsAt = start]
  <2> HIDE DEF start, length
  <2>1. moved = [plan |-> q.plan, price |-> q.price, source |-> q.source, startsAt |-> start, endsAt |-> q.endsAt]
    BY DEF Seg, Term
  <2>2. [q EXCEPT !.startsAt = start, !.endsAt = start + length] = [moved EXCEPT !.endsAt = start + length]
    OBVIOUS
  <2> HIDE DEF moved
  <2>3. QED
    BY <2>1, <2>2
<1>3. Behind(q, from, by) = [q EXCEPT !.startsAt = start, !.endsAt = start + length]
  BY DEF Behind
<1>4. q.plan \in PlanNames /\ q.price \in Nat /\ q.source \in Sources
  BY DEF Seg, Term
<1>5. q.startsAt \in Nat /\ q.endsAt \in Nat
  BY DEF Seg, Term
<1>6. by <= q.startsAt => start + length = q.endsAt + (from - by) /\ start = q.startsAt + (from - by)
  BY <1>1, <1>5
<1> HIDE DEF start, length
<1>7. QED
  BY <1>1, <1>2, <1>3, <1>4, <1>6 DEF Seg, Term

LEMMA SwitchedTyped ==
    ASSUME NEW segs \in Seq(Seg), NEW t \in Nat, NEW k \in Keys, ~Expired(segs, t)
    PROVE  /\ Shifted(segs, t, k) \in Seq(Seg) /\ Len(Shifted(segs, t, k)) = Len(segs)
           /\ Switched(segs, t, KeyOf[k]) \in Seq(Seg)
           /\ Len(Switched(segs, t, KeyOf[k])) = Len(segs) + 1
           /\ Last(Switched(segs, t, KeyOf[k])).source = "KEY"
<1> DEFINE c == Current(segs, t)
           cut == [segs[c] EXCEPT !.endsAt = t]
           from == Fresh(segs, t, k).endsAt
           by == segs[c].endsAt
           Part(i) == IF i = c THEN cut ELSE IF i \in Queued(segs, t) THEN Behind(segs[i], from, by) ELSE segs[i]
<1>1. c \in Running(segs, t) /\ Fresh(segs, t, k) \in Seg /\ Fresh(segs, t, k).source = "KEY"
  BY CurrentRuns, FreshTyped
<1>2. c \in DOMAIN segs /\ segs[c] \in Seg /\ segs[c].startsAt <= t
  BY <1>1 DEF Running
<1>3. cut \in Seg
  BY <1>2 DEF Seg, Term
<1>4. from \in Nat /\ by \in Nat
  BY <1>1, <1>2 DEF Seg, Term
<1>5. \A i \in DOMAIN segs : Part(i) \in Seg
  <2> HIDE DEF c, cut, from, by
  <2>1. TAKE i \in DOMAIN segs
  <2>2. segs[i] \in Seg
    OBVIOUS
  <2>3. Behind(segs[i], from, by) \in Seg
    BY <1>4, <2>2, BehindTyped
  <2>4. QED
    BY <1>3, <2>2, <2>3
<1>6. Shifted(segs, t, k) = [i \in 1..Len(segs) |-> Part(i)]
  BY DEF Shifted
<1>7. Shifted(segs, t, k) \in Seq(Seg) /\ Len(Shifted(segs, t, k)) = Len(segs)
  <2> HIDE DEF Part
  <2>1. Len(segs) \in Nat /\ DOMAIN segs = 1..Len(segs)
    OBVIOUS
  <2>2. QED
    BY <1>5, <1>6, <2>1, IsASeq
<1>8. QED
  BY <1>1, <1>7, SwitchedIs DEF Last

LEMMA RedeemedTyped ==
    ASSUME NEW segs \in Seq(Seg), NEW t \in Nat, NEW k \in Keys, NEW choice
    PROVE  LET after == Redeemed(segs, t, KeyOf[k], choice)
           IN  after \in Seq(Seg) /\ Len(after) = Len(segs) + 1 /\ Last(after).source = "KEY"
<1>1. DifferentPlan(segs, t, KeyOf[k]) => ~Expired(segs, t)
  BY DEF DifferentPlan
<1>2. QED
  BY <1>1, AddedTyped, SwitchedTyped DEF Redeemed

----------------------------------------------------------------------------
\* A timeline in order: no two segments overlap, and from t there is no hole
\* before the end of any of them.
NoOverlap(segs) == \A i, j \in DOMAIN segs : i # j => ~Overlap(segs[i], segs[j])

Covers(segs, t) ==
    \A u \in Nat : u >= t /\ (\E i \in DOMAIN segs : u < segs[i].endsAt) =>
        \E i \in DOMAIN segs : segs[i].startsAt <= u /\ u < segs[i].endsAt

Tidy(segs, t) == NoOverlap(segs) /\ Covers(segs, t)

\* A segment that starts where the timeline ends keeps it in order.
LEMMA AppendTidy ==
    ASSUME NEW segs \in Seq(Seg), NEW t \in Nat, Tidy(segs, t), NEW x \in Seg,
           x.startsAt = LastEnd(segs, t)
    PROVE  Tidy(Append(segs, x), t)
<1> DEFINE all == Append(segs, x)
           n == Len(segs)
<1>1. n \in Nat /\ DOMAIN segs = 1..n /\ all \in Seq(Seg) /\ DOMAIN all = 1..(n + 1)
      /\ all[n + 1] = x /\ \A i \in 1..n : all[i] = segs[i] /\ segs[i] \in Seg
  OBVIOUS
<1>2. /\ LastEnd(segs, t) \in Nat /\ t <= LastEnd(segs, t)
      /\ \A i \in 1..n : segs[i].endsAt <= LastEnd(segs, t)
      /\ LastEnd(segs, t) = t \/ \E i \in 1..n : segs[i].endsAt = LastEnd(segs, t)
  BY <1>1, LastEndIs
<1>3. x.startsAt \in Nat /\ x.endsAt \in Nat /\ x.startsAt <= x.endsAt
  BY DEF Seg, Term
<1>4. \A i \in 1..n : segs[i].startsAt \in Nat /\ segs[i].endsAt \in Nat
  BY <1>1 DEF Seg, Term
<1> HIDE DEF all, n
<1>5. NoOverlap(all)
  <2> SUFFICES ASSUME NEW i \in 1..(n + 1), NEW j \in 1..(n + 1), i # j
               PROVE  ~Overlap(all[i], all[j])
    BY <1>1 DEF NoOverlap
  <2>1. CASE i \in 1..n /\ j \in 1..n
    BY <1>1, <2>1 DEF Tidy, NoOverlap
  <2>2. CASE i = n + 1 /\ j \in 1..n
    BY <1>1, <1>2, <1>3, <1>4, <2>2 DEF Overlap
  <2>3. CASE i \in 1..n /\ j = n + 1
    BY <1>1, <1>2, <1>3, <1>4, <2>3 DEF Overlap
  <2>4. QED
    BY <1>1, <2>1, <2>2, <2>3
<1>6. Covers(all, t)
  <2> SUFFICES ASSUME NEW u \in Nat, u >= t, NEW i \in 1..(n + 1), u < all[i].endsAt
               PROVE  \E j \in 1..(n + 1) : all[j].startsAt <= u /\ u < all[j].endsAt
    BY <1>1 DEF Covers
  <2>1. CASE u < LastEnd(segs, t)
    <3>1. PICK m \in 1..n : u < segs[m].endsAt
      BY <1>2, <2>1
    <3>2. PICK j \in 1..n : segs[j].startsAt <= u /\ u < segs[j].endsAt
      BY <1>1, <3>1 DEF Tidy, Covers
    <3>3. QED
      BY <1>1, <3>2
  <2>2. CASE ~(u < LastEnd(segs, t))
    <3>1. ~(i \in 1..n)
      BY <1>1, <1>2, <1>4, <2>2
    <3>2. i = n + 1 /\ n + 1 \in 1..(n + 1)
      BY <1>1, <3>1
    <3>3. QED
      BY <1>1, <1>2, <2>2, <3>2
  <2>3. QED
    BY <2>1, <2>2
<1>7. QED
  BY <1>5, <1>6 DEF Tidy, all

\* When nothing runs and nothing is queued, the timeline ended before t.
LEMMA AddedTidy ==
    ASSUME NEW segs \in Seq(Seg), NEW t \in Nat, Tidy(segs, t), NEW k \in Keys
    PROVE  Tidy(Added(segs, t, KeyOf[k]), t)
<1> DEFINE start == IF Expired(segs, t) /\ Queued(segs, t) = {} THEN t ELSE LastEnd(segs, t)
           fresh == Segment(KeyOf[k], "KEY", start, KeyOf[k].days)
<1>1. start = LastEnd(segs, t)
  <2> SUFFICES ASSUME Expired(segs, t), Queued(segs, t) = {}, LastEnd(segs, t) # t PROVE FALSE
    OBVIOUS
  <2>1. PICK i \in DOMAIN segs : segs[i].endsAt = LastEnd(segs, t)
    BY LastEndIs
  <2>2. segs[i].endsAt > t
    BY <2>1, LastEndIs
  <2>3. segs[i].startsAt \in Nat
    BY DEF Seg, Term
  <2>4. QED
    BY <2>2, <2>3 DEF Expired, Running, Queued
<1>2. start \in Nat
  BY LastEndIs
<1>3. fresh \in Seg /\ fresh.startsAt = start
  <2> HIDE DEF start
  <2>1. QED
    BY <1>2, KeySegment, PlanConstants
<1>4. Added(segs, t, KeyOf[k]) = Append(segs, fresh)
  BY DEF Added
<1> HIDE DEF start, fresh
<1>5. QED
  BY <1>1, <1>3, <1>4, AppendTidy

\* A switch cuts what runs and moves what is queued behind the new segment.
LEMMA SwitchedTidy ==
    ASSUME NEW segs \in Seq(Seg), NEW t \in Nat, Tidy(segs, t), NEW k \in Keys, ~Expired(segs, t)
    PROVE  Tidy(Switched(segs, t, KeyOf[k]), t)
<1> DEFINE c == Current(segs, t)
           fresh == Fresh(segs, t, k)
           by == segs[c].endsAt
           moved == Shifted(segs, t, k)
           all == Switched(segs, t, KeyOf[k])
           n == Len(segs)
           past == {i \in 1..n : i # c /\ segs[i].startsAt <= t}
           queued == {i \in 1..n : segs[i].startsAt > t}
           start == [i \in 1..n |-> segs[i].startsAt]
           end == [i \in 1..n |-> segs[i].endsAt]
<1>1. n \in Nat /\ DOMAIN segs = 1..n /\ \A i \in 1..n : segs[i] \in Seg
  OBVIOUS
<1>2. c \in 1..n /\ start[c] <= t /\ t < end[c] /\ end[c] = by
  BY CurrentRuns DEF Running
<1>3. fresh \in Seg /\ fresh.startsAt = t /\ fresh.endsAt \in Nat /\ t <= fresh.endsAt
  BY FreshTyped DEF Seg, Term
<1>4. \A i \in 1..n : start[i] \in Nat /\ end[i] \in Nat /\ start[i] <= end[i]
  BY <1>1 DEF Seg, Term
<1>5. \A i, j \in 1..n : i # j => end[i] <= start[j] \/ end[j] <= start[i]
  <2>1. \A i, j \in 1..n : i # j => ~(start[i] < end[j] /\ start[j] < end[i])
    BY <1>1 DEF Tidy, NoOverlap, Overlap
  <2> HIDE DEF start, end, n
  <2>2. QED
    BY <1>4, <2>1
<1>6. moved \in Seq(Seg) /\ Len(moved) = n /\ all = Append(moved, fresh)
  BY SwitchedTyped, SwitchedIs
<1>7. /\ \A i \in past : moved[i] = segs[i]
      /\ moved[c] = [segs[c] EXCEPT !.endsAt = t]
      /\ \A i \in queued : moved[i] = Behind(segs[i], fresh.endsAt, by)
  <2>1. \A i \in 1..n : moved[i] = IF i = c THEN [segs[i] EXCEPT !.endsAt = t]
                                   ELSE IF i \in Queued(segs, t) THEN Behind(segs[i], fresh.endsAt, by)
                                   ELSE segs[i]
    BY DEF Shifted
  <2>2. queued = Queued(segs, t) /\ c \notin queued
    BY <1>2, <1>4 DEF Queued
  <2>3. \A i \in past : i \in 1..n /\ i # c /\ i \notin queued
    BY <1>4
  <2>4. queued \subseteq 1..n
    OBVIOUS
  <2> HIDE DEF c, fresh, by, moved, n, past, queued
  <2>5. QED
    BY <1>2, <2>1, <2>2, <2>3, <2>4
<1> DEFINE by2 == fresh.endsAt - by
           first == [i \in 1..(n + 1) |-> all[i].startsAt]
           until == [i \in 1..(n + 1) |-> all[i].endsAt]
<1>8. 1..(n + 1) = past \cup {c} \cup queued \cup {n + 1} /\ DOMAIN all = 1..(n + 1)
      /\ n + 1 \notin 1..n
  <2>1. 1..(n + 1) = 1..n \cup {n + 1} /\ n + 1 \notin 1..n
    BY <1>1
  <2>2. 1..n = past \cup {c} \cup queued
    BY <1>2, <1>4
  <2>3. DOMAIN all = 1..(n + 1)
    BY <1>1, <1>3, <1>6
  <2> HIDE DEF n, past, queued, all, c
  <2>4. QED
    BY <2>1, <2>2, <2>3
<1>9. \A i \in past : end[i] <= start[c] /\ end[i] <= t
  <2> TAKE i \in past
  <2>1. end[i] <= start[c] \/ end[c] <= start[i]
    BY <1>2, <1>5
  <2>2. start[i] <= t /\ start[i] \in Nat /\ end[i] \in Nat
    BY <1>4
  <2>3. start[c] \in Nat /\ end[c] \in Nat
    BY <1>2, <1>4
  <2> HIDE DEF start, end, c, past
  <2>4. QED
    BY <1>2, <2>1, <2>2, <2>3
<1>10. \A i \in queued : by <= start[i]
  <2> TAKE i \in queued
  <2>1. i \in 1..n /\ i # c /\ start[i] > t
    <3>1. i \in 1..n /\ start[i] > t
      OBVIOUS
    <3> HIDE DEF c, queued, start, end
    <3>2. QED
      BY <1>2, <1>4, <3>1
  <2>2. end[i] <= start[c] \/ end[c] <= start[i]
    BY <1>2, <1>5, <2>1
  <2>3. start[i] \in Nat /\ end[i] \in Nat /\ start[i] <= end[i] /\ start[c] \in Nat /\ end[c] \in Nat
    BY <1>2, <1>4, <2>1
  <2> HIDE DEF start, end, c, queued
  <2>4. QED
    BY <1>2, <2>1, <2>2, <2>3
<1>11. /\ \A i \in past : first[i] = start[i] /\ until[i] = end[i]
       /\ first[c] = start[c] /\ until[c] = t
       /\ \A i \in queued : first[i] = start[i] + by2 /\ until[i] = end[i] + by2
       /\ first[n + 1] = t /\ until[n + 1] = fresh.endsAt
  <2>1. \A i \in 1..n : all[i] = moved[i]
    BY <1>1, <1>3, <1>6
  <2>2. all[n + 1] = fresh /\ n + 1 \in 1..(n + 1)
    BY <1>1, <1>3, <1>6
  <2>3. moved[c].startsAt = start[c] /\ moved[c].endsAt = t
    BY <1>1, <1>2, <1>7 DEF Seg, Term
  <2>4. \A i \in queued : moved[i].startsAt = start[i] + by2 /\ moved[i].endsAt = end[i] + by2
    <3> TAKE i \in queued
    <3>1. segs[i] \in Seg /\ by \in Nat /\ by <= segs[i].startsAt
      BY <1>1, <1>2, <1>4, <1>10
    <3>2. /\ Behind(segs[i], fresh.endsAt, by).startsAt = segs[i].startsAt + by2
          /\ Behind(segs[i], fresh.endsAt, by).endsAt = segs[i].endsAt + by2
      BY <1>3, <3>1, BehindTyped
    <3>3. QED
      BY <1>7, <3>2
  <2>5. \A i \in 1..(n + 1) : first[i] = all[i].startsAt /\ until[i] = all[i].endsAt
    OBVIOUS
  <2>6. \A i \in past : moved[i].startsAt = start[i] /\ moved[i].endsAt = end[i] /\ i \in 1..n
    BY <1>7
  <2>7. \A i \in 1..n : i \in 1..(n + 1)
    BY <1>1
  <2>8. queued \subseteq 1..n /\ c \in 1..n
    BY <1>2
  <2> HIDE DEF first, until, all, moved, start, end, by2, n, queued, past, c, fresh
  <2>9. QED
    BY <1>3, <2>1, <2>2, <2>3, <2>4, <2>5, <2>6, <2>7, <2>8
<1>12. past \subseteq 1..n /\ queued \subseteq 1..n /\ by \in Nat
       /\ (\A i \in queued : t < start[i]) /\ c \notin past
  BY <1>2, <1>4
<1>13. Covers(segs, t) /\ by2 = fresh.endsAt - by /\ fresh.endsAt \in Nat /\ by2 \in Int
  BY <1>3, <1>12 DEF Tidy
<1>14. NoOverlap(all) <=> \A i, j \in 1..(n + 1) : i # j => ~(first[i] < until[j] /\ first[j] < until[i])
  BY <1>8 DEF NoOverlap, Overlap
<1>15. Covers(all, t) <=> \A u \in Nat : u >= t /\ (\E i \in 1..(n + 1) : u < until[i]) =>
                            \E i \in 1..(n + 1) : first[i] <= u /\ u < until[i]
  BY <1>8 DEF Covers
<1>16. \A u \in Nat : u >= t /\ (\E i \in 1..n : u < end[i]) => \E i \in 1..n : start[i] <= u /\ u < end[i]
  BY <1>1, <1>13 DEF Covers
<1> HIDE DEF n, c, past, queued, start, end, by, by2, fresh, first, until, all, moved
<1>17. NoOverlap(all)
  <2> SUFFICES ASSUME NEW i \in 1..(n + 1), NEW j \in 1..(n + 1), i # j
               PROVE  until[j] <= first[i] \/ until[i] <= first[j]
    <3>1. \A m \in 1..(n + 1) : first[m] \in Int /\ until[m] \in Int
      <4> TAKE m \in 1..(n + 1)
      <4>1. CASE m \in past
        BY <1>4, <1>11, <1>12, <4>1
      <4>2. CASE m = c
        BY <1>2, <1>4, <1>11, <4>2
      <4>3. CASE m \in queued
        <5>1. start[m] \in Nat /\ end[m] \in Nat
          BY <1>4, <1>12, <4>3
        <5>2. first[m] = start[m] + by2 /\ until[m] = end[m] + by2 /\ by2 \in Int
          BY <1>11, <1>13, <4>3
        <5>3. QED
          BY <5>1, <5>2
      <4>4. CASE m = n + 1
        BY <1>11, <1>13, <4>4
      <4>5. QED
        BY <1>8, <4>1, <4>2, <4>3, <4>4
    <3>2. QED
      BY <1>14, <3>1
  <2>1. \A p \in past : /\ p \in 1..n /\ p # c /\ first[p] = start[p] /\ until[p] = end[p]
                        /\ end[p] <= start[c] /\ end[p] <= t
    BY <1>9, <1>11, <1>12
  <2>2. \A q \in queued : /\ q \in 1..n /\ first[q] = start[q] + by2 /\ until[q] = end[q] + by2
                          /\ by <= start[q] /\ fresh.endsAt <= start[q] + by2
    BY <1>4, <1>10, <1>11, <1>12, <1>13
  <2>3. CASE i \in past
    <3>1. CASE j \in past
      BY <1>5, <2>1, <2>3, <3>1
    <3>2. CASE j = c
      BY <1>11, <2>1, <2>3, <3>2
    <3>3. CASE j \in queued
      BY <1>3, <1>4, <1>13, <2>1, <2>2, <2>3, <3>3, SMTT(30)
    <3>4. CASE j = n + 1
      BY <1>11, <2>1, <2>3, <3>4
    <3>5. QED
      BY <1>8, <3>1, <3>2, <3>3, <3>4
  <2>4. CASE i = c
    <3>1. CASE j \in past
      BY <1>11, <2>1, <2>4, <3>1
    <3>2. CASE j \in queued
      BY <1>3, <1>4, <1>11, <1>13, <2>2, <2>4, <3>2
    <3>3. CASE j = n + 1
      BY <1>11, <2>4, <3>3
    <3>4. QED
      BY <1>8, <2>4, <3>1, <3>2, <3>3
  <2>5. CASE i \in queued
    <3>1. CASE j \in past
      BY <1>3, <1>4, <1>13, <2>1, <2>2, <2>5, <3>1, SMTT(30)
    <3>2. CASE j = c
      BY <1>3, <1>4, <1>11, <1>13, <2>2, <2>5, <3>2
    <3>3. CASE j \in queued
      <4>1. end[i] <= start[j] \/ end[j] <= start[i]
        BY <1>5, <2>2, <2>5, <3>3
      <4>2. start[i] \in Nat /\ start[j] \in Nat /\ end[i] \in Nat /\ end[j] \in Nat
        BY <1>4, <2>2, <2>5, <3>3
      <4>3. QED
        <5>1. /\ first[i] = start[i] + by2 /\ until[i] = end[i] + by2
              /\ first[j] = start[j] + by2 /\ until[j] = end[j] + by2
          BY <2>2, <2>5, <3>3
        <5>2. by2 \in Int
          BY <1>13
        <5>3. CASE end[i] <= start[j]
          BY <4>2, <5>1, <5>2, <5>3
        <5>4. CASE end[j] <= start[i]
          BY <4>2, <5>1, <5>2, <5>4
        <5>5. QED
          BY <4>1, <5>3, <5>4
    <3>4. CASE j = n + 1
      BY <1>11, <2>2, <2>5, <3>4
    <3>5. QED
      BY <1>8, <3>1, <3>2, <3>3, <3>4
  <2>6. CASE i = n + 1
    <3>1. CASE j \in past
      BY <1>11, <2>1, <2>6, <3>1
    <3>2. CASE j = c
      BY <1>11, <2>6, <3>2
    <3>3. CASE j \in queued
      BY <1>11, <2>2, <2>6, <3>3
    <3>4. QED
      BY <1>8, <2>6, <3>1, <3>2, <3>3
  <2>7. QED
    BY <1>8, <2>3, <2>4, <2>5, <2>6
<1>18. Covers(all, t)
  <2> SUFFICES ASSUME NEW u \in Nat, u >= t, NEW i \in 1..(n + 1), u < until[i]
               PROVE  \E j \in 1..(n + 1) : first[j] <= u /\ u < until[j]
    BY <1>15
  <2>1. CASE u < fresh.endsAt
    BY <1>1, <1>3, <1>8, <1>11, <2>1
  <2>2. CASE ~(u < fresh.endsAt)
    <3>1. i \in queued
      <4>1. i \notin past
        BY <1>4, <1>9, <1>11, <1>12
      <4>2. QED
        BY <1>8, <1>11, <2>2, <4>1
    <3> DEFINE v == u - by2
    <3>2. v \in Nat /\ by <= v /\ v < end[i] /\ v >= t
      <4>1. end[c] = by /\ t < by /\ by \in Nat
        BY <1>2, <1>12
      <4>2. u < end[i] + by2 /\ end[i] \in Nat
        BY <1>4, <1>11, <1>12, <3>1
      <4>3. QED
        <5>1. u \in Nat /\ ~(u < fresh.endsAt) /\ by2 = fresh.endsAt - by /\ fresh.endsAt \in Nat /\ t \in Nat
          BY <1>13, <2>2
        <5> DEFINE F == fresh.endsAt
        <5> HIDE DEF F
        <5>2. F \in Nat /\ u >= F /\ by2 = F - by /\ v = u - by2
          BY <5>1 DEF F
        <5> HIDE DEF v
        <5>3. v \in Nat /\ by <= v
          BY <4>1, <5>1, <5>2
        <5>4. v < end[i]
          BY <4>1, <4>2, <5>1, <5>2, SMTT(30)
        <5>5. QED
          BY <4>1, <5>1, <5>3, <5>4
    <3>3. PICK j \in 1..n : start[j] <= v /\ v < end[j]
      BY <1>12, <1>16, <3>1, <3>2
    <3>4. j # c /\ j \notin past
      BY <1>2, <1>4, <1>9, <3>2, <3>3
    <3>5. j \in queued
      BY <1>1, <1>8, <3>3, <3>4
    <3>6. first[j] = start[j] + by2 /\ until[j] = end[j] + by2 /\ start[j] \in Nat /\ end[j] \in Nat
      BY <1>4, <1>11, <1>12, <3>5
    <3>7. first[j] <= u /\ u < until[j]
      <4>1. v = u - by2
        OBVIOUS
      <4>2. u \in Nat /\ by2 \in Int /\ start[j] \in Nat /\ end[j] \in Nat /\ start[j] <= v /\ v < end[j]
        BY <1>13, <3>3, <3>6
      <4> DEFINE s == start[j]
                 e == end[j]
      <4> HIDE DEF v, s, e
      <4>3. s + by2 <= u /\ u < e + by2
        BY <4>1, <4>2 DEF s, e
      <4>4. QED
        BY <3>6, <4>3 DEF s, e
    <3>8. QED
      BY <1>8, <3>5, <3>7
  <2>3. QED
    BY <2>1, <2>2
<1>19. QED
  BY <1>17, <1>18 DEF Tidy, all

LEMMA RedeemedTidy ==
    ASSUME NEW segs \in Seq(Seg), NEW t \in Nat, Tidy(segs, t), NEW k \in Keys, NEW choice
    PROVE  Tidy(Redeemed(segs, t, KeyOf[k], choice), t)
<1>1. DifferentPlan(segs, t, KeyOf[k]) => ~Expired(segs, t)
  BY DEF DifferentPlan
<1>2. QED
  BY <1>1, AddedTidy, SwitchedTidy DEF Redeemed

----------------------------------------------------------------------------
(* The state *)

ToVerify == [op : {"verify"}]
ToRedeem == [op : {"redeem"}, key : Keys, choice : Asked]
Redeeming == {q \in [op : {"redeeming"}, key : Keys, after : Seq(Seg), read : Seq(Seg)] :
                 Len(q.after) = Len(q.read) + 1 /\ Last(q.after).source = "KEY"}
Granting == [op : {"granting"}, segment : {x \in Seg : x.source = "GRANT"}]
Revoking == [op : {"revoke"}, key : Keys]
Reminding == [op : {"remind", "mail"}, endsAt : Nat, step : REMINDER_STEPS, at : 0..MaxTime]

PlanRequest == {NoRequest} \cup ToVerify \cup ToRedeem \cup Redeeming \cup Granting \cup Revoking \cup Reminding

\* What each kind of request has in hand; keys to revoke were issued.
PlanTyped ==
    /\ PlanTypeOK
    /\ segments \in Seq(Seg)
    /\ mails \in Seq([endsAt : Nat, step : REMINDER_STEPS])
    /\ planReq \in [PlanRequests -> PlanRequest]
    /\ \A r \in PlanRequests : planReq[r].op = "revoke" => planReq[r].key \in issued

LEMMA PlanKinds ==
    ASSUME NEW q \in PlanRequest
    PROVE  /\ q.op = "redeem" => q \in ToRedeem
           /\ q.op = "redeeming" => q \in Redeeming
           /\ q.op = "granting" => q \in Granting
           /\ q.op = "revoke" => q \in Revoking
           /\ q.op \in {"remind", "mail"} => q \in Reminding
<1>1. q \in ToVerify => q.op = "verify"
  BY DEF ToVerify
<1>2. q \in ToRedeem => q.op = "redeem"
  BY DEF ToRedeem
<1>3. q \in Redeeming => q.op = "redeeming"
  BY DEF Redeeming
<1>4. q \in Granting => q.op = "granting"
  BY DEF Granting
<1>5. q \in Revoking => q.op = "revoke"
  BY DEF Revoking
<1>6. q \in Reminding => q.op \in {"remind", "mail"}
  BY DEF Reminding
<1>7. NoRequest.op = "idle"
  BY DEF NoRequest
<1>8. QED
  BY <1>1, <1>2, <1>3, <1>4, <1>5, <1>6, <1>7 DEF PlanRequest

\* A step of a request changes that request only.
LEMMA HandChanges ==
    ASSUME PlanTyped, NEW r \in PlanRequests, NEW q, planReq' = [planReq EXCEPT ![r] = q]
    PROVE  planReq'[r] = q /\ \A p \in PlanRequests : p # r => planReq'[p] = planReq[p]
  BY DEF PlanTyped

\* A request that is new in hand is of its kind, and the rest stays.
LEMMA HandTyped ==
    ASSUME PlanTyped, NEW r \in PlanRequests, NEW q \in PlanRequest, planReq' = [planReq EXCEPT ![r] = q],
           issued \subseteq issued', q.op = "revoke" => q.key \in issued'
    PROVE  /\ planReq' \in [PlanRequests -> PlanRequest]
           /\ \A p \in PlanRequests : planReq'[p].op = "revoke" => planReq'[p].key \in issued'
<1>1. planReq' \in [PlanRequests -> PlanRequest]
  BY DEF PlanTyped
<1>2. planReq'[r] = q /\ \A p \in PlanRequests : p # r => planReq'[p] = planReq[p]
  BY HandChanges
<1>3. QED
  BY <1>1, <1>2 DEF PlanTyped

\* The actions of PlanNext, without the operations they belong to.
LEMMA PlanActions ==
    ASSUME [PlanNext]_subscriptionVars
    PROVE  \/ \E r \in PlanRequests :
                \/ BeginVerify(r) \/ CommitVerify(r) \/ PlanRequestDies(r)
                \/ \E k \in Keys, choice \in Asked : BeginRedeem(r, k, choice)
                \/ LoadTimeline(r) \/ CommitRedeem(r) \/ KeyUsed(r)
                \/ BeginAddDays(r) \/ CommitAddDays(r)
                \/ \E k \in Keys : BeginRevoke(r, k)
                \/ CommitRevoke(r)
                \/ BeginReminders(r) \/ Claim(r) \/ Mail(r) \/ MailFails(r)
           \/ \E k \in Keys : IssueKey(k)
           \/ RemindNow \/ RemindAll \/ LockOrUnlock \/ ResendVerification \/ ResetProvesEmail \/ Tick
           \/ UNCHANGED subscriptionVars
  BY DEF PlanNext, Verifies, Redeems, Grants, Revokes, Reminds

LEMMA MovedTyped ==
    ASSUME NEW q \in Seg, NEW x \in Seg
    PROVE  LET moved == [q EXCEPT !.endsAt = x.endsAt, !.startsAt = x.startsAt]
           IN  moved \in Seg /\ moved.source = q.source /\ moved.startsAt = x.startsAt /\ moved.endsAt = x.endsAt
<1> DEFINE cut == [q EXCEPT !.endsAt = x.endsAt]
           moved == [q EXCEPT !.endsAt = x.endsAt, !.startsAt = x.startsAt]
<1>1. cut = [plan |-> q.plan, price |-> q.price, source |-> q.source, startsAt |-> q.startsAt, endsAt |-> x.endsAt]
  BY DEF Seg, Term
<1>2. moved = [cut EXCEPT !.startsAt = x.startsAt]
  OBVIOUS
<1>3. moved = [plan |-> q.plan, price |-> q.price, source |-> q.source, startsAt |-> x.startsAt, endsAt |-> x.endsAt]
  <2> HIDE DEF cut
  <2>1. QED
    BY <1>1, <1>2
<1> HIDE DEF moved
<1>4. QED
  BY <1>3 DEF Seg, Term, moved

\* What a redemption writes over the timeline it finds.
LEMMA MergedTyped ==
    ASSUME segments \in Seq(Seg), NEW before \in Seq(Seg), NEW after \in Seq(Seg), Len(after) = Len(before) + 1
    PROVE  /\ Merged(before, after) \in Seq(Seg) /\ Len(Merged(before, after)) = Len(segments)
           /\ \A i \in DOMAIN segments : Merged(before, after)[i].source = segments[i].source
           /\ before = segments => \A i \in DOMAIN segments :
                  /\ Merged(before, after)[i].startsAt = after[i].startsAt
                  /\ Merged(before, after)[i].endsAt = after[i].endsAt
<1> DEFINE n == Len(segments)
           Part(i) == IF i <= Len(before) /\ after[i] # before[i]
                      THEN [segments[i] EXCEPT !.endsAt = after[i].endsAt, !.startsAt = after[i].startsAt]
                      ELSE segments[i]
<1>1. n \in Nat /\ DOMAIN segments = 1..n /\ \A i \in 1..n : segments[i] \in Seg
  OBVIOUS
<1>2. ASSUME NEW i \in 1..n
      PROVE  /\ Part(i) \in Seg /\ Part(i).source = segments[i].source
             /\ before = segments => Part(i).startsAt = after[i].startsAt /\ Part(i).endsAt = after[i].endsAt
  <2>1. CASE i <= Len(before) /\ after[i] # before[i]
    <3>1. after[i] \in Seg
      BY <1>1, <2>1
    <3>2. Part(i) = [segments[i] EXCEPT !.endsAt = after[i].endsAt, !.startsAt = after[i].startsAt]
      BY <2>1
    <3> DEFINE moved == [segments[i] EXCEPT !.endsAt = after[i].endsAt, !.startsAt = after[i].startsAt]
    <3>3. segments[i] \in Seg
      BY <1>1
    <3>4. /\ moved \in Seg /\ moved.source = segments[i].source
          /\ moved.startsAt = after[i].startsAt /\ moved.endsAt = after[i].endsAt
      BY <3>1, <3>3, MovedTyped
    <3> HIDE DEF Part, moved
    <3>5. Part(i) = moved
      BY <3>2 DEF moved
    <3>6. QED
      BY <3>4, <3>5
  <2>2. CASE ~(i <= Len(before) /\ after[i] # before[i])
    <3>1. Part(i) = segments[i] /\ (before = segments => after[i] = segments[i])
      BY <1>1, <2>2
    <3> HIDE DEF Part
    <3>2. QED
      BY <1>1, <3>1
  <2>3. QED
    BY <2>1, <2>2
<1>3. Merged(before, after) = [i \in 1..n |-> Part(i)]
  BY <1>1 DEF Merged
<1> HIDE DEF Part
<1>4. Merged(before, after) \in Seq(Seg) /\ Len(Merged(before, after)) = n
  <2> HIDE DEF n
  <2>1. QED
    BY <1>1, <1>2, <1>3, IsASeq
<1>5. QED
  BY <1>1, <1>2, <1>3, <1>4

----------------------------------------------------------------------------
LEMMA ReminderStepTyped ==
    ASSUME NEW end \in Nat, NEW t \in Nat, end <= t + FirstStep * DAY_MS
    PROVE  ReminderStep(DaysTo(end, t)) \in REMINDER_STEPS
<1>1. FirstStep \in REMINDER_STEPS /\ FirstStep \in Nat
  BY PlanConstants, MaxIsGreatest DEF FirstStep
<1>2. DaysTo(end, t) \in Int /\ DaysTo(end, t) <= FirstStep
  <2> DEFINE x == end - t + DAY_MS - 1
  <2>1. DAY_MS \in Nat /\ DAY_MS > 0 /\ x \in Int
    BY PlanConstants
  <2>2. FirstStep * DAY_MS \in Int /\ (FirstStep + 1) * DAY_MS = FirstStep * DAY_MS + DAY_MS
    BY <1>1, <2>1
  <2>3. x < (FirstStep + 1) * DAY_MS
    BY <2>1, <2>2
  <2> HIDE DEF x
  <2>4. x \div DAY_MS \in Int /\ x \div DAY_MS < FirstStep + 1
    BY <1>1, <2>1, <2>3
  <2>5. QED
    BY <1>1, <2>4 DEF DaysTo, x
<1> DEFINE d == DaysTo(end, t)
           steps == {s \in REMINDER_STEPS : d <= s}
<1>3. steps # {} /\ steps \subseteq Nat
  BY <1>1, <1>2, PlanConstants
<1>4. \E s \in steps : \A m \in steps : s =< m
  <2> HIDE DEF steps
  <2>1. QED
    BY <1>3, LeastNat
<1>5. Min(steps) \in steps
  <2> HIDE DEF steps
  <2>1. QED
    BY <1>4 DEF Min
<1>6. QED
  BY <1>5 DEF ReminderStep

LEMMA PlanTypedInit == PlanInit => PlanTyped
<1> SUFFICES ASSUME PlanInit PROVE PlanTyped
  OBVIOUS
<1>1. planReq \in [PlanRequests -> PlanRequest] /\ \A r \in PlanRequests : planReq[r].op # "revoke"
  BY DEF PlanInit, NoOne, PlanRequest, NoRequest
<1>2. segments \in Seq(Seg) /\ mails \in Seq([endsAt : Nat, step : REMINDER_STEPS]) /\ DOMAIN segments = {}
  <2>1. segments = << >> /\ mails = << >>
    BY DEF PlanInit
  <2>2. << >> \in Seq(Seg) /\ << >> \in Seq([endsAt : Nat, step : REMINDER_STEPS])
    BY EmptySeq
  <2>3. DOMAIN segments = 1..0
    BY <2>1
  <2>4. QED
    BY <2>1, <2>2, <2>3
<1>3. PlanTypeOK
  <2>1. now \in 0..MaxTime
    BY PlanConstants DEF PlanInit
  <2>2. verified \in BOOLEAN /\ link \in BOOLEAN /\ locked \in BOOLEAN /\ raced \in BOOLEAN
    BY Zenon DEF PlanInit
  <2>3. issued = {} /\ revoked = {} /\ redeemed = {} /\ reminders = {}
    BY DEF PlanInit
  <2>4. QED
    BY <1>2, <2>1, <2>2, <2>3 DEF PlanTypeOK
<1>4. QED
  BY <1>1, <1>2, <1>3 DEF PlanTyped

\* A longer timeline is one too.
LEMMA TimelineTyped ==
    ASSUME PlanTyped, segments' \in Seq(Seg), raced' \in BOOLEAN,
           now' \in 0..MaxTime, verified' \in BOOLEAN, link' \in BOOLEAN, locked' \in BOOLEAN,
           revoked' \subseteq issued', issued' \subseteq Keys, redeemed' \subseteq Keys,
           reminders' \subseteq [endsAt : Nat, step : REMINDER_STEPS \cup {0}, sentAt : 0..MaxTime]
    PROVE  PlanTypeOK'
<1>1. \A i \in DOMAIN segments' : segments'[i] \in Seg
  OBVIOUS
<1>2. \A i \in DOMAIN segments' : segments'[i].source \in Sources /\ segments'[i].startsAt <= segments'[i].endsAt
  BY <1>1 DEF Seg, Term
<1>3. QED
  BY <1>2 DEF PlanTypeOK

LEMMA RacedTyped ==
    ASSUME PlanTyped, NEW r, NEW after, ChangeTimeline(r, after)
    PROVE  segments' = after /\ raced' \in BOOLEAN
  BY DEF ChangeTimeline, ReadByOthers, PlanTyped, PlanTypeOK

LEMMA PlanTypedStep == ASSUME PlanTyped, [PlanNext]_subscriptionVars PROVE PlanTyped'
<1> DEFINE Hand == /\ planReq' \in [PlanRequests -> PlanRequest]
                   /\ \A p \in PlanRequests : planReq'[p].op = "revoke" => planReq'[p].key \in issued'
           Mails == mails' \in Seq([endsAt : Nat, step : REMINDER_STEPS])
           Timeline == segments' \in Seq(Seg)
<1> USE DEF ownerVars, keyVars, mailVars
<1>1. PlanTypeOK /\ segments \in Seq(Seg) /\ now \in Nat
      /\ now \in 0..MaxTime /\ planReq \in [PlanRequests -> PlanRequest]
  BY DEF PlanTyped, PlanTypeOK
<1>2. UNCHANGED mails => Mails
  BY DEF PlanTyped
<1>3. ASSUME NEW r \in PlanRequests, PlanClose(r), UNCHANGED issued PROVE Hand
  <2>1. NoRequest \in PlanRequest /\ NoRequest.op # "revoke"
    BY DEF PlanRequest, NoRequest
  <2>2. QED
    BY <1>3, <2>1, HandTyped DEF PlanClose
<1>4. ASSUME NEW r \in PlanRequests, NEW q \in PlanRequest, PlanTake(r, q), UNCHANGED issued,
             q.op = "revoke" => q.key \in issued
      PROVE  Hand
  BY <1>4, HandTyped DEF PlanTake
<1>5. UNCHANGED <<planReq, issued>> => Hand
  BY DEF PlanTyped
<1>6. ASSUME UNCHANGED segments, UNCHANGED <<now, keyVars, ownerVars, reminders, raced>> PROVE PlanTypeOK'
  BY <1>1, <1>6 DEF PlanTypeOK
<1>7. ASSUME Hand, Mails, Timeline, PlanTypeOK' PROVE PlanTyped'
  BY <1>7 DEF PlanTyped
<1> HIDE DEF Hand, Mails, Timeline
<1>8. ASSUME UNCHANGED segments PROVE Timeline
  BY <1>1, <1>8 DEF Timeline
<1> DEFINE Quiet == UNCHANGED <<now, segments, ownerVars, keyVars, mailVars, raced>>
<1>9. ASSUME Quiet, Hand PROVE PlanTyped'
  BY <1>2, <1>6, <1>7, <1>8, <1>9
<1>10. ASSUME NEW r \in PlanRequests, BeginVerify(r) \/ PlanRequestDies(r) \/ KeyUsed(r) PROVE PlanTyped'
  <2>1. CASE BeginVerify(r)
    <3>1. [op |-> "verify"] \in PlanRequest
      BY DEF PlanRequest, ToVerify
    <3>2. QED
      BY <1>4, <1>9, <2>1, <3>1 DEF BeginVerify
  <2>2. QED
    BY <1>3, <1>9, <1>10, <2>1 DEF PlanRequestDies, KeyUsed
<1>11. ASSUME NEW r \in PlanRequests, NEW k \in Keys, NEW choice \in Asked, BeginRedeem(r, k, choice) PROVE PlanTyped'
  <2> DEFINE q == [op |-> "redeem", key |-> k, choice |-> choice]
  <2>1. q \in PlanRequest /\ q.op # "revoke"
    BY DEF PlanRequest, ToRedeem
  <2>2. PlanTake(r, q) /\ Quiet
    BY <1>11 DEF BeginRedeem
  <2> HIDE DEF q
  <2>3. QED
    BY <1>4, <1>9, <2>1, <2>2
<1>12. ASSUME NEW r \in PlanRequests, NEW k \in Keys, BeginRevoke(r, k) PROVE PlanTyped'
  <2> DEFINE q == [op |-> "revoke", key |-> k]
  <2>1. q \in PlanRequest /\ q.key \in issued
    BY <1>12 DEF PlanRequest, Revoking, BeginRevoke
  <2>2. PlanTake(r, q) /\ Quiet
    BY <1>12 DEF BeginRevoke
  <2> HIDE DEF q
  <2>3. QED
    BY <1>4, <1>9, <2>1, <2>2
<1>13. ASSUME NEW r \in PlanRequests, LoadTimeline(r) PROVE PlanTyped'
  <2> DEFINE k == planReq[r].key
             choice == ChoiceOf(k, planReq[r].choice)
             after == Redeemed(segments, now, KeyOf[k], choice)
             q == [op |-> "redeeming", key |-> k, after |-> after, read |-> segments]
  <2>1. planReq[r] \in ToRedeem /\ k \in Keys
    BY <1>1, <1>13, PlanKinds DEF LoadTimeline, ToRedeem
  <2>2. after \in Seq(Seg) /\ Len(after) = Len(segments) + 1 /\ Last(after).source = "KEY"
    <3> HIDE DEF k, choice
    <3>1. QED
      BY <1>1, <2>1, RedeemedTyped
  <2>3. q \in PlanRequest /\ q.op # "revoke"
    <3> HIDE DEF k, after
    <3>1. q \in Redeeming
      BY <1>1, <2>1, <2>2 DEF Redeeming
    <3>2. QED
      BY <3>1 DEF PlanRequest
  <2>4. (planReq' = [planReq EXCEPT ![r] = q] \/ PlanClose(r)) /\ Quiet
    BY <1>13 DEF LoadTimeline
  <2> HIDE DEF q
  <2>5. CASE PlanClose(r)
    BY <1>3, <1>9, <2>4, <2>5
  <2>6. CASE planReq' = [planReq EXCEPT ![r] = q]
    <3>1. Hand
      BY <2>3, <2>4, <2>6, HandTyped DEF Hand
    <3>2. QED
      BY <1>9, <2>4, <3>1
  <2>7. QED
    BY <2>4, <2>5, <2>6
<1>14. ASSUME NEW r \in PlanRequests, NEW x \in Seg, ChangeTimeline(r, Append(segments, x)) PROVE Timeline /\ raced' \in BOOLEAN
  <2>1. Append(segments, x) \in Seq(Seg)
    BY <1>1
  <2>2. segments' = Append(segments, x) /\ raced' \in BOOLEAN
    BY <1>14, RacedTyped
  <2>3. QED
    BY <2>1, <2>2 DEF Timeline
<1>15. ASSUME NEW r \in PlanRequests, CommitVerify(r) PROVE PlanTyped'
  <2>1. Timeline /\ raced' \in BOOLEAN
    <3>1. CASE TrialDue
      <4>1. Segment(Trial, "TRIAL", now, Trial.days) \in Seg
        BY <1>1, SegmentTyped, PlanConstants DEF PlanNames, Sources
      <4>2. QED
        BY <1>14, <1>15, <3>1, <4>1 DEF CommitVerify
    <3>2. CASE ~TrialDue
      BY <1>1, <1>8, <1>15, <3>2 DEF CommitVerify, PlanTypeOK
    <3>3. QED
      BY <3>1, <3>2
  <2>2. PlanClose(r) /\ UNCHANGED <<now, locked, keyVars, mailVars>> /\ verified' \in BOOLEAN /\ link' \in BOOLEAN
    BY <1>15 DEF CommitVerify
  <2>3. PlanTypeOK'
    BY <1>1, <2>1, <2>2, TimelineTyped DEF PlanTypeOK, Timeline
  <2>4. QED
    BY <1>2, <1>3, <1>7, <2>1, <2>2, <2>3
<1>16. ASSUME NEW r \in PlanRequests, CommitRedeem(r) PROVE PlanTyped'
  <2> DEFINE q == planReq[r]
             merged == Merged(q.read, q.after)
  <2>1. q \in Redeeming /\ PlanClose(r) /\ UNCHANGED <<now, ownerVars, issued, revoked, mailVars>>
        /\ redeemed' = redeemed \cup {q.key} /\ ChangeTimeline(r, Append(merged, Last(q.after)))
    BY <1>1, <1>16, PlanKinds DEF CommitRedeem
  <2>2. q.key \in Keys /\ q.read \in Seq(Seg) /\ q.after \in Seq(Seg) /\ Len(q.after) = Len(q.read) + 1
    BY <2>1 DEF Redeeming
  <2> HIDE DEF q
  <2>3. merged \in Seq(Seg)
    BY <1>1, <2>2, MergedTyped
  <2>4. Last(q.after) \in Seg
    BY <2>2 DEF Last
  <2> HIDE DEF merged
  <2>5. Timeline /\ raced' \in BOOLEAN
    <3>1. Append(merged, Last(q.after)) \in Seq(Seg)
      BY <2>3, <2>4
    <3>2. segments' = Append(merged, Last(q.after)) /\ raced' \in BOOLEAN
      BY <2>1, RacedTyped
    <3>3. QED
      BY <3>1, <3>2 DEF Timeline
  <2>6. PlanTypeOK'
    BY <1>1, <2>1, <2>2, <2>5, TimelineTyped DEF PlanTypeOK, Timeline
  <2>7. QED
    BY <1>2, <1>3, <1>7, <2>1, <2>5, <2>6
<1>17. ASSUME NEW r \in PlanRequests, BeginAddDays(r) PROVE PlanTyped'
  <2> DEFINE last == CHOOSE i \in DOMAIN segments : \A j \in DOMAIN segments : segments[j].startsAt <= segments[i].startsAt
             of == IF Expired(segments, now) THEN last ELSE Current(segments, now)
             key == [plan |-> segments[of].plan, price |-> segments[of].price]
             x == Segment(key, "GRANT", FreeDaysFrom(now), 1)
             q == [op |-> "granting", segment |-> x]
             start == [i \in DOMAIN segments |-> segments[i].startsAt]
  <2>1. \E i \in DOMAIN segments : \A j \in DOMAIN segments : segments[j].startsAt <= segments[i].startsAt
    <3>1. IsFiniteSet(DOMAIN segments) /\ DOMAIN segments # {}
      BY <1>1, <1>17, FS_Interval DEF BeginAddDays
    <3>2. \A i \in DOMAIN segments : start[i] \in Nat /\ start[i] = segments[i].startsAt
      BY <1>1 DEF Seg, Term
    <3> HIDE DEF start
    <3>3. \E i \in DOMAIN segments : \A j \in DOMAIN segments : start[j] <= start[i]
      BY <3>1, <3>2, Greatest
    <3>4. QED
      BY <3>2, <3>3
  <2>2. last \in DOMAIN segments
    BY <2>1
  <2>3. of \in DOMAIN segments
    <3> HIDE DEF last
    <3>1. QED
      BY <1>1, <2>2, CurrentRuns DEF Running
  <2>4. key.plan \in PlanNames /\ key.price \in Nat
    <3> HIDE DEF of
    <3>1. segments[of] \in Seg
      BY <1>1, <2>3
    <3>2. QED
      BY <3>1 DEF Seg, Term
  <2>5. x \in Seg /\ x.source = "GRANT"
    <3> HIDE DEF key
    <3>1. FreeDaysFrom(now) \in Nat /\ "GRANT" \in Sources
      BY <1>1, LastEndIs DEF Sources, FreeDaysFrom
    <3>2. QED
      BY <2>4, <3>1, SegmentTyped
  <2>6. PlanTake(r, q) /\ Quiet
    BY <1>17 DEF BeginAddDays
  <2>7. q \in PlanRequest /\ q.op # "revoke"
    <3> HIDE DEF x
    <3>1. q \in Granting
      BY <2>5 DEF Granting
    <3>2. QED
      BY <3>1 DEF PlanRequest
  <2> HIDE DEF q
  <2>8. QED
    BY <1>4, <1>9, <2>6, <2>7
<1>18. ASSUME NEW r \in PlanRequests, CommitAddDays(r) PROVE PlanTyped'
  <2>1. planReq[r].segment \in Seg /\ PlanClose(r) /\ UNCHANGED <<now, ownerVars, keyVars, mailVars>>
        /\ ChangeTimeline(r, Append(segments, planReq[r].segment))
    BY <1>1, <1>18, PlanKinds DEF CommitAddDays, Granting
  <2>2. Timeline /\ raced' \in BOOLEAN
    BY <1>14, <2>1
  <2>3. PlanTypeOK'
    BY <1>1, <2>1, <2>2, TimelineTyped DEF PlanTypeOK, Timeline
  <2>4. QED
    BY <1>2, <1>3, <1>7, <2>1, <2>2, <2>3
<1>19. ASSUME NEW r \in PlanRequests, CommitRevoke(r) PROVE PlanTyped'
  <2>1. planReq[r].key \in issued /\ PlanClose(r) /\ revoked' = revoked \cup {planReq[r].key}
        /\ UNCHANGED <<now, segments, ownerVars, issued, redeemed, mailVars, raced>>
    BY <1>19 DEF CommitRevoke, PlanTyped
  <2>2. PlanTypeOK'
    BY <1>1, <2>1, TimelineTyped DEF PlanTypeOK
  <2>3. QED
    BY <1>2, <1>3, <1>7, <1>8, <2>1, <2>2
<1>20. ASSUME NEW r \in PlanRequests, BeginReminders(r) PROVE PlanTyped'
  <2> DEFINE end == LastEnd(segments, now)
             q == [op |-> "remind", endsAt |-> end, step |-> ReminderStep(DaysTo(end, now)), at |-> now]
  <2>1. end \in Nat /\ end <= now + FirstStep * DAY_MS
    BY <1>1, <1>20, LastEndIs DEF BeginReminders, EndingWithin
  <2>2. ReminderStep(DaysTo(end, now)) \in REMINDER_STEPS
    <3> HIDE DEF end
    <3>1. QED
      BY <1>1, <2>1, ReminderStepTyped
  <2>3. q \in PlanRequest /\ q.op # "revoke"
    <3> HIDE DEF end
    <3>1. q \in Reminding
      BY <1>1, <2>1, <2>2 DEF Reminding
    <3>2. QED
      BY <3>1 DEF PlanRequest
  <2>4. PlanTake(r, q) /\ Quiet
    BY <1>20 DEF BeginReminders
  <2> HIDE DEF q
  <2>5. QED
    BY <1>4, <1>9, <2>3, <2>4
<1>21. ASSUME NEW r \in PlanRequests, Claim(r) PROVE PlanTyped'
  <2> DEFINE row == [endsAt |-> planReq[r].endsAt, step |-> planReq[r].step, sentAt |-> planReq[r].at]
             q == [planReq[r] EXCEPT !.op = "mail"]
  <2>1. planReq[r] \in Reminding
    BY <1>1, <1>21, PlanKinds DEF Claim
  <2>2. row \in [endsAt : Nat, step : REMINDER_STEPS \cup {0}, sentAt : 0..MaxTime]
    BY <2>1 DEF Reminding
  <2>3. q \in PlanRequest /\ q.op # "revoke"
    <3>1. q \in Reminding /\ q.op = "mail"
      BY <2>1 DEF Reminding
    <3>2. QED
      BY <3>1 DEF PlanRequest
  <2>4. /\ reminders' \in {reminders, reminders \cup {row}}
        /\ PlanClose(r) \/ planReq' = [planReq EXCEPT ![r] = q]
        /\ UNCHANGED <<now, segments, ownerVars, keyVars, mails, raced>>
    BY <1>21 DEF Claim
  <2> HIDE DEF row, q
  <2>5. PlanTypeOK'
    BY <1>1, <2>2, <2>4, TimelineTyped DEF PlanTypeOK
  <2>6. Hand
    <3>1. CASE PlanClose(r)
      BY <1>3, <2>4, <3>1
    <3>2. CASE planReq' = [planReq EXCEPT ![r] = q]
      BY <2>3, <2>4, <3>2, HandTyped DEF Hand
    <3>3. QED
      BY <2>4, <3>1, <3>2
  <2>7. QED
    BY <1>2, <1>7, <1>8, <2>4, <2>5, <2>6
<1>22. ASSUME NEW r \in PlanRequests, Mail(r) PROVE PlanTyped'
  <2> DEFINE mail == [endsAt |-> planReq[r].endsAt, step |-> planReq[r].step]
  <2>1. mail \in [endsAt : Nat, step : REMINDER_STEPS]
    BY <1>1, <1>22, PlanKinds DEF Mail, Reminding
  <2>2. mails' \in {mails, Append(mails, mail)} /\ PlanClose(r)
        /\ UNCHANGED <<now, segments, ownerVars, keyVars, reminders, raced>>
    BY <1>22 DEF Mail
  <2> HIDE DEF mail
  <2>3. Mails
    <3>1. mails \in Seq([endsAt : Nat, step : REMINDER_STEPS])
      BY DEF PlanTyped
    <3>2. Append(mails, mail) \in Seq([endsAt : Nat, step : REMINDER_STEPS])
      BY <2>1, <3>1
    <3>3. QED
      BY <2>2, <3>1, <3>2 DEF Mails
  <2>4. QED
    BY <1>3, <1>6, <1>7, <1>8, <2>2, <2>3
<1>23. ASSUME NEW r \in PlanRequests, MailFails(r) PROVE PlanTyped'
  <2>1. reminders' \subseteq reminders /\ PlanClose(r) /\ UNCHANGED <<now, segments, ownerVars, keyVars, mails, raced>>
    BY <1>23 DEF MailFails
  <2>2. PlanTypeOK'
    BY <1>1, <2>1, TimelineTyped DEF PlanTypeOK
  <2>3. QED
    BY <1>2, <1>3, <1>7, <1>8, <2>1, <2>2
<1>24. ASSUME NEW k \in Keys, IssueKey(k) PROVE PlanTyped'
  <2>1. PlanTypeOK'
    BY <1>1, <1>24, TimelineTyped DEF IssueKey, PlanTypeOK
  <2>2. Hand
    BY <1>24 DEF IssueKey, Hand, PlanTyped
  <2>3. QED
    BY <1>2, <1>7, <1>8, <1>24, <2>1, <2>2 DEF IssueKey
<1>25. CASE RemindNow \/ RemindAll
  <2>1. PICK t \in {0, now} : /\ reminders' = reminders \cup {[endsAt |-> LastEnd(segments, t), step |-> 0, sentAt |-> now]}
                              /\ UNCHANGED <<now, segments, ownerVars, keyVars, mails, raced, planReq>>
    BY <1>25 DEF RemindNow, RemindAll
  <2>2. LastEnd(segments, t) \in Nat
    BY <1>1, LastEndIs
  <2>3. [endsAt |-> LastEnd(segments, t), step |-> 0, sentAt |-> now] \in [endsAt : Nat, step : REMINDER_STEPS \cup {0}, sentAt : 0..MaxTime]
    BY <1>1, <2>2
  <2>4. PlanTypeOK'
    BY <1>1, <2>1, <2>3, TimelineTyped DEF PlanTypeOK
  <2>5. QED
    BY <1>2, <1>5, <1>7, <1>8, <2>1, <2>4
<1>26. CASE LockOrUnlock \/ ResendVerification \/ ResetProvesEmail
  <2>1. PlanTypeOK'
    BY <1>1, <1>26, TimelineTyped DEF LockOrUnlock, ResendVerification, ResetProvesEmail, PlanTypeOK
  <2>2. QED
    BY <1>2, <1>5, <1>7, <1>8, <1>26, <2>1 DEF LockOrUnlock, ResendVerification, ResetProvesEmail
<1>27. CASE Tick
  <2>1. now' \in 0..MaxTime
    BY <1>1, <1>27, PlanConstants DEF Tick
  <2>2. PlanTypeOK'
    BY <1>1, <1>27, <2>1, TimelineTyped DEF Tick, PlanTypeOK
  <2>3. QED
    BY <1>2, <1>5, <1>7, <1>8, <1>27, <2>2 DEF Tick
<1>28. CASE UNCHANGED subscriptionVars
  BY <1>5, <1>9, <1>28 DEF subscriptionVars
<1> HIDE DEF Quiet
<1>29. QED
  BY <1>10, <1>11, <1>12, <1>13, <1>15, <1>16, <1>17, <1>18, <1>19, <1>20, <1>21, <1>22, <1>23, <1>24, <1>25,
     <1>26, <1>27, <1>28, PlanActions

LEMMA PlanTypedHolds == PlanSpec => []PlanTyped
  BY PlanTypedInit, PlanTypedStep, PTL DEF PlanSpec

----------------------------------------------------------------------------
(* In order *)

\* Which steps touch the timeline, the clock or what was read of them.
LEMMA TimelineStep ==
    ASSUME PlanTyped, [PlanNext]_subscriptionVars
    PROVE  \/ \E r \in PlanRequests : \/ CommitVerify(r) \/ LoadTimeline(r) \/ CommitRedeem(r)
                                      \/ BeginAddDays(r) \/ CommitAddDays(r)
           \/ Tick
           \/ /\ UNCHANGED <<now, segments, redeemed, raced>>
              /\ \A p \in PlanRequests : planReq'[p].op \in {"redeeming", "granting"} => planReq'[p] = planReq[p]
<1> DEFINE Same == UNCHANGED <<now, segments, redeemed, raced>>
           Kept == \A p \in PlanRequests : planReq'[p].op \in {"redeeming", "granting"} => planReq'[p] = planReq[p]
<1> USE DEF keyVars
<1>1. ASSUME NEW r \in PlanRequests, NEW q, planReq' = [planReq EXCEPT ![r] = q],
             q.op \notin {"redeeming", "granting"}
      PROVE  Kept
  <2>1. planReq'[r] = q /\ \A p \in PlanRequests : p # r => planReq'[p] = planReq[p]
    BY <1>1, HandChanges
  <2>2. QED
    BY <1>1, <2>1
<1>2. ASSUME NEW r \in PlanRequests, PlanClose(r) PROVE Kept
  <2>1. NoRequest.op \notin {"redeeming", "granting"}
    BY DEF NoRequest
  <2>2. QED
    BY <1>1, <1>2, <2>1 DEF PlanClose
<1>3. ASSUME NEW r \in PlanRequests, NEW q, PlanTake(r, q), q.op \notin {"redeeming", "granting"} PROVE Kept
  BY <1>1, <1>3 DEF PlanTake
<1>4. UNCHANGED planReq => Kept
  OBVIOUS
<1> HIDE DEF Kept
<1>5. ASSUME NEW r \in PlanRequests, PlanRequestDies(r) \/ KeyUsed(r) \/ CommitRevoke(r) \/ Mail(r) \/ MailFails(r)
      PROVE  Same /\ Kept
  BY <1>2, <1>5 DEF PlanRequestDies, KeyUsed, CommitRevoke, Mail, MailFails
<1>6. ASSUME NEW r \in PlanRequests, BeginVerify(r) PROVE Same /\ Kept
  BY <1>3, <1>6 DEF BeginVerify
<1>7. ASSUME NEW r \in PlanRequests, NEW k, NEW choice, BeginRedeem(r, k, choice) PROVE Same /\ Kept
  BY <1>3, <1>7 DEF BeginRedeem
<1>8. ASSUME NEW r \in PlanRequests, NEW k, BeginRevoke(r, k) PROVE Same /\ Kept
  BY <1>3, <1>8 DEF BeginRevoke
<1>9. ASSUME NEW r \in PlanRequests, BeginReminders(r) PROVE Same /\ Kept
  <2> DEFINE q == [op |-> "remind", endsAt |-> LastEnd(segments, now),
                   step |-> ReminderStep(DaysTo(LastEnd(segments, now), now)), at |-> now]
  <2>1. PlanTake(r, q) /\ Same /\ q.op = "remind"
    BY <1>9 DEF BeginReminders
  <2> HIDE DEF q
  <2>2. QED
    BY <1>3, <2>1
<1>10. ASSUME NEW r \in PlanRequests, Claim(r) PROVE Same /\ Kept
  <2> DEFINE q == [planReq[r] EXCEPT !.op = "mail"]
  <2>1. planReq[r] \in Reminding
    BY <1>10, PlanKinds DEF Claim, PlanTyped
  <2>2. q.op = "mail"
    BY <2>1 DEF Reminding
  <2>3. (PlanClose(r) \/ planReq' = [planReq EXCEPT ![r] = q]) /\ Same
    BY <1>10 DEF Claim
  <2> HIDE DEF q
  <2>4. QED
    BY <1>1, <1>2, <2>2, <2>3
<1>11. CASE \E k \in Keys : IssueKey(k)
  BY <1>4, <1>11 DEF IssueKey
<1>12. CASE RemindNow \/ RemindAll \/ LockOrUnlock \/ ResendVerification \/ ResetProvesEmail
  BY <1>4, <1>12 DEF RemindNow, RemindAll, LockOrUnlock, ResendVerification, ResetProvesEmail
<1>13. CASE UNCHANGED subscriptionVars
  BY <1>4, <1>13 DEF subscriptionVars
<1> HIDE DEF Same
<1>14. QED
  BY <1>5, <1>6, <1>7, <1>8, <1>9, <1>10, <1>11, <1>12, <1>13, PlanActions DEF Same, Kept

\* Unless two changes overlapped, the timeline is in order, and what a request
\* has read or is about to write fits it.
InOrder ==
    ~raced =>
        /\ Tidy(segments, now)
        /\ \A r \in PlanRequests :
              /\ planReq[r].op = "redeeming" => planReq[r].read = segments /\ Tidy(planReq[r].after, now)
              /\ planReq[r].op = "granting" => planReq[r].segment.startsAt = LastEnd(segments, now)

LEMMA NothingIsTidy == ASSUME NEW t \in Nat PROVE Tidy(<< >>, t) /\ LastEnd(<< >>, t) = t
<1>1. DOMAIN << >> = {} /\ << >> \in Seq(Seg)
  BY EmptySeq
<1>2. QED
  BY <1>1, LastEndIs DEF Tidy, NoOverlap, Covers

LEMMA LaterTidy ==
    ASSUME NEW segs, NEW t \in Nat, Tidy(segs, t) PROVE Tidy(segs, t + 1)
  BY DEF Tidy, Covers

\* Order depends on when segments start and end.
LEMMA TidyByTimes ==
    ASSUME NEW segs, NEW others, NEW t, DOMAIN segs = DOMAIN others, Tidy(segs, t),
           \A i \in DOMAIN segs : segs[i].startsAt = others[i].startsAt /\ segs[i].endsAt = others[i].endsAt
    PROVE  Tidy(others, t)
  BY DEF Tidy, NoOverlap, Overlap, Covers

\* A change while nobody else has read: afterwards nobody has.
LEMMA AloneAfter ==
    ASSUME PlanTyped, NEW r \in PlanRequests, NEW after, ChangeTimeline(r, after), PlanClose(r), ~raced'
    PROVE  /\ ~raced /\ segments' = after
           /\ \A p \in PlanRequests : planReq'[p].op \notin {"redeeming", "granting"}
<1>1. ~raced /\ ~ReadByOthers(r) /\ segments' = after
  BY DEF ChangeTimeline
<1>2. planReq'[r] = NoRequest /\ \A p \in PlanRequests : p # r => planReq'[p] = planReq[p]
  BY HandChanges DEF PlanClose
<1>3. NoRequest.op = "idle"
  BY DEF NoRequest
<1>4. QED
  BY <1>1, <1>2, <1>3 DEF ReadByOthers

LEMMA InOrderStep == ASSUME PlanTyped, InOrder, [PlanNext]_subscriptionVars PROVE InOrder'
<1>1. PlanTypeOK /\ segments \in Seq(Seg) /\ now \in Nat /\ planReq \in [PlanRequests -> PlanRequest]
  BY DEF PlanTyped, PlanTypeOK
<1> SUFFICES ASSUME ~raced' PROVE InOrder'
  BY DEF InOrder
<1> DEFINE Rest == \A p \in PlanRequests : planReq'[p].op \notin {"redeeming", "granting"}
<1>2. ASSUME Tidy(segments', now'), Rest PROVE InOrder'
  BY <1>2 DEF InOrder
<1>3. ASSUME NEW r \in PlanRequests, CommitVerify(r) PROVE InOrder'
  <2>1. CASE TrialDue
    <3> DEFINE x == Segment(Trial, "TRIAL", now, Trial.days)
    <3>1. x \in Seg /\ x.startsAt = now
      BY <1>1, SegmentTyped, PlanConstants DEF PlanNames, Sources
    <3>2. ChangeTimeline(r, Append(segments, x)) /\ PlanClose(r) /\ now' = now /\ segments = << >>
      BY <1>3, <2>1 DEF CommitVerify, TrialDue
    <3> HIDE DEF x
    <3>3. Tidy(Append(segments, x), now)
      BY <1>1, <3>1, <3>2, NothingIsTidy, AppendTidy
    <3>4. segments' = Append(segments, x) /\ Rest
      BY <3>2, AloneAfter
    <3>5. QED
      BY <1>2, <3>2, <3>3, <3>4
  <2>2. CASE ~TrialDue
    <3>1. UNCHANGED <<segments, raced, now>> /\ PlanClose(r)
      BY <1>3, <2>2 DEF CommitVerify
    <3>2. planReq'[r] = NoRequest /\ \A p \in PlanRequests : p # r => planReq'[p] = planReq[p]
      BY <3>1, HandChanges DEF PlanClose
    <3>3. NoRequest.op = "idle"
      BY DEF NoRequest
    <3>4. QED
      BY <3>1, <3>2, <3>3 DEF InOrder
  <2>3. QED
    BY <2>1, <2>2
<1>4. ASSUME NEW r \in PlanRequests, LoadTimeline(r) PROVE InOrder'
  <2> DEFINE k == planReq[r].key
             choice == ChoiceOf(k, planReq[r].choice)
             after == Redeemed(segments, now, KeyOf[k], choice)
             q == [op |-> "redeeming", key |-> k, after |-> after, read |-> segments]
  <2>1. UNCHANGED <<segments, raced, now>> /\ (planReq' = [planReq EXCEPT ![r] = q] \/ PlanClose(r))
    BY <1>4 DEF LoadTimeline
  <2>2. k \in Keys /\ ~raced /\ Tidy(segments, now)
    BY <1>1, <1>4, <2>1, PlanKinds DEF LoadTimeline, ToRedeem, InOrder
  <2>3. q.op = "redeeming" /\ q.read = segments /\ q.after = after
    OBVIOUS
  <2>4. Tidy(after, now)
    <3> HIDE DEF k, choice
    <3>1. QED
      BY <1>1, <2>2, RedeemedTidy
  <2> HIDE DEF q, after
  <2>5. planReq'[r] \in {q, NoRequest} /\ \A p \in PlanRequests : p # r => planReq'[p] = planReq[p]
    BY <2>1, HandChanges DEF PlanClose
  <2>6. NoRequest.op = "idle"
    BY DEF NoRequest
  <2>7. QED
    BY <2>1, <2>2, <2>3, <2>4, <2>5, <2>6 DEF InOrder
<1>5. ASSUME NEW r \in PlanRequests, CommitRedeem(r) PROVE InOrder'
  <2> DEFINE q == planReq[r]
             merged == Merged(q.read, q.after)
             all == Append(merged, Last(q.after))
  <2>1. q \in Redeeming /\ PlanClose(r) /\ now' = now /\ ChangeTimeline(r, all)
    BY <1>1, <1>5, PlanKinds DEF CommitRedeem
  <2>2. ~raced /\ segments' = all /\ Rest
    BY <2>1, AloneAfter
  <2>3. q.read = segments /\ Tidy(q.after, now)
    BY <1>5, <2>2 DEF InOrder, CommitRedeem
  <2>4. q.after \in Seq(Seg) /\ Len(q.after) = Len(segments) + 1
    BY <2>1, <2>3 DEF Redeeming
  <2>5. /\ merged \in Seq(Seg) /\ Len(merged) = Len(segments)
        /\ \A i \in DOMAIN segments : merged[i].startsAt = q.after[i].startsAt /\ merged[i].endsAt = q.after[i].endsAt
    BY <1>1, <2>3, <2>4, MergedTyped
  <2>6. DOMAIN all = DOMAIN q.after
        /\ \A i \in DOMAIN all : all[i].startsAt = q.after[i].startsAt /\ all[i].endsAt = q.after[i].endsAt
    <3> DEFINE n == Len(segments)
    <3>1. n \in Nat /\ DOMAIN segments = 1..n /\ DOMAIN q.after = 1..(n + 1) /\ Last(q.after) = q.after[n + 1]
      BY <1>1, <2>4 DEF Last
    <3> HIDE DEF q, merged, n
    <3>2. Last(q.after) \in Seg
      BY <2>4, <3>1
    <3>3. DOMAIN all = 1..(n + 1) /\ all[n + 1] = Last(q.after) /\ \A i \in 1..n : all[i] = merged[i]
      BY <2>5, <3>1, <3>2 DEF n
    <3> HIDE DEF all
    <3>4. QED
      BY <2>5, <3>1, <3>3
  <2> HIDE DEF q, merged, all
  <2>7. Tidy(all, now)
    BY <2>3, <2>6, TidyByTimes
  <2>8. QED
    BY <1>2, <2>1, <2>2, <2>7
<1>6. ASSUME NEW r \in PlanRequests, BeginAddDays(r) PROVE InOrder'
  <2>1. PICK x : PlanTake(r, [op |-> "granting", segment |-> x]) /\ x.startsAt = FreeDaysFrom(now)
    <3> DEFINE of == IF Expired(segments, now)
                     THEN CHOOSE i \in DOMAIN segments : \A j \in DOMAIN segments : segments[j].startsAt <= segments[i].startsAt
                     ELSE Current(segments, now)
               key == [plan |-> segments[of].plan, price |-> segments[of].price]
               x == Segment(key, "GRANT", FreeDaysFrom(now), 1)
    <3>1. PlanTake(r, [op |-> "granting", segment |-> x])
      BY <1>6 DEF BeginAddDays
    <3>2. x.startsAt = FreeDaysFrom(now)
      <4> HIDE DEF key
      <4>1. QED
        BY DEF Segment
    <3> HIDE DEF x
    <3>3. QED
      BY <3>1, <3>2
  <2>2. UNCHANGED <<segments, raced, now>>
    BY <1>6 DEF BeginAddDays
  <2> DEFINE q == [op |-> "granting", segment |-> x]
  <2>3. planReq'[r] = q /\ \A p \in PlanRequests : p # r => planReq'[p] = planReq[p]
    BY <2>1, HandChanges DEF PlanTake
  <2>4. q.op = "granting" /\ q.segment.startsAt = LastEnd(segments, now)
    BY <2>1 DEF FreeDaysFrom
  <2> HIDE DEF q
  <2>5. QED
    BY <2>2, <2>3, <2>4 DEF InOrder
<1>7. ASSUME NEW r \in PlanRequests, CommitAddDays(r) PROVE InOrder'
  <2> DEFINE x == planReq[r].segment
  <2>1. x \in Seg /\ PlanClose(r) /\ now' = now /\ ChangeTimeline(r, Append(segments, x))
    BY <1>1, <1>7, PlanKinds DEF CommitAddDays, Granting
  <2>2. ~raced /\ segments' = Append(segments, x) /\ Rest
    BY <2>1, AloneAfter
  <2>3. Tidy(segments, now) /\ x.startsAt = LastEnd(segments, now)
    BY <1>7, <2>2 DEF InOrder, CommitAddDays
  <2> HIDE DEF x
  <2>4. Tidy(Append(segments, x), now)
    BY <1>1, <2>1, <2>3, AppendTidy
  <2>5. QED
    BY <1>2, <2>1, <2>2, <2>4
<1>8. CASE Tick
  <2>1. /\ now' = now + 1 /\ UNCHANGED <<segments, raced, planReq>>
        /\ \A r \in PlanRequests : planReq[r].op \in {"idle", "remind", "mail"}
    BY <1>8 DEF Tick
  <2>2. Tidy(segments, now + 1)
    BY <1>1, <2>1, LaterTidy DEF InOrder
  <2>3. QED
    BY <1>2, <2>1, <2>2
<1>9. CASE /\ UNCHANGED <<now, segments, redeemed, raced>>
           /\ \A p \in PlanRequests : planReq'[p].op \in {"redeeming", "granting"} => planReq'[p] = planReq[p]
  BY <1>9 DEF InOrder
<1>10. QED
  BY <1>3, <1>4, <1>5, <1>6, <1>7, <1>8, <1>9, TimelineStep

\* Unless two changes overlapped, no two segments overlap and there is no hole
\* before the end: the owner is on one plan at every moment that was paid for,
\* whatever keys, free days and switches follow each other.
THEOREM TimelineHolds == PlanSpec => []TimelineInOrder
<1>1. PlanInit => InOrder
  <2> SUFFICES ASSUME PlanInit PROVE InOrder
    OBVIOUS
  <2>1. segments = << >> /\ now = 0 /\ \A r \in PlanRequests : planReq[r] = NoRequest
    BY DEF PlanInit, NoOne
  <2>2. NoRequest.op = "idle"
    BY DEF NoRequest
  <2>3. QED
    BY <2>1, <2>2, NothingIsTidy DEF InOrder
<1>2. PlanTyped /\ InOrder /\ [PlanNext]_subscriptionVars => InOrder'
  BY InOrderStep
<1>3. PlanTyped /\ InOrder => TimelineInOrder
  <2> SUFFICES ASSUME PlanTyped, InOrder, ~raced PROVE TimelineInOrder
    BY DEF TimelineInOrder
  <2>1. segments \in Seq(Seg) /\ now \in Nat /\ Tidy(segments, now)
    BY DEF PlanTyped, PlanTypeOK, InOrder
  <2>2. ASSUME NEW t \in now..(LastEnd(segments, now) - 1) PROVE ~Expired(segments, t)
    <3> DEFINE last == LastEnd(segments, now)
    <3>6. /\ last \in Nat /\ t \in now..(last - 1)
          /\ last = now \/ \E i \in DOMAIN segments : segments[i].endsAt = last
      BY <2>1, LastEndIs
    <3> HIDE DEF last
    <3>1. t \in Nat /\ t >= now /\ t < last
      BY <2>1, <3>6
    <3>2. \E i \in DOMAIN segments : t < segments[i].endsAt
      BY <2>1, <3>6, <3>1
    <3>3. PICK i \in DOMAIN segments : segments[i].startsAt <= t /\ t < segments[i].endsAt
      BY <2>1, <3>1, <3>2 DEF Tidy, Covers
    <3>4. segments[i].endsAt > t
      BY <2>1, <3>1, <3>3
    <3>5. QED
      BY <3>3, <3>4 DEF Expired, Running
  <2>3. QED
    BY <2>1, <2>2 DEF Tidy, NoOverlap, TimelineInOrder
<1>4. QED
  BY <1>1, <1>2, <1>3, PlanTypedHolds, PTL DEF PlanSpec

----------------------------------------------------------------------------
(* Once each *)

\* Where the segments of keys are.
KeyPlaces(segs) == {i \in DOMAIN segs : segs[i].source = "KEY"}

\* A trial is the first segment, and every segment of a key has used one up.
Given ==
    /\ \A i \in DOMAIN segments : segments[i].source = "TRIAL" => i = 1
    /\ IsFiniteSet(redeemed) /\ Cardinality(KeyPlaces(segments)) = Cardinality(redeemed)

LEMMA KeyPlacesGrow ==
    ASSUME NEW segs \in Seq(Seg), NEW x \in Seg
    PROVE  LET all == Append(segs, x)
           IN  /\ IsFiniteSet(KeyPlaces(segs)) /\ Cardinality(KeyPlaces(segs)) \in Nat
               /\ Cardinality(KeyPlaces(all)) = Cardinality(KeyPlaces(segs)) + (IF x.source = "KEY" THEN 1 ELSE 0)
               /\ \A i \in DOMAIN all : all[i].source = "TRIAL" =>
                     (i \in DOMAIN segs /\ segs[i].source = "TRIAL") \/ (i = Len(segs) + 1 /\ x.source = "TRIAL")
<1> DEFINE all == Append(segs, x)
           n == Len(segs)
<1>1. n \in Nat /\ DOMAIN segs = 1..n /\ DOMAIN all = 1..(n + 1) /\ all[n + 1] = x
      /\ \A i \in 1..n : all[i] = segs[i]
  OBVIOUS
<1>2. IsFiniteSet(KeyPlaces(segs)) /\ Cardinality(KeyPlaces(segs)) \in Nat
  <2>1. IsFiniteSet(DOMAIN segs) /\ KeyPlaces(segs) \subseteq DOMAIN segs
    BY FS_Interval DEF KeyPlaces
  <2>2. QED
    BY <2>1, FS_Subset, FS_CardinalityType
<1> HIDE DEF all, n
<1>3. n + 1 \notin KeyPlaces(segs) /\ 1..(n + 1) = 1..n \cup {n + 1}
  BY <1>1 DEF KeyPlaces
<1>4. KeyPlaces(all) = IF x.source = "KEY" THEN KeyPlaces(segs) \cup {n + 1} ELSE KeyPlaces(segs)
  <2>1. KeyPlaces(all) = {i \in 1..(n + 1) : all[i].source = "KEY"} /\ KeyPlaces(segs) = {i \in 1..n : segs[i].source = "KEY"}
    BY <1>1 DEF KeyPlaces
  <2>2. \A i \in 1..(n + 1) : i \in 1..n \/ i = n + 1
    BY <1>3
  <2>3. \A i \in 1..n : i \in 1..(n + 1) /\ (i \in KeyPlaces(all) <=> i \in KeyPlaces(segs))
    BY <1>1, <1>3, <2>1
  <2>4. n + 1 \in KeyPlaces(all) <=> x.source = "KEY"
    BY <1>1, <1>3, <2>1
  <2>5. KeyPlaces(segs) \subseteq 1..n /\ KeyPlaces(all) \subseteq 1..(n + 1)
    BY <2>1
  <2>6. QED
    BY <2>2, <2>3, <2>4, <2>5
<1>5. Cardinality(KeyPlaces(all)) = Cardinality(KeyPlaces(segs)) + (IF x.source = "KEY" THEN 1 ELSE 0)
  <2>1. CASE x.source = "KEY"
    BY <1>2, <1>3, <1>4, <2>1, FS_AddElement
  <2>2. CASE x.source # "KEY"
    BY <1>2, <1>4, <2>2
  <2>3. QED
    BY <2>1, <2>2
<1>6. \A i \in DOMAIN all : all[i].source = "TRIAL" =>
        (i \in DOMAIN segs /\ segs[i].source = "TRIAL") \/ (i = n + 1 /\ x.source = "TRIAL")
  <2> TAKE i \in DOMAIN all
  <2>1. CASE i \in 1..n
    BY <1>1, <2>1
  <2>2. CASE i = n + 1
    BY <1>1, <2>2
  <2>3. QED
    BY <1>1, <1>3, <2>1, <2>2
<1>7. QED
  BY <1>2, <1>5, <1>6 DEF all, n

LEMMA GivenStep == ASSUME PlanTyped, Given, [PlanNext]_subscriptionVars PROVE Given'
<1>1. PlanTypeOK /\ segments \in Seq(Seg) /\ now \in Nat /\ planReq \in [PlanRequests -> PlanRequest]
  BY DEF PlanTyped, PlanTypeOK
<1>2. ASSUME UNCHANGED <<segments, redeemed>> PROVE Given'
  BY <1>2 DEF Given
<1>3. ASSUME NEW r \in PlanRequests, CommitVerify(r) PROVE Given'
  <2>1. CASE TrialDue
    <3> DEFINE x == Segment(Trial, "TRIAL", now, Trial.days)
    <3>1. x \in Seg /\ x.source = "TRIAL"
      BY <1>1, SegmentTyped, PlanConstants DEF PlanNames, Sources
    <3>2. segments' = Append(segments, x) /\ redeemed' = redeemed /\ segments = << >>
      BY <1>3, <2>1 DEF CommitVerify, TrialDue, ChangeTimeline, keyVars
    <3> HIDE DEF x
    <3>3. Len(segments) = 0
      BY <3>2
    <3>4. DOMAIN segments = {}
      BY <1>1, <3>3
    <3>5. Cardinality(KeyPlaces(segments')) = Cardinality(KeyPlaces(segments))
      <4>1. Cardinality(KeyPlaces(Append(segments, x))) = Cardinality(KeyPlaces(segments)) + 0
        BY <1>1, <3>1, KeyPlacesGrow
      <4>2. Cardinality(KeyPlaces(segments)) \in Nat
        BY <1>1, <3>1, KeyPlacesGrow
      <4>3. QED
        BY <3>2, <4>1, <4>2
    <3>6. \A i \in DOMAIN segments' : segments'[i].source = "TRIAL" => i = 1
      <4>1. \A i \in DOMAIN Append(segments, x) : Append(segments, x)[i].source = "TRIAL" =>
               i \in DOMAIN segments \/ i = Len(segments) + 1
        BY <1>1, <3>1, KeyPlacesGrow
      <4>2. QED
        BY <3>2, <3>3, <3>4, <4>1
    <3>7. QED
      BY <3>2, <3>5, <3>6 DEF Given
  <2>2. CASE ~TrialDue
    BY <1>2, <1>3, <2>2 DEF CommitVerify, keyVars
  <2>3. QED
    BY <2>1, <2>2
<1>4. ASSUME NEW r \in PlanRequests, CommitRedeem(r) PROVE Given'
  <2> DEFINE q == planReq[r]
             merged == Merged(q.read, q.after)
             x == Last(q.after)
  <2>1. q \in Redeeming /\ q.key \notin redeemed /\ redeemed' = redeemed \cup {q.key} /\ segments' = Append(merged, x)
    BY <1>1, <1>4, PlanKinds DEF CommitRedeem, ChangeTimeline, KeyFree
  <2>2. q.after \in Seq(Seg) /\ q.read \in Seq(Seg) /\ Len(q.after) = Len(q.read) + 1 /\ x.source = "KEY"
    BY <2>1 DEF Redeeming
  <2>3. x \in Seg
    BY <2>2 DEF Last
  <2>4. merged \in Seq(Seg) /\ Len(merged) = Len(segments) /\ \A i \in DOMAIN segments : merged[i].source = segments[i].source
    BY <1>1, <2>2, MergedTyped
  <2> HIDE DEF q, merged, x
  <2>5. DOMAIN merged = DOMAIN segments
    BY <1>1, <2>4
  <2>6. KeyPlaces(merged) = KeyPlaces(segments)
    BY <2>4, <2>5 DEF KeyPlaces
  <2>7. Cardinality(KeyPlaces(segments')) = Cardinality(redeemed) + 1
    BY <2>1, <2>2, <2>3, <2>4, <2>6, KeyPlacesGrow DEF Given
  <2>8. IsFiniteSet(redeemed') /\ Cardinality(redeemed') = Cardinality(redeemed) + 1
    BY <2>1, FS_AddElement DEF Given
  <2>9. \A i \in DOMAIN segments' : segments'[i].source = "TRIAL" => i = 1
    BY <2>1, <2>2, <2>3, <2>4, <2>5, KeyPlacesGrow DEF Given
  <2>10. QED
    BY <2>7, <2>8, <2>9 DEF Given
<1>5. ASSUME NEW r \in PlanRequests, CommitAddDays(r) PROVE Given'
  <2> DEFINE x == planReq[r].segment
  <2>1. x \in Seg /\ x.source = "GRANT" /\ segments' = Append(segments, x) /\ redeemed' = redeemed
    BY <1>1, <1>5, PlanKinds DEF CommitAddDays, Granting, ChangeTimeline, keyVars
  <2> HIDE DEF x
  <2>2. Cardinality(KeyPlaces(segments')) = Cardinality(KeyPlaces(segments))
    BY <1>1, <2>1, KeyPlacesGrow
  <2>3. \A i \in DOMAIN segments' : segments'[i].source = "TRIAL" => i = 1
    BY <1>1, <2>1, KeyPlacesGrow DEF Given
  <2>4. QED
    BY <2>1, <2>2, <2>3 DEF Given
<1>6. ASSUME NEW r \in PlanRequests, LoadTimeline(r) \/ BeginAddDays(r) PROVE Given'
  BY <1>2, <1>6 DEF LoadTimeline, BeginAddDays, keyVars
<1>7. CASE Tick
  BY <1>2, <1>7 DEF Tick, keyVars
<1>8. QED
  BY <1>2, <1>3, <1>4, <1>5, <1>6, <1>7, TimelineStep

LEMMA GivenHolds == PlanSpec => []Given
<1>1. PlanInit => Given
  <2> SUFFICES ASSUME PlanInit PROVE Given
    OBVIOUS
  <2>1. segments = << >> /\ redeemed = {} /\ DOMAIN << >> = {}
    BY DEF PlanInit
  <2>2. KeyPlaces(segments) = {}
    BY <2>1 DEF KeyPlaces
  <2>3. QED
    BY <2>1, <2>2, FS_EmptySet DEF Given
<1>2. QED
  BY <1>1, GivenStep, PlanTypedHolds, PTL DEF PlanSpec

\* An automatic reminder on its way to the owner has its claim for itself, and
\* everything mailed was claimed.
KeyOfMail(x) == <<x.endsAt, x.step>>
Claims == {KeyOfMail(x) : x \in reminders}

Reminded ==
    /\ RemindedOnce
    /\ \A i \in DOMAIN mails : KeyOfMail(mails[i]) \in Claims
    /\ \A r \in PlanRequests : planReq[r].op = "mail" =>
          /\ KeyOfMail(planReq[r]) \in Claims
          /\ \A i \in DOMAIN mails : KeyOfMail(mails[i]) # KeyOfMail(planReq[r])
          /\ \A p \in PlanRequests : p # r /\ planReq[p].op = "mail" => KeyOfMail(planReq[p]) # KeyOfMail(planReq[r])

\* Which steps touch mails, claims or requests that mail.
LEMMA ReminderSteps ==
    ASSUME PlanTyped, [PlanNext]_subscriptionVars
    PROVE  \/ \E r \in PlanRequests : Claim(r) \/ Mail(r) \/ MailFails(r)
           \/ /\ UNCHANGED mails /\ reminders \subseteq reminders'
              /\ \A p \in PlanRequests : planReq'[p].op = "mail" => planReq'[p] = planReq[p]
<1> DEFINE Same == UNCHANGED mails /\ reminders \subseteq reminders'
           Kept == \A p \in PlanRequests : planReq'[p].op = "mail" => planReq'[p] = planReq[p]
<1> USE DEF mailVars
<1>1. ASSUME NEW r \in PlanRequests, NEW q, planReq' = [planReq EXCEPT ![r] = q], q.op # "mail"
      PROVE  Kept
  <2>1. planReq'[r] = q /\ \A p \in PlanRequests : p # r => planReq'[p] = planReq[p]
    BY <1>1, HandChanges
  <2>2. QED
    BY <1>1, <2>1
<1>2. ASSUME NEW r \in PlanRequests, PlanClose(r) PROVE Kept
  <2>1. NoRequest.op # "mail"
    BY DEF NoRequest
  <2>2. QED
    BY <1>1, <1>2, <2>1 DEF PlanClose
<1>3. ASSUME NEW r \in PlanRequests, NEW q, PlanTake(r, q), q.op # "mail" PROVE Kept
  BY <1>1, <1>3 DEF PlanTake
<1>4. UNCHANGED planReq => Kept
  OBVIOUS
<1> HIDE DEF Kept
<1>5. ASSUME NEW r \in PlanRequests, PlanRequestDies(r) \/ KeyUsed(r) \/ CommitRevoke(r) \/ CommitVerify(r)
                                     \/ CommitRedeem(r) \/ CommitAddDays(r)
      PROVE  Same /\ Kept
  BY <1>2, <1>5 DEF PlanRequestDies, KeyUsed, CommitRevoke, CommitVerify, CommitRedeem, CommitAddDays
<1>6. ASSUME NEW r \in PlanRequests, BeginVerify(r) PROVE Same /\ Kept
  BY <1>3, <1>6 DEF BeginVerify
<1>7. ASSUME NEW r \in PlanRequests, NEW k, NEW choice, BeginRedeem(r, k, choice) PROVE Same /\ Kept
  BY <1>3, <1>7 DEF BeginRedeem
<1>8. ASSUME NEW r \in PlanRequests, NEW k, BeginRevoke(r, k) PROVE Same /\ Kept
  BY <1>3, <1>8 DEF BeginRevoke
<1>9. ASSUME NEW r \in PlanRequests, BeginReminders(r) PROVE Same /\ Kept
  <2> DEFINE q == [op |-> "remind", endsAt |-> LastEnd(segments, now),
                   step |-> ReminderStep(DaysTo(LastEnd(segments, now), now)), at |-> now]
  <2>1. PlanTake(r, q) /\ Same /\ q.op = "remind"
    BY <1>9 DEF BeginReminders
  <2> HIDE DEF q
  <2>2. QED
    BY <1>3, <2>1
<1>10. ASSUME NEW r \in PlanRequests, LoadTimeline(r) PROVE Same /\ Kept
  <2> DEFINE k == planReq[r].key
             after == Redeemed(segments, now, KeyOf[k], ChoiceOf(k, planReq[r].choice))
             q == [op |-> "redeeming", key |-> k, after |-> after, read |-> segments]
  <2>1. (planReq' = [planReq EXCEPT ![r] = q] \/ PlanClose(r)) /\ Same
    BY <1>10 DEF LoadTimeline
  <2>2. q.op # "mail"
    OBVIOUS
  <2> HIDE DEF q
  <2>3. QED
    BY <1>1, <1>2, <2>1, <2>2
<1>11. ASSUME NEW r \in PlanRequests, BeginAddDays(r) PROVE Same /\ Kept
  <2>1. (\E x : PlanTake(r, [op |-> "granting", segment |-> x])) /\ Same
    BY <1>11 DEF BeginAddDays
  <2>2. \A x : [op |-> "granting", segment |-> x].op # "mail"
    OBVIOUS
  <2>3. QED
    BY <1>3, <2>1, <2>2
<1>12. CASE \E k \in Keys : IssueKey(k)
  BY <1>4, <1>12 DEF IssueKey
<1>13. CASE RemindNow \/ RemindAll \/ LockOrUnlock \/ ResendVerification \/ ResetProvesEmail \/ Tick
  BY <1>4, <1>13 DEF RemindNow, RemindAll, LockOrUnlock, ResendVerification, ResetProvesEmail, Tick
<1>14. CASE UNCHANGED subscriptionVars
  BY <1>4, <1>14 DEF subscriptionVars
<1> HIDE DEF Same
<1>15. QED
  BY <1>5, <1>6, <1>7, <1>8, <1>9, <1>10, <1>11, <1>12, <1>13, <1>14, PlanActions DEF Same, Kept

LEMMA RemindedStep == ASSUME PlanTyped, Reminded, [PlanNext]_subscriptionVars PROVE Reminded'
<1>1. mails \in Seq([endsAt : Nat, step : REMINDER_STEPS]) /\ planReq \in [PlanRequests -> PlanRequest]
  BY DEF PlanTyped
<1>2. NoRequest.op = "idle"
  BY DEF NoRequest
<1>3. ASSUME NEW r \in PlanRequests, Claim(r) PROVE Reminded'
  <2> DEFINE q == [planReq[r] EXCEPT !.op = "mail"]
             row == [endsAt |-> planReq[r].endsAt, step |-> planReq[r].step, sentAt |-> planReq[r].at]
  <2>1. planReq[r] \in Reminding
    BY <1>1, <1>3, PlanKinds DEF Claim
  <2>2. q.op = "mail" /\ q.endsAt = planReq[r].endsAt /\ q.step = planReq[r].step
    BY <2>1 DEF Reminding
  <2>3. row.endsAt = q.endsAt /\ row.step = q.step
    BY <2>2
  <2>4. CASE Claimed(planReq[r].endsAt, planReq[r].step)
    <3>1. PlanClose(r) /\ UNCHANGED <<reminders, mails>>
      BY <1>3, <2>4 DEF Claim
    <3>2. planReq'[r] = NoRequest /\ \A p \in PlanRequests : p # r => planReq'[p] = planReq[p]
      BY <3>1, HandChanges DEF PlanClose
    <3>3. QED
      BY <1>2, <3>1, <3>2 DEF Reminded, RemindedOnce, Claims
  <2>5. CASE ~Claimed(planReq[r].endsAt, planReq[r].step)
    <3>1. reminders' = reminders \cup {row} /\ UNCHANGED mails /\ planReq' = [planReq EXCEPT ![r] = q]
      BY <1>3, <2>5 DEF Claim
    <3> HIDE DEF q, row
    <3>2. planReq'[r] = q /\ \A p \in PlanRequests : p # r => planReq'[p] = planReq[p]
      BY <3>1, HandChanges
    <3>3. KeyOfMail(q) \notin Claims /\ KeyOfMail(q) \in Claims' /\ Claims \subseteq Claims'
      <4>1. KeyOfMail(q) \notin Claims
        BY <2>2, <2>5 DEF Claimed, Claims, KeyOfMail
      <4>2. KeyOfMail(row) = KeyOfMail(q)
        BY <2>3 DEF KeyOfMail
      <4>3. Claims' = Claims \cup {KeyOfMail(row)}
        BY <3>1 DEF Claims
      <4>4. QED
        BY <4>1, <4>2, <4>3
    <3>4. \A i \in DOMAIN mails : KeyOfMail(mails[i]) # KeyOfMail(q)
      BY <3>3 DEF Reminded
    <3>5. \A p \in PlanRequests : planReq[p].op = "mail" => KeyOfMail(planReq[p]) # KeyOfMail(q)
      BY <3>3 DEF Reminded
    <3>6. QED
      BY <3>1, <3>2, <3>3, <3>4, <3>5 DEF Reminded, RemindedOnce
  <2>6. QED
    BY <2>4, <2>5
<1>4. ASSUME NEW r \in PlanRequests, Mail(r) PROVE Reminded'
  <2> DEFINE mail == [endsAt |-> planReq[r].endsAt, step |-> planReq[r].step]
             n == Len(mails)
  <2>1. mail \in [endsAt : Nat, step : REMINDER_STEPS] /\ KeyOfMail(mail) = KeyOfMail(planReq[r])
    BY <1>1, <1>4, PlanKinds DEF Mail, Reminding, KeyOfMail
  <2>2. mails' \in {mails, Append(mails, mail)} /\ PlanClose(r) /\ UNCHANGED reminders /\ planReq[r].op = "mail"
        /\ mail.endsAt = planReq[r].endsAt /\ mail.step = planReq[r].step
    BY <1>4 DEF Mail
  <2> HIDE DEF mail
  <2>3. planReq'[r] = NoRequest /\ \A p \in PlanRequests : p # r => planReq'[p] = planReq[p]
    BY <2>2, HandChanges DEF PlanClose
  <2>4. Claims' = Claims
    BY <2>2 DEF Claims
  <2>5. CASE mails' = mails
    BY <1>2, <2>3, <2>4, <2>5 DEF Reminded, RemindedOnce
  <2>6. CASE mails' = Append(mails, mail)
    <3>1. n \in Nat /\ DOMAIN mails = 1..n /\ DOMAIN mails' = 1..(n + 1) /\ mails'[n + 1] = mail
          /\ \A i \in 1..n : mails'[i] = mails[i]
      BY <1>1, <2>1, <2>6
    <3> HIDE DEF n
    <3>2. \A i \in 1..(n + 1) : i \in 1..n \/ i = n + 1
      BY <3>1
    <3>3. \A i \in 1..n : KeyOfMail(mails[i]) # KeyOfMail(mail)
      BY <2>1, <2>2, <3>1 DEF Reminded
    <3>4. RemindedOnce'
      <4>1. \A i \in 1..n : mails[i] # mail
        BY <3>3
      <4>2. \A i, j \in 1..n : mails[i] = mails[j] => i = j
        BY <3>1 DEF Reminded, RemindedOnce
      <4>3. QED
        BY <3>1, <3>2, <4>1, <4>2 DEF RemindedOnce
    <3>5. \A i \in DOMAIN mails' : KeyOfMail(mails'[i]) \in Claims'
      BY <2>1, <2>2, <2>4, <3>1, <3>2 DEF Reminded
    <3>6. \A p \in PlanRequests : planReq'[p].op = "mail" => p # r /\ planReq'[p] = planReq[p]
      BY <1>2, <2>3
    <3>7. \A p \in PlanRequests : planReq'[p].op = "mail" =>
             \A i \in DOMAIN mails' : KeyOfMail(mails'[i]) # KeyOfMail(planReq'[p])
      BY <2>1, <2>2, <3>1, <3>2, <3>6 DEF Reminded
    <3>8. QED
      BY <2>4, <3>4, <3>5, <3>6, <3>7 DEF Reminded
  <2>7. QED
    BY <2>2, <2>5, <2>6
<1>5. ASSUME NEW r \in PlanRequests, MailFails(r) PROVE Reminded'
  <2>1. /\ reminders' = {x \in reminders : x.endsAt # planReq[r].endsAt \/ x.step # planReq[r].step}
        /\ PlanClose(r) /\ UNCHANGED mails /\ planReq[r].op = "mail"
    BY <1>5 DEF MailFails
  <2>2. planReq'[r] = NoRequest /\ \A p \in PlanRequests : p # r => planReq'[p] = planReq[p]
    BY <2>1, HandChanges DEF PlanClose
  <2>3. Claims \ {KeyOfMail(planReq[r])} \subseteq Claims'
    BY <2>1 DEF Claims, KeyOfMail
  <2>4. /\ \A i \in DOMAIN mails : KeyOfMail(mails[i]) # KeyOfMail(planReq[r])
        /\ \A p \in PlanRequests : p # r /\ planReq[p].op = "mail" => KeyOfMail(planReq[p]) # KeyOfMail(planReq[r])
    BY <2>1 DEF Reminded
  <2>5. QED
    BY <1>2, <2>1, <2>2, <2>3, <2>4 DEF Reminded, RemindedOnce
<1>6. CASE /\ UNCHANGED mails /\ reminders \subseteq reminders'
           /\ \A p \in PlanRequests : planReq'[p].op = "mail" => planReq'[p] = planReq[p]
  <2>1. Claims \subseteq Claims'
    BY <1>6 DEF Claims
  <2>2. QED
    BY <1>6, <2>1 DEF Reminded, RemindedOnce
<1>7. QED
  BY <1>3, <1>4, <1>5, <1>6, ReminderSteps

LEMMA RemindedHolds == PlanSpec => []Reminded
<1>1. PlanInit => Reminded
  <2> SUFFICES ASSUME PlanInit PROVE Reminded
    OBVIOUS
  <2>1. mails = << >> /\ DOMAIN << >> = {} /\ \A r \in PlanRequests : planReq[r] = NoRequest
    BY DEF PlanInit, NoOne
  <2>2. NoRequest.op = "idle"
    BY DEF NoRequest
  <2>3. QED
    BY <2>1, <2>2 DEF Reminded, RemindedOnce
<1>2. QED
  BY <1>1, RemindedStep, PlanTypedHolds, PTL DEF PlanSpec

\* The trial starts once, a key gives its days once, and an automatic reminder
\* of one step before one end date is mailed at most once, however many requests
\* and jobs try at the same time and whichever of them die.
THEOREM OnceEachHolds == PlanSpec => []OnceEach
<1>1. PlanTyped /\ Given => GivenOnce
  <2> SUFFICES ASSUME PlanTyped, Given PROVE GivenOnce
    OBVIOUS
  <2> DEFINE trials == {i \in DOMAIN segments : segments[i].source = "TRIAL"}
  <2>1. trials \subseteq {1} /\ IsFiniteSet({1}) /\ Cardinality({1}) = 1
    BY FS_Singleton DEF Given
  <2>2. Cardinality(trials) <= 1
    <3> HIDE DEF trials
    <3>1. QED
      BY <2>1, FS_Subset
  <2>3. QED
    BY <2>2 DEF Given, KeyPlaces, GivenOnce
<1>2. Reminded => RemindedOnce
  BY DEF Reminded
<1>3. PlanTyped /\ Given /\ Reminded => OnceEach
  BY <1>1, <1>2 DEF OnceEach
<1>4. QED
  BY <1>3, PlanTypedHolds, GivenHolds, RemindedHolds, PTL

----------------------------------------------------------------------------
(* People and sessions *)

Asks == {"read rows", "look again", "start"}
SignIn == [op : Asks, user : Users, saw : 1..MaxPasswords, session : {0}]
Refresh == [op : Asks, user : Users, saw : 1..MaxTokens, session : Sessions]
Rows == [plan : Plans, branches : SUBSET Branches, branchesOn : SUBSET Branches,
         staff : SUBSET Staff, staffOn : SUBSET Staff]
Fitting == [op : {"reconcile"}, rows : Rows, then : SignIn \cup Refresh]
Opened == [op : Purposes \cup {"revoke"}, user : Users, saw : Statuses]
Patch == [op : {"count", "patch", "revoke"}, user : Staff, edit : Edits, to : Branches,
          saw : Statuses, max : Nat]
Keep == [op : {"keep"}, branches : SUBSET Branches, staff : SUBSET Staff]

Request == {Idle} \cup SignIn \cup Refresh \cup Fitting \cup Opened \cup Patch \cup Keep

\* What each kind of request has in hand, by what it does next.
Typed == TypeOK /\ req \in [Requests -> Request]

LEMMA RequestKinds ==
    ASSUME NEW q \in Request
    PROVE  /\ q.op \in Asks => q \in SignIn \cup Refresh
           /\ q.op = "reconcile" => q \in Fitting
           /\ q.op \in Purposes => q \in Opened
           /\ q.op \in {"count", "patch"} => q \in Patch
           /\ q.op = "revoke" => q \in Opened \cup Patch
           /\ q.op = "keep" => q \in Keep
           /\ q.op = "idle" => q = Idle
           /\ q \in SignIn => q.session \notin Sessions
<1>1. q \in SignIn \cup Refresh => q.op \in Asks
  BY DEF SignIn, Refresh
<1>2. q \in Fitting => q.op = "reconcile"
  BY DEF Fitting
<1>3. q \in Opened => q.op \in Purposes \cup {"revoke"}
  BY DEF Opened
<1>4. q \in Patch => q.op \in {"count", "patch", "revoke"}
  BY DEF Patch
<1>5. q \in Keep => q.op = "keep"
  BY DEF Keep
<1>6. Idle.op = "idle"
  BY DEF Idle
<1>7. q \in SignIn => q.session \notin Sessions
  BY AccessConstants DEF SignIn
<1>8. QED
  BY <1>1, <1>2, <1>3, <1>4, <1>5, <1>6, <1>7 DEF Request, Asks, Purposes

LEMMA TypedInit == Init => Typed
<1> SUFFICES ASSUME Init PROVE Typed
  OBVIOUS
<1>1. status \in [Users -> Statuses] /\ password \in [Users -> 0..MaxPasswords]
  BY AccessConstants DEF Init, Statuses
<1>2. \A u \in Users : status[u] = "ACTIVE" => password[u] > 0
  BY <1>1 DEF Init
<1>3. NewSession(Owner, 1, FALSE) \in Session
  BY AccessConstants DEF NewSession, Session, Users
<1>4. session \in [Sessions -> Session \cup {NoSession}]
  BY <1>3 DEF Init
<1>5. /\ plan \in Plans /\ branchOf \in [Staff -> Branches] /\ within \in [Staff -> BOOLEAN]
      /\ branch \in [Branches -> {"none", "on", "off"}] /\ review \in BOOLEAN
      /\ links \subseteq Users \X Purposes
  BY AccessConstants DEF Init
<1>6. req \in [Requests -> Request]
  BY DEF Init, Request
<1>7. QED
  BY <1>1, <1>2, <1>4, <1>5, <1>6 DEF Typed, TypeOK

\* A request that goes on does so with what it has in hand.
LEMMA GoesOn ==
    ASSUME Typed, NEW r \in Requests, NEW op, Go(r, op),
           \/ req[r].op \in Asks /\ op \in Asks
           \/ req[r].op = "count" /\ op = "patch"
           \/ req[r].op \in Purposes \cup {"patch"} /\ op = "revoke"
    PROVE  req' \in [Requests -> Request]
<1> DEFINE q == [req[r] EXCEPT !.op = op]
<1>1. req[r] \in Request /\ req' = [req EXCEPT ![r] = q]
  BY DEF Typed, Go
<1>2. CASE req[r].op \in Asks /\ op \in Asks
  <2>1. req[r] \in SignIn \cup Refresh
    BY <1>1, <1>2, RequestKinds
  <2>2. q \in SignIn \cup Refresh
    BY <1>2, <2>1 DEF SignIn, Refresh
  <2>3. QED
    BY <1>1, <2>2 DEF Typed, Request
<1>3. CASE req[r].op \in {"count", "patch"} /\ op \in {"patch", "revoke"}
  <2>1. req[r] \in Patch
    BY <1>1, <1>3, RequestKinds
  <2>2. q \in Patch
    BY <1>3, <2>1 DEF Patch
  <2>3. QED
    BY <1>1, <2>2 DEF Typed, Request
<1>4. CASE req[r].op \in Purposes /\ op = "revoke"
  <2>1. req[r] \in Opened
    BY <1>1, <1>4, RequestKinds
  <2>2. q \in Opened
    BY <1>4, <2>1 DEF Opened
  <2>3. QED
    BY <1>1, <2>2 DEF Typed, Request
<1>5. QED
  BY <1>2, <1>3, <1>4

LEMMA Closes ==
    ASSUME Typed, NEW r, Close(r)
    PROVE  req' \in [Requests -> Request]
  BY DEF Typed, Close, Request

LEMMA Takes ==
    ASSUME Typed, NEW r, NEW q, Take(r, q), q \in Request
    PROVE  req' \in [Requests -> Request]
  BY DEF Typed, Take

----------------------------------------------------------------------------
\* The session a refresh has found, also while the plan is looked at, is there.
FoundSession(q, rows) == q \in Refresh => rows[q.session] # NoSession
Found(q, rows) == FoundSession(q, rows) /\ (q \in Fitting => FoundSession(q.then, rows))

KnowsSession == \A r \in Requests : Found(req[r], session)

\* Whoever was seen active has a password.
KnowsPassword ==
    \A r \in Requests :
        req[r].op \in {"count", "patch"} /\ req[r].saw = "ACTIVE" => password[req[r].user] > 0

\* An invitation that was looked up was not of somebody disabled.
KnowsInvited == \A r \in Requests : req[r].op = "INVITE" => req[r].saw # "DISABLED"

Known == Typed /\ KnowsSession /\ KnowsPassword /\ KnowsInvited

LEMMA SameState ==
    ASSUME Typed, UNCHANGED <<staffVars, planVars, session>>, req' \in [Requests -> Request]
    PROVE  Typed'
  BY DEF Typed, TypeOK, staffVars, planVars

LEMMA SignsTyped == ASSUME Typed, NEW r \in Requests, Signs(r) PROVE Typed'
<1>1. ASSUME NEW u \in Users, BeginLogin(r, u) PROVE Typed'
  <2> DEFINE q == [op |-> IF OnAPlan THEN "read rows" ELSE "start", user |-> u, saw |-> password[u],
                   session |-> 0]
  <2>1. password[u] \in 1..MaxPasswords
    <3>1. status[u] = "ACTIVE" /\ password[u] \in 0..MaxPasswords
      BY <1>1 DEF BeginLogin, MayAsk, Typed, TypeOK
    <3>2. password[u] > 0
      BY <3>1 DEF Typed, TypeOK
    <3>3. QED
      BY <3>1, <3>2, AccessConstants
  <2>2. q \in SignIn
    BY <2>1 DEF SignIn, Asks
  <2>3. Take(r, q)
    BY <1>1 DEF BeginLogin
  <2>4. q \in Request
    BY <2>2 DEF Request
  <2>5. req' \in [Requests -> Request]
    <3> HIDE DEF q
    <3>1. QED
      BY <2>3, <2>4, Takes
  <2>6. QED
    BY <1>1, <2>5, SameState DEF BeginLogin
<1>2. CASE ReadPlan(r)
  <2>1. req[r] \in SignIn \cup Refresh
    BY <1>2, RequestKinds DEF ReadPlan, Typed, Asks
  <2>2. CASE OnAPlan
    <3>1. ReadRows \in Rows
      BY <2>2 DEF ReadRows, Rows, OnAPlan, Open, Employed
    <3>2. [op |-> "reconcile", rows |-> ReadRows, then |-> req[r]] \in Fitting
      BY <2>1, <3>1 DEF Fitting
    <3>3. req' \in [Requests -> Request]
      BY <1>2, <2>2, <3>2 DEF ReadPlan, Request, Typed
    <3>4. QED
      BY <1>2, <3>3, SameState DEF ReadPlan
  <2>3. QED
    BY <1>2, <2>2, Closes, SameState DEF ReadPlan
<1>3. CASE WritePlan(r)
  <2>1. req[r] \in Fitting
    BY <1>3, RequestKinds DEF WritePlan, Typed
  <2>2. [req[r].then EXCEPT !.op = "look again"] \in SignIn \cup Refresh
    BY <2>1 DEF Fitting, SignIn, Refresh, Asks
  <2>3. req' \in [Requests -> Request]
    <3>1. req' = [req EXCEPT ![r] = [req[r].then EXCEPT !.op = "look again"]]
      BY <1>3 DEF WritePlan
    <3>2. [req[r].then EXCEPT !.op = "look again"] \in Request
      BY <2>2 DEF Request
    <3>3. QED
      BY <3>1, <3>2 DEF Typed
  <2>4. within' \in [Staff -> BOOLEAN] /\ branch' \in [Branches -> {"none", "on", "off"}]
    BY <1>3 DEF WritePlan, Reconcile, Typed, TypeOK
  <2>5. review' \in BOOLEAN
    BY <1>3 DEF WritePlan, Reconcile, Typed, TypeOK
  <2>6. QED
    BY <1>3, <2>3, <2>4, <2>5 DEF WritePlan, Typed, TypeOK, staffVars
<1>4. CASE LookAgain(r)
  BY <1>4, GoesOn, Closes, SameState DEF LookAgain, Asks
<1>5. CASE StartSession(r)
  <2>1. req[r] \in SignIn
    BY <1>5, RequestKinds, AccessConstants DEF StartSession, Typed, Asks, Refresh
  <2>2. NewSession(req[r].user, req[r].saw, req[r].saw # password[req[r].user]) \in Session
    BY <2>1, AccessConstants DEF NewSession, Session, SignIn
  <2>3. session' \in [Sessions -> Session \cup {NoSession}]
    BY <1>5, <2>2 DEF StartSession, Typed, TypeOK
  <2>4. QED
    BY <1>5, <2>3, Closes DEF StartSession, Typed, TypeOK, staffVars, planVars
<1>6. QED
  BY <1>1, <1>2, <1>3, <1>4, <1>5 DEF Signs

LEMMA RotatedTyped ==
    ASSUME NEW row \in Session, row.token < MaxTokens, NEW seen \in 1..MaxTokens
    PROVE  Rotated(row, seen) \in Session
<1> DEFINE later == [row EXCEPT !.token = row.token + 1]
<1>1. row.token + 1 \in 1..MaxTokens /\ seen \in 0..MaxTokens
  BY AccessConstants DEF Session
<1>2. later \in Session
  BY <1>1 DEF Session
<1>3. [later EXCEPT !.previous = seen] \in Session
  <2> HIDE DEF later
  <2>1. QED
    BY <1>1, <1>2 DEF Session
<1>4. QED
  BY <1>3 DEF Rotated

LEMMA RefreshesTyped == ASSUME Typed, KnowsSession, NEW r \in Requests, Refreshes(r) PROVE Typed'
<1>1. ASSUME NEW s \in Sessions, NEW token \in 1..MaxTokens, BeginRefresh(r, s, token) PROVE Typed'
  <2> DEFINE q == [op |-> IF OnAPlan THEN "read rows" ELSE "start", user |-> session[s].user,
                   saw |-> token, session |-> s]
  <2>1. session[s].user \in Users
    BY <1>1 DEF BeginRefresh, Typed, TypeOK, Session
  <2>2. q \in Refresh
    BY <2>1 DEF Refresh, Asks
  <2>3. Take(r, q)
    BY <1>1 DEF BeginRefresh
  <2>4. q \in Request
    BY <2>2 DEF Request
  <2>5. req' \in [Requests -> Request]
    <3> HIDE DEF q
    <3>1. QED
      BY <2>3, <2>4, Takes
  <2>6. QED
    BY <1>1, <2>5, SameState DEF BeginRefresh
<1>2. CASE CommitRefresh(r)
  <2> DEFINE s == req[r].session
  <2>1. req[r] \in Refresh
    BY <1>2, RequestKinds, AccessConstants DEF CommitRefresh, Typed, Asks, SignIn
  <2>2. s \in Sessions /\ session[s] \in Session /\ req[r].saw \in 1..MaxTokens
    BY <2>1 DEF Refresh, KnowsSession, Found, FoundSession, Typed, TypeOK
  <2>3. Rotated(session[s], req[r].saw) \in Session
    <3>1. session[s].token < MaxTokens
      BY <1>2 DEF CommitRefresh
    <3>2. QED
      BY <2>2, <3>1, RotatedTyped
  <2>4. session' \in [Sessions -> Session \cup {NoSession}]
    BY <1>2, <2>3 DEF CommitRefresh, Typed, TypeOK
  <2>5. QED
    BY <1>2, <2>4, Closes DEF CommitRefresh, Typed, TypeOK, staffVars, planVars
<1>3. QED
  BY <1>1, <1>2 DEF Refreshes

LEMMA RevokedTyped ==
    ASSUME Typed, NEW who, session' = Revoked(who)
    PROVE  session' \in [Sessions -> Session \cup {NoSession}]
<1>1. ASSUME NEW s \in Sessions
      PROVE  [session[s] EXCEPT !.revoked = TRUE] \in Session \cup {NoSession} \/ session[s] = NoSession
  <2>1. CASE session[s] \in Session
    BY <2>1 DEF Session
  <2>2. QED
    BY <2>1 DEF Typed, TypeOK
<1>2. [NoSession EXCEPT !.revoked = TRUE] = NoSession
  BY DEF NoSession
<1>3. QED
  BY <1>1, <1>2 DEF Revoked, Typed, TypeOK

LEMMA RevokeTyped == ASSUME Typed, NEW r \in Requests, RevokeAllSessions(r) PROVE Typed'
<1>1. session' \in [Sessions -> Session \cup {NoSession}]
  BY RevokedTyped DEF RevokeAllSessions
<1>2. QED
  BY <1>1, Closes DEF RevokeAllSessions, Typed, TypeOK, staffVars, planVars

\* A new password, for somebody who becomes or stays active.
LEMMA PasswordTyped ==
    ASSUME Typed, NEW u \in Users, NewPassword(u)
    PROVE  /\ password' \in [Users -> 0..MaxPasswords]
           /\ \A v \in Users : password[v] <= password'[v]
           /\ password'[u] > 0
<1>1. password \in [Users -> 0..MaxPasswords] /\ MaxPasswords \in Nat
  BY AccessConstants DEF Typed, TypeOK
<1>2. password[u] + 1 \in 0..MaxPasswords
  BY <1>1 DEF NewPassword
<1>3. QED
  BY <1>1, <1>2 DEF NewPassword

LEMMA OpenLinkTyped ==
    ASSUME Typed, NEW r \in Requests, NEW u \in Users, NEW purpose \in Purposes, OpenLink(r, u, purpose)
    PROVE  Typed'
<1> DEFINE q == [op |-> purpose, user |-> u, saw |-> status[u]]
<1>1. q \in Opened
  BY DEF Opened, Typed, TypeOK
<1>2. Take(r, q) /\ q \in Request
  BY <1>1 DEF OpenLink, Request
<1>3. req' \in [Requests -> Request]
  <2> HIDE DEF q
  <2>1. QED
    BY <1>2, Takes
<1>4. QED
  BY <1>3, SameState DEF OpenLink

LEMMA ResetsTyped == ASSUME Typed, NEW r \in Requests, Resets(r) PROVE Typed'
<1>1. CASE ResetPassword(r)
  <2> DEFINE u == req[r].user
  <2>1. req[r] \in Opened
    BY <1>1, RequestKinds DEF ResetPassword, Typed, Purposes
  <2>2. u \in Users
    BY <2>1 DEF Opened
  <2>3. /\ password' \in [Users -> 0..MaxPasswords]
        /\ \A v \in Users : password[v] <= password'[v]
    <3> HIDE DEF u
    <3>1. NewPassword(u)
      BY <1>1 DEF ResetPassword, u
    <3>2. QED
      BY <2>2, <3>1, PasswordTyped
  <2>4. req' \in [Requests -> Request]
    BY <1>1, GoesOn DEF ResetPassword, AfterReset, Purposes
  <2>5. \A v \in Users : status[v] = "ACTIVE" => password'[v] > 0
    BY <2>3 DEF Typed, TypeOK
  <2>6. session' = session
    BY <1>1 DEF ResetPassword, AfterReset
  <2>7. QED
    BY <1>1, <2>3, <2>4, <2>5, <2>6 DEF ResetPassword, Typed, TypeOK, planVars
<1>2. QED
  BY <1>1, OpenLinkTyped DEF Resets, Purposes

LEMMA HiresTyped == ASSUME Typed, NEW r \in Requests, Hires(r) PROVE Typed'
<1>1. CASE AcceptInvite(r)
  <2> DEFINE u == req[r].user
  <2>1. req[r] \in Opened
    BY <1>1, RequestKinds DEF AcceptInvite, Typed, Purposes
  <2>2. u \in Users
    BY <2>1 DEF Opened
  <2>3. /\ password' \in [Users -> 0..MaxPasswords]
        /\ \A v \in Users : password[v] <= password'[v]
        /\ password'[u] > 0
    <3> HIDE DEF u
    <3>1. NewPassword(u)
      BY <1>1 DEF AcceptInvite, u
    <3>2. QED
      BY <2>2, <3>1, PasswordTyped
  <2>4. status' \in [Users -> Statuses] /\ \A v \in Users \ {u} : status'[v] = status[v]
    BY <1>1 DEF AcceptInvite, Typed, TypeOK, Statuses
  <2>5. \A v \in Users : status'[v] = "ACTIVE" => password'[v] > 0
    <3> HIDE DEF u
    <3>1. QED
      BY <2>3, <2>4 DEF Typed, TypeOK
  <2>6. QED
    BY <1>1, <2>3, <2>4, <2>5, Closes DEF AcceptInvite, Typed, TypeOK, planVars
<1>2. QED
  BY <1>1, OpenLinkTyped DEF Hires, Purposes, Users

LEMMA EditTyped == ASSUME Typed, KnowsPassword, NEW r \in Requests, Edit(r) PROVE Typed'
<1>1. ASSUME NEW u \in Staff, NEW edit \in Edits, NEW to \in Branches, BeginPatch(r, u, edit, to)
      PROVE  Typed'
  <2> DEFINE q == [op |-> IF edit = "enable" /\ status[u] = "DISABLED" THEN "count" ELSE "patch",
                   user |-> u, edit |-> edit, to |-> to, saw |-> status[u], max |-> MaxStaff[plan]]
  <2>1. MaxStaff[plan] \in Nat /\ status[u] \in Statuses
    BY <1>1, AccessConstants DEF BeginPatch, OwnerServed, OnAPlan, Typed, TypeOK, Users
  <2>2. q \in Patch
    BY <2>1 DEF Patch
  <2>3. Take(r, q) /\ q \in Request
    BY <1>1, <2>2 DEF BeginPatch, Request
  <2>4. req' \in [Requests -> Request]
    <3> HIDE DEF q
    <3>1. QED
      BY <2>3, Takes
  <2>5. QED
    BY <1>1, <2>4, SameState DEF BeginPatch
<1>2. CASE CountStaff(r)
  BY <1>2, GoesOn, Closes, SameState DEF CountStaff
<1>3. CASE CommitPatch(r)
  <2>1. req[r] \in Patch
    BY <1>3, RequestKinds DEF CommitPatch, Typed
  <2>2. req[r].user \in Staff /\ req[r].to \in Branches /\ req[r].saw \in Statuses
    BY <2>1 DEF Patch
  <2>3. StatusAfter(req[r]) \in Statuses
    BY <2>2 DEF StatusAfter, Statuses
  <2>4. StatusAfter(req[r]) = "ACTIVE" => password[req[r].user] > 0
    BY <1>3 DEF StatusAfter, CommitPatch, KnowsPassword
  <2>5. status' \in [Users -> Statuses] /\ branchOf' \in [Staff -> Branches]
    BY <1>3, <2>2, <2>3 DEF CommitPatch, Typed, TypeOK
  <2>6. \A v \in Users : status'[v] = "ACTIVE" => password[v] > 0
    BY <1>3, <2>4 DEF CommitPatch, Typed, TypeOK
  <2>7. req' \in [Requests -> Request]
    BY <1>3, GoesOn, Closes DEF CommitPatch
  <2>8. QED
    BY <1>3, <2>5, <2>6, <2>7 DEF CommitPatch, Typed, TypeOK, planVars
<1>4. QED
  BY <1>1, <1>2, <1>3 DEF Edit

LEMMA KeepsTyped == ASSUME Typed, NEW r \in Requests, Keeps(r) PROVE Typed'
<1>1. ASSUME NEW keepB \in SUBSET Branches, NEW keepS \in SUBSET Staff, BeginKeepActive(r, keepB, keepS)
      PROVE  Typed'
  <2> DEFINE q == [op |-> "keep", branches |-> keepB, staff |-> keepS]
  <2>1. Take(r, q) /\ q \in Request
    BY <1>1 DEF BeginKeepActive, Request, Keep
  <2>2. req' \in [Requests -> Request]
    <3> HIDE DEF q
    <3>1. QED
      BY <2>1, Takes
  <2>3. QED
    BY <1>1, <2>2, SameState DEF BeginKeepActive
<1>2. CASE CommitKeepActive(r)
  <2>1. session' \in [Sessions -> Session \cup {NoSession}]
    BY <1>2, RevokedTyped DEF CommitKeepActive
  <2>2. branch' \in [Branches -> {"none", "on", "off"}] /\ review' \in BOOLEAN
    BY <1>2 DEF CommitKeepActive
  <2>3. within' \in [Staff -> BOOLEAN]
    <3>1. within' = [u \in Staff |-> u \in req[r].staff]
      BY <1>2 DEF CommitKeepActive
    <3>2. QED
      BY <3>1
  <2>4. QED
    BY <1>2, <2>1, <2>2, <2>3, Closes DEF CommitKeepActive, Typed, TypeOK, staffVars
<1>3. QED
  BY <1>1, <1>2 DEF Keeps

\* One session is ended, the others are left alone.
LEMMA EndedTyped ==
    ASSUME Typed, NEW s \in Sessions, session[s] # NoSession,
           session' = [session EXCEPT ![s].revoked = TRUE]
    PROVE  session' \in [Sessions -> Session \cup {NoSession}]
<1>1. session[s] \in Session
  BY DEF Typed, TypeOK
<1>2. [session[s] EXCEPT !.revoked = TRUE] \in Session
  BY <1>1 DEF Session
<1>3. QED
  BY <1>2 DEF Typed, TypeOK

LEMMA AtOnceTyped == ASSUME Typed, AtOnce PROVE Typed'
<1>1. ASSUME NEW s \in Sessions, NEW token, Replayed(s, token) \/ Logout(s) PROVE Typed'
  <2>1. session' \in [Sessions -> Session \cup {NoSession}]
    BY <1>1, EndedTyped DEF Replayed, Logout
  <2>2. QED
    BY <1>1, <2>1 DEF Replayed, Logout, Typed, TypeOK, staffVars, planVars
<1>2. ASSUME NEW u \in Users, ForgotPassword(u) PROVE Typed'
  <2>1. links' \subseteq Users \X Purposes
    BY <1>2 DEF ForgotPassword, Typed, TypeOK, Purposes
  <2>2. QED
    BY <1>2, <2>1 DEF ForgotPassword, Typed, TypeOK, planVars
<1>3. ASSUME NEW u \in Staff, Invite(u) \/ ResendInvite(u) PROVE Typed'
  <2>1. status' \in [Users -> Statuses] /\ links' \subseteq Users \X Purposes
    BY <1>3 DEF Invite, ResendInvite, Typed, TypeOK, Users, Statuses, Purposes
  <2>2. \A v \in Users : status'[v] = "ACTIVE" => password[v] > 0
    BY <1>3 DEF Invite, ResendInvite, Typed, TypeOK, Users
  <2>3. QED
    BY <1>3, <2>1, <2>2 DEF Invite, ResendInvite, Typed, TypeOK, planVars
<1>4. ASSUME PlanChanges PROVE Typed'
  BY <1>4 DEF PlanChanges, Typed, TypeOK, staffVars
<1>5. ASSUME NEW b \in Branches, CreateBranch(b) PROVE Typed'
  BY <1>5 DEF CreateBranch, Typed, TypeOK, staffVars
<1>6. QED
  BY <1>1, <1>2, <1>3, <1>4, <1>5 DEF AtOnce

LEMMA DiesTyped == ASSUME Typed, NEW r \in Requests, Dies(r) PROVE Typed'
  BY Closes, SameState DEF Dies

LEMMA TypedKept == ASSUME Typed, KnowsSession, KnowsPassword, [Next]_vars PROVE Typed'
<1>1. CASE UNCHANGED vars
  BY <1>1, SameState DEF vars, Typed
<1>2. CASE AtOnce
  BY <1>2, AtOnceTyped
<1>3. ASSUME NEW r \in Requests, Works(r) PROVE Typed'
  BY <1>3, SignsTyped, RefreshesTyped, ResetsTyped, EditTyped, KeepsTyped, RevokeTyped DEF Works
<1>4. ASSUME NEW r \in Requests, Dies(r) \/ Hires(r) PROVE Typed'
  BY <1>4, DiesTyped, HiresTyped
<1>5. QED
  BY <1>1, <1>2, <1>3, <1>4 DEF Next

----------------------------------------------------------------------------
\* What a step may do to the sessions.
LEMMA SessionStep ==
    ASSUME [Next]_vars
    PROVE  \/ session' = session
           \/ \E r \in Requests : StartSession(r) \/ CommitRefresh(r)
           \/ \E s \in Sessions : /\ session[s] # NoSession
                                  /\ session' = [session EXCEPT ![s].revoked = TRUE]
           \/ \E who : session' = Revoked(who)
<1>1. CASE UNCHANGED vars
  BY <1>1 DEF vars
<1>2. ASSUME AtOnce PROVE \/ session' = session
                          \/ \E s \in Sessions : /\ session[s] # NoSession
                                                 /\ session' = [session EXCEPT ![s].revoked = TRUE]
  BY <1>2 DEF AtOnce, Replayed, Logout, ForgotPassword, Invite, ResendInvite, PlanChanges, CreateBranch
<1>3. ASSUME NEW r \in Requests, Works(r) \/ Dies(r) \/ Hires(r)
      PROVE  \/ session' = session
             \/ StartSession(r) \/ CommitRefresh(r)
             \/ \E who : session' = Revoked(who)
  <2>1. CASE Signs(r)
    BY <2>1 DEF Signs, BeginLogin, ReadPlan, WritePlan, LookAgain
  <2>2. CASE Refreshes(r)
    BY <2>2 DEF Refreshes, BeginRefresh
  <2>3. CASE Resets(r) \/ Hires(r)
    BY <2>3 DEF Resets, Hires, OpenLink, ResetPassword, AfterReset, AcceptInvite
  <2>4. CASE Edit(r) \/ Dies(r)
    BY <2>4 DEF Edit, BeginPatch, CountStaff, CommitPatch, Dies
  <2>5. CASE Keeps(r)
    BY <2>5 DEF Keeps, BeginKeepActive, CommitKeepActive
  <2>6. CASE RevokeAllSessions(r)
    BY <2>6 DEF RevokeAllSessions
  <2>7. QED
    BY <1>3, <2>1, <2>2, <2>3, <2>4, <2>5, <2>6 DEF Works
<1>4. QED
  BY <1>1, <1>2, <1>3 DEF Next

\* A session that was started stays that session, and once ended stays ended.
LEMMA SessionsGoOn ==
    ASSUME Typed, KnowsSession, [Next]_vars, NEW s \in Sessions, session[s] # NoSession
    PROVE  /\ session'[s] # NoSession
           /\ session'[s].user = session[s].user
           /\ session'[s].password = session[s].password
           /\ session'[s].stale = session[s].stale
           /\ session[s].revoked => session'[s].revoked
<1>1. session[s] \in Session /\ session[s].user # "none"
  BY AccessConstants DEF Typed, TypeOK, Session
<1>2. DOMAIN session = Sessions
  BY DEF Typed, TypeOK
<1>3. NoSession.user = "none"
  BY DEF NoSession
<1>4. CASE session' = session
  BY <1>4
<1>5. ASSUME NEW r \in Requests, StartSession(r) PROVE session'[s] = session[s]
  BY <1>2, <1>5 DEF StartSession
<1>6. ASSUME NEW r \in Requests, CommitRefresh(r), session'[s] # session[s]
      PROVE  session'[s] = Rotated(session[s], req[r].saw)
  BY <1>2, <1>6 DEF CommitRefresh
<1>7. ASSUME NEW seen
      PROVE  LET later == Rotated(session[s], seen)
             IN  /\ later.user = session[s].user /\ later.password = session[s].password
                 /\ later.stale = session[s].stale /\ later.revoked = session[s].revoked
  BY <1>1 DEF Rotated, Session
<1>8. ASSUME NEW t \in Sessions, session' = [session EXCEPT ![t].revoked = TRUE]
      PROVE  session'[s] \in {session[s], [session[s] EXCEPT !.revoked = TRUE]}
  BY <1>2, <1>8
<1>9. ASSUME NEW who, session' = Revoked(who)
      PROVE  session'[s] \in {session[s], [session[s] EXCEPT !.revoked = TRUE]}
  BY <1>9 DEF Revoked
<1>10. LET later == [session[s] EXCEPT !.revoked = TRUE]
       IN  /\ later.user = session[s].user /\ later.password = session[s].password
           /\ later.stale = session[s].stale /\ later.revoked
  BY <1>1 DEF Session
<1>11. CASE \E r \in Requests : CommitRefresh(r)
  BY <1>1, <1>3, <1>6, <1>7, <1>11
<1>12. CASE session'[s] \in {session[s], [session[s] EXCEPT !.revoked = TRUE]}
  BY <1>1, <1>3, <1>10, <1>12
<1>13. QED
  BY <1>4, <1>5, <1>8, <1>9, <1>11, <1>12, SessionStep

\* What a step may do to a request, as far as its hand matters.
LEMMA RequestStep ==
    ASSUME Typed, [Next]_vars, NEW p \in Requests, req'[p] # req[p]
    PROVE  \/ req'[p].op \in {"idle", "revoke", "keep", "RESET_PASSWORD"}
           \/ \E u \in Users : BeginLogin(p, u)
           \/ ReadPlan(p) \/ WritePlan(p) \/ LookAgain(p) \/ CountStaff(p)
           \/ \E s \in Sessions, token \in 1..MaxTokens : BeginRefresh(p, s, token)
           \/ \E u \in Staff : OpenLink(p, u, "INVITE")
           \/ \E u \in Staff, edit \in Edits, to \in Branches : BeginPatch(p, u, edit, to)
<1> DEFINE Harmless == req'[p].op \in {"idle", "revoke", "keep", "RESET_PASSWORD"}
<1>1. ASSUME NEW r, NEW q, req' = [req EXCEPT ![r] = q]
      PROVE  r = p /\ req'[p] = q
  BY <1>1 DEF Typed
<1>2. ASSUME NEW r, Close(r) PROVE Harmless
  BY <1>1, <1>2 DEF Close, Idle
<1>3. ASSUME NEW r \in Requests, NEW op, Go(r, op) PROVE r = p /\ req'[p].op = op
  <2>1. r = p /\ req'[p] = [req[r] EXCEPT !.op = op]
    BY <1>1, <1>3 DEF Go
  <2>2. req[r] \in Request
    BY DEF Typed
  <2>3. \A q \in Request : [q EXCEPT !.op = op].op = op
    BY DEF Request, Idle, SignIn, Refresh, Fitting, Opened, Patch, Keep
  <2>4. QED
    BY <2>1, <2>2, <2>3
<1>4. ASSUME NEW r, NEW q, Take(r, q) PROVE r = p /\ req'[p] = q
  BY <1>1, <1>4 DEF Take
<1>5. ~UNCHANGED req
  OBVIOUS
<1> HIDE DEF Harmless
<1>6. ~AtOnce /\ ~UNCHANGED vars
  BY <1>5 DEF AtOnce, Replayed, Logout, ForgotPassword, Invite, ResendInvite, PlanChanges, CreateBranch, vars
<1>7. ASSUME NEW r \in Requests, Works(r) \/ Dies(r) \/ Hires(r)
      PROVE  \/ Harmless
             \/ r = p /\ (Signs(r) \/ Refreshes(r) \/ Hires(r) \/ Edit(r))
  <2>1. CASE RevokeAllSessions(r) \/ Dies(r)
    BY <1>2, <2>1 DEF RevokeAllSessions, Dies
  <2>2. CASE Keeps(r)
    <3>1. ASSUME NEW keepB, NEW keepS, BeginKeepActive(r, keepB, keepS) PROVE Harmless
      BY <1>4, <3>1 DEF BeginKeepActive, Harmless
    <3>2. QED
      BY <1>2, <2>2, <3>1 DEF Keeps, CommitKeepActive
  <2>3. CASE Resets(r)
    <3>1. ASSUME NEW u, OpenLink(r, u, "RESET_PASSWORD") PROVE Harmless
      BY <1>4, <3>1 DEF OpenLink, Harmless
    <3>2. ASSUME ResetPassword(r) PROVE Harmless
      BY <1>3, <3>2 DEF ResetPassword, AfterReset, Harmless
    <3>3. QED
      BY <2>3, <3>1, <3>2 DEF Resets
  <2>4. CASE Signs(r)
    <3>1. ASSUME WritePlan(r) PROVE r = p
      BY <1>1, <3>1 DEF WritePlan
    <3>2. ASSUME ReadPlan(r) PROVE Harmless \/ r = p
      <4>1. CASE OnAPlan
        <5>1. \E q : req' = [req EXCEPT ![r] = q]
          BY <3>2, <4>1 DEF ReadPlan
        <5>2. QED
          BY <1>1, <5>1
      <4>2. CASE ~OnAPlan
        BY <1>2, <3>2, <4>2 DEF ReadPlan
      <4>3. QED
        BY <4>1, <4>2
    <3>3. ASSUME LookAgain(r) PROVE Harmless \/ r = p
      BY <1>2, <1>3, <3>3 DEF LookAgain
    <3>4. ASSUME NEW u, BeginLogin(r, u) PROVE r = p
      <4> DEFINE q == [op |-> IF OnAPlan THEN "read rows" ELSE "start", user |-> u, saw |-> password[u],
                       session |-> 0]
      <4>1. Take(r, q)
        BY <3>4 DEF BeginLogin
      <4> HIDE DEF q
      <4>2. QED
        BY <1>4, <4>1
    <3>5. ASSUME StartSession(r) PROVE Harmless
      BY <1>2, <3>5 DEF StartSession
    <3>6. QED
      BY <2>4, <3>1, <3>2, <3>3, <3>4, <3>5 DEF Signs
  <2>5. CASE Refreshes(r)
    <3>1. ASSUME NEW s, NEW token, BeginRefresh(r, s, token) PROVE r = p
      <4> DEFINE q == [op |-> IF OnAPlan THEN "read rows" ELSE "start", user |-> session[s].user,
                       saw |-> token, session |-> s]
      <4>1. Take(r, q)
        BY <3>1 DEF BeginRefresh
      <4> HIDE DEF q
      <4>2. QED
        BY <1>4, <4>1
    <3>2. QED
      BY <1>2, <2>5, <3>1 DEF Refreshes, CommitRefresh
  <2>6. CASE Hires(r)
    <3>1. ASSUME NEW u, OpenLink(r, u, "INVITE") PROVE r = p
      BY <1>4, <3>1 DEF OpenLink
    <3>2. QED
      BY <1>2, <2>6, <3>1 DEF Hires, AcceptInvite
  <2>7. CASE Edit(r)
    <3>1. ASSUME NEW u, NEW edit, NEW to, BeginPatch(r, u, edit, to) PROVE r = p
      BY <1>4, <3>1 DEF BeginPatch
    <3>2. ASSUME CountStaff(r) \/ CommitPatch(r) PROVE Harmless \/ r = p
      BY <1>2, <1>3, <3>2 DEF CountStaff, CommitPatch
    <3>3. QED
      BY <2>7, <3>1, <3>2 DEF Edit
  <2>8. QED
    BY <1>7, <2>1, <2>2, <2>3, <2>4, <2>5, <2>6, <2>7 DEF Works
<1>8. CASE Signs(p) \/ Refreshes(p)
  BY <1>2, <1>8 DEF Signs, Refreshes, StartSession, CommitRefresh, Harmless
<1>9. CASE Hires(p)
  BY <1>2, <1>9 DEF Hires, AcceptInvite, Harmless
<1>10. CASE Edit(p)
  BY <1>2, <1>3, <1>10 DEF Edit, CommitPatch, Harmless
<1>11. QED
  BY <1>6, <1>7, <1>8, <1>9, <1>10 DEF Next, Harmless

\* Every step of a request changes that request only.
LEMMA OneRequest ==
    ASSUME NEW r \in Requests, Works(r) \/ Dies(r) \/ Hires(r)
    PROVE  \E q : req' = [req EXCEPT ![r] = q]
<1>1. \A q : Take(r, q) => req' = [req EXCEPT ![r] = q]
  BY DEF Take
<1>2. Close(r) => \E q : req' = [req EXCEPT ![r] = q]
  BY DEF Close
<1>3. \A op : Go(r, op) => \E q : req' = [req EXCEPT ![r] = q]
  BY DEF Go
<1>4. CASE Signs(r)
  <2>1. ASSUME NEW u, BeginLogin(r, u) PROVE \E q : req' = [req EXCEPT ![r] = q]
    BY <2>1 DEF BeginLogin, Take
  <2>2. ASSUME ReadPlan(r) PROVE \E q : req' = [req EXCEPT ![r] = q]
    <3>1. CASE OnAPlan
      BY <2>2, <3>1 DEF ReadPlan
    <3>2. CASE ~OnAPlan
      BY <1>2, <2>2, <3>2 DEF ReadPlan
    <3>3. QED
      BY <3>1, <3>2
  <2>3. ASSUME WritePlan(r) PROVE \E q : req' = [req EXCEPT ![r] = q]
    BY <2>3 DEF WritePlan
  <2>4. QED
    BY <1>2, <1>3, <1>4, <2>1, <2>2, <2>3 DEF Signs, LookAgain, StartSession
<1>5. CASE Refreshes(r)
  <2>1. ASSUME NEW s, NEW token, BeginRefresh(r, s, token) PROVE \E q : req' = [req EXCEPT ![r] = q]
    BY <2>1 DEF BeginRefresh, Take
  <2>2. QED
    BY <1>2, <1>5, <2>1 DEF Refreshes, CommitRefresh
<1>6. CASE Resets(r) \/ Hires(r)
  <2>1. ASSUME NEW u, NEW purpose, OpenLink(r, u, purpose) PROVE \E q : req' = [req EXCEPT ![r] = q]
    BY <2>1 DEF OpenLink, Take
  <2>2. QED
    BY <1>2, <1>3, <1>6, <2>1 DEF Resets, Hires, ResetPassword, AfterReset, AcceptInvite
<1>7. CASE Edit(r)
  <2>1. ASSUME NEW u, NEW edit, NEW to, BeginPatch(r, u, edit, to) PROVE \E q : req' = [req EXCEPT ![r] = q]
    BY <2>1 DEF BeginPatch, Take
  <2>2. QED
    BY <1>2, <1>3, <1>7, <2>1 DEF Edit, CountStaff, CommitPatch
<1>8. CASE Keeps(r)
  <2>1. ASSUME NEW keepB, NEW keepS, BeginKeepActive(r, keepB, keepS) PROVE \E q : req' = [req EXCEPT ![r] = q]
    BY <2>1 DEF BeginKeepActive, Take
  <2>2. QED
    BY <1>2, <1>8, <2>1 DEF Keeps, CommitKeepActive
<1>9. CASE RevokeAllSessions(r) \/ Dies(r)
  BY <1>2, <1>9 DEF RevokeAllSessions, Dies
<1>10. QED
  BY <1>4, <1>5, <1>6, <1>7, <1>8, <1>9 DEF Works

\* What a request takes in hand.
LEMMA Taken ==
    ASSUME Typed, NEW p \in Requests
    PROVE  /\ \A q : Take(p, q) => req'[p] = q
           /\ \A op : Go(p, op) => req'[p] = [req[p] EXCEPT !.op = op]
           /\ Close(p) => req'[p] = Idle
  BY DEF Typed, Take, Go, Close

LEMMA IdleOp == Idle.op = "idle"
  BY DEF Idle

LEMMA LoginTakes ==
    ASSUME Typed, NEW p \in Requests, NEW u \in Users, BeginLogin(p, u)
    PROVE  req'[p] \in SignIn
<1> DEFINE q == [op |-> IF OnAPlan THEN "read rows" ELSE "start", user |-> u, saw |-> password[u],
                 session |-> 0]
<1>1. Take(p, q)
  BY DEF BeginLogin
<1>2. password[u] \in 1..MaxPasswords
  <2>1. status[u] = "ACTIVE" /\ password[u] \in 0..MaxPasswords
    BY DEF BeginLogin, MayAsk, Typed, TypeOK
  <2>2. QED
    BY <2>1, AccessConstants DEF Typed, TypeOK
<1>3. q \in SignIn
  BY <1>2 DEF SignIn, Asks
<1> HIDE DEF q
<1>4. QED
  BY <1>1, <1>3, Taken

LEMMA RefreshTakes ==
    ASSUME Typed, NEW p \in Requests, NEW s \in Sessions, NEW token \in 1..MaxTokens,
           BeginRefresh(p, s, token)
    PROVE  req'[p] \in Refresh /\ req'[p].session = s
<1> DEFINE q == [op |-> IF OnAPlan THEN "read rows" ELSE "start", user |-> session[s].user,
                 saw |-> token, session |-> s]
<1>1. Take(p, q)
  BY DEF BeginRefresh
<1>2. session[s].user \in Users
  BY DEF BeginRefresh, Typed, TypeOK, Session
<1>3. q \in Refresh /\ q.session = s
  BY <1>2 DEF Refresh, Asks
<1> HIDE DEF q
<1>4. QED
  BY <1>1, <1>3, Taken

LEMMA OpsOfSigning ==
    ASSUME Typed, NEW p \in Requests, ReadPlan(p) \/ WritePlan(p) \/ LookAgain(p)
    PROVE  req'[p].op \in {"reconcile", "look again", "start", "idle"}
<1>1. req[p] \in Request
  BY DEF Typed
<1>2. CASE ReadPlan(p)
  <2>1. CASE OnAPlan
    <3>1. req'[p] = [op |-> "reconcile", rows |-> ReadRows, then |-> req[p]]
      BY <1>2, <2>1 DEF ReadPlan, Typed
    <3>2. QED
      BY <3>1
  <2>2. CASE ~OnAPlan
    BY <1>2, <2>2, Taken, IdleOp DEF ReadPlan
  <2>3. QED
    BY <2>1, <2>2
<1>3. CASE WritePlan(p)
  <2>1. req[p].then \in SignIn \cup Refresh
    BY <1>1, <1>3, RequestKinds DEF WritePlan, Fitting
  <2>2. req'[p] = [req[p].then EXCEPT !.op = "look again"]
    BY <1>3 DEF WritePlan, Typed
  <2>3. QED
    BY <2>1, <2>2 DEF SignIn, Refresh
<1>4. CASE LookAgain(p)
  <2>1. req[p] \in SignIn \cup Refresh
    BY <1>1, <1>4, RequestKinds DEF LookAgain, Asks
  <2>2. req'[p] \in {[req[p] EXCEPT !.op = "start"], Idle}
    BY <1>4, Taken DEF LookAgain
  <2>3. [req[p] EXCEPT !.op = "start"].op = "start"
    BY <2>1 DEF SignIn, Refresh
  <2>4. QED
    BY <2>2, <2>3, IdleOp
<1>5. QED
  BY <1>2, <1>3, <1>4

LEMMA FoundSessionKept ==
    ASSUME Typed, KnowsSession, [Next]_vars, NEW q, FoundSession(q, session)
    PROVE  FoundSession(q, session')
<1>1. CASE q \in Refresh
  <2>1. q.session \in Sessions
    BY <1>1 DEF Refresh
  <2>2. QED
    BY <1>1, <2>1, SessionsGoOn DEF FoundSession
<1>2. QED
  BY <1>1 DEF FoundSession

LEMMA KnowsSessionKept ==
    ASSUME Typed, KnowsSession, [Next]_vars
    PROVE  KnowsSession'
<1> SUFFICES ASSUME NEW p \in Requests PROVE Found(req'[p], session')
  BY DEF KnowsSession
<1>1. req[p] \in Request
  BY DEF Typed
<1>2. \A q : q.op \notin Asks \cup {"reconcile"} => Found(q, session')
  BY DEF Found, FoundSession, Refresh, Fitting
<1>3. \A q \in SignIn : Found(q, session')
  BY AccessConstants DEF Found, FoundSession, SignIn, Refresh, Fitting, Asks
<1>4. \A q \in Refresh : session'[q.session] # NoSession => Found(q, session')
  BY DEF Found, FoundSession, Refresh, Fitting, Asks
<1>5. CASE req'[p] = req[p]
  BY <1>5, FoundSessionKept DEF KnowsSession, Found
<1>6. CASE req'[p].op \in {"idle", "revoke", "keep", "RESET_PASSWORD"}
  BY <1>2, <1>6 DEF Asks
<1>7. ASSUME NEW u \in Users, BeginLogin(p, u) PROVE Found(req'[p], session')
  BY <1>3, <1>7, LoginTakes
<1>8. ASSUME NEW s \in Sessions, NEW token \in 1..MaxTokens, BeginRefresh(p, s, token)
      PROVE  Found(req'[p], session')
  <2>1. session'[s] # NoSession
    BY <1>8 DEF BeginRefresh
  <2>2. QED
    BY <1>4, <1>8, <2>1, RefreshTakes
<1>9. CASE ReadPlan(p)
  <2>1. req[p] \in SignIn \cup Refresh
    BY <1>1, <1>9, RequestKinds DEF ReadPlan, Asks
  <2>2. FoundSession(req[p], session')
    BY <1>9, FoundSessionKept DEF KnowsSession, Found
  <2>3. CASE OnAPlan
    <3>1. req'[p] = [op |-> "reconcile", rows |-> ReadRows, then |-> req[p]]
      BY <1>9, <2>3 DEF ReadPlan, Typed
    <3>2. req'[p].then = req[p] /\ req'[p].op = "reconcile"
      BY <3>1
    <3>3. req'[p] \notin Refresh
      BY <3>2 DEF Refresh, Asks
    <3>4. QED
      BY <2>2, <3>2, <3>3 DEF Found, FoundSession
  <2>4. CASE ~OnAPlan
    BY <1>2, <1>9, <2>4, Taken DEF ReadPlan, Idle, Asks
  <2>5. QED
    BY <2>3, <2>4
<1>10. CASE WritePlan(p)
  <2> DEFINE q == req[p].then
             later == [q EXCEPT !.op = "look again"]
  <2>1. req[p] \in Fitting
    BY <1>1, <1>10, RequestKinds DEF WritePlan
  <2>2. req'[p] = later
    BY <1>10 DEF WritePlan, Typed
  <2>3. q \in SignIn \cup Refresh /\ FoundSession(q, session')
    BY <2>1, FoundSessionKept DEF Fitting, KnowsSession, Found
  <2> HIDE DEF q
  <2>4. q \in SignIn => later \in SignIn
    BY DEF SignIn, Asks
  <2>5. q \in Refresh => later \in Refresh /\ later.session = q.session
    BY DEF Refresh, Asks
  <2>6. q \in Refresh => session'[q.session] # NoSession
    BY <2>3 DEF FoundSession
  <2> HIDE DEF later
  <2>7. QED
    BY <1>3, <1>4, <2>2, <2>3, <2>4, <2>5, <2>6
<1>11. CASE LookAgain(p)
  <2> DEFINE q == req[p]
             later == [q EXCEPT !.op = "start"]
  <2>1. q \in SignIn \cup Refresh
    BY <1>1, <1>11, RequestKinds DEF LookAgain, Asks
  <2>2. req'[p] \in {later, Idle}
    BY <1>11, Taken DEF LookAgain
  <2>3. FoundSession(q, session')
    BY FoundSessionKept DEF KnowsSession, Found
  <2> HIDE DEF q
  <2>4. q \in SignIn => later \in SignIn
    BY DEF SignIn, Asks
  <2>5. q \in Refresh => later \in Refresh /\ later.session = q.session
    BY DEF Refresh, Asks
  <2>6. q \in Refresh => session'[q.session] # NoSession
    BY <2>3 DEF FoundSession
  <2>7. Found(Idle, session')
    BY <1>2 DEF Idle, Asks
  <2> HIDE DEF later
  <2>8. QED
    BY <1>3, <1>4, <2>1, <2>2, <2>4, <2>5, <2>6, <2>7
<1>12. CASE CountStaff(p)
  <2>1. req[p] \in Patch
    BY <1>1, <1>12, RequestKinds DEF CountStaff
  <2>2. req'[p] \in {[req[p] EXCEPT !.op = "patch"], Idle}
    BY <1>12, Taken DEF CountStaff
  <2>3. [req[p] EXCEPT !.op = "patch"].op = "patch"
    BY <2>1 DEF Patch
  <2>4. QED
    BY <1>2, <2>2, <2>3 DEF Asks, Idle
<1>13. ASSUME NEW u \in Staff, OpenLink(p, u, "INVITE") PROVE Found(req'[p], session')
  BY <1>2, <1>13, Taken, ZenonT(30) DEF OpenLink, Asks
<1>14. ASSUME NEW u \in Staff, NEW edit \in Edits, NEW to \in Branches, BeginPatch(p, u, edit, to)
       PROVE  Found(req'[p], session')
  <2>1. req'[p].op \in {"count", "patch"}
    BY <1>14, Taken DEF BeginPatch
  <2>2. QED
    BY <1>2, <2>1 DEF Asks
<1>15. QED
  BY <1>5, <1>6, <1>7, <1>8, <1>9, <1>10, <1>11, <1>12, <1>13, <1>14, RequestStep

\* Passwords are replaced, never taken away.
LEMMA PasswordsGrow ==
    ASSUME Typed, [Next]_vars, NEW u \in Users
    PROVE  \/ password'[u] = password[u]
           \/ /\ password'[u] = password[u] + 1
              /\ \E r \in Requests : req[r].user = u /\ (ResetPassword(r) \/ AcceptInvite(r))
<1>1. CASE password' = password
  BY <1>1
<1>2. ASSUME NEW r \in Requests, ResetPassword(r) \/ AcceptInvite(r)
      PROVE  \/ password'[u] = password[u]
             \/ password'[u] = password[u] + 1 /\ req[r].user = u
  <2>1. NewPassword(req[r].user)
    BY <1>2 DEF ResetPassword, AcceptInvite
  <2>2. password \in [Users -> 0..MaxPasswords]
    BY DEF Typed, TypeOK
  <2>3. CASE req[r].user = u
    BY <2>1, <2>2, <2>3 DEF NewPassword
  <2>4. CASE req[r].user # u
    <3> DEFINE w == req[r].user
    <3>1. w # u /\ password' = [password EXCEPT ![w] = password[w] + 1]
      BY <2>1, <2>4 DEF NewPassword
    <3> HIDE DEF w
    <3>2. password'[u] = password[u]
      BY <2>2, <3>1
    <3>3. QED
      BY <3>2
  <2>5. QED
    BY <2>3, <2>4
<1>3. AtOnce \/ UNCHANGED vars => password' = password
  BY DEF AtOnce, Replayed, Logout, ForgotPassword, Invite, ResendInvite, PlanChanges, CreateBranch, vars,
         staffVars
<1>4. ASSUME NEW r \in Requests, Works(r) \/ Dies(r) \/ Hires(r)
      PROVE  password' = password \/ ResetPassword(r) \/ AcceptInvite(r)
  <2>1. CASE Signs(r) \/ Refreshes(r)
    BY <2>1 DEF Signs, BeginLogin, ReadPlan, WritePlan, LookAgain, StartSession, Refreshes, BeginRefresh,
                CommitRefresh, staffVars
  <2>2. CASE Resets(r) \/ Hires(r)
    BY <2>2 DEF Resets, Hires, OpenLink, staffVars
  <2>3. CASE Edit(r) \/ Dies(r)
    BY <2>3 DEF Edit, BeginPatch, CountStaff, CommitPatch, Dies, staffVars
  <2>4. CASE Keeps(r) \/ RevokeAllSessions(r)
    BY <2>4 DEF Keeps, BeginKeepActive, CommitKeepActive, RevokeAllSessions, staffVars
  <2>5. QED
    BY <1>4, <2>1, <2>2, <2>3, <2>4 DEF Works
<1>5. QED
  BY <1>1, <1>2, <1>3, <1>4 DEF Next

HasPassword(q, passwords) ==
    q.op \in {"count", "patch"} /\ q.saw = "ACTIVE" => passwords[q.user] > 0

LEMMA KnowsPasswordKept ==
    ASSUME Typed, KnowsPassword, [Next]_vars
    PROVE  KnowsPassword'
<1> SUFFICES ASSUME NEW p \in Requests PROVE HasPassword(req'[p], password')
  BY DEF KnowsPassword, HasPassword
<1>1. req[p] \in Request /\ password \in [Users -> 0..MaxPasswords]
  BY DEF Typed, TypeOK
<1>2. \A q : q.op \notin {"count", "patch"} => HasPassword(q, password')
  BY DEF HasPassword
<1>3. CASE req'[p] = req[p]
  <2>1. CASE req[p].op \in {"count", "patch"}
    <3>1. req[p].user \in Users
      BY <1>1, <2>1, RequestKinds DEF Patch, Users
    <3>2. password[req[p].user] \in Nat
      BY <1>1, <3>1
    <3>3. password'[req[p].user] \in {password[req[p].user], password[req[p].user] + 1}
      BY <3>1, PasswordsGrow
    <3>4. QED
      BY <1>3, <3>2, <3>3 DEF KnowsPassword, HasPassword
  <2>2. QED
    BY <1>2, <1>3, <2>1
<1>4. CASE req'[p].op \in {"idle", "revoke", "keep", "RESET_PASSWORD"}
  BY <1>2, <1>4
<1>5. CASE CountStaff(p)
  <2> DEFINE later == [req[p] EXCEPT !.op = "patch"]
  <2>1. req[p] \in Patch
    BY <1>1, <1>5, RequestKinds DEF CountStaff
  <2>2. req'[p] \in {later, Idle}
    BY <1>5, Taken DEF CountStaff
  <2>3. later.op = "patch" /\ later.saw = req[p].saw /\ later.user = req[p].user
    BY <2>1 DEF Patch
  <2> HIDE DEF later
  <2>4. UNCHANGED password
    BY <1>5 DEF CountStaff, staffVars
  <2>5. req[p].saw = "ACTIVE" => password[req[p].user] > 0
    BY <1>5 DEF CountStaff, KnowsPassword
  <2>6. HasPassword(later, password')
    BY <2>3, <2>4, <2>5 DEF HasPassword
  <2>7. HasPassword(Idle, password')
    BY DEF HasPassword, Idle
  <2>8. QED
    BY <2>2, <2>6, <2>7
<1>6. ASSUME NEW u \in Staff, NEW edit \in Edits, NEW to \in Branches, BeginPatch(p, u, edit, to)
      PROVE  HasPassword(req'[p], password')
  <2>1. req'[p].saw = status[u] /\ req'[p].user = u
    BY <1>6, Taken DEF BeginPatch
  <2>2. status[u] = "ACTIVE" => password[u] > 0
    BY DEF Typed, TypeOK, Users
  <2>3. UNCHANGED password
    BY <1>6 DEF BeginPatch, staffVars
  <2>4. QED
    BY <2>1, <2>2, <2>3 DEF HasPassword
<1>7. ASSUME NEW u \in Staff, OpenLink(p, u, "INVITE") PROVE HasPassword(req'[p], password')
  BY <1>2, <1>7, Taken DEF OpenLink
<1>8. ASSUME NEW u \in Users, BeginLogin(p, u) PROVE HasPassword(req'[p], password')
  <2>1. req'[p].op \in Asks
    BY <1>8, LoginTakes DEF SignIn
  <2>2. QED
    BY <1>2, <2>1 DEF Asks
<1>9. ASSUME NEW s \in Sessions, NEW token \in 1..MaxTokens, BeginRefresh(p, s, token)
      PROVE  HasPassword(req'[p], password')
  <2>1. req'[p].op \in Asks
    BY <1>9, RefreshTakes DEF Refresh
  <2>2. QED
    BY <1>2, <2>1 DEF Asks
<1>10. CASE ReadPlan(p) \/ WritePlan(p) \/ LookAgain(p)
  <2>1. req'[p].op \in {"reconcile", "look again", "start", "idle"}
    BY <1>10, OpsOfSigning
  <2>2. QED
    BY <1>2, <2>1
<1>11. QED
  BY <1>3, <1>4, <1>5, <1>6, <1>7, <1>8, <1>9, <1>10, RequestStep

LEMMA KnowsInvitedKept ==
    ASSUME Typed, KnowsInvited, [Next]_vars
    PROVE  KnowsInvited'
<1> SUFFICES ASSUME NEW p \in Requests, req'[p].op = "INVITE", req'[p] # req[p]
             PROVE  req'[p].saw # "DISABLED"
  BY DEF KnowsInvited
<1>1. ASSUME NEW u \in Staff, OpenLink(p, u, "INVITE") PROVE req'[p].saw # "DISABLED"
  BY <1>1, Taken DEF OpenLink
<1>2. CASE CountStaff(p)
  <2>1. req[p] \in Patch
    BY <1>2, RequestKinds DEF CountStaff, Typed
  <2>2. req'[p] \in {[req[p] EXCEPT !.op = "patch"], Idle}
    BY <1>2, Taken DEF CountStaff
  <2>3. [req[p] EXCEPT !.op = "patch"].op = "patch"
    BY <2>1 DEF Patch
  <2>4. QED
    BY <2>2, <2>3, IdleOp
<1>3. ASSUME NEW u \in Staff, NEW edit \in Edits, NEW to \in Branches, BeginPatch(p, u, edit, to) PROVE FALSE
  <2>1. req'[p].op \in {"count", "patch"}
    BY <1>3, Taken DEF BeginPatch
  <2>2. QED
    BY <2>1
<1>4. ASSUME NEW u \in Users, BeginLogin(p, u) PROVE FALSE
  <2>1. req'[p].op \in Asks
    BY <1>4, LoginTakes DEF SignIn
  <2>2. QED
    BY <2>1 DEF Asks
<1>5. ASSUME NEW s \in Sessions, NEW token \in 1..MaxTokens, BeginRefresh(p, s, token) PROVE FALSE
  <2>1. req'[p].op \in Asks
    BY <1>5, RefreshTakes DEF Refresh
  <2>2. QED
    BY <2>1 DEF Asks
<1>6. ~(ReadPlan(p) \/ WritePlan(p) \/ LookAgain(p))
  <2> SUFFICES ASSUME ReadPlan(p) \/ WritePlan(p) \/ LookAgain(p) PROVE FALSE
    OBVIOUS
  <2>1. req'[p].op \in {"reconcile", "look again", "start", "idle"}
    BY OpsOfSigning
  <2>2. QED
    BY <2>1
<1>7. QED
  BY <1>1, <1>2, <1>3, <1>4, <1>5, <1>6, RequestStep

LEMMA KnownHolds == Spec => []Known
<1>1. Init => Known
  <2> SUFFICES ASSUME Init PROVE Known
    OBVIOUS
  <2>1. \A r \in Requests : req[r] = Idle
    BY DEF Init
  <2>2. Idle \notin Refresh /\ Idle \notin Fitting
    BY IdleOp DEF Refresh, Fitting, Asks
  <2>3. QED
    BY <2>1, <2>2, TypedInit, IdleOp DEF Known, KnowsSession, Found, FoundSession, KnowsPassword, KnowsInvited
<1>2. Known /\ [Next]_vars => Known'
  BY TypedKept, KnowsSessionKept, KnowsPasswordKept, KnowsInvitedKept DEF Known
<1>3. QED
  BY <1>1, <1>2, PTL DEF Spec

----------------------------------------------------------------------------
\* A session that was ended (sign-out, a replayed token, a new password, the
\* owner's choice of who stays) is never served again: refreshes that found it
\* before update its row by its id, and leave its end alone.
THEOREM EndedHolds == Spec => EndedStaysEnded
<1>1. Known /\ [Next]_vars =>
        \A s \in Sessions :
          session[s] # NoSession /\ session[s].revoked => session'[s] # NoSession /\ session'[s].revoked
  BY SessionsGoOn DEF Known
<1>2. QED
  BY <1>1, KnownHolds, PTL DEF Spec, EndedStaysEnded

----------------------------------------------------------------------------
\* Requests on the way to ending the sessions of a user.
Ends(q, u) == q # Idle /\ q.op = "revoke" /\ q.user = u

LEMMA EndsGoOn ==
    ASSUME Typed, [Next]_vars, NEW p \in Requests, NEW u, Ends(req[p], u)
    PROVE  \/ req'[p] = req[p]
           \/ session' = Revoked({u})
           \/ u \in left'
<1>1. req[p].op = "revoke" /\ req[p].user = u
  BY DEF Ends
<1>2. DOMAIN req = Requests
  BY DEF Typed
<1>3. AtOnce \/ UNCHANGED vars => UNCHANGED req
  BY DEF AtOnce, Replayed, Logout, ForgotPassword, Invite, ResendInvite, PlanChanges, CreateBranch, vars
<1>4. ASSUME NEW r \in Requests, Works(r) \/ Dies(r) \/ Hires(r)
      PROVE  \/ req'[p] = req[p]
             \/ r = p /\ (RevokeAllSessions(r) \/ Dies(r))
  <2>1. CASE r # p
    <3>1. \E q : req' = [req EXCEPT ![r] = q]
      BY <1>4, OneRequest
    <3>2. QED
      BY <1>2, <2>1, <3>1
  <2>2. CASE r = p
    <3>1. ~(Signs(r) \/ Refreshes(r))
      BY <1>1, <2>2, IdleOp DEF Signs, BeginLogin, ReadPlan, WritePlan, LookAgain, StartSession, Refreshes, BeginRefresh,
                CommitRefresh, Take
    <3>2. ~(Resets(r) \/ Hires(r))
      BY <1>1, <2>2, IdleOp DEF Resets, Hires, OpenLink, ResetPassword, AcceptInvite, Take
    <3>3. ~(Edit(r) \/ Keeps(r))
      BY <1>1, <2>2, IdleOp DEF Edit, BeginPatch, CountStaff, CommitPatch, Keeps, BeginKeepActive, CommitKeepActive,
                Take
    <3>4. QED
      BY <1>4, <2>2, <3>1, <3>2, <3>3 DEF Works
  <2>3. QED
    BY <2>1, <2>2
<1>5. RevokeAllSessions(p) => session' = Revoked({u})
  BY <1>1 DEF RevokeAllSessions
<1>6. Dies(p) => u \in left'
  BY <1>1 DEF Dies
<1>7. QED
  BY <1>3, <1>4, <1>5, <1>6 DEF Next

LEMMA LeftGrows == ASSUME [Next]_vars PROVE left \subseteq left'
<1>1. ASSUME NEW r \in Requests, Dies(r) \/ Hires(r) PROVE left \subseteq left'
  BY <1>1 DEF Dies, Hires, AcceptInvite
<1>2. QED
  BY <1>1 DEF Next, vars

LEMMA OnlyStartStarts ==
    ASSUME Typed, KnowsSession, [Next]_vars, NEW s \in Sessions,
           session[s] = NoSession, session'[s] # NoSession
    PROVE  \E r \in Requests : StartSession(r)
<1>1. DOMAIN session = Sessions
  BY DEF Typed, TypeOK
<1>2. [NoSession EXCEPT !.revoked = TRUE] = NoSession
  BY DEF NoSession
<1>3. ASSUME NEW r \in Requests, CommitRefresh(r) PROVE FALSE
  <2>1. req[r] \in Refresh
    BY <1>3, RequestKinds, AccessConstants DEF CommitRefresh, Typed, Asks, SignIn
  <2>2. session[req[r].session] # NoSession
    BY <2>1 DEF KnowsSession, Found, FoundSession
  <2>3. QED
    BY <1>1, <1>3, <2>2 DEF CommitRefresh
<1>4. ASSUME NEW t \in Sessions, session[t] # NoSession, session' = [session EXCEPT ![t].revoked = TRUE]
      PROVE  FALSE
  BY <1>1, <1>4
<1>5. ASSUME NEW who, session' = Revoked(who) PROVE FALSE
  BY <1>2, <1>5 DEF Revoked
<1>6. QED
  BY <1>3, <1>4, <1>5, SessionStep

LEMMA OldPasswordKept ==
    ASSUME Known, OldPasswordIsOut, [Next]_vars
    PROVE  OldPasswordIsOut'
<1> SUFFICES ASSUME NEW s \in Sessions,
                    session'[s] # NoSession, ~session'[s].revoked,
                    session'[s].password < password'[session'[s].user],
                    \A r \in Requests : ~Ends(req'[r], session'[s].user)
             PROVE  session'[s].stale \/ session'[s].user \in left'
  BY DEF OldPasswordIsOut, Ends
<1>1. Typed /\ KnowsSession /\ Typed'
  BY TypedKept DEF Known
<1>2. left \subseteq left'
  BY LeftGrows
<1>3. CASE session[s] = NoSession
  <2>1. PICK r \in Requests : StartSession(r)
    BY <1>1, <1>3, OnlyStartStarts
  <2>2. req[r] \in SignIn
    BY <1>1, <2>1, RequestKinds, AccessConstants DEF StartSession, Typed, Asks, Refresh
  <2>3. session'[s] = NewSession(req[r].user, req[r].saw, req[r].saw # password[req[r].user])
    BY <1>1, <1>3, <2>1 DEF StartSession, Typed, TypeOK
  <2>4. UNCHANGED password
    BY <2>1 DEF StartSession, staffVars
  <2>5. session'[s].user = req[r].user /\ session'[s].password = req[r].saw
    BY <2>3 DEF NewSession
  <2>6. req[r].user \in Users /\ req[r].saw \in Nat /\ password[req[r].user] \in Nat
    BY <1>1, <2>2 DEF SignIn, Typed, TypeOK
  <2>7. req[r].saw # password[req[r].user]
    BY <2>4, <2>5, <2>6
  <2>8. session'[s].stale
    <3>1. (req[r].saw # password[req[r].user]) = TRUE
      BY <2>4, <2>7
    <3>2. session'[s] = NewSession(req[r].user, req[r].saw, TRUE)
      BY <2>3, <3>1, Zenon
    <3>3. QED
      BY <3>2 DEF NewSession
  <2>9. QED
    BY <2>8
<1>4. CASE session[s] # NoSession
  <2> DEFINE u == session[s].user
  <2>1. /\ session'[s].user = u /\ session'[s].password = session[s].password
        /\ session'[s].stale = session[s].stale /\ ~session[s].revoked
    BY <1>1, <1>4, SessionsGoOn
  <2>2. session[s] \in Session /\ u \in Users
    BY <1>1, <1>4 DEF Typed, TypeOK, Session
  <2> HIDE DEF u
  <2>3. CASE \E p \in Requests : Ends(req[p], u)
    <3>1. PICK p \in Requests : Ends(req[p], u)
      BY <2>3
    <3>2. req'[p] # req[p]
      BY <2>1, <3>1
    <3>3. session' # Revoked({u})
      <4>1. ASSUME session' = Revoked({u}) PROVE session'[s].revoked
        BY <2>2, <4>1 DEF Revoked, u, Session
      <4>2. QED
        BY <4>1
    <3>4. QED
      BY <1>1, <2>1, <3>1, <3>2, <3>3, EndsGoOn
  <2>4. CASE \A p \in Requests : ~Ends(req[p], u)
    <3>1. CASE password'[u] = password[u]
      BY <1>2, <1>4, <2>1, <2>4, <3>1 DEF OldPasswordIsOut, Ends, u
    <3>2. ASSUME NEW r \in Requests, req[r].user = u, ResetPassword(r) PROVE FALSE
      <4>1. req[r] \in Opened
        BY <1>1, <3>2, RequestKinds DEF ResetPassword, Typed, Purposes
      <4>2. req'[r] = [req[r] EXCEPT !.op = "revoke"]
        BY <1>1, <3>2, Taken DEF ResetPassword, AfterReset
      <4>3. Ends(req'[r], u)
        BY <3>2, <4>1, <4>2, IdleOp DEF Opened, Ends
      <4>4. QED
        BY <2>1, <4>3
    <3>3. ASSUME NEW r \in Requests, req[r].user = u, AcceptInvite(r),
                 password'[u] = password[u] + 1
          PROVE  u \in left'
      <4>1. password[u] \in Nat
        BY <1>1, <2>2 DEF Typed, TypeOK
      <4>2. session[s].password \in Nat /\ session[s].password > 0
        BY <2>2 DEF Session
      <4>3. password[u] > 0
        BY <2>1, <3>3, <4>1, <4>2
      <4>4. QED
        BY <3>3, <4>3 DEF AcceptInvite
    <3>4. QED
      BY <1>1, <2>1, <2>2, <3>1, <3>2, <3>3, PasswordsGrow
  <2>5. QED
    BY <2>3, <2>4
<1>5. QED
  BY <1>3, <1>4

\* OldPasswordIsOut, for any sign-ins and resets that overlap (routes/auth.ts).
THEOREM OldPasswordHolds == Spec => []OldPasswordIsOut
<1>1. Init => OldPasswordIsOut
  <2> SUFFICES ASSUME Init, NEW s \in Sessions, session[s] # NoSession,
                      session[s].password < password[session[s].user]
               PROVE  FALSE
    BY DEF OldPasswordIsOut
  <2>1. session[s] = NewSession(Owner, 1, FALSE)
    BY DEF Init
  <2>2. session[s].user = Owner /\ session[s].password = 1
    BY <2>1 DEF NewSession
  <2>3. password[Owner] = 1
    BY DEF Init, Users
  <2>4. QED
    BY <2>2, <2>3
<1>2. Known /\ OldPasswordIsOut /\ [Next]_vars => OldPasswordIsOut'
  BY OldPasswordKept
<1>3. QED
  BY <1>1, <1>2, KnownHolds, PTL DEF Spec

----------------------------------------------------------------------------
LEMMA StatusStep ==
    ASSUME [Next]_vars
    PROVE  \/ UNCHANGED status
           \/ \E u \in Staff : Invite(u)
           \/ \E r \in Requests : AcceptInvite(r) \/ CommitPatch(r)
<1>1. CASE AtOnce \/ UNCHANGED vars
  BY <1>1 DEF AtOnce, Replayed, Logout, ForgotPassword, ResendInvite, PlanChanges, CreateBranch, vars,
         staffVars
<1>2. ASSUME NEW r \in Requests, Works(r) \/ Dies(r) \/ Hires(r)
      PROVE  UNCHANGED status \/ AcceptInvite(r) \/ CommitPatch(r)
  <2>1. CASE Signs(r) \/ Refreshes(r)
    BY <2>1 DEF Signs, BeginLogin, ReadPlan, WritePlan, LookAgain, StartSession, Refreshes, BeginRefresh,
                CommitRefresh, staffVars
  <2>2. CASE Resets(r) \/ Hires(r)
    BY <2>2 DEF Resets, Hires, OpenLink, ResetPassword, staffVars
  <2>3. CASE Edit(r) \/ Dies(r)
    BY <2>3 DEF Edit, BeginPatch, CountStaff, Dies, staffVars
  <2>4. CASE Keeps(r) \/ RevokeAllSessions(r)
    BY <2>4 DEF Keeps, BeginKeepActive, CommitKeepActive, RevokeAllSessions, staffVars
  <2>5. QED
    BY <1>2, <2>1, <2>2, <2>3, <2>4 DEF Works
<1>3. QED
  BY <1>1, <1>2 DEF Next

LEMMA BackOnly == ASSUME Known, [Next]_vars PROVE BackOnlyIfTurnedOn
<1> SUFFICES ASSUME NEW u \in Staff, status[u] = "DISABLED", status'[u] # "DISABLED"
             PROVE  \E r \in Requests : /\ req[r] # Idle /\ req'[r] # req[r]
                                       /\ req[r].user = u
                                       /\ (req[r].saw # "DISABLED" \/ req[r].edit = "enable")
  BY DEF BackOnlyIfTurnedOn
<1>1. Typed /\ KnowsInvited /\ status \in [Users -> Statuses] /\ u \in Users
  BY DEF Known, Typed, TypeOK, Users
<1>2. ASSUME NEW v \in Staff, Invite(v) PROVE FALSE
  BY <1>1, <1>2 DEF Invite
<1>3. ASSUME NEW r \in Requests, AcceptInvite(r)
      PROVE  /\ req[r] # Idle /\ req'[r] # req[r]
             /\ req[r].user = u /\ req[r].saw # "DISABLED"
  <2>1. req'[r] = Idle /\ req[r] # Idle
    BY <1>1, <1>3, Taken, IdleOp DEF AcceptInvite
  <2>2. req[r].user = u
    BY <1>1, <1>3 DEF AcceptInvite
  <2>3. req[r].saw # "DISABLED"
    BY <1>1, <1>3 DEF AcceptInvite, KnowsInvited
  <2>4. QED
    BY <2>1, <2>2, <2>3
<1>4. ASSUME NEW r \in Requests, CommitPatch(r)
      PROVE  /\ req[r] # Idle /\ req'[r] # req[r]
             /\ req[r].user = u /\ (req[r].saw # "DISABLED" \/ req[r].edit = "enable")
  <2>1. req[r] \in Patch
    BY <1>1, <1>4, RequestKinds DEF CommitPatch, Typed
  <2>2. req'[r] \in {Idle, [req[r] EXCEPT !.op = "revoke"]}
    BY <1>1, <1>4, Taken DEF CommitPatch
  <2>3. [req[r] EXCEPT !.op = "revoke"].op = "revoke"
    BY <2>1 DEF Patch
  <2>4. req[r] # Idle /\ req'[r] # req[r]
    BY <1>4, <2>2, <2>3, IdleOp DEF CommitPatch
  <2>5. req[r].user = u /\ StatusAfter(req[r]) # "DISABLED"
    BY <1>1, <1>4 DEF CommitPatch
  <2>6. req[r].saw # "DISABLED" \/ req[r].edit = "enable"
    BY <2>5 DEF StatusAfter
  <2>7. QED
    BY <2>4, <2>5, <2>6
<1>5. ~UNCHANGED status
  OBVIOUS
<1>6. QED
  BY <1>2, <1>3, <1>4, <1>5, StatusStep

----------------------------------------------------------------------------
(* Who stays within the plan *)

\* The n oldest of at least n rows are n.
LEMMA OldestCount ==
    ASSUME NEW S, IsFiniteSet(S), NEW age, \A x \in S : age[x] \in Nat,
           \A x, y \in S : age[x] = age[y] => x = y
    PROVE  \A n \in 0..Cardinality(S) : Cardinality(Oldest(S, n, age)) = n
<1> DEFINE P == {T \in SUBSET S : \A n \in 0..Cardinality(T) : Cardinality(Oldest(T, n, age)) = n}
           Older(T, x) == {y \in T : age[y] < age[x]}
<1>1. ASSUME NEW T \in SUBSET S, \A U \in SUBSET T : U # T => U \in P
      PROVE  T \in P
  <2>1. IsFiniteSet(T) /\ Cardinality(T) \in Nat
    BY FS_Subset, FS_CardinalityType
  <2>2. CASE T = {}
    <3>1. Cardinality(T) = 0 /\ \A n : Oldest(T, n, age) = {}
      BY <2>2, FS_EmptySet DEF Oldest
    <3>2. QED
      BY <2>2, <3>1
  <2>3. CASE T # {}
    <3>1. PICK m \in T : \A x \in T : age[x] <= age[m]
      BY <2>1, <2>3, Greatest
    <3> DEFINE R == T \ {m}
    <3>2. /\ IsFiniteSet(R) /\ Cardinality(R) = Cardinality(T) - 1 /\ R \in P
      <4>1. R \in SUBSET T /\ R # T
        OBVIOUS
      <4>2. QED
        BY <1>1, <2>1, <4>1, FS_RemoveElement
    <3>3. Older(T, m) = R
      BY <3>1
    <3>4. \A x \in R : Older(T, x) = Older(R, x)
      BY <3>1
    <3>5. \A x \in T : Cardinality(Older(T, x)) \in Nat /\ Cardinality(Older(T, x)) < Cardinality(T)
      <4> TAKE x \in T
      <4>1. Older(T, x) \subseteq T /\ x \notin Older(T, x)
        OBVIOUS
      <4> HIDE DEF Older
      <4>2. IsFiniteSet(Older(T, x)) /\ Cardinality(Older(T, x)) <= Cardinality(T) /\ (Cardinality(Older(T, x)) = Cardinality(T) => Older(T, x) = T)
        BY <2>1, <4>1, FS_Subset
      <4>3. QED
        BY <2>1, <4>1, <4>2, FS_CardinalityType
    <3>6. \A U, n : Oldest(U, n, age) = {x \in U : Cardinality(Older(U, x)) < n}
      BY DEF Oldest
    <3>7. \A n \in 0..Cardinality(R) : Oldest(T, n, age) = Oldest(R, n, age)
      <4> TAKE n \in 0..Cardinality(R)
      <4>1. Cardinality(Older(T, m)) = Cardinality(R) /\ Cardinality(R) \in Nat
        BY <3>2, <3>3, FS_CardinalityType
      <4>2. ~(Cardinality(Older(T, m)) < n) /\ R \subseteq T /\ \A x \in T : x # m => x \in R
        BY <4>1
      <4> HIDE DEF Older, R
      <4>3. Oldest(T, n, age) \subseteq R
        BY <3>6, <4>2
      <4>4. \A x \in R : x \in Oldest(T, n, age) <=> x \in Oldest(R, n, age)
        BY <3>4, <3>6, <4>2
      <4>5. Oldest(R, n, age) \subseteq R
        BY <3>6
      <4>6. QED
        BY <4>3, <4>4, <4>5
    <3>8. Oldest(T, Cardinality(T), age) = T
      <4> HIDE DEF Older
      <4>1. QED
        BY <3>5, <3>6
    <3> HIDE DEF R, Older
    <3>9. QED
      BY <2>1, <3>2, <3>7, <3>8
  <2>4. QED
    BY <2>2, <2>3
<1>2. SUBSET S \subseteq P
  <2> HIDE DEF P
  <2>1. QED
    BY <1>1, SubsetInduction
<1>3. QED
  BY <1>2

\* Who is among the n oldest is older than who is not.
LEMMA OldestAreOlder ==
    ASSUME NEW S, IsFiniteSet(S), NEW n \in Nat, NEW age, \A x \in S : age[x] \in Nat,
           NEW w \in Oldest(S, n, age), NEW u \in S, u \notin Oldest(S, n, age)
    PROVE  age[w] <= age[u]
<1> SUFFICES ASSUME age[u] < age[w] PROVE FALSE
  BY DEF Oldest
<1> DEFINE Older(x) == {y \in S : age[y] < age[x]}
<1>1. Older(u) \subseteq Older(w)
  BY DEF Oldest
<1>2. IsFiniteSet(Older(w)) /\ Cardinality(Older(w)) < n /\ ~(Cardinality(Older(u)) < n)
  BY FS_Subset DEF Oldest
<1>3. Cardinality(Older(w)) \in Nat /\ Cardinality(Older(u)) \in Nat
  BY FS_Subset, FS_CardinalityType
<1> HIDE DEF Older
<1>4. QED
  BY <1>1, <1>2, <1>3, FS_Subset

LEMMA MinOfTwo ==
    ASSUME NEW a \in Int, NEW b \in Int
    PROVE  Min({a, b}) = IF a <= b THEN a ELSE b
<1> DEFINE m == IF a <= b THEN a ELSE b
<1>1. \A x \in {a, b} : (\A y \in {a, b} : x =< y) <=> x = m
  OBVIOUS
<1>2. m \in {a, b}
  OBVIOUS
<1> HIDE DEF m
<1>3. Min({a, b}) = m
  BY <1>1, <1>2 DEF Min
<1>4. QED
  BY <1>3 DEF m

\* As many rows are chosen as there is room for, and of those kept already the
\* oldest stay.
LEMMA ChooseFits ==
    ASSUME NEW rows, IsFiniteSet(rows), NEW kept \in SUBSET rows, NEW limit \in Nat,
           NEW age, \A x \in rows : age[x] \in Nat,
           \A x, y \in rows : age[x] = age[y] => x = y
    PROVE  LET chosen == Choose(rows, kept, limit, age)
           IN  /\ chosen \subseteq rows
               /\ Cardinality(chosen) = Min({Cardinality(rows), limit})
               /\ \A u \in rows \ chosen, w \in chosen : u \in kept /\ w \in kept => age[w] < age[u]
<1> DEFINE chosen == Choose(rows, kept, limit, age)
           others == rows \ kept
           room == limit - Cardinality(kept)
           new == Oldest(others, room, age)
<1>1. IsFiniteSet(kept) /\ IsFiniteSet(others) /\ Cardinality(rows) \in Nat /\ Cardinality(kept) \in Nat
  BY FS_Subset, FS_CardinalityType
<1>2. Cardinality(rows) = Cardinality(kept) + Cardinality(others) /\ Cardinality(others) \in Nat
  <2>1. rows = kept \cup others /\ kept \cap others = {}
    OBVIOUS
  <2> HIDE DEF others
  <2>2. Cardinality(rows) = Cardinality(kept) + Cardinality(others) - Cardinality({})
    BY <1>1, <2>1, FS_Union
  <2>3. QED
    BY <1>1, <2>2, FS_EmptySet, FS_CardinalityType
<1>3. CASE Cardinality(rows) <= limit
  <2>1. chosen = rows
    BY <1>3 DEF Choose
  <2>2. QED
    BY <1>1, <1>3, <2>1, MinOfTwo
<1>4. CASE ~(Cardinality(rows) <= limit) /\ Cardinality(kept) > limit
  <2>1. chosen = Oldest(kept, limit, age)
    BY <1>4 DEF Choose
  <2>2. chosen \subseteq kept
    BY <2>1 DEF Oldest
  <2>3. Cardinality(chosen) = limit
    <3>1. limit \in 0..Cardinality(kept)
      BY <1>1, <1>4
    <3> HIDE DEF chosen
    <3>2. QED
      BY <1>1, <2>1, <3>1, OldestCount
  <2>4. \A u \in kept \ chosen, w \in chosen : age[w] < age[u]
    <3> TAKE u \in kept \ chosen, w \in chosen
    <3>1. u \in rows /\ w \in rows /\ u # w
      BY <2>2
    <3> HIDE DEF chosen
    <3>2. age[w] <= age[u]
      BY <1>1, <2>1, OldestAreOlder
    <3>3. QED
      BY <3>1, <3>2
  <2>5. Min({Cardinality(rows), limit}) = limit
    BY <1>1, <1>4, MinOfTwo
  <2> HIDE DEF chosen
  <2>6. QED
    BY <2>2, <2>3, <2>4, <2>5 DEF chosen
<1>5. CASE ~(Cardinality(rows) <= limit) /\ ~(Cardinality(kept) > limit)
  <2>1. chosen = kept \cup new
    BY <1>5 DEF Choose
  <2>2. new \subseteq others /\ IsFiniteSet(new)
    BY <1>1, FS_Subset DEF Oldest
  <2>3. Cardinality(new) = room
    <3>1. room \in 0..Cardinality(others)
      BY <1>1, <1>2, <1>5
    <3>2. \A x \in others : age[x] \in Nat /\ \A y \in others : age[x] = age[y] => x = y
      OBVIOUS
    <3> HIDE DEF room, others
    <3>3. QED
      BY <1>1, <3>1, <3>2, OldestCount
  <2>4. Cardinality(chosen) = limit
    <3>1. kept \cap new = {}
      BY <2>2
    <3>2. Cardinality(chosen) = Cardinality(kept) + Cardinality(new) - Cardinality({})
      <4> HIDE DEF chosen, new, others
      <4>1. QED
        BY <1>1, <2>1, <2>2, <3>1, FS_Union
    <3> HIDE DEF chosen, new
    <3>3. QED
      BY <1>1, <2>3, <3>2, FS_EmptySet
  <2>5. Min({Cardinality(rows), limit}) = limit
    BY <1>1, <1>5, MinOfTwo
  <2> HIDE DEF chosen, new
  <2>6. QED
    BY <2>1, <2>2, <2>4, <2>5 DEF chosen
<1>6. QED
  BY <1>3, <1>4, <1>5

\* Who fits the account into its plan only leaves that by writing it, or ends.
LEMMA OnlyWritten ==
    ASSUME Typed, [Next]_vars, NEW p \in Requests, req[p].op = "reconcile", req'[p] # req[p], req'[p] # Idle
    PROVE  WritePlan(p)
<1>1. req[p] # Idle
  BY IdleOp
<1>2. ~AtOnce /\ ~UNCHANGED vars
  BY DEF AtOnce, Replayed, Logout, ForgotPassword, Invite, ResendInvite, PlanChanges, CreateBranch, vars
<1>3. PICK r \in Requests : Works(r) \/ Dies(r) \/ Hires(r)
  BY <1>2 DEF Next
<1>4. r = p
  BY <1>3, OneRequest DEF Typed
<1>5. ~Close(p) /\ \A q : ~Take(p, q)
  BY <1>1, Taken DEF Take
<1>6. ~Refreshes(p) /\ ~Resets(p) /\ ~Hires(p) /\ ~Edit(p) /\ ~Keeps(p) /\ ~RevokeAllSessions(p) /\ ~Dies(p)
  BY <1>5 DEF Refreshes, BeginRefresh, CommitRefresh, Resets, OpenLink, ResetPassword, Hires, AcceptInvite,
              Edit, BeginPatch, CountStaff, CommitPatch, Keeps, BeginKeepActive, CommitKeepActive,
              RevokeAllSessions, Dies
<1>7. QED
  BY <1>3, <1>4, <1>5, <1>6 DEF Works, Signs, BeginLogin, ReadPlan, LookAgain, StartSession

\* Right after reconcileWithinPlan, if nobody changed the rows while it worked,
\* as many branches and staff are within the plan as it has room for, and of the
\* staff that were within it only younger ones had to go.
THEOREM PlacesFitHolds == Spec => PlacesFit
<1> DEFINE Fits(r) ==
              LET on == {u \in Employed : within'[u]}
              IN  /\ Cardinality(on) = Min({Cardinality(Employed), MaxStaff[plan]})
                  /\ \A u \in Employed \ on, w \in on :
                        within[u] /\ within[w] => Seniority[w] < Seniority[u]
                  /\ Cardinality({b \in Open : branch'[b] = "on"})
                       = Min({Cardinality(Open), MaxBranches[plan]})
<1>1. ASSUME Known, [Next]_vars, NEW r \in Requests,
             req[r].op = "reconcile", req'[r] # req[r], req'[r] # Idle, req[r].rows = ReadRows
      PROVE  Fits(r)
  <2> DEFINE staff == Choose(Employed, {u \in Employed : within[u]}, MaxStaff[plan], Seniority)
             kept == Choose(Open, {b \in Open : branch[b] = "on"}, MaxBranches[plan], BranchAge)
  <2>1. Typed /\ WritePlan(r)
    BY <1>1, OnlyWritten DEF Known
  <2>2. plan \in Plans /\ MaxStaff[plan] \in Nat /\ MaxBranches[plan] \in Nat
    <3>1. req[r].rows \in Rows
      BY <1>1, <2>1, RequestKinds DEF Typed, Fitting
    <3>2. plan \in Plans
      BY <1>1, <3>1 DEF ReadRows, Rows
    <3>3. QED
      BY <3>2, AccessConstants
  <2>3. IsFiniteSet(Employed) /\ IsFiniteSet(Open) /\ Employed \subseteq Staff /\ Open \subseteq Branches
    BY AccessConstants, FS_Subset DEF Employed, Open
  <2>4. /\ \A u \in Employed : Seniority[u] \in Nat /\ \A v \in Employed : Seniority[u] = Seniority[v] => u = v
        /\ \A b \in Open : BranchAge[b] \in Nat /\ \A c \in Open : BranchAge[b] = BranchAge[c] => b = c
    BY <2>3, AccessConstants DEF BranchAge
  <2>5. /\ within' = [u \in Staff |-> IF u \in staff \ {v \in Employed : within[v]} THEN TRUE
                                      ELSE IF u \in {v \in Employed : within[v]} \ staff THEN FALSE ELSE within[u]]
        /\ branch' = [x \in Branches |-> IF x \in kept \ {b \in Open : branch[b] = "on"} THEN "on"
                                         ELSE IF x \in {b \in Open : branch[b] = "on"} \ kept THEN "off"
                                         ELSE branch[x]]
    <3>1. /\ ReadRows.plan = plan /\ ReadRows.staff = Employed /\ ReadRows.branches = Open
          /\ ReadRows.staffOn = {v \in Employed : within[v]}
          /\ ReadRows.branchesOn = {b \in Open : branch[b] = "on"}
      BY DEF ReadRows
    <3>2. Reconcile(ReadRows)
      BY <1>1, <2>1 DEF WritePlan
    <3>3. QED
      BY <3>1, <3>2 DEF Reconcile
  <2>6. /\ staff \subseteq Employed /\ Cardinality(staff) = Min({Cardinality(Employed), MaxStaff[plan]})
        /\ \A u \in Employed \ staff, w \in staff : within[u] /\ within[w] => Seniority[w] < Seniority[u]
    <3> DEFINE rows == Employed
               on == {u \in Employed : within[u]}
               limit == MaxStaff[plan]
               chosen == Choose(rows, on, limit, Seniority)
    <3>1. /\ IsFiniteSet(rows) /\ on \in SUBSET rows /\ limit \in Nat
          /\ \A u \in rows : Seniority[u] \in Nat
          /\ \A u, v \in rows : Seniority[u] = Seniority[v] => u = v
      BY <2>2, <2>3, <2>4
    <3> HIDE DEF rows, on, limit
    <3>2. /\ chosen \subseteq rows
          /\ Cardinality(chosen) = Min({Cardinality(rows), limit})
          /\ \A u \in rows \ chosen, w \in chosen : u \in on /\ w \in on => Seniority[w] < Seniority[u]
      BY <3>1, ChooseFits
    <3> HIDE DEF chosen
    <3>3. \A u \in Employed \ staff, w \in staff : within[u] /\ within[w] => Seniority[w] < Seniority[u]
      <4>1. rows = Employed /\ chosen = staff
        BY DEF rows, chosen, on, limit
      <4> HIDE DEF staff
      <4>2. \A u \in Employed : within[u] => u \in on
        BY DEF on
      <4>3. QED
        BY <3>2, <4>1, <4>2
    <3>4. QED
      BY <3>2, <3>3 DEF rows, on, limit, chosen
  <2>7. kept \subseteq Open /\ Cardinality(kept) = Min({Cardinality(Open), MaxBranches[plan]})
    BY <2>2, <2>3, <2>4, ChooseFits
  <2> HIDE DEF staff, kept
  <2>8. {u \in Employed : within'[u]} = staff
    <3> SUFFICES ASSUME NEW u \in Employed PROVE within'[u] <=> u \in staff
      BY <2>6
    <3>1. CASE u \in staff
      BY <2>3, <2>5, <3>1
    <3>2. CASE u \notin staff
      BY <2>3, <2>5, <3>2
    <3>3. QED
      BY <3>1, <3>2
  <2>9. {b \in Open : branch'[b] = "on"} = kept
    <3> SUFFICES ASSUME NEW b \in Open PROVE branch'[b] = "on" <=> b \in kept
      BY <2>7
    <3>1. QED
      BY <2>3, <2>5
  <2>10. QED
    BY <2>6, <2>7, <2>8, <2>9
<1>2. Known /\ [Next]_vars =>
        \A r \in Requests :
          req[r].op = "reconcile" /\ req'[r] # req[r] /\ req'[r] # Idle /\ req[r].rows = ReadRows => Fits(r)
  BY <1>1
<1>3. QED
  BY <1>2, KnownHolds, PTL DEF Spec, PlacesFit

----------------------------------------------------------------------------
(* AdminAccess *)

AdminStatuses == {"INVITED", "ACTIVE", "DISABLED"}
Handed == [purpose : {"mfa", "setup"}, password : 0..MaxAdminPasswords]
AdminRow == [token : {1, 2}, previous : {0, 1}, revoked : BOOLEAN,
             password : 0..MaxAdminPasswords, stale : BOOLEAN]
NoRow == [revoked : {TRUE}]
Coding == [op : {"setup", "code", "start"}, code : 1..MaxSteps, password : 0..MaxAdminPasswords]
Rotating == [op : {"refresh"}, session : AdminSessions]
Managing == [op : {"accept", "reset", "disable", "enable", "link"}, saw : AdminStatuses]
AdminRequest == {AdminIdle} \cup Coding \cup Rotating \cup Managing

AdminTyped ==
    /\ adminStatus \in AdminStatuses
    /\ adminPassword \in 0..MaxAdminPasswords
    /\ totpSecretEnc \in BOOLEAN /\ totpLastStep \in 0..MaxSteps
    /\ adminLink \in BOOLEAN
    /\ handed \subseteq Handed
    /\ adminSession \in [AdminSessions -> AdminRow \cup NoRow]
    /\ adminReq \in [AdminRequests -> AdminRequest]

\* Who may be reset, and whose link may be used, was seen not to be disabled,
\* and a refresh has found a session.
AdminHand(q, rows) ==
    /\ q.op \in {"accept", "reset"} => q.saw # "DISABLED"
    /\ q.op = "refresh" => rows[q.session] \in AdminRow

\* Whether served now or not: the step that ends sessions comes before another
\* one lets the member work again.
OldAdminPasswordEnded ==
    \A s \in AdminSessions :
        ~adminSession[s].revoked /\ adminSession[s].password < adminPassword => adminSession[s].stale

AdminInv ==
    /\ AdminTyped
    /\ \A r \in AdminRequests : AdminHand(adminReq[r], adminSession)
    /\ OldAdminPasswordEnded

LEMMA AdminKinds ==
    ASSUME NEW q \in AdminRequest
    PROVE  /\ q.op \in {"setup", "code", "start"} => q \in Coding
           /\ q.op = "refresh" => q \in Rotating
           /\ q.op \in {"accept", "reset", "disable", "enable", "link"} => q \in Managing
<1>1. AdminIdle.op = "idle"
  BY DEF AdminIdle
<1>2. q \in Coding => q.op \in {"setup", "code", "start"}
  BY DEF Coding
<1>3. q \in Rotating => q.op = "refresh"
  BY DEF Rotating
<1>4. q \in Managing => q.op \in {"accept", "reset", "disable", "enable", "link"}
  BY DEF Managing
<1>5. QED
  BY <1>1, <1>2, <1>3, <1>4 DEF AdminRequest

\* Nothing but one request changes, and what it has in hand then is true.
LEMMA AdminAlone ==
    ASSUME AdminInv, UNCHANGED <<adminVars, handed, adminSession>>,
           NEW r \in AdminRequests, NEW q \in AdminRequest, AdminHand(q, adminSession),
           adminReq' = [adminReq EXCEPT ![r] = q]
    PROVE  AdminInv'
<1>1. AdminTyped'
  BY DEF AdminInv, AdminTyped, adminVars
<1>2. ASSUME NEW p \in AdminRequests PROVE AdminHand(adminReq'[p], adminSession')
  <2>1. adminReq'[p] \in {q, adminReq[p]}
    BY DEF AdminInv, AdminTyped
  <2>2. QED
    BY <2>1 DEF AdminInv
<1>3. OldAdminPasswordEnded'
  BY DEF AdminInv, OldAdminPasswordEnded, adminVars
<1>4. QED
  BY <1>1, <1>2, <1>3 DEF AdminInv

\* A started session is changed only into one of its password.
LEMMA AdminRows ==
    ASSUME NEW row \in AdminRow \cup NoRow
    PROVE  /\ [row EXCEPT !.revoked = TRUE] \in AdminRow \cup NoRow
           /\ [row EXCEPT !.revoked = TRUE].revoked
           /\ row \in AdminRow => [row EXCEPT !.revoked = TRUE] \in AdminRow
<1>1. row \in NoRow => [row EXCEPT !.revoked = TRUE] \in NoRow /\ [row EXCEPT !.revoked = TRUE].revoked
  BY DEF NoRow
<1>2. row \in AdminRow => [row EXCEPT !.revoked = TRUE] \in AdminRow /\ [row EXCEPT !.revoked = TRUE].revoked
  BY DEF AdminRow
<1>3. QED
  BY <1>1, <1>2

\* The steps that end every session.
LEMMA AdminAllRevoked ==
    ASSUME AdminTyped, adminSession' = AllRevoked
    PROVE  /\ adminSession' \in [AdminSessions -> AdminRow \cup NoRow]
           /\ \A s \in AdminSessions : adminSession'[s].revoked
           /\ \A s \in AdminSessions : adminSession[s] \in AdminRow => adminSession'[s] \in AdminRow
  BY AdminRows DEF AdminTyped, AllRevoked

\* A step that starts a session or changes the row of one.
LEMMA AdminRowChanges ==
    ASSUME AdminInv, UNCHANGED <<adminVars, handed>>,
           NEW s \in AdminSessions, NEW row \in AdminRow,
           adminSession' = [adminSession EXCEPT ![s] = row],
           ~row.revoked /\ row.password < adminPassword => row.stale,
           UNCHANGED adminReq \/ \E r \in AdminRequests : AdminClose(r)
    PROVE  AdminInv'
<1>1. adminSession' \in [AdminSessions -> AdminRow \cup NoRow]
  BY DEF AdminInv, AdminTyped
<1>2. adminReq' \in [AdminRequests -> AdminRequest]
  BY DEF AdminInv, AdminTyped, AdminClose, AdminRequest
<1>3. AdminTyped'
  BY <1>1, <1>2 DEF AdminInv, AdminTyped, adminVars
<1>4. ASSUME NEW p \in AdminRequests PROVE AdminHand(adminReq'[p], adminSession')
  <2>1. adminReq'[p] \in {AdminIdle, adminReq[p]}
    BY DEF AdminInv, AdminTyped, AdminClose
  <2>2. AdminHand(AdminIdle, adminSession')
    BY DEF AdminHand, AdminIdle
  <2>3. AdminHand(adminReq[p], adminSession')
    <3>1. adminReq[p].op = "refresh" =>
             adminReq[p].session \in AdminSessions /\ adminSession[adminReq[p].session] \in AdminRow
      BY AdminKinds DEF AdminInv, AdminTyped, AdminHand, Rotating
    <3>2. \A t \in AdminSessions : adminSession[t] \in AdminRow => adminSession'[t] \in AdminRow
      BY DEF AdminInv, AdminTyped
    <3>3. QED
      BY <3>1, <3>2 DEF AdminInv, AdminHand
  <2>4. QED
    BY <2>1, <2>2, <2>3
<1>5. OldAdminPasswordEnded'
  BY DEF AdminInv, AdminTyped, OldAdminPasswordEnded, adminVars
<1>6. QED
  BY <1>3, <1>4, <1>5 DEF AdminInv

\* A step that ends every session.
LEMMA AdminEndsAll ==
    ASSUME AdminInv, adminSession' = AllRevoked, UNCHANGED handed,
           adminStatus' \in AdminStatuses, adminPassword' \in 0..MaxAdminPasswords,
           totpSecretEnc' \in BOOLEAN, totpLastStep' \in 0..MaxSteps, adminLink' \in BOOLEAN,
           NEW r \in AdminRequests, NEW q \in AdminRequest, q.op \in {"idle", "link"},
           adminReq' = [adminReq EXCEPT ![r] = q]
    PROVE  AdminInv'
<1>1. /\ adminSession' \in [AdminSessions -> AdminRow \cup NoRow]
      /\ \A s \in AdminSessions : adminSession'[s].revoked
      /\ \A s \in AdminSessions : adminSession[s] \in AdminRow => adminSession'[s] \in AdminRow
  BY AdminAllRevoked DEF AdminInv
<1>2. adminReq' \in [AdminRequests -> AdminRequest]
  BY DEF AdminInv, AdminTyped
<1>3. AdminTyped'
  BY <1>1, <1>2 DEF AdminInv, AdminTyped
<1>4. ASSUME NEW p \in AdminRequests PROVE AdminHand(adminReq'[p], adminSession')
  <2>1. adminReq'[p] \in {q, adminReq[p]}
    BY DEF AdminInv, AdminTyped
  <2>2. AdminHand(q, adminSession')
    BY DEF AdminHand
  <2>3. AdminHand(adminReq[p], adminSession')
    <3>1. adminReq[p].op = "refresh" =>
             adminReq[p].session \in AdminSessions /\ adminSession[adminReq[p].session] \in AdminRow
      BY AdminKinds DEF AdminInv, AdminTyped, AdminHand, Rotating
    <3>2. QED
      BY <1>1, <3>1 DEF AdminInv, AdminHand
  <2>4. QED
    BY <2>1, <2>2, <2>3
<1>5. OldAdminPasswordEnded'
  BY <1>1 DEF OldAdminPasswordEnded
<1>6. QED
  BY <1>3, <1>4, <1>5 DEF AdminInv

LEMMA AdminInvInit == AdminInit => AdminInv
<1> SUFFICES ASSUME AdminInit PROVE AdminInv
  OBVIOUS
<1>1. NoAdminSession \in NoRow
  BY DEF NoAdminSession, NoRow
<1>2. \A row \in NoRow : row.revoked
  BY DEF NoRow
<1>3. AdminIdle.op = "idle"
  BY DEF AdminIdle
<1>4. AdminTyped
  <2>1. adminStatus \in AdminStatuses /\ adminPassword \in 0..MaxAdminPasswords /\ totpLastStep \in 0..MaxSteps
    BY AdminConstants DEF AdminInit, AdminStatuses
  <2>2. totpSecretEnc \in BOOLEAN /\ adminLink \in BOOLEAN
    BY DEF AdminInit
  <2>3. adminSession \in [AdminSessions -> AdminRow \cup NoRow] /\ handed \subseteq Handed
    BY <1>1 DEF AdminInit
  <2>4. adminReq \in [AdminRequests -> AdminRequest]
    BY DEF AdminInit, AdminRequest
  <2>5. QED
    BY <2>1, <2>2, <2>3, <2>4 DEF AdminTyped
<1>5. QED
  BY <1>1, <1>2, <1>3, <1>4 DEF AdminInit, AdminInv, AdminHand, OldAdminPasswordEnded

LEMMA AdminInvStep ==
    ASSUME AdminInv, [AdminNext]_allAdminVars
    PROVE  AdminInv'
<1>1. AdminTyped /\ adminReq \in [AdminRequests -> AdminRequest]
  BY DEF AdminInv, AdminTyped
<1>2. CASE UNCHANGED allAdminVars
  BY <1>2 DEF AdminInv, AdminTyped, AdminHand, OldAdminPasswordEnded, allAdminVars, adminVars
<1>3. CASE AdminLogin
  <2>1. handed' \subseteq Handed
    BY <1>1, <1>3 DEF AdminLogin, AdminTyped, Handed
  <2>2. AdminTyped'
    BY <1>1, <1>3, <2>1 DEF AdminLogin, AdminTyped, adminVars
  <2>3. QED
    BY <1>3, <2>2 DEF AdminLogin, AdminInv, AdminHand, OldAdminPasswordEnded, adminVars
<1>4. ASSUME NEW s \in AdminSessions, AdminReplayed(s) \/ AdminLogout(s)
      PROVE  AdminInv'
  <2> DEFINE row == [adminSession[s] EXCEPT !.revoked = TRUE]
  <2>1. ~adminSession[s].revoked /\ adminSession[s] \in AdminRow \cup NoRow
    BY <1>1, <1>4 DEF AdminReplayed, AdminLogout, AdminTyped
  <2>2. adminSession[s] \in AdminRow
    BY <2>1 DEF NoRow
  <2>3. row \in AdminRow /\ row.revoked
    BY <2>2, AdminRows
  <2>4. /\ adminSession' = [adminSession EXCEPT ![s] = row]
        /\ UNCHANGED <<adminVars, handed, adminReq>>
    BY <1>4 DEF AdminReplayed, AdminLogout
  <2> HIDE DEF row
  <2>5. QED
    BY <2>3, <2>4, AdminRowChanges
<1>5. ASSUME NEW r \in AdminRequests, NEW t \in handed, BeginSetup(r, t) \/ BeginCode(r, t)
      PROVE  AdminInv'
  <2>1. t.password \in 0..MaxAdminPasswords
    BY <1>1 DEF AdminTyped, Handed
  <2>2. PICK op \in {"setup", "code"}, code \in 1..MaxSteps :
            AdminTake(r, [op |-> op, code |-> code, password |-> t.password])
    BY <1>5 DEF BeginSetup, BeginCode, Matching
  <2> DEFINE q == [op |-> op, code |-> code, password |-> t.password]
  <2>3. q \in AdminRequest /\ AdminHand(q, adminSession)
    BY <2>1 DEF AdminRequest, Coding, AdminHand
  <2>4. adminReq' = [adminReq EXCEPT ![r] = q]
    BY <2>2 DEF AdminTake
  <2>5. UNCHANGED <<adminVars, handed, adminSession>>
    BY <1>5 DEF BeginSetup, BeginCode
  <2> HIDE DEF q
  <2>6. QED
    BY <2>3, <2>4, <2>5, AdminAlone
<1>6. ASSUME NEW r \in AdminRequests, SaveSecret(r) \/ ClaimStep(r)
      PROVE  AdminInv'
  <2>1. adminReq[r] \in Coding
    BY <1>1, <1>6, AdminKinds DEF SaveSecret, ClaimStep
  <2>2. [adminReq[r] EXCEPT !.op = "start"] \in Coding /\ adminReq[r].code \in 0..MaxSteps
    BY <2>1, AdminConstants DEF Coding
  <2>3. PICK q \in Coding \cup {AdminIdle} : adminReq' = [adminReq EXCEPT ![r] = q]
    BY <1>6, <2>2 DEF SaveSecret, ClaimStep, AdminClose
  <2>4. totpSecretEnc' \in BOOLEAN /\ totpLastStep' \in 0..MaxSteps
    BY <1>1, <1>6, <2>2 DEF SaveSecret, ClaimStep, AdminTyped
  <2>5. AdminTyped'
    BY <1>1, <1>6, <2>3, <2>4 DEF SaveSecret, ClaimStep, AdminTyped, AdminRequest
  <2>6. \A rows : AdminHand(q, rows)
    BY <2>3 DEF Coding, AdminIdle, AdminHand
  <2>7. ASSUME NEW p \in AdminRequests PROVE AdminHand(adminReq'[p], adminSession')
    <3>1. adminReq'[p] \in {q, adminReq[p]}
      BY <1>1, <2>3
    <3>2. QED
      BY <1>6, <2>6, <3>1 DEF AdminInv, SaveSecret, ClaimStep
  <2>8. OldAdminPasswordEnded'
    BY <1>6 DEF SaveSecret, ClaimStep, AdminInv, OldAdminPasswordEnded
  <2>9. QED
    BY <2>5, <2>7, <2>8 DEF AdminInv
<1>7. ASSUME NEW r \in AdminRequests, StartAdminSession(r)
      PROVE  AdminInv'
  <2>1. adminReq[r] \in Coding
    BY <1>1, <1>7, AdminKinds DEF StartAdminSession
  <2> DEFINE row == StartedSession(adminReq[r].password, adminReq[r].password # adminPassword)
  <2>2. PICK s \in AdminSessions : adminSession' = [adminSession EXCEPT ![s] = row]
    BY <1>7 DEF StartAdminSession
  <2>3. row \in AdminRow
    BY <2>1 DEF StartedSession, AdminRow, Coding
  <2>4. row.password = adminReq[r].password
    BY DEF StartedSession
  <2>5. row.password < adminPassword => row.stale
    <3> SUFFICES ASSUME row.password < adminPassword PROVE row.stale
      OBVIOUS
    <3>1. (adminReq[r].password # adminPassword) = TRUE
      BY <1>1, <2>1, <2>4 DEF AdminTyped, Coding
    <3>2. row = StartedSession(adminReq[r].password, TRUE)
      BY <3>1, Zenon
    <3> HIDE DEF row
    <3>3. QED
      BY <3>2 DEF StartedSession
  <2>6. UNCHANGED <<adminVars, handed>> /\ AdminClose(r)
    BY <1>7 DEF StartAdminSession
  <2> HIDE DEF row
  <2>7. QED
    BY <2>2, <2>3, <2>5, <2>6, AdminRowChanges
<1>8. ASSUME NEW r \in AdminRequests, NEW s \in AdminSessions, BeginAdminRefresh(r, s)
      PROVE  AdminInv'
  <2> DEFINE q == [op |-> "refresh", session |-> s]
  <2>1. adminSession[s] \in AdminRow
    BY <1>1, <1>8 DEF BeginAdminRefresh, AdminTyped, NoRow
  <2>2. q \in AdminRequest /\ AdminHand(q, adminSession)
    BY <2>1 DEF AdminRequest, Rotating, AdminHand
  <2>3. adminReq' = [adminReq EXCEPT ![r] = q] /\ UNCHANGED <<adminVars, handed, adminSession>>
    BY <1>8 DEF BeginAdminRefresh, AdminTake
  <2> HIDE DEF q
  <2>4. QED
    BY <2>2, <2>3, AdminAlone
<1>9. ASSUME NEW r \in AdminRequests, CommitAdminRefresh(r)
      PROVE  AdminInv'
  <2> DEFINE s == adminReq[r].session
             later == [adminSession[s] EXCEPT !.token = 2]
             row == [later EXCEPT !.previous = 1]
  <2>1. adminReq[r] \in Rotating
    BY <1>1, <1>9, AdminKinds DEF CommitAdminRefresh
  <2>2. s \in AdminSessions /\ adminSession[s] \in AdminRow
    BY <1>9, <2>1 DEF CommitAdminRefresh, Rotating, AdminInv, AdminHand
  <2>3. /\ later \in AdminRow /\ later.revoked = adminSession[s].revoked
        /\ later.password = adminSession[s].password /\ later.stale = adminSession[s].stale
    <3> HIDE DEF s
    <3>1. QED
      BY <2>2 DEF AdminRow
  <2>4. /\ row \in AdminRow /\ row.revoked = later.revoked
        /\ row.password = later.password /\ row.stale = later.stale
    <3> HIDE DEF later
    <3>1. QED
      BY <2>3 DEF AdminRow
  <2>5. adminSession' = [adminSession EXCEPT ![s] = row]
    <3>1. adminSession' = [adminSession EXCEPT ![s].token = 2, ![s].previous = 1]
      BY <1>9 DEF CommitAdminRefresh
    <3>2. QED
      BY <1>1, <2>2, <3>1 DEF AdminTyped
  <2>6. ~row.revoked /\ row.password < adminPassword => row.stale
    BY <2>2, <2>3, <2>4 DEF AdminInv, OldAdminPasswordEnded
  <2>7. UNCHANGED <<adminVars, handed>> /\ AdminClose(r)
    BY <1>9 DEF CommitAdminRefresh
  <2> HIDE DEF s, later, row
  <2>8. QED
    BY <2>2, <2>4, <2>5, <2>6, <2>7, AdminRowChanges
<1>10. ASSUME NEW r \in AdminRequests, NEW what \in {"accept", "reset", "disable", "enable"},
              \/ BeginAccept(r) /\ what = "accept"
              \/ BeginManage(r, what) /\ what # "accept"
       PROVE  AdminInv'
  <2> DEFINE q == [op |-> what, saw |-> adminStatus]
  <2>1. q \in AdminRequest
    BY <1>1 DEF AdminRequest, Managing, AdminTyped
  <2>2. what \in {"accept", "reset"} => adminStatus # "DISABLED"
    BY <1>10 DEF BeginAccept, BeginManage, Manageable
  <2>3. AdminHand(q, adminSession)
    BY <2>2 DEF AdminHand
  <2>4. adminReq' = [adminReq EXCEPT ![r] = q] /\ UNCHANGED <<adminVars, handed, adminSession>>
    BY <1>10 DEF BeginAccept, BeginManage, AdminTake
  <2> HIDE DEF q
  <2>5. QED
    BY <2>1, <2>3, <2>4, AdminAlone
<1>11. ASSUME NEW r \in AdminRequests, Accept(r) \/ ResetAdmin(r) \/ DisableAdmin(r)
       PROVE  AdminInv'
  <2>1. adminReq[r] \in Managing
    BY <1>1, <1>11, AdminKinds DEF Accept, ResetAdmin, DisableAdmin
  <2>2. [adminReq[r] EXCEPT !.op = "link"] \in Managing /\ [adminReq[r] EXCEPT !.op = "link"].op = "link"
    BY <2>1 DEF Managing
  <2>3. AdminIdle.op = "idle"
    BY DEF AdminIdle
  <2>4. PICK q \in AdminRequest : q.op \in {"idle", "link"} /\ adminReq' = [adminReq EXCEPT ![r] = q]
    BY <1>11, <2>2, <2>3 DEF Accept, ResetAdmin, DisableAdmin, AdminClose, AdminRequest
  <2>5. /\ adminStatus' \in AdminStatuses /\ adminPassword' \in 0..MaxAdminPasswords
        /\ totpSecretEnc' \in BOOLEAN /\ totpLastStep' \in 0..MaxSteps /\ adminLink' \in BOOLEAN
    <3>1. adminStatus' \in AdminStatuses /\ adminPassword' \in 0..MaxAdminPasswords /\ totpLastStep' \in 0..MaxSteps
      BY <1>1, <1>11, AdminConstants DEF Accept, ResetAdmin, DisableAdmin, AdminTyped, AdminStatuses
    <3>2. totpSecretEnc' \in BOOLEAN
      BY <1>1, <1>11 DEF Accept, ResetAdmin, DisableAdmin, AdminTyped
    <3>3. adminLink' \in BOOLEAN
      BY <1>1, <1>11 DEF Accept, ResetAdmin, DisableAdmin, AdminTyped
    <3>4. QED
      BY <3>1, <3>2, <3>3
  <2>6. adminSession' = AllRevoked /\ UNCHANGED handed
    BY <1>11 DEF Accept, SessionsAfterAccept, ResetAdmin, DisableAdmin
  <2>7. QED
    BY <2>4, <2>5, <2>6, AdminEndsAll
<1>12. ASSUME NEW r \in AdminRequests, SendAdminLink(r) \/ EnableAdmin(r)
       PROVE  AdminInv'
  <2>1. adminReq[r] \in Managing
    BY <1>1, <1>12, AdminKinds DEF SendAdminLink, EnableAdmin
  <2>2. [adminReq[r] EXCEPT !.op = "link"] \in Managing /\ [adminReq[r] EXCEPT !.op = "link"].op = "link"
    BY <2>1 DEF Managing
  <2>3. AdminIdle.op = "idle"
    BY DEF AdminIdle
  <2>4. PICK q \in AdminRequest : q.op \in {"idle", "link"} /\ adminReq' = [adminReq EXCEPT ![r] = q]
    BY <1>12, <2>2, <2>3 DEF SendAdminLink, EnableAdmin, AdminClose, AdminRequest
  <2>5. AdminTyped'
    <3>1. adminStatus' \in AdminStatuses /\ totpLastStep' \in 0..MaxSteps
      BY <1>1, <1>12, AdminConstants DEF SendAdminLink, EnableAdmin, AdminTyped, AdminStatuses
    <3>2. totpSecretEnc' \in BOOLEAN
      BY <1>1, <1>12 DEF SendAdminLink, EnableAdmin, AdminTyped
    <3>3. adminLink' \in BOOLEAN
      BY <1>1, <1>12 DEF SendAdminLink, EnableAdmin, AdminTyped
    <3>4. adminReq' \in [AdminRequests -> AdminRequest]
      BY <1>1, <2>4
    <3>5. QED
      BY <1>1, <1>12, <3>1, <3>2, <3>3, <3>4 DEF SendAdminLink, EnableAdmin, AdminTyped
  <2>6. ASSUME NEW p \in AdminRequests PROVE AdminHand(adminReq'[p], adminSession')
    <3>1. adminReq'[p] \in {q, adminReq[p]}
      BY <1>1, <2>4
    <3>2. UNCHANGED adminSession
      BY <1>12 DEF SendAdminLink, EnableAdmin
    <3>3. QED
      BY <2>4, <3>1, <3>2 DEF AdminInv, AdminHand
  <2>7. OldAdminPasswordEnded'
    BY <1>12 DEF SendAdminLink, EnableAdmin, AdminInv, OldAdminPasswordEnded
  <2>8. QED
    BY <2>5, <2>6, <2>7 DEF AdminInv
<1>13. QED
  BY <1>2, <1>3, <1>4, <1>5, <1>6, <1>7, <1>8, <1>9, <1>10, <1>11, <1>12 DEF AdminNext

LEMMA AdminInvHolds == AdminSpec => []AdminInv
  BY AdminInvInit, AdminInvStep, PTL DEF AdminSpec

LEMMA AdminBackOnly == ASSUME AdminInv, [AdminNext]_allAdminVars PROVE AdminBackOnlyIfTurnedOn
<1> SUFFICES ASSUME adminStatus = "DISABLED", adminStatus' # "DISABLED"
             PROVE  \E r \in AdminRequests : /\ adminReq[r] # AdminIdle /\ adminReq'[r] # adminReq[r]
                                             /\ adminReq[r].op = "enable" \/ adminReq[r].saw # "DISABLED"
  BY DEF AdminBackOnlyIfTurnedOn
<1>1. PICK r \in AdminRequests : Accept(r) \/ ResetAdmin(r) \/ EnableAdmin(r)
  BY DEF AdminNext, BeginSetup, BeginCode, SaveSecret, ClaimStep, StartAdminSession, BeginAdminRefresh,
         CommitAdminRefresh, BeginAccept, BeginManage, SendAdminLink, DisableAdmin, AdminLogin, AdminReplayed,
         AdminLogout, adminVars, allAdminVars
<1>2. adminReq[r].op \in {"accept", "reset", "enable"}
  BY <1>1 DEF Accept, ResetAdmin, EnableAdmin
<1>3. adminReq \in [AdminRequests -> AdminRequest] /\ AdminHand(adminReq[r], adminSession)
  BY DEF AdminInv, AdminTyped
<1>4. adminReq[r] \in Managing
  BY <1>2, <1>3, AdminKinds
<1>5. AdminIdle.op = "idle"
  BY DEF AdminIdle
<1>6. adminReq'[r].op \in {"idle", "link"}
  <2>1. [adminReq[r] EXCEPT !.op = "link"].op = "link"
    BY <1>4 DEF Managing
  <2>2. adminReq'[r] \in {AdminIdle, [adminReq[r] EXCEPT !.op = "link"]}
    BY <1>1, <1>3 DEF Accept, ResetAdmin, EnableAdmin, AdminClose
  <2>3. QED
    BY <1>5, <2>1, <2>2
<1>7. QED
  BY <1>2, <1>3, <1>5, <1>6 DEF AdminHand

LEMMA OldAdminPasswordHolds == AdminSpec => []OldAdminPasswordIsOut
<1>1. AdminInv => OldAdminPasswordIsOut
  BY DEF AdminInv, OldAdminPasswordEnded, OldAdminPasswordIsOut, AdminServed
<1>2. QED
  BY <1>1, AdminInvHolds, PTL

----------------------------------------------------------------------------
(* The two kinds of sign-in side by side, however their steps interleave *)

\* When a password reset has been answered, sessions of the old password are
\* out, but for those whose sign-in it overtook and those whose end a process
\* that died never came to; of the Setu team, all but those it overtook.
THEOREM PasswordsHold == Spec /\ AdminSpec => []OldPasswordsAreOut
<1>1. OldPasswordIsOut /\ OldAdminPasswordIsOut => OldPasswordsAreOut
  BY DEF OldPasswordsAreOut
<1>2. QED
  BY <1>1, OldPasswordHolds, OldAdminPasswordHolds, PTL

\* Nobody who was disabled comes back but by being turned on again, or by a
\* request that had read them before.
THEOREM DisabledHold == Spec /\ AdminSpec => DisabledStayOut
<1>1. Known /\ AdminInv /\ [Next]_vars /\ [AdminNext]_allAdminVars =>
          BackOnlyIfTurnedOn /\ AdminBackOnlyIfTurnedOn
  BY BackOnly, AdminBackOnly
<1>2. QED
  BY <1>1, KnownHolds, AdminInvHolds, PTL DEF Spec, AdminSpec, DisabledStayOut

\* The run's composition, in which one part moves, is a behaviour of all three.
THEOREM PartsHold == AccountsSpec => Spec /\ PlanSpec /\ AdminSpec
<1>1. AccountsInit => Init /\ PlanInit /\ AdminInit
  BY DEF AccountsInit
<1>2. [AccountsNext]_<<vars, subscriptionVars, allAdminVars>> =>
          [Next]_vars /\ [PlanNext]_subscriptionVars /\ [AdminNext]_allAdminVars
  BY DEF AccountsNext
<1>3. QED
  BY <1>1, <1>2, PTL DEF AccountsSpec, Spec, PlanSpec, AdminSpec

\* The types of all three parts: no interleaving of sign-ins, resets, edits of
\* staff, redemptions and reminders leaves a row that the code could not read.
THEOREM AccountsTypeHolds == AccountsSpec => []AccountsTypeOK
<1>1. AdminInv => AdminTypeOK
  <2> SUFFICES ASSUME AdminInv PROVE AdminTypeOK
    OBVIOUS
  <2>1. AdminTyped
    BY DEF AdminInv
  <2>2. ASSUME NEW s \in AdminSessions PROVE adminSession[s].revoked \in BOOLEAN
    <3>1. adminSession[s] \in AdminRow \cup NoRow
      BY <2>1 DEF AdminTyped
    <3>2. CASE adminSession[s] \in AdminRow
      BY <3>2 DEF AdminRow
    <3>3. CASE adminSession[s] \in NoRow
      <4>1. adminSession[s].revoked = TRUE
        BY <3>3 DEF NoRow
      <4>2. QED
        BY <4>1
    <3>4. QED
      BY <3>1, <3>2, <3>3
  <2>3. QED
    BY <2>1, <2>2 DEF AdminTyped, AdminTypeOK, AdminStatuses
<1>2. Known /\ PlanTyped /\ AdminInv => AccountsTypeOK
  BY <1>1 DEF Known, Typed, PlanTyped, AccountsTypeOK
<1>3. QED
  BY <1>2, KnownHolds, PlanTypedHolds, AdminInvHolds, PartsHold, PTL

==============================================================================
