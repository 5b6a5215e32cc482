-------------------------- MODULE TransfersProofs --------------------------
(***************************************************************************)
(* Transfers for every set of branches, transfers and requests: units are  *)
(* conserved, expiry dates travel with them, and what is committed is      *)
(* freight.                                                                *)
(***************************************************************************)
EXTENDS Transfers, BatchesProofs, TLAPS

----------------------------------------------------------------------------
(***************************************************************************)
(* A loop over a sequence goes through one result after another.           *)
(***************************************************************************)

\* The results of a loop after each set of its turns.
Passes(g, step, base, seq, T) ==
    g = [U \in SUBSET T |->
            IF U = {} THEN base
            ELSE LET n == Max(U) IN step[<<g[U \ {n}], seq[n]>>]]

LEMMA PassesExist ==
    ASSUME NEW A, NEW X, NEW step \in [A \X X -> A], NEW base \in A,
           NEW T, IsFiniteSet(T), T \subseteq Nat, NEW seq \in [T -> X]
    PROVE  \E g \in [SUBSET T -> A] : Passes(g, step, base, seq, T)
<1> DEFINE Small(k) == {U \in SUBSET T : Cardinality(U) <= k}
           AtLast(g, U) == step[<<g[U \ {Max(U)}], seq[Max(U)]>>]
           Good(g, k) == /\ g \in [Small(k) -> A]
                         /\ \A U \in Small(k) : g[U] = IF U = {} THEN base ELSE AtLast(g, U)
           P == {k \in Nat : \E g : Good(g, k)}
<1>1. \A U \in SUBSET T : IsFiniteSet(U) /\ Cardinality(U) \in Nat /\ Cardinality(U) <= Cardinality(T)
  BY FS_Subset, FS_CardinalityType
<1>2. 0 \in P
  <2> DEFINE g == [U \in Small(0) |-> base]
  <2>1. \A U \in Small(0) : U = {}
    BY <1>1, FS_EmptySet
  <2>2. Good(g, 0)
    BY <2>1
  <2>3. QED
    BY <2>2
<1>3. ASSUME NEW k \in Nat, k \in P PROVE k + 1 \in P
  <2>1. PICK g : Good(g, k)
    BY <1>3
  <2> DEFINE h == [U \in Small(k + 1) |-> IF U \in Small(k) THEN g[U] ELSE AtLast(g, U)]
  <2>2. ASSUME NEW U \in Small(k + 1), U # {}
        PROVE  U \ {Max(U)} \in Small(k) /\ Max(U) \in T /\ U \ {Max(U)} \in Small(k + 1)
    <3> DEFINE V == U \ {Max(U)}
    <3>1. U \in SUBSET T /\ Cardinality(U) <= k + 1
      OBVIOUS
    <3>2. /\ Max(U) \in T /\ V \in SUBSET T
          /\ Cardinality(U) \in Nat /\ Cardinality(V) \in Nat
          /\ Cardinality(V) = Cardinality(U) - 1
      BY <2>2, <3>1, LastTurn
    <3> HIDE DEF V
    <3>3. Cardinality(V) <= k /\ Cardinality(V) <= k + 1
      BY <3>1, <3>2
    <3>4. V \in Small(k) /\ V \in Small(k + 1)
      BY <3>2, <3>3
    <3>5. QED
      BY <3>2, <3>4 DEF V
  <2>3. ASSUME NEW U \in Small(k + 1), U # {}
        PROVE  AtLast(g, U) \in A
    <3>1. g[U \ {Max(U)}] \in A /\ seq[Max(U)] \in X
      BY <2>1, <2>2, <2>3
    <3>2. QED
      BY <3>1
  <2>4. {} \in Small(k)
    BY FS_EmptySet
  <2>5. h \in [Small(k + 1) -> A]
    <3> SUFFICES ASSUME NEW U \in Small(k + 1) PROVE h[U] \in A
      OBVIOUS
    <3>1. CASE U \in Small(k)
      BY <2>1, <3>1
    <3>2. CASE U \notin Small(k)
      <4>1. U # {}
        BY <2>4, <3>2
      <4>2. h[U] = AtLast(g, U)
        BY <3>2
      <4>3. QED
        BY <2>3, <4>1, <4>2
    <3>3. QED
      BY <3>1, <3>2
  <2>6. ASSUME NEW U \in Small(k + 1)
        PROVE  h[U] = IF U = {} THEN base ELSE AtLast(h, U)
    <3>1. CASE U = {}
      BY <2>1, <2>4, <2>6, <3>1
    <3>2. CASE U # {}
      <4>1. h[U \ {Max(U)}] = g[U \ {Max(U)}]
        BY <2>2, <3>2
      <4>2. h[U] = AtLast(g, U)
        BY <2>1, <2>6, <3>2
      <4>3. QED
        BY <3>2, <4>1, <4>2
    <3>3. QED
      BY <3>1, <3>2
  <2>7. Good(h, k + 1)
    <3> HIDE DEF h, AtLast
    <3>1. QED
      BY <2>5, <2>6
  <2> HIDE DEF h, Good
  <2>8. QED
    BY <2>7
<1>4. Cardinality(T) \in Nat /\ Cardinality(T) \in P
  <2>1. Cardinality(T) \in Nat
    BY FS_CardinalityType
  <2> HIDE DEF P
  <2>2. QED
    BY <1>2, <1>3, <2>1, NatSetInduction
<1>5. Small(Cardinality(T)) = SUBSET T
  BY <1>1
<1>6. PICK g : Good(g, Cardinality(T))
  BY <1>4
<1>7. /\ g \in [SUBSET T -> A]
      /\ \A U \in SUBSET T : g[U] = IF U = {} THEN base ELSE AtLast(g, U)
  <2> HIDE DEF Small, AtLast
  <2>1. QED
    BY <1>5, <1>6
<1>8. g = [U \in SUBSET T |-> IF U = {} THEN base ELSE AtLast(g, U)]
  <2> HIDE DEF AtLast
  <2>1. QED
    BY <1>7
<1>9. QED
  BY <1>7, <1>8 DEF Passes

----------------------------------------------------------------------------
(***************************************************************************)
(* What batches, or the parts of a transfer, hold of some expiry dates.    *)
(***************************************************************************)
HeldOf(rows, days) == [i \in DOMAIN rows |-> IF rows[i].expiry \in days THEN rows[i].qty ELSE 0]

Held(rows, days) == SumFunction(HeldOf(rows, days))

LEMMA HeldIsInt ==
    ASSUME NEW rows, IsFiniteSet(DOMAIN rows), \A i \in DOMAIN rows : rows[i].qty \in Int, NEW days
    PROVE  Held(rows, days) \in Int
<1> DEFINE h == HeldOf(rows, days)
<1>1. DOMAIN h = DOMAIN rows /\ \A i \in DOMAIN rows : h[i] \in Int
  BY DEF HeldOf
<1> HIDE DEF h
<1>2. SumFunction(h) \in Int
  BY <1>1, TotalInt
<1>3. QED
  BY <1>2 DEF Held, h

\* One of them changed.
LEMMA HeldChanged ==
    ASSUME NEW rows, IsFiniteSet(DOMAIN rows), NEW new, DOMAIN new = DOMAIN rows,
           \A i \in DOMAIN rows : rows[i].qty \in Int /\ new[i].qty \in Int
                                  /\ new[i].expiry = rows[i].expiry,
           NEW e \in DOMAIN rows, \A i \in DOMAIN rows : i # e => new[i].qty = rows[i].qty,
           NEW days
    PROVE  Held(new, days)
           = Held(rows, days) + IF rows[e].expiry \in days THEN new[e].qty - rows[e].qty ELSE 0
<1> DEFINE f == HeldOf(rows, days)
           g == HeldOf(new, days)
<1>1. /\ DOMAIN f = DOMAIN rows /\ DOMAIN g = DOMAIN rows
      /\ \A i \in DOMAIN rows : f[i] \in Int /\ g[i] \in Int
      /\ \A i \in DOMAIN rows : i # e => f[i] = g[i]
      /\ g[e] - f[e] = IF rows[e].expiry \in days THEN new[e].qty - rows[e].qty ELSE 0
  BY DEF HeldOf
<1> HIDE DEF f, g
<1>2. SumFunction(g) = SumFunction(f) + (g[e] - f[e])
  <2>1. /\ IsFiniteSet(DOMAIN f) /\ DOMAIN g = DOMAIN f /\ e \in DOMAIN f
        /\ \A i \in DOMAIN f : f[i] \in Int /\ g[i] \in Int
        /\ \A i \in DOMAIN f : i # e => f[i] = g[i]
    BY <1>1
  <2>2. QED
    BY <2>1, TotalChanged
<1>3. QED
  BY <1>1, <1>2 DEF Held, f, g

\* One came after them.
LEMMA HeldAppended ==
    ASSUME NEW S, \A x \in S : x.qty \in Int, NEW rows \in Seq(S), NEW one \in S, NEW days
    PROVE  Held(Append(rows, one), days)
           = Held(rows, days) + IF one.expiry \in days THEN one.qty ELSE 0
<1> DEFINE more == Append(rows, one)
           N == Len(rows)
           f == HeldOf(rows, days)
           g == HeldOf(more, days)
           e == N + 1
<1>1. /\ N \in Nat /\ DOMAIN rows = 1..N /\ DOMAIN more = 1..(N + 1)
      /\ more[N + 1] = one /\ \A i \in 1..N : more[i] = rows[i] /\ rows[i] \in S
  OBVIOUS
<1> HIDE DEF more, N
<1>2. IsFiniteSet(1..N) /\ e \notin 1..N /\ 1..(N + 1) = 1..N \cup {e}
  <2>1. IsFiniteSet(1..N)
    BY <1>1, FS_Interval
  <2>2. e \notin 1..N /\ 1..(N + 1) = 1..N \cup {e}
    BY <1>1
  <2>3. QED
    BY <2>1, <2>2
<1>3. /\ DOMAIN f = 1..N /\ DOMAIN g = 1..N \cup {e}
      /\ \A i \in 1..N : f[i] = g[i] /\ f[i] \in Int
      /\ g[e] = IF one.expiry \in days THEN one.qty ELSE 0
      /\ g[e] \in Int
  BY <1>1, <1>2 DEF HeldOf
<1> HIDE DEF f, g, e
<1>4. SumFunction(g) = SumFunction(f) + g[e]
  <2>1. /\ IsFiniteSet(DOMAIN f) /\ e \notin DOMAIN f /\ DOMAIN g = DOMAIN f \cup {e}
        /\ \A i \in DOMAIN g : g[i] \in Int
        /\ \A i \in DOMAIN f : f[i] = g[i]
    BY <1>2, <1>3
  <2>2. QED
    BY <2>1, TotalGrows
<1>5. QED
  BY <1>3, <1>4 DEF Held, f, g, more

\* Whatever they expire, it is all they hold.
LEMMA HeldInAll ==
    ASSUME NEW rows, NEW days, \A i \in DOMAIN rows : rows[i].expiry \in days
    PROVE  Held(rows, days) = Total(rows)
<1>1. HeldOf(rows, days) = [i \in DOMAIN rows |-> rows[i].qty]
  BY DEF HeldOf
<1>2. QED
  BY <1>1 DEF Held, Total

LEMMA HeldOfADay ==
    ASSUME NEW rows, NEW day
    PROVE  UnitsThatExpire(rows, day) = Held(rows, {day})
<1>1. HeldOf(rows, {day}) = [i \in DOMAIN rows |-> IF rows[i].expiry = day THEN rows[i].qty ELSE 0]
  BY DEF HeldOf
<1>2. QED
  BY <1>1 DEF UnitsThatExpire, Held

----------------------------------------------------------------------------
(***************************************************************************)
(* Sending.                                                                *)
(***************************************************************************)
Plan == [rows : Seq(Batch), left : Units, parts : Seq(Part)]

\* Each part left from a batch that expires the same day, or from none.
Sourced(parts, rows) ==
    \A n \in DOMAIN parts :
        /\ parts[n].plain => parts[n].expiry = Never
        /\ parts[n].source = 0 => parts[n].plain
        /\ parts[n].source # 0 => /\ parts[n].source \in 1..Len(rows)
                                  /\ parts[n].expiry = rows[parts[n].source].expiry

\* The batches stayed, whatever they hold now; some may be new.
Kept(rows, new) ==
    /\ Len(rows) <= Len(new)
    /\ \A i \in 1..Len(rows) : /\ new[i].expiry = rows[i].expiry
                               /\ new[i].opening = rows[i].opening

\* What the batches have less is in the parts, of each expiry date.
Gave(was, plan) ==
    /\ plan \in Plan /\ plan.left <= was.left
    /\ Len(plan.rows) = Len(was.rows) /\ Kept(was.rows, plan.rows)
    /\ Shelf(was.rows) => Shelf(plan.rows)
    /\ \A i \in 1..Len(was.rows) : plan.rows[i].qty <= was.rows[i].qty
    /\ \A days : Held(plan.rows, days) + Held(plan.parts, days)
                 = Held(was.rows, days) + Held(was.parts, days)
    /\ plan.left + Held(plan.parts, 1..Never) = was.left + Held(was.parts, 1..Never)
    /\ Sourced(was.parts, was.rows) => Sourced(plan.parts, plan.rows)

LEMMA PlanHas ==
    ASSUME NEW plan \in Plan
    PROVE  /\ plan = [rows |-> plan.rows, left |-> plan.left, parts |-> plan.parts]
           /\ plan.rows \in Seq(Batch) /\ plan.left \in Units /\ plan.parts \in Seq(Part)
           /\ plan.left \in Nat /\ plan.left <= MaxQty
           /\ Len(plan.rows) \in Nat /\ DOMAIN plan.rows = 1..Len(plan.rows)
           /\ IsFiniteSet(DOMAIN plan.rows)
           /\ \A i \in 1..Len(plan.rows) :
                 /\ plan.rows[i] \in Batch /\ plan.rows[i].qty \in Int
                 /\ plan.rows[i].expiry \in 1..Never
           /\ Len(plan.parts) \in Nat /\ DOMAIN plan.parts = 1..Len(plan.parts)
           /\ IsFiniteSet(DOMAIN plan.parts)
           /\ \A n \in 1..Len(plan.parts) :
                 /\ plan.parts[n] \in Part /\ plan.parts[n].qty \in Nat \ {0}
                 /\ plan.parts[n].source \in Nat /\ plan.parts[n].expiry \in 1..Never
           /\ \A days : Held(plan.rows, days) \in Int /\ Held(plan.parts, days) \in Int
<1>1. /\ plan = [rows |-> plan.rows, left |-> plan.left, parts |-> plan.parts]
      /\ plan.rows \in Seq(Batch) /\ plan.left \in Units /\ plan.parts \in Seq(Part)
  BY DEF Plan
<1>2. MaxQty \in Nat
  BY TransfersAssumption
<1>3. plan.left \in Nat /\ plan.left <= MaxQty
  BY <1>1, <1>2 DEF Units
<1> DEFINE rows == plan.rows
           parts == plan.parts
<1> HIDE DEF rows, parts
<1>4. /\ Len(rows) \in Nat /\ DOMAIN rows = 1..Len(rows) /\ IsFiniteSet(1..Len(rows))
      /\ \A i \in 1..Len(rows) : rows[i] \in Batch
  <2>1. rows \in Seq(Batch)
    BY <1>1 DEF rows
  <2>2. Len(rows) \in Nat
    BY <2>1
  <2>3. IsFiniteSet(1..Len(rows))
    BY <2>2, FS_Interval
  <2>4. QED
    BY <2>1, <2>3
<1>5. /\ Len(parts) \in Nat /\ DOMAIN parts = 1..Len(parts) /\ IsFiniteSet(1..Len(parts))
      /\ \A n \in 1..Len(parts) : parts[n] \in Part
  <2>1. parts \in Seq(Part)
    BY <1>1 DEF parts
  <2>2. Len(parts) \in Nat
    BY <2>1
  <2>3. IsFiniteSet(1..Len(parts))
    BY <2>2, FS_Interval
  <2>4. QED
    BY <2>1, <2>3
<1>6. \A b \in Batch : b.qty \in Int /\ b.expiry \in 1..Never
  BY DEF Batch
<1>7. \A p \in Part : p.qty \in Nat \ {0} /\ p.source \in Nat /\ p.expiry \in 1..Never
  BY <1>2 DEF Part, Units
<1>8. \A days : Held(rows, days) \in Int /\ Held(parts, days) \in Int
  <2> TAKE days
  <2>1. \A i \in DOMAIN rows : rows[i].qty \in Int
    BY <1>4, <1>6
  <2>2. \A n \in DOMAIN parts : parts[n].qty \in Int
    BY <1>5, <1>7
  <2>3. QED
    BY <1>4, <1>5, <2>1, <2>2, HeldIsInt
<1>9. QED
  BY <1>1, <1>3, <1>4, <1>5, <1>6, <1>7, <1>8 DEF rows, parts

LEMMA GaveNothing ==
    ASSUME NEW plan \in Plan
    PROVE  Gave(plan, plan)
<1>1. plan.left \in Nat /\ \A days : Held(plan.rows, days) \in Int /\ Held(plan.parts, days) \in Int
  BY PlanHas
<1>2. Len(plan.rows) \in Nat /\ \A i \in 1..Len(plan.rows) : plan.rows[i].qty \in Int
  BY PlanHas
<1>3. QED
  BY <1>1, <1>2 DEF Gave, Kept

LEMMA GaveMore ==
    ASSUME NEW a \in Plan, NEW b \in Plan, NEW c \in Plan, Gave(a, b), Gave(b, c)
    PROVE  Gave(a, c)
<1>1. /\ a.left \in Nat /\ b.left \in Nat /\ c.left \in Nat
      /\ Len(a.rows) \in Nat /\ Len(b.rows) = Len(a.rows) /\ Len(c.rows) = Len(a.rows)
      /\ b.left <= a.left /\ c.left <= b.left
  BY PlanHas DEF Gave
<1>2. \A i \in 1..Len(a.rows) : /\ a.rows[i].qty \in Int /\ b.rows[i].qty \in Int
                                /\ c.rows[i].qty \in Int
                                /\ b.rows[i].qty <= a.rows[i].qty
                                /\ c.rows[i].qty <= b.rows[i].qty
  BY <1>1, PlanHas DEF Gave
<1>3. Kept(a.rows, c.rows)
  BY <1>1 DEF Gave, Kept
<1>4. \A days : Held(c.rows, days) + Held(c.parts, days)
                 = Held(a.rows, days) + Held(a.parts, days)
  BY DEF Gave
<1>5. c.left + Held(c.parts, 1..Never) = a.left + Held(a.parts, 1..Never)
  BY DEF Gave
<1>6. /\ Shelf(a.rows) => Shelf(c.rows)
      /\ Sourced(a.parts, a.rows) => Sourced(c.parts, c.rows)
  BY DEF Gave
<1>7. \A i \in 1..Len(a.rows) : c.rows[i].qty <= a.rows[i].qty
  BY <1>2
<1>8. c.left <= a.left /\ Len(c.rows) = Len(a.rows)
  BY <1>1
<1>9. QED
  BY <1>3, <1>4, <1>5, <1>6, <1>7, <1>8 DEF Gave

\* The quantity of one batch went down.
LEMMA BatchGives ==
    ASSUME NEW rows \in Seq(Batch), NEW b \in 1..Len(rows), NEW q \in Nat
    PROVE  LET new == [rows EXCEPT ![b].qty = @ - q]
           IN  /\ new \in Seq(Batch) /\ Len(new) = Len(rows)
               /\ \A i \in 1..Len(rows) : /\ new[i].expiry = rows[i].expiry
                                          /\ new[i].opening = rows[i].opening
                                          /\ i # b => new[i].qty = rows[i].qty
               /\ new[b].qty = rows[b].qty - q
<1> DEFINE N == Len(rows)
           new == [rows EXCEPT ![b].qty = @ - q]
           one == rows[b]
           less == [one EXCEPT !.qty = @ + (-q)]
<1>1. N \in Nat /\ DOMAIN rows = 1..N /\ \A i \in 1..N : rows[i] \in Batch
  OBVIOUS
<1>2. one.qty \in Int /\ one.qty - q = one.qty + (-q)
  BY <1>1 DEF Batch
<1>3. new = [rows EXCEPT ![b] = less]
  BY <1>2
<1> HIDE DEF new, N
<1>4. one \in Batch /\ -q \in Int
  BY <1>1
<1> HIDE DEF one
<1>5. /\ less \in Batch /\ less.qty = one.qty + (-q)
      /\ less.expiry = one.expiry /\ less.opening = one.opening
  BY <1>4, BatchMoved
<1> HIDE DEF less
<1>6. /\ new \in [1..N -> Batch]
      /\ new[b] = less /\ \A i \in 1..N : i # b => new[i] = rows[i]
  BY <1>1, <1>3, <1>5 DEF N
<1>7. new \in Seq(Batch) /\ Len(new) = N
  BY <1>1, <1>6
<1>8. QED
  BY <1>2, <1>5, <1>6, <1>7 DEF new, N, one

LEMMA TakeFromGives ==
    ASSUME NEW plan \in Plan, NEW k \in Pick
    PROVE  LET new == TakeFrom(plan, k)
           IN  /\ Gave(plan, new)
               /\ k.batch \in 1..Len(plan.rows) /\ k.qty >= plan.left
                  => new.left = 0 \/ new.rows[k.batch].qty <= 0
<1> DEFINE new == TakeFrom(plan, k)
           q == UnitsGiven(plan, k)
           b == k.batch
           rows == plan.rows
           parts == plan.parts
<1>1. /\ plan.left \in Nat /\ plan.left <= MaxQty /\ MaxQty \in Nat
      /\ rows \in Seq(Batch) /\ parts \in Seq(Part)
      /\ Len(rows) \in Nat /\ DOMAIN rows = 1..Len(rows) /\ IsFiniteSet(DOMAIN rows)
      /\ \A i \in 1..Len(rows) : /\ rows[i] \in Batch /\ rows[i].qty \in Int
                                 /\ rows[i].expiry \in 1..Never
      /\ \A n \in 1..Len(parts) : parts[n] \in Part
      /\ k.batch \in Nat \ {0} /\ k.qty \in Nat \ {0}
  BY PlanHas, TransfersAssumption DEF Pick
<1>2. \A p \in Part : p.qty \in Int /\ p.expiry \in 1..Never
  BY <1>1 DEF Part, Units
<1>3. CASE q <= 0
  <2>1. new = plan
    BY <1>3 DEF TakeFrom
  <2>2. b \in 1..Len(rows) /\ k.qty >= plan.left => plan.left = 0 \/ rows[b].qty <= 0
    BY <1>1, <1>3 DEF UnitsGiven, Least, Most
  <2> HIDE DEF new
  <2>3. QED
    BY <2>1, <2>2, GaveNothing DEF new
<1>4. CASE ~(q <= 0)
  <2> DEFINE part == PartOf(rows, b, q)
             after == [rows EXCEPT ![b].qty = @ - q]
             more == Append(parts, part)
  <2>1. /\ b \in 1..Len(rows) /\ q \in Nat /\ 0 < q /\ q <= plan.left /\ q <= rows[b].qty
        /\ k.qty >= plan.left => q = plan.left \/ q = rows[b].qty
    <3>1. b \in 1..Len(rows)
      BY <1>1, <1>4 DEF UnitsGiven
    <3>2. rows[b].qty \in Int /\ q = Least(Least(k.qty, Most(0, rows[b].qty)), plan.left)
      BY <1>1, <3>1 DEF UnitsGiven
    <3> HIDE DEF q, b, rows
    <3>3. QED
      BY <1>1, <1>4, <3>1, <3>2 DEF Least, Most
  <2>2. new = [rows |-> after, left |-> plan.left - q, parts |-> more]
    BY <1>4 DEF TakeFrom, GivenUnits
  <2> HIDE DEF new, q, b
  <2>3. /\ new.rows = after /\ new.left = plan.left - q /\ new.parts = more
        /\ new = [rows |-> new.rows, left |-> new.left, parts |-> new.parts]
    BY <2>2
  <2>4. /\ after \in Seq(Batch) /\ Len(after) = Len(rows)
        /\ \A i \in 1..Len(rows) : /\ after[i].expiry = rows[i].expiry
                                   /\ after[i].opening = rows[i].opening
                                   /\ i # b => after[i].qty = rows[i].qty
        /\ after[b].qty = rows[b].qty - q
    BY <1>1, <2>1, BatchGives
  <2> HIDE DEF after
  <2>5. /\ part \in Part /\ part.qty = q /\ part.source = b /\ part.expiry = rows[b].expiry
        /\ part.plain => part.expiry = Never
    <3>1. rows[b].expiry \in 1..Never /\ q \in Units \ {0} /\ b \in Nat
      BY <1>1, <2>1 DEF Units
    <3>2. (rows[b].opening /\ rows[b].expiry = Never) \in BOOLEAN
      OBVIOUS
    <3>3. QED
      BY <3>1, <3>2 DEF PartOf, Part
  <2> HIDE DEF part
  <2>6. more \in Seq(Part)
    BY <1>1, <2>5
  <2>7. new \in Plan /\ new.left <= plan.left
    <3>1. new.left \in Units /\ new.left <= plan.left
      BY <1>1, <2>1, <2>3 DEF Units
    <3>2. QED
      BY <2>3, <2>4, <2>6, <3>1 DEF Plan
  <2>8. \A i \in 1..Len(rows) : after[i].qty \in Int /\ after[i].qty <= rows[i].qty
    <3> SUFFICES ASSUME NEW i \in 1..Len(rows)
                 PROVE  after[i].qty \in Int /\ after[i].qty <= rows[i].qty
      OBVIOUS
    <3> HIDE DEF rows
    <3>1. rows[i].qty \in Int
      BY <1>1
    <3>2. CASE i = b
      BY <2>1, <2>4, <3>1, <3>2
    <3>3. CASE i # b
      BY <2>4, <3>1, <3>3
    <3>4. QED
      BY <3>2, <3>3
  <2>9. ASSUME NEW days
        PROVE  /\ Held(after, days) = Held(rows, days) - IF rows[b].expiry \in days THEN q ELSE 0
               /\ Held(more, days) = Held(parts, days) + IF rows[b].expiry \in days THEN q ELSE 0
               /\ Held(rows, days) \in Int /\ Held(parts, days) \in Int
    <3>1. Held(more, days) = Held(parts, days) + IF rows[b].expiry \in days THEN q ELSE 0
      <4>1. Held(more, days) = Held(parts, days) + IF part.expiry \in days THEN part.qty ELSE 0
        <5>1. \A x \in Part : x.qty \in Int
          BY <1>2
        <5>2. parts \in Seq(Part) /\ part \in Part
          BY <1>1, <2>5
        <5> HIDE DEF parts
        <5>3. QED
          BY <5>1, <5>2, HeldAppended
      <4>2. QED
        BY <2>5, <4>1
    <3>2. Held(after, days) = Held(rows, days) + IF rows[b].expiry \in days
                                                 THEN after[b].qty - rows[b].qty ELSE 0
      <4>1. DOMAIN after = DOMAIN rows /\ b \in DOMAIN rows
        BY <1>1, <2>1, <2>4
      <4>2. \A i \in DOMAIN rows : /\ rows[i].qty \in Int /\ after[i].qty \in Int
                                   /\ after[i].expiry = rows[i].expiry
                                   /\ i # b => after[i].qty = rows[i].qty
        BY <1>1, <2>4, <2>8
      <4>3. IsFiniteSet(DOMAIN rows)
        BY <1>1
      <4> HIDE DEF rows
      <4>4. QED
        BY <4>1, <4>2, <4>3, HeldChanged
    <3>3. Held(rows, days) \in Int /\ Held(parts, days) \in Int
      BY PlanHas
    <3>4. after[b].qty - rows[b].qty = -q
      BY <1>1, <2>1, <2>4
    <3>5. QED
      BY <2>1, <3>1, <3>2, <3>3, <3>4, SMTT(30)
  <2>10. Held(new.parts, 1..Never) = Held(parts, 1..Never) + q /\ Held(parts, 1..Never) \in Int
    <3>1. rows[b].expiry \in 1..Never
      BY <1>1, <2>1
    <3>2. QED
      BY <2>3, <2>9, <3>1
  <2>11. Shelf(rows) => Shelf(after)
    <3> SUFFICES ASSUME Shelf(rows) PROVE Shelf(after)
      OBVIOUS
    <3>1. \A i \in 1..Len(rows) : rows[i].qty >= 0
      BY <1>1 DEF Shelf
    <3>2. DOMAIN after = 1..Len(rows)
      BY <1>1, <2>4
    <3>3. ASSUME NEW i \in 1..Len(rows) PROVE after[i].qty >= 0
      <4>1. CASE i = b
        BY <1>1, <2>1, <2>4, <4>1
      <4>2. CASE i # b
        BY <2>4, <3>1, <4>2
      <4>3. QED
        BY <4>1, <4>2
    <3>4. QED
      BY <2>4, <3>2, <3>3 DEF Shelf
  <2>12. Sourced(parts, rows) => Sourced(more, after)
    <3> SUFFICES ASSUME Sourced(parts, rows) PROVE Sourced(more, after)
      OBVIOUS
    <3>1. /\ Len(parts) \in Nat /\ DOMAIN parts = 1..Len(parts)
          /\ DOMAIN more = 1..(Len(parts) + 1) /\ more[Len(parts) + 1] = part
          /\ \A n \in 1..Len(parts) : more[n] = parts[n]
      BY <1>1, <2>5
    <3> HIDE DEF more
    <3> SUFFICES ASSUME NEW n \in DOMAIN more
                 PROVE  /\ more[n].plain => more[n].expiry = Never
                        /\ more[n].source = 0 => more[n].plain
                        /\ more[n].source # 0
                           => /\ more[n].source \in 1..Len(after)
                              /\ more[n].expiry = after[more[n].source].expiry
      BY DEF Sourced
    <3>2. CASE n = Len(parts) + 1
      <4>1. more[n] = part
        BY <3>1, <3>2
      <4> HIDE DEF rows, parts
      <4>2. b \in 1..Len(after) /\ rows[b].expiry = after[b].expiry /\ b # 0
        BY <1>1, <2>1, <2>4
      <4>3. QED
        BY <2>5, <4>1, <4>2
    <3>3. CASE n # Len(parts) + 1
      <4>1. n \in 1..Len(parts) /\ more[n] = parts[n]
        BY <3>1, <3>3
      <4>2. QED
        BY <2>4, <3>1, <4>1 DEF Sourced
    <3>4. QED
      BY <3>2, <3>3
  <2>13. Gave(plan, new)
    <3>1. Len(new.rows) = Len(rows) /\ Kept(rows, new.rows)
      BY <1>1, <2>3, <2>4 DEF Kept
    <3>2. \A days : Held(new.rows, days) + Held(new.parts, days)
                    = Held(rows, days) + Held(parts, days)
      <4> TAKE days
      <4> DEFINE d == IF rows[b].expiry \in days THEN q ELSE 0
      <4>1. d \in Int
        BY <2>1
      <4>2. /\ Held(after, days) = Held(rows, days) - d
            /\ Held(more, days) = Held(parts, days) + d
            /\ Held(rows, days) \in Int /\ Held(parts, days) \in Int
        BY <2>9
      <4> HIDE DEF d
      <4>3. QED
        BY <2>3, <4>1, <4>2
    <3>3. new.left + Held(new.parts, 1..Never) = plan.left + Held(parts, 1..Never)
      BY <1>1, <2>1, <2>3, <2>10
    <3>4. \A i \in 1..Len(rows) : new.rows[i].qty <= rows[i].qty
      BY <2>3, <2>8
    <3> HIDE DEF more
    <3>5. QED
      BY <2>3, <2>7, <2>11, <2>12, <3>1, <3>2, <3>3, <3>4 DEF Gave
  <2>14. k.qty >= plan.left => new.left = 0 \/ new.rows[b].qty <= 0
    BY <1>1, <2>1, <2>3, <2>4
  <2>15. QED
    BY <2>13, <2>14 DEF new, b
<1>5. QED
  BY <1>3, <1>4

\* The picks one after the other.
Takes(g, plan, picks, T) ==
    g = [U \in SUBSET T |->
            IF U = {} THEN plan
            ELSE LET n == Max(U) IN TakeFrom(g[U \ {n}], picks[n])]

LEMMA TakeAllTurns ==
    ASSUME NEW plan \in Plan, NEW N \in Nat, NEW picks \in [1..N -> Pick]
    PROVE  \E h : /\ h[0] = plan
                  /\ \A n \in 1..N : h[n] = TakeFrom(h[n - 1], picks[n])
                  /\ TakeAll(plan, picks) = h[N]
<1> DEFINE T == 1..N
           step == [x \in Plan \X Pick |-> TakeFrom(x[1], x[2])]
           g == CHOOSE g : Takes(g, plan, picks, T)
           h == [n \in 0..N |-> g[1..n]]
<1>1. TakeAll(plan, picks) = g[T]
  <2>1. DOMAIN picks = T
    OBVIOUS
  <2>2. QED
    BY <2>1 DEF TakeAll, FoldLeft, MapThenFoldSet, Takes
<1>2. step \in [Plan \X Pick -> Plan]
  <2> SUFFICES ASSUME NEW x \in Plan \X Pick PROVE TakeFrom(x[1], x[2]) \in Plan
    OBVIOUS
  <2> DEFINE p == x[1]
             k == x[2]
  <2>1. p \in Plan /\ k \in Pick
    OBVIOUS
  <2> HIDE DEF p, k
  <2>2. Gave(p, TakeFrom(p, k))
    BY <2>1, TakeFromGives
  <2>3. QED
    BY <2>2 DEF Gave, p, k
<1>3. /\ IsFiniteSet(T) /\ T \subseteq Nat
      /\ \A U \in SUBSET T : U # {} => Max(U) \in U
  BY FirstTurns, FS_Subset, MaxOf
<1>4. \A p \in Plan, k \in Pick : step[<<p, k>>] = TakeFrom(p, k)
  OBVIOUS
<1> HIDE DEF step, T
<1>5. PICK f \in [SUBSET T -> Plan] : Passes(f, step, plan, picks, T)
  <2>1. picks \in [T -> Pick]
    BY DEF T
  <2>2. IsFiniteSet(T) /\ T \subseteq Nat
    BY <1>3
  <2>3. \E f \in [SUBSET T -> Plan] : Passes(f, step, plan, picks, T)
    BY <1>2, <2>1, <2>2, PassesExist, Zenon
  <2>4. QED
    BY <2>3
<1>6. Takes(f, plan, picks, T)
  <2>1. ASSUME NEW U \in SUBSET T
        PROVE  f[U] = IF U = {} THEN plan
                      ELSE LET n == Max(U) IN TakeFrom(f[U \ {n}], picks[n])
    <3>1. CASE U = {}
      BY <1>5, <3>1 DEF Passes
    <3>2. CASE U # {}
      <4> DEFINE n == Max(U)
      <4>1. f[U] = step[<<f[U \ {n}], picks[n]>>]
        BY <1>5, <3>2 DEF Passes
      <4>2. n \in T
        BY <1>3, <3>2
      <4> HIDE DEF n
      <4>3. f[U \ {n}] \in Plan /\ picks[n] \in Pick
        BY <4>2 DEF T
      <4>4. f[U] = TakeFrom(f[U \ {n}], picks[n])
        BY <1>4, <4>1, <4>3
      <4>5. QED
        BY <3>2, <4>4 DEF n
    <3>3. QED
      BY <3>1, <3>2
  <2>2. f = [U \in SUBSET T |-> f[U]]
    OBVIOUS
  <2>3. QED
    BY <2>1, <2>2 DEF Takes
<1>7. Takes(g, plan, picks, T)
  BY <1>6
<1> HIDE DEF g
<1>8. h[0] = plan
  <2>1. 1..0 = {} /\ {} \in SUBSET T /\ 0 \in 0..N
    OBVIOUS
  <2>2. g[{}] = plan
    BY <1>7, <2>1 DEF Takes
  <2>3. QED
    BY <2>1, <2>2
<1>9. ASSUME NEW n \in 1..N
      PROVE  h[n] = TakeFrom(h[n - 1], picks[n])
  <2> DEFINE U == 1..n
  <2>1. /\ U \in SUBSET T /\ U # {} /\ Max(U) = n /\ U \ {n} = 1..(n - 1)
        /\ n \in 0..N /\ n - 1 \in 0..N
    BY FirstTurns DEF T
  <2>2. h[n] = g[U] /\ h[n - 1] = g[1..(n - 1)]
    BY <2>1
  <2> HIDE DEF U, h
  <2>3. g[U] = TakeFrom(g[U \ {Max(U)}], picks[Max(U)])
    BY <1>7, <2>1 DEF Takes
  <2>4. QED
    BY <2>1, <2>2, <2>3
<1>10. g[T] = h[N]
  BY DEF T
<1> HIDE DEF h
<1>11. QED
  BY <1>1, <1>8, <1>9, <1>10

\* All the picks: a batch picked for everything that is left has then nothing
\* in it, or nothing is left.
LEMMA TakeAllGives ==
    ASSUME NEW plan \in Plan, NEW N \in Nat, NEW picks \in [1..N -> Pick]
    PROVE  LET new == TakeAll(plan, picks)
           IN  /\ Gave(plan, new)
               /\ \A n \in 1..N :
                     picks[n].batch \in 1..Len(plan.rows) /\ picks[n].qty >= plan.left
                     => new.left = 0 \/ new.rows[picks[n].batch].qty <= 0
<1>1. PICK h : /\ h[0] = plan
               /\ \A n \in 1..N : h[n] = TakeFrom(h[n - 1], picks[n])
               /\ TakeAll(plan, picks) = h[N]
  BY TakeAllTurns
<1> DEFINE Done(n) == /\ Gave(plan, h[n])
                      /\ \A m \in 1..n :
                            picks[m].batch \in 1..Len(plan.rows) /\ picks[m].qty >= plan.left
                            => h[n].left = 0 \/ h[n].rows[picks[m].batch].qty <= 0
           P == {n \in Nat : n <= N => Done(n)}
<1>2. 0 \in P
  <2>1. Gave(plan, h[0])
    BY <1>1, GaveNothing
  <2>2. Done(0)
    BY <2>1
  <2> HIDE DEF Done
  <2>3. QED
    BY <2>2
<1>3. ASSUME NEW n \in Nat, n \in P PROVE n + 1 \in P
  <2> SUFFICES ASSUME n + 1 <= N PROVE Done(n + 1)
    OBVIOUS
  <2> DEFINE was == h[n]
             now == h[n + 1]
             k == picks[n + 1]
  <2>1. Done(n)
    <3> HIDE DEF Done
    <3>1. n <= N
      OBVIOUS
    <3>2. QED
      BY <1>3, <3>1
  <2>2. /\ Gave(plan, was)
        /\ \A m \in 1..n :
              picks[m].batch \in 1..Len(plan.rows) /\ picks[m].qty >= plan.left
              => was.left = 0 \/ was.rows[picks[m].batch].qty <= 0
    BY <2>1
  <2>3. now = TakeFrom(was, k) /\ k \in Pick /\ n + 1 \in 1..N
    <3>1. n + 1 \in 1..N /\ (n + 1) - 1 = n
      OBVIOUS
    <3>2. QED
      BY <1>1, <3>1
  <2> SUFFICES /\ Gave(plan, now)
               /\ \A m \in 1..(n + 1) :
                     picks[m].batch \in 1..Len(plan.rows) /\ picks[m].qty >= plan.left
                     => now.left = 0 \/ now.rows[picks[m].batch].qty <= 0
    OBVIOUS
  <2> HIDE DEF was, now
  <2>4. was \in Plan /\ was.left <= plan.left /\ Len(was.rows) = Len(plan.rows)
    BY <2>2 DEF Gave
  <2>5. /\ Gave(was, now)
        /\ k.batch \in 1..Len(was.rows) /\ k.qty >= was.left
           => now.left = 0 \/ now.rows[k.batch].qty <= 0
    BY <2>3, <2>4, TakeFromGives
  <2>6. now \in Plan /\ now.left <= was.left /\ Len(now.rows) = Len(was.rows)
    BY <2>5 DEF Gave
  <2>7. Gave(plan, now)
    BY <2>2, <2>4, <2>5, <2>6, GaveMore
  <2>8. ASSUME NEW m \in 1..(n + 1),
               picks[m].batch \in 1..Len(plan.rows), picks[m].qty >= plan.left
        PROVE  now.left = 0 \/ now.rows[picks[m].batch].qty <= 0
    <3> DEFINE b == picks[m].batch
    <3>1. plan.left \in Nat /\ was.left \in Nat /\ now.left \in Nat /\ now.left <= was.left
      BY <2>4, <2>6, PlanHas
    <3>2. m \in 1..N
      OBVIOUS
    <3>3. b \in 1..Len(was.rows) /\ picks[m].qty \in Nat
      BY <2>4, <2>8, <3>2 DEF Pick
    <3>4. CASE m = n + 1
      <4>1. picks[m].qty >= was.left
        BY <2>4, <2>8, <3>1, <3>3
      <4>2. QED
        BY <2>5, <3>3, <3>4, <4>1
    <3>5. CASE m # n + 1
      <4>1. m \in 1..n
        BY <3>5
      <4>2. was.left = 0 \/ was.rows[b].qty <= 0
        BY <2>2, <2>8, <4>1
      <4> HIDE DEF b
      <4>3. now.rows[b].qty <= was.rows[b].qty
        BY <2>5, <3>3 DEF Gave
      <4>4. now.rows[b].qty \in Int /\ was.rows[b].qty \in Int
        BY <2>4, <2>6, <3>3, PlanHas
      <4>5. now.left = 0 \/ now.rows[b].qty <= 0
        BY <3>1, <4>2, <4>3, <4>4
      <4>6. QED
        BY <4>5 DEF b
    <3>6. QED
      BY <3>4, <3>5
  <2>9. QED
    BY <2>7, <2>8
<1>4. Done(N)
  <2>1. N \in P
    <3> HIDE DEF P
    <3>1. QED
      BY <1>2, <1>3, NatSetInduction
  <2> HIDE DEF Done
  <2>2. QED
    BY <2>1
<1>5. QED
  BY <1>1, <1>4

\* A send's parts are its units, out of the batches, and only those no batch
\* could give are out of none.
LEMMA PlanSendPlans ==
    ASSUME NEW rows, Shelf(rows), NEW picks \in Seq(Pick), NEW qty \in Units \ {0}
    PROVE  LET plan == PlanSend(rows, picks, qty)
           IN  /\ Shelf(plan.rows) /\ Kept(rows, plan.rows) /\ Len(plan.rows) = Len(rows)
               /\ plan.parts \in Seq(Part) /\ Sourced(plan.parts, rows)
               /\ Held(plan.parts, 1..Never) = qty
               /\ \E none \in Nat :
                     /\ Total(rows) >= qty => none = 0
                     /\ \A days : Held(plan.rows, days) + Held(plan.parts, days)
                                  = Held(rows, days) + IF Never \in days THEN none ELSE 0
<1> DEFINE start == [rows |-> rows, left |-> qty, parts |-> <<>>]
           picked == TakeAll(start, picks)
           order == TakeOrder(picked.rows, 0)
           all == [n \in DOMAIN order |-> [batch |-> order[n], qty |-> qty]]
           last == TakeAll(picked, all)
           some == {i \in DOMAIN picked.rows : picked.rows[i].qty > 0}
           C == Cardinality(some)
           N == Len(rows)
           rest == PartOfNone(last.left)
           parts == last.parts \o IF last.left > 0 THEN <<rest>> ELSE <<>>
           plan == PlanSend(rows, picks, qty)
<1>1. plan = [parts |-> parts, rows |-> last.rows]
  BY DEF PlanSend
<1> HIDE DEF plan
<1>2. /\ MaxQty \in Nat /\ Never \in Nat \ {0} /\ qty \in Nat \ {0} /\ qty <= MaxQty
      /\ rows \in Seq(Batch) /\ N \in Nat /\ \A i \in 1..N : rows[i].expiry \in 1..Never
  <2>1. MaxQty \in Nat /\ Never \in Nat \ {0} /\ rows \in Seq(Batch)
    BY TransfersAssumption DEF Shelf
  <2>2. qty \in Nat \ {0} /\ qty <= MaxQty
    BY <2>1 DEF Units
  <2>3. \A b \in Batch : b.expiry \in 1..Never
    BY DEF Batch
  <2>4. QED
    BY <2>1, <2>2, <2>3
<1>3. /\ start \in Plan
      /\ start.rows = rows /\ start.left = qty /\ start.parts = <<>>
  <2>1. <<>> \in Seq(Part)
    OBVIOUS
  <2>2. QED
    BY <1>2, <2>1 DEF Plan
<1> HIDE DEF start
<1>4. Gave(start, picked) /\ picked \in Plan
  <2>1. Len(picks) \in Nat /\ picks \in [1..Len(picks) -> Pick]
    OBVIOUS
  <2>2. Gave(start, picked)
    BY <1>3, <2>1, TakeAllGives
  <2>3. QED
    BY <2>2 DEF Gave
<1> HIDE DEF picked
<1>5. /\ picked.left <= qty /\ picked.left \in Nat
      /\ picked.rows \in Seq(Batch) /\ Len(picked.rows) = N /\ DOMAIN picked.rows = 1..N
      /\ \A i \in 1..N : picked.rows[i].qty \in Int
      /\ IsFiniteSet(DOMAIN picked.rows)
  <2>1. picked.left <= qty /\ Len(picked.rows) = N
    BY <1>3, <1>4 DEF Gave
  <2>2. QED
    BY <1>4, <2>1, PlanHas
<1>6. Lists(order, some) /\ C \in Nat
  <2>1. Lists(order, some)
    BY <1>2, <1>5, TakeOrderLists
  <2>2. IsFiniteSet(some)
    BY <1>5, FS_Subset
  <2>3. QED
    BY <2>1, <2>2, FS_CardinalityType
<1>7. /\ order \in [1..C -> some] /\ some \subseteq 1..N
      /\ \A i \in some : \E n \in 1..C : order[n] = i
  <2>1. order \in [1..C -> some] /\ \A i \in some : \E n \in DOMAIN order : order[n] = i
    BY <1>6 DEF Lists
  <2>2. some \subseteq 1..N
    BY <1>5
  <2> HIDE DEF order, some, C
  <2>3. QED
    BY <2>1, <2>2
<1>8. \A i \in 1..N : i \in some \/ picked.rows[i].qty <= 0
  BY <1>5
<1> HIDE DEF order, some, C
<1>9. all \in [1..C -> Pick] /\ \A n \in 1..C : all[n].batch = order[n] /\ all[n].qty = qty
  <2>1. DOMAIN order = 1..C /\ \A n \in 1..C : order[n] \in Nat \ {0}
    <3>1. \A i \in 1..N : i \in Nat \ {0}
      BY <1>2
    <3> HIDE DEF N
    <3>2. QED
      BY <1>7, <3>1
  <2>2. \A n \in 1..C : [batch |-> order[n], qty |-> qty] \in Pick
    BY <1>2, <2>1 DEF Pick
  <2>3. QED
    BY <2>1, <2>2
<1> HIDE DEF all
<1>10. /\ Gave(picked, last)
       /\ \A n \in 1..C :
             all[n].batch \in 1..Len(picked.rows) /\ all[n].qty >= picked.left
             => last.left = 0 \/ last.rows[all[n].batch].qty <= 0
  BY <1>4, <1>6, <1>9, TakeAllGives
<1> HIDE DEF last
<1>11. last \in Plan /\ Gave(start, last)
  <2>1. last \in Plan
    BY <1>10 DEF Gave
  <2>2. QED
    BY <1>3, <1>4, <1>10, <2>1, GaveMore
<1>12. /\ last.left \in Nat /\ last.left <= MaxQty
       /\ Shelf(last.rows) /\ Len(last.rows) = N /\ Kept(rows, last.rows)
       /\ last.parts \in Seq(Part) /\ Sourced(last.parts, last.rows)
       /\ DOMAIN last.rows = 1..N /\ IsFiniteSet(DOMAIN last.rows)
       /\ \A i \in 1..N : last.rows[i].qty \in Int
  <2>1. Sourced(<<>>, rows)
    BY DEF Sourced
  <2>2. Sourced(last.parts, last.rows) /\ Shelf(last.rows) /\ Len(last.rows) = N
        /\ Kept(rows, last.rows)
    BY <1>3, <1>11, <2>1 DEF Gave
  <2>3. /\ last.left \in Nat /\ last.left <= MaxQty
        /\ last.parts \in Seq(Part)
        /\ DOMAIN last.rows = 1..Len(last.rows) /\ IsFiniteSet(DOMAIN last.rows)
        /\ \A i \in 1..Len(last.rows) : last.rows[i].qty \in Int
    BY <1>11, PlanHas
  <2> HIDE DEF N
  <2>4. QED
    BY <2>2, <2>3
<1>13. /\ Held(last.parts, 1..Never) \in Int
       /\ last.left + Held(last.parts, 1..Never) = qty
       /\ \A days : /\ Held(last.rows, days) + Held(last.parts, days) = Held(rows, days)
                    /\ Held(last.rows, days) \in Int /\ Held(last.parts, days) \in Int
                    /\ Held(rows, days) \in Int
  <2>1. \A days : Held(<<>>, days) = 0
    <3> TAKE days
    <3>1. DOMAIN HeldOf(<<>>, days) = {}
      BY DEF HeldOf
    <3> DEFINE h == HeldOf(<<>>, days)
    <3> HIDE DEF h
    <3>2. SumFunction(h) = 0
      BY <3>1, TotalEmpty DEF h
    <3>3. QED
      BY <3>2 DEF Held, h
  <2>2. last.left + Held(last.parts, 1..Never) = qty + 0
    BY <1>3, <1>11, <2>1 DEF Gave
  <2>3. \A days : Held(last.rows, days) + Held(last.parts, days) = Held(rows, days) + 0
    BY <1>3, <1>11, <2>1 DEF Gave
  <2>4. \A days : /\ Held(last.rows, days) \in Int /\ Held(last.parts, days) \in Int
                  /\ Held(rows, days) \in Int
    BY <1>3, <1>11, PlanHas
  <2>5. QED
    BY <1>2, <1>12, <2>2, <2>3, <2>4
<1>14. Total(rows) >= qty => last.left = 0
  <2> SUFFICES ASSUME Total(rows) >= qty, last.left # 0 PROVE FALSE
    OBVIOUS
  <2>1. \A i \in 1..N : last.rows[i].qty = 0
    <3> SUFFICES ASSUME NEW i \in 1..N PROVE last.rows[i].qty = 0
      OBVIOUS
    <3>1. last.rows[i].qty \in Int /\ last.rows[i].qty >= 0
      BY <1>12 DEF Shelf
    <3>2. CASE i \in some
      <4>1. PICK n \in 1..C : order[n] = i
        BY <1>7, <3>2
      <4>2. all[n].batch = i /\ all[n].qty = qty
        BY <1>9, <4>1
      <4>3. last.left = 0 \/ last.rows[i].qty <= 0
        BY <1>5, <1>10, <4>2
      <4>4. QED
        BY <3>1, <4>3
    <3>3. CASE picked.rows[i].qty <= 0
      <4>1. last.rows[i].qty <= picked.rows[i].qty
        BY <1>5, <1>10 DEF Gave
      <4>2. QED
        BY <1>5, <3>1, <3>3, <4>1
    <3>4. QED
      BY <1>8, <3>2, <3>3
  <2>2. Held(last.rows, 1..Never) = 0
    <3> DEFINE h == HeldOf(last.rows, 1..Never)
    <3>1. DOMAIN h = DOMAIN last.rows /\ \A i \in DOMAIN h : h[i] = 0
      BY <1>12, <2>1 DEF HeldOf
    <3> HIDE DEF h
    <3>2. SumFunction(h) = 0
      BY <1>12, <3>1, TotalZero
    <3>3. QED
      BY <3>2 DEF Held, h
  <2>3. Held(rows, 1..Never) = Total(rows)
    <3>1. DOMAIN rows = 1..N
      BY <1>2
    <3>2. QED
      BY <1>2, <3>1, HeldInAll
  <2>4. Held(last.parts, 1..Never) = Total(rows)
    BY <1>13, <2>2, <2>3
  <2>5. QED
    BY <1>2, <1>12, <1>13, <2>4
<1>15. Sourced(last.parts, rows)
  BY <1>12 DEF Sourced, Kept
<1>16. \A x \in Part : x.qty \in Int
  BY <1>2 DEF Part, Units
<1>17. /\ parts \in Seq(Part) /\ Sourced(parts, rows)
       /\ \A days : Held(parts, days)
                    = Held(last.parts, days) + IF Never \in days THEN last.left ELSE 0
  <2>1. CASE last.left = 0
    <3>1. parts = last.parts
      BY <1>12, <2>1
    <3> HIDE DEF parts
    <3>2. QED
      BY <1>12, <1>13, <1>15, <2>1, <3>1
  <2>2. CASE last.left # 0
    <3>1. parts = Append(last.parts, rest)
      <4>1. last.left > 0
        BY <1>12, <2>2
      <4>2. last.parts \o <<rest>> = Append(last.parts, rest)
        BY <1>12
      <4>3. QED
        BY <4>1, <4>2
    <3>2. /\ rest \in Part /\ rest.expiry = Never /\ rest.qty = last.left
          /\ rest.plain /\ rest.source = 0
      BY <1>2, <1>12, <2>2 DEF PartOfNone, Part, Units
    <3> DEFINE old == last.parts
    <3>3. old \in Seq(Part) /\ Sourced(old, rows)
      BY <1>12, <1>15
    <3> HIDE DEF parts, rest
    <3>4. \A days : Held(parts, days)
                    = Held(old, days) + IF Never \in days THEN last.left ELSE 0
      <4> HIDE DEF old
      <4>1. \A days : Held(Append(old, rest), days)
                      = Held(old, days) + IF rest.expiry \in days THEN rest.qty ELSE 0
        BY <1>16, <3>2, <3>3, HeldAppended
      <4>2. QED
        BY <3>1, <3>2, <4>1 DEF old
    <3> HIDE DEF old
    <3>5. parts = Append(old, rest)
      BY <3>1 DEF old
    <3>6. parts \in Seq(Part)
      BY <3>2, <3>3, <3>5
    <3>7. Sourced(parts, rows)
      <4>1. /\ Len(old) \in Nat /\ DOMAIN old = 1..Len(old)
            /\ DOMAIN parts = 1..(Len(old) + 1) /\ parts[Len(old) + 1] = rest
            /\ \A n \in 1..Len(old) : parts[n] = old[n]
        BY <3>2, <3>3, <3>5
      <4> SUFFICES ASSUME NEW n \in DOMAIN parts
                   PROVE  /\ parts[n].plain => parts[n].expiry = Never
                          /\ parts[n].source = 0 => parts[n].plain
                          /\ parts[n].source # 0
                             => /\ parts[n].source \in 1..Len(rows)
                                /\ parts[n].expiry = rows[parts[n].source].expiry
        BY DEF Sourced
      <4>2. CASE n = Len(old) + 1
        BY <3>2, <4>1, <4>2
      <4>3. CASE n # Len(old) + 1
        <5>1. n \in DOMAIN old /\ parts[n] = old[n]
          BY <4>1, <4>3
        <5>2. QED
          BY <3>3, <5>1 DEF Sourced
      <4>4. QED
        BY <4>2, <4>3
    <3>8. QED
      BY <3>4, <3>6, <3>7 DEF old
  <2>3. QED
    BY <2>1, <2>2
<1> HIDE DEF parts
<1>18. Held(parts, 1..Never) = qty
  <2>1. Never \in 1..Never
    BY <1>2
  <2>2. Held(parts, 1..Never) = Held(last.parts, 1..Never) + last.left
    BY <1>17, <2>1
  <2>3. QED
    BY <1>12, <1>13, <2>2
<1>19. \A days : Held(last.rows, days) + Held(parts, days)
                 = Held(rows, days) + IF Never \in days THEN last.left ELSE 0
  <2> TAKE days
  <2> DEFINE d == IF Never \in days THEN last.left ELSE 0
  <2>1. d \in Int
    BY <1>12
  <2>2. Held(parts, days) = Held(last.parts, days) + d
    BY <1>17
  <2> HIDE DEF d
  <2>3. Held(last.rows, days) + Held(parts, days) = Held(rows, days) + d
    BY <1>13, <2>1, <2>2
  <2>4. QED
    BY <2>3 DEF d
<1>20. plan.parts = parts /\ plan.rows = last.rows
  BY <1>1
<1>21. QED
  BY <1>12, <1>14, <1>17, <1>18, <1>19, <1>20 DEF plan

----------------------------------------------------------------------------
(***************************************************************************)
(* Which parts a share of the units stands for.                            *)
(***************************************************************************)
LEMMA PartsHave ==
    ASSUME NEW parts \in Seq(Part)
    PROVE  /\ Len(parts) \in Nat /\ DOMAIN parts = 1..Len(parts)
           /\ IsFiniteSet(DOMAIN parts) /\ DOMAIN parts \subseteq Int
           /\ Cardinality(DOMAIN parts) = Len(parts)
           /\ \A n \in DOMAIN parts :
                 /\ parts[n] \in Part /\ parts[n].qty \in Nat \ {0}
                 /\ parts[n].source \in Nat /\ parts[n].expiry \in 1..Never
                 /\ parts[n].expiry \in Int
<1>1. Len(parts) \in Nat /\ DOMAIN parts = 1..Len(parts)
  OBVIOUS
<1>2. IsFiniteSet(1..Len(parts)) /\ Cardinality(1..Len(parts)) = Len(parts)
  BY <1>1, FS_Interval, SMTT(30)
<1>3. MaxQty \in Nat /\ Never \in Nat
  BY TransfersAssumption
<1>4. \A p \in Part : /\ p.qty \in Nat \ {0} /\ p.source \in Nat
                      /\ p.expiry \in 1..Never /\ p.expiry \in Int
  BY <1>3 DEF Part, Units
<1>5. QED
  BY <1>1, <1>2, <1>4

\* Both orders list each part once, one from the end of the other.
LEMMA Orders ==
    ASSUME NEW parts \in Seq(Part)
    PROVE  LET N == Len(parts)
           IN  /\ Lists(ArrivalOrder(parts), DOMAIN parts)
               /\ Lists(ReturnOrder(parts), DOMAIN parts)
               /\ \A n \in 1..N : ReturnOrder(parts)[n] = ArrivalOrder(parts)[N - n + 1]
<1> DEFINE N == Len(parts)
           D == DOMAIN parts
           a == ArrivalOrder(parts)
           b == ReturnOrder(parts)
<1>1. N \in Nat /\ D = 1..N /\ Cardinality(D) = N
  BY PartsHave
<1>2. Lists(a, D)
  <2>1. IsFiniteSet(D) /\ D \subseteq Int /\ \A n \in D : parts[n].expiry \in Int
    BY PartsHave
  <2>2. QED
    BY <2>1, SortFefoLists DEF ArrivalOrder
<1>3. /\ a \in [1..N -> D] /\ \A m, n \in 1..N : a[m] = a[n] => m = n
      /\ \A i \in D : \E n \in 1..N : a[n] = i
  BY <1>1, <1>2 DEF Lists
<1>4. b = Reverse(a)
  BY DEF ReturnOrder
<1> HIDE DEF a, b, N
<1>5. Len(a) = N
  <2>1. a \in Seq(D)
    BY <1>1, <1>3
  <2>2. QED
    BY <1>1, <1>3, <2>1
<1>6. b = [n \in 1..N |-> a[(N - n) + 1]]
  BY <1>4, <1>5 DEF Reverse
<1>7. \A n \in 1..N : N - n + 1 \in 1..N /\ b[n] = a[N - n + 1]
  BY <1>1, <1>6
<1>8. b \in [1..N -> D]
  BY <1>3, <1>6, <1>7
<1>9. \A m, n \in 1..N : b[m] = b[n] => m = n
  <2> SUFFICES ASSUME NEW m \in 1..N, NEW n \in 1..N, b[m] = b[n] PROVE m = n
    OBVIOUS
  <2>1. N - m + 1 = N - n + 1
    BY <1>3, <1>7
  <2>2. QED
    BY <1>1, <2>1
<1>10. \A i \in D : \E n \in 1..N : b[n] = i
  <2> SUFFICES ASSUME NEW i \in D PROVE \E n \in 1..N : b[n] = i
    OBVIOUS
  <2>1. PICK n \in 1..N : a[n] = i
    BY <1>3
  <2>2. N - n + 1 \in 1..N /\ N - (N - n + 1) + 1 = n
    BY <1>1
  <2>3. b[N - n + 1] = i
    BY <1>7, <2>1, <2>2
  <2>4. QED
    BY <2>2, <2>3
<1>11. Lists(b, D)
  BY <1>1, <1>8, <1>9, <1>10 DEF Lists
<1>12. QED
  BY <1>2, <1>7, <1>11 DEF a, b, N

\* A share is of the first parts in the order.
LEMMA SplitSplits ==
    ASSUME NEW parts \in Seq(Part), NEW order, Lists(order, DOMAIN parts), NEW qty \in Nat
    PROVE  LET units == Split(order, parts, qty)
           IN  /\ units \in [DOMAIN parts -> Nat] /\ SumFunction(units) \in Int
               /\ \A n \in DOMAIN parts : units[n] <= parts[n].qty
               /\ SumFunction(units) <= qty
               /\ qty <= Held(parts, 1..Never) => SumFunction(units) = qty
               /\ \A k, m \in 1..Len(parts) :
                     k < m /\ units[order[m]] > 0 => units[order[k]] = parts[order[k]].qty
<1> DEFINE D == DOMAIN parts
           N == Len(parts)
           available == [n \in D |-> parts[n].qty]
           walk == Walk(order, available, qty)
           units == Split(order, parts, qty)
<1>1. /\ N \in Nat /\ D = 1..N /\ IsFiniteSet(D) /\ Cardinality(D) = N
      /\ \A n \in D : parts[n].qty \in Nat \ {0} /\ parts[n].expiry \in 1..Never
  BY PartsHave
<1>2. units = walk.take
  BY DEF Split
<1>3. /\ DOMAIN available = D
      /\ \A n \in D : available[n] = parts[n].qty /\ available[n] \in Nat
                      /\ Most(0, available[n]) = available[n]
  BY <1>1 DEF Most
<1>4. /\ order \in [1..N -> D] /\ \A m, n \in 1..N : order[m] = order[n] => m = n
      /\ \A i \in D : \E n \in 1..N : order[n] = i
  BY <1>1 DEF Lists
<1> HIDE DEF D, N, available, units
<1>5. Walked(walk, order, available, qty, N)
  <2>1. /\ IsFiniteSet(DOMAIN available) /\ order \in [1..N -> DOMAIN available]
        /\ \A i \in DOMAIN available : available[i] \in Int
    BY <1>1, <1>3, <1>4
  <2>2. N \in Nat /\ \A m, n \in 1..N : order[m] = order[n] => m = n
    BY <1>1, <1>4
  <2>3. QED
    BY <2>1, <2>2, WalkTakes
<1> HIDE DEF walk
<1>6. /\ walk.take \in [D -> Nat] /\ walk.left \in Nat
      /\ SumFunction(walk.take) + walk.left = qty
      /\ \A n \in D : walk.take[n] <= available[n]
      /\ \A m \in 1..N : walk.left > 0 => walk.take[order[m]] = available[order[m]]
      /\ \A k, m \in 1..N : k < m /\ walk.take[order[m]] > 0
                            => walk.take[order[k]] = available[order[k]]
  <2>1. \A m \in 1..N : order[m] \in D
    BY <1>4
  <2>2. QED
    BY <1>3, <1>5, <2>1 DEF Walked
<1>7. SumFunction(units) \in Int
  <2>1. DOMAIN units = D /\ \A n \in D : units[n] \in Int
    BY <1>2, <1>6
  <2>2. QED
    BY <1>1, <2>1, TotalInt
<1>8. SumFunction(units) + walk.left = qty /\ SumFunction(units) <= qty
  BY <1>2, <1>6, <1>7
<1>9. qty <= Held(parts, 1..Never) => SumFunction(units) = qty
  <2> SUFFICES ASSUME qty <= Held(parts, 1..Never), walk.left > 0 PROVE FALSE
    BY <1>6, <1>7, <1>8
  <2>1. \A n \in D : units[n] = available[n]
    BY <1>2, <1>4, <1>6
  <2>2. units = available
    BY <1>2, <1>3, <1>6, <2>1 DEF available
  <2>3. Held(parts, 1..Never) = SumFunction(available)
    <3>1. HeldOf(parts, 1..Never) = available
      BY <1>1 DEF HeldOf, available, D
    <3>2. QED
      BY <3>1 DEF Held
  <2>4. QED
    BY <1>6, <1>7, <1>8, <2>2, <2>3
<1>10. \A k, m \in 1..N : k < m /\ units[order[m]] > 0 => units[order[k]] = parts[order[k]].qty
  <2>1. \A m \in 1..N : order[m] \in D /\ available[order[m]] = parts[order[m]].qty
    BY <1>3, <1>4
  <2>2. QED
    BY <1>2, <1>6, <2>1
<1>11. units \in [D -> Nat] /\ \A n \in D : units[n] <= parts[n].qty
  BY <1>2, <1>3, <1>6
<1>12. QED
  BY <1>7, <1>8, <1>9, <1>10, <1>11 DEF units, D, N

\* What arrives and what goes back are not the same units.
LEMMA NoUnitTwice ==
    ASSUME NEW parts \in Seq(Part), NEW got \in Nat, NEW back \in Nat,
           got + back <= Held(parts, 1..Never)
    PROVE  \A n \in DOMAIN parts :
              Split(ArrivalOrder(parts), parts, got)[n]
              + Split(ReturnOrder(parts), parts, back)[n] <= parts[n].qty
<1> DEFINE D == DOMAIN parts
           N == Len(parts)
           a == ArrivalOrder(parts)
           b == ReturnOrder(parts)
           there == Split(a, parts, got)
           here == Split(b, parts, back)
           both == [i \in D |-> there[i] + here[i]]
           have == [i \in D |-> parts[i].qty]
<1>1. /\ N \in Nat /\ D = 1..N /\ IsFiniteSet(D) /\ Cardinality(D) = N
      /\ \A i \in D : parts[i].qty \in Nat /\ parts[i].expiry \in 1..Never
  BY PartsHave
<1>2. /\ Lists(a, D) /\ Lists(b, D)
      /\ \A n \in 1..N : b[n] = a[N - n + 1]
  BY Orders
<1> HIDE DEF a, b
<1>3. /\ there \in [D -> Nat] /\ SumFunction(there) \in Int /\ SumFunction(there) <= got
      /\ \A k, m \in 1..N : k < m /\ there[a[m]] > 0 => there[a[k]] = parts[a[k]].qty
      /\ \A i \in D : there[i] <= parts[i].qty
  BY <1>2, SplitSplits
<1>4. /\ here \in [D -> Nat] /\ SumFunction(here) \in Int /\ SumFunction(here) <= back
      /\ \A k, m \in 1..N : k < m /\ here[b[m]] > 0 => here[b[k]] = parts[b[k]].qty
      /\ \A i \in D : here[i] <= parts[i].qty
  BY <1>2, SplitSplits
<1> HIDE DEF there, here, N
<1> SUFFICES ASSUME NEW n \in D, there[n] + here[n] > parts[n].qty PROVE FALSE
  <2>1. \A i \in D : there[i] \in Nat /\ here[i] \in Nat /\ parts[i].qty \in Nat
    BY <1>1, <1>3, <1>4
  <2>2. QED
    BY <2>1 DEF there, here, a, b
<1>5. there[n] > 0 /\ here[n] > 0
  <2>1. there[n] \in Nat /\ here[n] \in Nat /\ parts[n].qty \in Nat
        /\ there[n] <= parts[n].qty /\ here[n] <= parts[n].qty
    BY <1>1, <1>3, <1>4
  <2>2. QED
    BY <2>1
<1>6. /\ a \in [1..N -> D] /\ \A i \in D : \E m \in 1..N : a[m] = i
  BY <1>1, <1>2 DEF Lists
<1>7. PICK p \in 1..N : a[p] = n
  BY <1>6
<1>8. \A i \in D : parts[i].qty <= there[i] + here[i]
  <2> SUFFICES ASSUME NEW i \in D PROVE parts[i].qty <= there[i] + here[i]
    OBVIOUS
  <2>1. /\ there[i] \in Nat /\ here[i] \in Nat /\ parts[i].qty \in Nat
        /\ there[n] \in Nat /\ here[n] \in Nat /\ parts[n].qty \in Nat
    BY <1>1, <1>3, <1>4
  <2>2. PICK m \in 1..N : a[m] = i
    BY <1>6
  <2>3. CASE m < p
    <3>1. there[i] = parts[i].qty
      BY <1>3, <1>5, <1>7, <2>2, <2>3
    <3>2. QED
      BY <2>1, <3>1
  <2>4. CASE m = p
    <3>1. i = n
      BY <1>7, <2>2, <2>4
    <3>2. QED
      BY <2>1, <3>1
  <2>5. CASE p < m
    <3> DEFINE q == N - p + 1
               k == N - m + 1
    <3>1. q \in 1..N /\ k \in 1..N /\ k < q /\ N - q + 1 = p /\ N - k + 1 = m
      BY <1>1, <2>5
    <3> HIDE DEF q, k
    <3>2. b[q] = n /\ b[k] = i
      BY <1>2, <1>7, <2>2, <3>1
    <3>3. here[i] = parts[i].qty
      BY <1>4, <1>5, <3>1, <3>2
    <3>4. QED
      BY <2>1, <3>3
  <2>6. QED
    BY <1>1, <2>3, <2>4, <2>5
<1>9. SumFunction(both) = SumFunction(there) + SumFunction(here)
  <2>1. /\ IsFiniteSet(DOMAIN there) /\ DOMAIN here = DOMAIN there /\ DOMAIN both = DOMAIN there
        /\ \A i \in DOMAIN there : /\ there[i] \in Int /\ here[i] \in Int
                                   /\ both[i] = there[i] + here[i]
    BY <1>1, <1>3, <1>4
  <2> HIDE DEF both
  <2>2. QED
    BY <2>1, TotalPlus
<1>10. SumFunction(have) = Held(parts, 1..Never)
  <2>1. HeldOf(parts, 1..Never) = have
    BY <1>1 DEF HeldOf
  <2>2. QED
    BY <2>1 DEF Held
<1>11. SumFunction(have) < SumFunction(both) /\ SumFunction(have) \in Int
  <2> DEFINE mid == [i \in D |-> IF i = n THEN both[n] ELSE have[i]]
  <2>1. \A i \in D : /\ both[i] = there[i] + here[i] /\ both[i] \in Int
                     /\ have[i] = parts[i].qty /\ have[i] \in Int
                     /\ have[i] <= both[i]
    BY <1>1, <1>3, <1>4, <1>8, SMTT(30)
  <2>2. have[n] < both[n]
    BY <1>1, <1>3, <1>4
  <2>3. DOMAIN both = D /\ DOMAIN have = D
    OBVIOUS
  <2> HIDE DEF both, have
  <2>4. /\ DOMAIN mid = D /\ mid[n] = both[n]
        /\ \A i \in D : i # n => have[i] = mid[i]
        /\ \A i \in D : mid[i] \in Int /\ mid[i] <= both[i]
    BY <2>1
  <2> HIDE DEF mid, D
  <2>5. SumFunction(mid) = SumFunction(have) + (mid[n] - have[n])
    <3>1. /\ IsFiniteSet(DOMAIN have) /\ DOMAIN mid = DOMAIN have /\ n \in DOMAIN have
          /\ \A i \in DOMAIN have : have[i] \in Int /\ mid[i] \in Int
          /\ \A i \in DOMAIN have : i # n => have[i] = mid[i]
      BY <1>1, <2>1, <2>3, <2>4
    <3>2. QED
      BY <3>1, TotalChanged
  <2>6. SumFunction(mid) <= SumFunction(both)
    <3>1. /\ IsFiniteSet(DOMAIN mid) /\ DOMAIN both = DOMAIN mid
          /\ \A i \in DOMAIN mid : mid[i] \in Int /\ both[i] \in Int /\ mid[i] <= both[i]
      BY <1>1, <2>1, <2>3, <2>4
    <3>2. QED
      BY <3>1, TotalAtLeast
  <2>7. SumFunction(mid) \in Int /\ SumFunction(have) \in Int /\ SumFunction(both) \in Int
    <3>1. \A i \in DOMAIN have : have[i] \in Int
      BY <2>1, <2>3
    <3>2. \A i \in DOMAIN mid : mid[i] \in Int
      BY <2>4
    <3>3. \A i \in DOMAIN both : both[i] \in Int
      BY <2>1, <2>3
    <3>4. QED
      BY <1>1, <2>3, <2>4, <3>1, <3>2, <3>3, TotalInt
  <2>8. mid[n] \in Int /\ have[n] \in Int /\ both[n] \in Int
    BY <2>1, <2>4
  <2>9. QED
    BY <2>2, <2>4, <2>5, <2>6, <2>7, <2>8
<1> HIDE DEF both, have
<1>12. QED
  BY <1>3, <1>4, <1>9, <1>10, <1>11

----------------------------------------------------------------------------
(***************************************************************************)
(* Into the batches of a branch.                                           *)
(***************************************************************************)

\* Of these expiry dates the opening batch has what has no expiry date.
OpeningIn(rows, days) ==
    \A i \in DOMAIN rows : rows[i].opening => (rows[i].expiry \in days <=> Never \in days)

\* What the batches of a branch may become, of these expiry dates.
Shelves(rows, days) ==
    {new \in Seq(Batch) : Shelf(new) /\ Kept(rows, new) /\ OpeningIn(new, days)}

LEMMA ShelfHas ==
    ASSUME NEW rows, Shelf(rows)
    PROVE  /\ rows \in Seq(Batch) /\ Len(rows) \in Nat /\ DOMAIN rows = 1..Len(rows)
           /\ IsFiniteSet(DOMAIN rows) /\ Never \in Nat \ {0}
           /\ \A i \in 1..Len(rows) : /\ rows[i] \in Batch /\ rows[i].qty \in Int /\ rows[i].qty >= 0
                                      /\ rows[i].expiry \in 1..Never
           /\ \A days : Held(rows, days) \in Int
           /\ Held(rows, 1..Never) = Total(rows)
<1>1. /\ rows \in Seq(Batch) /\ Never \in Nat \ {0}
      /\ \A i \in DOMAIN rows : rows[i].qty >= 0
  BY TransfersAssumption DEF Shelf
<1>2. /\ Len(rows) \in Nat /\ DOMAIN rows = 1..Len(rows) /\ IsFiniteSet(DOMAIN rows)
      /\ \A i \in DOMAIN rows : rows[i] \in Batch
  BY <1>1, ShelfParts
<1>3. \A b \in Batch : b.qty \in Int /\ b.expiry \in 1..Never
  BY DEF Batch
<1>4. \A days : Held(rows, days) \in Int
  BY <1>2, <1>3, HeldIsInt
<1>5. Held(rows, 1..Never) = Total(rows)
  BY <1>2, <1>3, HeldInAll
<1>6. QED
  BY <1>1, <1>2, <1>3, <1>4, <1>5

\* One batch has more.
LEMMA BatchGets ==
    ASSUME NEW days, NEW base, NEW rows \in Shelves(base, days),
           NEW b \in 1..Len(rows), NEW q \in Nat
    PROVE  LET new == [rows EXCEPT ![b].qty = @ + q]
           IN  /\ new \in Shelves(base, days)
               /\ Held(new, days) = Held(rows, days) + IF rows[b].expiry \in days THEN q ELSE 0
<1> DEFINE new == [rows EXCEPT ![b].qty = @ + q]
           N == Len(rows)
           one == rows[b]
           more == [one EXCEPT !.qty = @ + q]
<1>1. Shelf(rows) /\ Kept(base, rows) /\ OpeningIn(rows, days)
  BY DEF Shelves
<1>2. /\ rows \in Seq(Batch) /\ N \in Nat /\ DOMAIN rows = 1..N /\ IsFiniteSet(DOMAIN rows)
      /\ \A i \in 1..N : /\ rows[i] \in Batch /\ rows[i].qty \in Int /\ rows[i].qty >= 0
  BY <1>1, ShelfHas
<1>3. new = [rows EXCEPT ![b] = more]
  OBVIOUS
<1>4. one \in Batch /\ one.qty \in Int /\ one.qty >= 0
  BY <1>2
<1> HIDE DEF new, N, one
<1>5. /\ more \in Batch /\ more.qty = one.qty + q
      /\ more.expiry = one.expiry /\ more.opening = one.opening
  BY <1>4, BatchMoved
<1> HIDE DEF more
<1>6. /\ new \in [1..N -> Batch]
      /\ new[b] = more /\ \A i \in 1..N : i # b => new[i] = rows[i]
  BY <1>2, <1>3, <1>5 DEF N
<1>7. new \in Seq(Batch) /\ Len(new) = N /\ DOMAIN new = 1..N
  BY <1>2, <1>6
<1>8. \A i \in 1..N : /\ new[i].qty \in Int /\ new[i].qty >= 0
                      /\ new[i].expiry = rows[i].expiry /\ new[i].opening = rows[i].opening
                      /\ i # b => new[i].qty = rows[i].qty
  <2> SUFFICES ASSUME NEW i \in 1..N
               PROVE  /\ new[i].qty \in Int /\ new[i].qty >= 0
                      /\ new[i].expiry = rows[i].expiry /\ new[i].opening = rows[i].opening
                      /\ i # b => new[i].qty = rows[i].qty
    OBVIOUS
  <2>1. CASE i = b
    <3>1. new[i] = more /\ rows[i] = one
      BY <1>6, <2>1 DEF one
    <3>2. QED
      BY <1>4, <1>5, <2>1, <3>1
  <2>2. CASE i # b
    <3>1. new[i] = rows[i]
      BY <1>6, <2>2
    <3>2. QED
      BY <1>2, <3>1
  <2>3. QED
    BY <2>1, <2>2
<1>9. Shelf(new) /\ OpeningIn(new, days)
  BY <1>1, <1>2, <1>7, <1>8 DEF Shelf, OpeningIn
<1>10. Kept(base, new)
  <2>1. /\ Len(base) <= N
        /\ \A i \in 1..Len(base) : /\ rows[i].expiry = base[i].expiry
                                   /\ rows[i].opening = base[i].opening
    BY <1>1 DEF Kept, N
  <2>2. ASSUME NEW i \in 1..Len(base)
        PROVE  new[i].expiry = base[i].expiry /\ new[i].opening = base[i].opening
    <3>1. i \in 1..N
      BY <1>2, <2>1, <2>2, SMT
    <3>2. QED
      BY <1>8, <2>1, <3>1
  <2>3. QED
    BY <1>7, <2>1, <2>2 DEF Kept
<1>11. Held(new, days) = Held(rows, days) + IF one.expiry \in days THEN q ELSE 0
  <2>1. /\ DOMAIN new = DOMAIN rows /\ b \in DOMAIN rows
        /\ \A i \in DOMAIN rows : rows[i].qty \in Int /\ new[i].qty \in Int
                                  /\ new[i].expiry = rows[i].expiry
        /\ \A i \in DOMAIN rows : i # b => new[i].qty = rows[i].qty
    BY <1>2, <1>7, <1>8 DEF N
  <2>2. Held(new, days)
        = Held(rows, days) + IF rows[b].expiry \in days THEN new[b].qty - rows[b].qty ELSE 0
    <3>1. IsFiniteSet(DOMAIN rows)
      BY <1>2
    <3>2. QED
      BY <2>1, <3>1, HeldChanged
  <2>3. new[b].qty - rows[b].qty = q
    BY <1>4, <1>5, <1>6 DEF one
  <2>4. QED
    BY <2>2, <2>3 DEF one
<1>12. QED
  BY <1>7, <1>9, <1>10, <1>11 DEF Shelves, new, one

\* A new batch.
LEMMA BatchComes ==
    ASSUME NEW days, NEW base, Len(base) \in Nat, NEW rows \in Shelves(base, days), NEW one \in Batch,
           one.qty >= 0, one.opening => (one.expiry \in days <=> Never \in days)
    PROVE  LET new == Append(rows, one)
           IN  /\ new \in Shelves(base, days)
               /\ Held(new, days) = Held(rows, days) + IF one.expiry \in days THEN one.qty ELSE 0
<1> DEFINE new == Append(rows, one)
           N == Len(rows)
<1>1. Shelf(rows) /\ Kept(base, rows) /\ OpeningIn(rows, days)
  BY DEF Shelves
<1>2. /\ rows \in Seq(Batch) /\ N \in Nat /\ DOMAIN rows = 1..N
      /\ \A i \in 1..N : rows[i].qty >= 0
  BY <1>1, ShelfHas
<1>3. /\ new \in Seq(Batch) /\ Len(new) = N + 1 /\ DOMAIN new = 1..(N + 1) /\ new[N + 1] = one
      /\ \A i \in 1..N : new[i] = rows[i]
  BY <1>2
<1> HIDE DEF new, N
<1>4. Shelf(new) /\ OpeningIn(new, days)
  <2>1. \A i \in 1..(N + 1) : i = N + 1 \/ i \in 1..N
    BY <1>2
  <2>2. \A i \in 1..(N + 1) :
            /\ new[i].qty >= 0
            /\ new[i].opening => (new[i].expiry \in days <=> Never \in days)
    BY <1>1, <1>2, <1>3, <2>1 DEF OpeningIn
  <2>3. QED
    BY <1>3, <2>2 DEF Shelf, OpeningIn
<1>5. Kept(base, new)
  <2>1. Len(base) <= N /\ \A i \in 1..Len(base) : i \in 1..N
    BY <1>1, <1>2 DEF Kept, N
  <2>2. QED
    BY <1>1, <1>2, <1>3, <2>1 DEF Kept
<1>6. Held(new, days) = Held(rows, days) + IF one.expiry \in days THEN one.qty ELSE 0
  <2>1. \A b \in Batch : b.qty \in Int
    BY DEF Batch
  <2>2. QED
    BY <1>2, <2>1, HeldAppended DEF new
<1>7. QED
  BY <1>3, <1>4, <1>5, <1>6 DEF Shelves, new

LEMMA OpeningGets ==
    ASSUME NEW days, NEW base, Len(base) \in Nat, NEW rows \in Shelves(base, days), NEW q \in Nat
    PROVE  LET new == AddToOpening(rows, q)
           IN  /\ new \in Shelves(base, days)
               /\ Held(new, days) = Held(rows, days) + IF Never \in days THEN q ELSE 0
<1> DEFINE new == AddToOpening(rows, q)
           one == [qty |-> q, expiry |-> Never, opening |-> TRUE]
           o == CHOOSE i \in Opening(rows) : TRUE
<1>1. Shelf(rows) /\ OpeningIn(rows, days)
  BY DEF Shelves
<1>2. /\ Held(rows, days) \in Int /\ DOMAIN rows = 1..Len(rows) /\ Never \in Nat \ {0}
  BY <1>1, ShelfHas
<1>3. CASE q <= 0
  <2>1. new = rows /\ q = 0
    BY <1>3 DEF AddToOpening
  <2> HIDE DEF new
  <2>2. Held(new, days) = Held(rows, days) + IF Never \in days THEN q ELSE 0
    BY <1>2, <2>1
  <2>3. QED
    BY <2>1, <2>2 DEF new
<1>4. CASE ~(q <= 0) /\ Opening(rows) # {}
  <2>1. o \in Opening(rows)
    BY <1>4
  <2>2. new = [rows EXCEPT ![o].qty = @ + q]
    BY <1>4 DEF AddToOpening
  <2> HIDE DEF o, new
  <2>3. o \in 1..Len(rows) /\ (rows[o].expiry \in days <=> Never \in days)
    BY <1>1, <1>2, <2>1 DEF Opening, OpeningIn
  <2>4. /\ new \in Shelves(base, days)
        /\ Held(new, days) = Held(rows, days) + IF rows[o].expiry \in days THEN q ELSE 0
    BY <2>2, <2>3, BatchGets
  <2>5. QED
    BY <2>3, <2>4 DEF new
<1>5. CASE ~(q <= 0) /\ Opening(rows) = {}
  <2>1. new = Append(rows, one)
    BY <1>5 DEF AddToOpening
  <2>2. /\ one \in Batch /\ one.qty = q /\ one.qty >= 0 /\ one.expiry = Never
    BY <1>2 DEF Batch
  <2> HIDE DEF new, one
  <2>3. /\ new \in Shelves(base, days)
        /\ Held(new, days) = Held(rows, days) + IF one.expiry \in days THEN one.qty ELSE 0
    BY <2>1, <2>2, BatchComes
  <2>4. QED
    BY <2>2, <2>3 DEF new
<1>6. QED
  BY <1>3, <1>4, <1>5

\* What a receiver's batches get of one part, and a sender's.
LEMMA ArriveOneAdds ==
    ASSUME NEW days, NEW base, Len(base) \in Nat, NEW rows \in Shelves(base, days),
           NEW part \in Part, part.plain => part.expiry = Never, NEW q \in Nat
    PROVE  LET new == ArriveOne(rows, part, q)
           IN  /\ new \in Shelves(base, days)
               /\ Held(new, days) = Held(rows, days) + IF part.expiry \in days THEN q ELSE 0
<1> DEFINE new == ArriveOne(rows, part, q)
           one == [qty |-> q, expiry |-> part.expiry, opening |-> FALSE]
<1>1. CASE q = 0
  <2>1. new = rows
    BY <1>1 DEF ArriveOne
  <2>2. Held(rows, days) \in Int
    BY ShelfHas DEF Shelves
  <2> HIDE DEF new
  <2>3. Held(new, days) = Held(rows, days) + IF part.expiry \in days THEN q ELSE 0
    BY <1>1, <2>1, <2>2
  <2>4. QED
    BY <2>1, <2>3 DEF new
<1>2. CASE q # 0 /\ part.plain
  <2>1. new = AddToOpening(rows, q)
    BY <1>2 DEF ArriveOne
  <2> HIDE DEF new
  <2>2. QED
    BY <1>2, <2>1, OpeningGets DEF new
<1>3. CASE q # 0 /\ ~part.plain
  <2>1. new = Append(rows, one)
    BY <1>3 DEF ArriveOne
  <2>2. one \in Batch /\ one.qty = q /\ one.qty >= 0 /\ one.expiry = part.expiry /\ ~one.opening
    BY DEF Part, Batch
  <2> HIDE DEF new, one
  <2>3. /\ new \in Shelves(base, days)
        /\ Held(new, days) = Held(rows, days) + IF one.expiry \in days THEN one.qty ELSE 0
    BY <2>1, <2>2, BatchComes
  <2>4. QED
    BY <2>2, <2>3 DEF new
<1>4. QED
  BY <1>1, <1>2, <1>3

LEMMA GoBackOneAdds ==
    ASSUME NEW days, NEW base, Len(base) \in Nat, NEW rows \in Shelves(base, days),
           NEW part \in Part, part.plain => part.expiry = Never, NEW q \in Nat,
           part.source = 0 => part.plain,
           part.source # 0 => /\ part.source \in 1..Len(base)
                              /\ part.expiry = base[part.source].expiry
    PROVE  LET new == GoBackOne(rows, part, q)
           IN  /\ new \in Shelves(base, days)
               /\ Held(new, days) = Held(rows, days) + IF part.expiry \in days THEN q ELSE 0
<1> DEFINE new == GoBackOne(rows, part, q)
<1>1. CASE part.source = 0
  <2>1. new = AddToOpening(rows, q) /\ part.expiry = Never
    BY <1>1 DEF GoBackOne
  <2> HIDE DEF new
  <2>2. QED
    BY <2>1, OpeningGets DEF new
<1>2. CASE part.source # 0
  <2> DEFINE b == part.source
  <2>1. new = [rows EXCEPT ![b].qty = @ + q]
    BY <1>2 DEF GoBackOne
  <2>2. b \in 1..Len(base) /\ part.expiry = base[b].expiry
    BY <1>2
  <2> HIDE DEF new, b
  <2>3. Kept(base, rows) /\ Len(rows) \in Nat
    BY ShelfHas DEF Shelves
  <2>4. b \in 1..Len(rows) /\ rows[b].expiry = part.expiry
    BY <2>2, <2>3 DEF Kept
  <2>5. /\ new \in Shelves(base, days)
        /\ Held(new, days) = Held(rows, days) + IF rows[b].expiry \in days THEN q ELSE 0
    <3>1. LET some == [rows EXCEPT ![b].qty = @ + q]
          IN  /\ some \in Shelves(base, days)
              /\ Held(some, days) = Held(rows, days) + IF rows[b].expiry \in days THEN q ELSE 0
      BY <2>4, BatchGets
    <3>2. QED
      BY <2>1, <3>1
  <2>6. QED
    BY <2>4, <2>5 DEF new
<1>3. QED
  BY <1>1, <1>2

----------------------------------------------------------------------------
\* Of a share, the units of some expiry dates.
ShareOf(parts, units, days) ==
    [n \in DOMAIN parts |-> IF parts[n].expiry \in days THEN units[n] ELSE 0]

Share(parts, units, days) == SumFunction(ShareOf(parts, units, days))

\* A loop over the parts that adds each part's share.
ShareByShare(h, rows, parts, units, order, days) ==
    /\ h[0] = rows
    /\ \A n \in 1..Len(parts) :
          /\ h[n] \in Shelves(rows, days)
          /\ Held(h[n], days) = Held(h[n - 1], days)
                                + IF parts[order[n]].expiry \in days THEN units[order[n]] ELSE 0

\* It adds the share.
LEMMA SharesAdd ==
    ASSUME NEW parts \in Seq(Part), NEW units \in [DOMAIN parts -> Nat],
           NEW order, Lists(order, DOMAIN parts), NEW days,
           NEW base, Shelf(base), OpeningIn(base, days),
           NEW h, ShareByShare(h, base, parts, units, order, days)
    PROVE  /\ h[Len(parts)] \in Shelves(base, days)
           /\ Share(parts, units, days) \in Int
           /\ Held(h[Len(parts)], days) = Held(base, days) + Share(parts, units, days)
<1> DEFINE N == Len(parts)
           D == DOMAIN parts
           f == ShareOf(parts, units, days)
           R(n) == {order[m] : m \in 1..n}
           P == {n \in Nat : n <= N => Held(h[n], days) = Held(base, days) + Sum(f, R(n))}
<1>1. /\ N \in Nat /\ D = 1..N /\ IsFiniteSet(D) /\ Cardinality(D) = N
      /\ Held(base, days) \in Int
  BY PartsHave, ShelfHas
<1>2. /\ order \in [1..N -> D] /\ \A m, n \in 1..N : order[m] = order[n] => m = n
      /\ \A i \in D : \E n \in 1..N : order[n] = i
  BY <1>1 DEF Lists
<1>3. DOMAIN f = D /\ \A i \in D : f[i] \in Int
  BY DEF ShareOf
<1>4. \A n \in 1..N :
         f[order[n]] = IF parts[order[n]].expiry \in days THEN units[order[n]] ELSE 0
  BY <1>2 DEF ShareOf
<1> HIDE DEF f, D, N
<1>5. 0 \in P
  <2>1. R(0) = {}
    OBVIOUS
  <2>2. Sum(f, R(0)) = 0
    BY <2>1, SumEmpty
  <2> HIDE DEF R
  <2>3. QED
    BY <1>1, <2>2 DEF ShareByShare
<1>6. ASSUME NEW n \in Nat, n \in P PROVE n + 1 \in P
  <2> SUFFICES ASSUME n + 1 <= N
               PROVE  Held(h[n + 1], days) = Held(base, days) + Sum(f, R(n + 1))
    OBVIOUS
  <2> DEFINE e == order[n + 1]
             S == R(n)
  <2>1. n + 1 \in 1..N /\ (n + 1) - 1 = n /\ n <= N /\ \A m \in 1..n : m \in 1..N /\ m # n + 1
    BY <1>1
  <2>2. S \subseteq D /\ e \in D /\ e \notin S
    BY <1>2, <2>1
  <2>3. R(n + 1) = S \cup {e}
    <3>1. \A m \in 1..(n + 1) : m \in 1..n \/ m = n + 1
      OBVIOUS
    <3>2. n + 1 \in 1..(n + 1) /\ \A m \in 1..n : m \in 1..(n + 1)
      OBVIOUS
    <3>3. QED
      BY <3>1, <3>2
  <2>4. Held(h[n], days) = Held(base, days) + Sum(f, S)
    BY <1>6, <2>1
  <2> HIDE DEF S, R
  <2>5. Held(h[n + 1], days) = Held(h[n], days) + f[e]
    <3>1. Held(h[n + 1], days)
          = Held(h[n], days) + IF parts[e].expiry \in days THEN units[e] ELSE 0
      BY <2>1 DEF N, ShareByShare
    <3>2. f[e] = IF parts[e].expiry \in days THEN units[e] ELSE 0
      BY <1>4, <2>1
    <3>3. QED
      BY <3>1, <3>2
  <2> HIDE DEF e
  <2>6. Sum(f, S \cup {e}) = f[e] + Sum(f, S) /\ Sum(f, S) \in Int /\ f[e] \in Int
    <3>1. IsFiniteSet(S)
      BY <1>1, <2>2, FS_Subset
    <3>2. \A x \in S \cup {e} : f[x] \in Int
      BY <1>3, <2>2
    <3>3. \A x \in S : f[x] \in Int
      BY <3>2
    <3>4. Sum(f, S) \in Int
      BY <3>1, <3>3, SumInt
    <3>5. Sum(f, S \cup {e}) = f[e] + Sum(f, S)
      BY <2>2, <3>1, <3>2, SumAdded
    <3>6. QED
      BY <3>2, <3>4, <3>5
  <2>7. Sum(f, R(n + 1)) = f[e] + Sum(f, S)
    BY <2>3, <2>6
  <2>8. Held(h[n + 1], days) = Held(base, days) + (f[e] + Sum(f, S))
    BY <1>1, <2>4, <2>5, <2>6
  <2>9. QED
    BY <2>7, <2>8
<1>7. Held(h[N], days) = Held(base, days) + Sum(f, R(N))
  <2> HIDE DEF R
  <2>1. N \in P
    <3> HIDE DEF P
    <3>1. QED
      BY <1>1, <1>5, <1>6, NatSetInduction
  <2>2. QED
    BY <1>1, <2>1
<1>8. R(N) = D
  BY <1>2
<1>9. Sum(f, D) = SumFunction(f) /\ SumFunction(f) \in Int
  BY <1>1, <1>3, TotalInt DEF SumFunction, Sum
<1>10. h[N] \in Shelves(base, days)
  <2>1. CASE N = 0
    <3>1. Len(base) \in Nat /\ base \in Seq(Batch)
      BY ShelfHas
    <3>2. h[N] = base
      BY <2>1 DEF ShareByShare
    <3>3. QED
      BY <3>1, <3>2 DEF Shelves, Kept
  <2>2. CASE N \in 1..N
    BY <2>2 DEF ShareByShare, N
  <2>3. QED
    BY <1>1, <2>1, <2>2
<1>11. QED
  BY <1>7, <1>8, <1>9, <1>10 DEF Share, f, N

\* The shares of a receiver, one part after the other; `from` are the batches of
\* the sender.
Arrives(g, rows, parts, units, order, T) ==
    g = [U \in SUBSET T |->
            IF U = {} THEN rows
            ELSE LET n == Max(U) IN ArriveOne(g[U \ {n}], parts[order[n]], units[order[n]])]

ArriveAll(rows, parts, units, order) ==
    FoldLeft(LAMBDA acc, n : ArriveOne(acc, parts[n], units[n]), rows, order)

LEMMA ArriveTurns ==
    ASSUME NEW rows, Shelf(rows), NEW from, NEW parts \in Seq(Part), Sourced(parts, from),
           NEW units \in [DOMAIN parts -> Nat], NEW order, Lists(order, DOMAIN parts),
           NEW days, OpeningIn(rows, days)
    PROVE  \E h : /\ ShareByShare(h, rows, parts, units, order, days)
                  /\ ArriveAll(rows, parts, units, order) = h[Len(parts)]
<1> DEFINE N == Len(parts)
           T == 1..N
           D == DOMAIN parts
           A == Shelves(rows, days)
           Next1(r, i) == ArriveOne(r, parts[i], units[i])
           step == [x \in A \X D |-> Next1(x[1], x[2])]
           g == CHOOSE g : Arrives(g, rows, parts, units, order, T)
           h == [n \in 0..N |-> g[1..n]]
<1>1. /\ N \in Nat /\ D = 1..N /\ Cardinality(D) = N /\ Len(rows) \in Nat
      /\ \A i \in D : parts[i] \in Part
  BY PartsHave, ShelfHas
<1>2. order \in [T -> D] /\ \A n \in T : order[n] \in D
  BY <1>1 DEF Lists
<1>3. ArriveAll(rows, parts, units, order) = g[T]
  <2>1. DOMAIN order = T
    BY <1>2
  <2>2. QED
    BY <2>1 DEF ArriveAll, FoldLeft, MapThenFoldSet, Arrives
<1>4. rows \in A
  BY <1>1, ShelfHas DEF Shelves, Kept
<1>5. ASSUME NEW r \in A, NEW i \in D
      PROVE  /\ Next1(r, i) \in A
             /\ Held(Next1(r, i), days)
                = Held(r, days) + IF parts[i].expiry \in days THEN units[i] ELSE 0
  <2> DEFINE part == parts[i]
             q == units[i]
  <2>1. part \in Part /\ q \in Nat /\ part.plain => part.expiry = Never
    BY <1>1 DEF Sourced
  <2> HIDE DEF part, q
  <2>2. QED
    BY <1>1, <2>1, ArriveOneAdds DEF part, q
<1> HIDE DEF A, Next1
<1>6. /\ step \in [A \X D -> A]
      /\ \A r \in A, i \in D : step[<<r, i>>] = Next1(r, i)
  <2>1. ASSUME NEW x \in A \X D PROVE Next1(x[1], x[2]) \in A
    <3> DEFINE r == x[1]
               i == x[2]
    <3>1. r \in A /\ i \in D
      OBVIOUS
    <3> HIDE DEF r, i, D
    <3>2. Next1(r, i) \in A
      BY <1>5, <3>1
    <3>3. QED
      BY <3>2 DEF r, i
  <2> HIDE DEF D
  <2>2. QED
    BY <2>1
<1>7. /\ IsFiniteSet(T) /\ T \subseteq Nat
      /\ \A U \in SUBSET T : U # {} => Max(U) \in U
  BY <1>1, FirstTurns, FS_Subset, MaxOf
<1> HIDE DEF step, T, D, N
<1>8. PICK f \in [SUBSET T -> A] : Passes(f, step, rows, order, T)
  <2>1. IsFiniteSet(T) /\ T \subseteq Nat
    BY <1>7
  <2>2. step \in [A \X D -> A] /\ order \in [T -> D]
    BY <1>2, <1>6
  <2>3. \E f \in [SUBSET T -> A] : Passes(f, step, rows, order, T)
    BY <1>4, <2>1, <2>2, PassesExist, Zenon
  <2>4. QED
    BY <2>3
<1>9. Arrives(f, rows, parts, units, order, T)
  <2>1. ASSUME NEW U \in SUBSET T
        PROVE  f[U] = IF U = {} THEN rows
                      ELSE LET n == Max(U) IN ArriveOne(f[U \ {n}], parts[order[n]], units[order[n]])
    <3>1. CASE U = {}
      BY <1>8, <3>1 DEF Passes
    <3>2. CASE U # {}
      <4> DEFINE n == Max(U)
      <4>1. f[U] = step[<<f[U \ {n}], order[n]>>]
        BY <1>8, <3>2 DEF Passes
      <4>2. n \in T
        BY <1>7, <3>2
      <4> HIDE DEF n
      <4>3. f[U \ {n}] \in A /\ order[n] \in D
        BY <1>2, <4>2
      <4>4. f[U] = Next1(f[U \ {n}], order[n])
        BY <1>6, <4>1, <4>3
      <4>5. QED
        BY <3>2, <4>4 DEF n, Next1
    <3>3. QED
      BY <3>1, <3>2
  <2>2. f = [U \in SUBSET T |-> f[U]]
    OBVIOUS
  <2>3. QED
    BY <2>1, <2>2 DEF Arrives
<1>10. Arrives(g, rows, parts, units, order, T)
  BY <1>9
<1> HIDE DEF g
<1>11. h[0] = rows
  <2>1. 1..0 = {} /\ {} \in SUBSET T /\ 0 \in 0..N
    BY <1>1
  <2>2. g[{}] = rows
    BY <1>10, <2>1 DEF Arrives
  <2>3. QED
    BY <2>1, <2>2
<1>12. ASSUME NEW n \in 1..N
       PROVE  h[n] = Next1(h[n - 1], order[n])
  <2> DEFINE U == 1..n
  <2>1. /\ U \in SUBSET T /\ U # {} /\ Max(U) = n /\ U \ {n} = 1..(n - 1)
        /\ n \in 0..N /\ n - 1 \in 0..N
    <3>1. n \in 0..N /\ N \in Nat
      BY <1>1
    <3>2. U \in SUBSET T
      BY <3>1, FirstTurns DEF T
    <3>3. U # {} /\ Max(U) = n /\ U \ {n} = 1..(n - 1) /\ n - 1 \in 0..N
      BY <3>1, FirstTurns
    <3>4. QED
      BY <3>1, <3>2, <3>3
  <2>2. h[n] = g[U] /\ h[n - 1] = g[1..(n - 1)]
    BY <2>1
  <2> HIDE DEF U, h
  <2>3. g[U] = Next1(g[U \ {Max(U)}], order[Max(U)])
    BY <1>10, <2>1 DEF Arrives, Next1
  <2>4. QED
    BY <2>1, <2>2, <2>3
<1>13. g[T] = h[N]
  BY <1>1 DEF T
<1> HIDE DEF h
<1>14. \A n \in 0..N : h[n] \in A
  <2> DEFINE P == {n \in Nat : n <= N => h[n] \in A}
  <2>1. 0 \in P
    BY <1>4, <1>11
  <2>2. ASSUME NEW n \in Nat, n \in P PROVE n + 1 \in P
    <3> SUFFICES ASSUME n + 1 <= N PROVE h[n + 1] \in A
      OBVIOUS
    <3>1. n + 1 \in 1..N /\ (n + 1) - 1 = n /\ n <= N
      BY <1>1
    <3>2. h[n] \in A
      BY <2>2, <3>1
    <3>3. h[n + 1] = Next1(h[n], order[n + 1])
      BY <1>12, <3>1
    <3>4. order[n + 1] \in D
      BY <1>2, <3>1 DEF T
    <3>5. QED
      BY <1>5, <3>2, <3>3, <3>4
  <2> HIDE DEF P
  <2>3. Nat \subseteq P
    BY <2>1, <2>2, NatSetInduction
  <2>4. QED
    BY <1>1, <2>3 DEF P
<1>15. ASSUME NEW n \in 1..N
       PROVE  /\ h[n] \in A
              /\ Held(h[n], days)
                 = Held(h[n - 1], days)
                   + IF parts[order[n]].expiry \in days THEN units[order[n]] ELSE 0
  <2>1. n \in 0..N /\ n - 1 \in 0..N
    BY <1>1
  <2>2. h[n] \in A /\ h[n - 1] \in A /\ order[n] \in D
    BY <1>2, <1>14, <2>1 DEF T
  <2>3. h[n] = Next1(h[n - 1], order[n])
    BY <1>12
  <2>4. QED
    BY <1>5, <2>2, <2>3
<1>16. ShareByShare(h, rows, parts, units, order, days)
  BY <1>11, <1>15 DEF ShareByShare, A, N
<1>17. QED
  BY <1>3, <1>13, <1>16 DEF N

\* The shares of a sender, one part after the other.
GoesBack(g, rows, parts, units, order, T) ==
    g = [U \in SUBSET T |->
            IF U = {} THEN rows
            ELSE LET n == Max(U) IN GoBackOne(g[U \ {n}], parts[order[n]], units[order[n]])]

GoBackAll(rows, parts, units, order) ==
    FoldLeft(LAMBDA acc, n : GoBackOne(acc, parts[n], units[n]), rows, order)

LEMMA GoBackTurns ==
    ASSUME NEW rows, Shelf(rows), NEW parts \in Seq(Part), Sourced(parts, rows),
           NEW units \in [DOMAIN parts -> Nat], NEW order, Lists(order, DOMAIN parts),
           NEW days, OpeningIn(rows, days)
    PROVE  \E h : /\ ShareByShare(h, rows, parts, units, order, days)
                  /\ GoBackAll(rows, parts, units, order) = h[Len(parts)]
<1> DEFINE N == Len(parts)
           T == 1..N
           D == DOMAIN parts
           A == Shelves(rows, days)
           Next1(r, i) == GoBackOne(r, parts[i], units[i])
           step == [x \in A \X D |-> Next1(x[1], x[2])]
           g == CHOOSE g : GoesBack(g, rows, parts, units, order, T)
           h == [n \in 0..N |-> g[1..n]]
<1>1. /\ N \in Nat /\ D = 1..N /\ Cardinality(D) = N /\ Len(rows) \in Nat
      /\ \A i \in D : parts[i] \in Part
  BY PartsHave, ShelfHas
<1>2. order \in [T -> D] /\ \A n \in T : order[n] \in D
  BY <1>1 DEF Lists
<1>3. GoBackAll(rows, parts, units, order) = g[T]
  <2>1. DOMAIN order = T
    BY <1>2
  <2>2. QED
    BY <2>1 DEF GoBackAll, FoldLeft, MapThenFoldSet, GoesBack
<1>4. rows \in A
  BY <1>1, ShelfHas DEF Shelves, Kept
<1>5. ASSUME NEW r \in A, NEW i \in D
      PROVE  /\ Next1(r, i) \in A
             /\ Held(Next1(r, i), days)
                = Held(r, days) + IF parts[i].expiry \in days THEN units[i] ELSE 0
  <2> DEFINE part == parts[i]
             q == units[i]
  <2>1. /\ part \in Part /\ q \in Nat /\ part.plain => part.expiry = Never
        /\ part.source = 0 => part.plain
        /\ part.source # 0 => /\ part.source \in 1..Len(rows)
                              /\ part.expiry = rows[part.source].expiry
    BY <1>1 DEF Sourced
  <2> HIDE DEF part, q
  <2>2. QED
    BY <1>1, <2>1, GoBackOneAdds DEF part, q
<1> HIDE DEF A, Next1
<1>6. /\ step \in [A \X D -> A]
      /\ \A r \in A, i \in D : step[<<r, i>>] = Next1(r, i)
  <2>1. ASSUME NEW x \in A \X D PROVE Next1(x[1], x[2]) \in A
    <3> DEFINE r == x[1]
               i == x[2]
    <3>1. r \in A /\ i \in D
      OBVIOUS
    <3> HIDE DEF r, i, D
    <3>2. Next1(r, i) \in A
      BY <1>5, <3>1
    <3>3. QED
      BY <3>2 DEF r, i
  <2> HIDE DEF D
  <2>2. QED
    BY <2>1
<1>7. /\ IsFiniteSet(T) /\ T \subseteq Nat
      /\ \A U \in SUBSET T : U # {} => Max(U) \in U
  BY <1>1, FirstTurns, FS_Subset, MaxOf
<1> HIDE DEF step, T, D, N
<1>8. PICK f \in [SUBSET T -> A] : Passes(f, step, rows, order, T)
  <2>1. IsFiniteSet(T) /\ T \subseteq Nat
    BY <1>7
  <2>2. step \in [A \X D -> A] /\ order \in [T -> D]
    BY <1>2, <1>6
  <2>3. \E f \in [SUBSET T -> A] : Passes(f, step, rows, order, T)
    BY <1>4, <2>1, <2>2, PassesExist, Zenon
  <2>4. QED
    BY <2>3
<1>9. GoesBack(f, rows, parts, units, order, T)
  <2>1. ASSUME NEW U \in SUBSET T
        PROVE  f[U] = IF U = {} THEN rows
                      ELSE LET n == Max(U) IN GoBackOne(f[U \ {n}], parts[order[n]], units[order[n]])
    <3>1. CASE U = {}
      BY <1>8, <3>1 DEF Passes
    <3>2. CASE U # {}
      <4> DEFINE n == Max(U)
      <4>1. f[U] = step[<<f[U \ {n}], order[n]>>]
        BY <1>8, <3>2 DEF Passes
      <4>2. n \in T
        BY <1>7, <3>2
      <4> HIDE DEF n
      <4>3. f[U \ {n}] \in A /\ order[n] \in D
        BY <1>2, <4>2
      <4>4. f[U] = Next1(f[U \ {n}], order[n])
        BY <1>6, <4>1, <4>3
      <4>5. QED
        BY <3>2, <4>4 DEF n, Next1
    <3>3. QED
      BY <3>1, <3>2
  <2>2. f = [U \in SUBSET T |-> f[U]]
    OBVIOUS
  <2>3. QED
    BY <2>1, <2>2 DEF GoesBack
<1>10. GoesBack(g, rows, parts, units, order, T)
  BY <1>9
<1> HIDE DEF g
<1>11. h[0] = rows
  <2>1. 1..0 = {} /\ {} \in SUBSET T /\ 0 \in 0..N
    BY <1>1
  <2>2. g[{}] = rows
    BY <1>10, <2>1 DEF GoesBack
  <2>3. QED
    BY <2>1, <2>2
<1>12. ASSUME NEW n \in 1..N
       PROVE  h[n] = Next1(h[n - 1], order[n])
  <2> DEFINE U == 1..n
  <2>1. /\ U \in SUBSET T /\ U # {} /\ Max(U) = n /\ U \ {n} = 1..(n - 1)
        /\ n \in 0..N /\ n - 1 \in 0..N
    <3>1. n \in 0..N /\ N \in Nat
      BY <1>1
    <3>2. U \in SUBSET T
      BY <3>1, FirstTurns DEF T
    <3>3. U # {} /\ Max(U) = n /\ U \ {n} = 1..(n - 1) /\ n - 1 \in 0..N
      BY <3>1, FirstTurns
    <3>4. QED
      BY <3>1, <3>2, <3>3
  <2>2. h[n] = g[U] /\ h[n - 1] = g[1..(n - 1)]
    BY <2>1
  <2> HIDE DEF U, h
  <2>3. g[U] = Next1(g[U \ {Max(U)}], order[Max(U)])
    BY <1>10, <2>1 DEF GoesBack, Next1
  <2>4. QED
    BY <2>1, <2>2, <2>3
<1>13. g[T] = h[N]
  BY <1>1 DEF T
<1> HIDE DEF h
<1>14. \A n \in 0..N : h[n] \in A
  <2> DEFINE P == {n \in Nat : n <= N => h[n] \in A}
  <2>1. 0 \in P
    BY <1>4, <1>11
  <2>2. ASSUME NEW n \in Nat, n \in P PROVE n + 1 \in P
    <3> SUFFICES ASSUME n + 1 <= N PROVE h[n + 1] \in A
      OBVIOUS
    <3>1. n + 1 \in 1..N /\ (n + 1) - 1 = n /\ n <= N
      BY <1>1
    <3>2. h[n] \in A
      BY <2>2, <3>1
    <3>3. h[n + 1] = Next1(h[n], order[n + 1])
      BY <1>12, <3>1
    <3>4. order[n + 1] \in D
      BY <1>2, <3>1 DEF T
    <3>5. QED
      BY <1>5, <3>2, <3>3, <3>4
  <2> HIDE DEF P
  <2>3. Nat \subseteq P
    BY <2>1, <2>2, NatSetInduction
  <2>4. QED
    BY <1>1, <2>3 DEF P
<1>15. ASSUME NEW n \in 1..N
       PROVE  /\ h[n] \in A
              /\ Held(h[n], days)
                 = Held(h[n - 1], days)
                   + IF parts[order[n]].expiry \in days THEN units[order[n]] ELSE 0
  <2>1. n \in 0..N /\ n - 1 \in 0..N
    BY <1>1
  <2>2. h[n] \in A /\ h[n - 1] \in A /\ order[n] \in D
    BY <1>2, <1>14, <2>1 DEF T
  <2>3. h[n] = Next1(h[n - 1], order[n])
    BY <1>12
  <2>4. QED
    BY <1>5, <2>2, <2>3
<1>16. ShareByShare(h, rows, parts, units, order, days)
  BY <1>11, <1>15 DEF ShareByShare, A, N
<1>17. QED
  BY <1>3, <1>13, <1>16 DEF N

\* What arrives is added to the receiver's batches.
LEMMA ArriveAdds ==
    ASSUME NEW rows, Shelf(rows), NEW from, NEW parts \in Seq(Part), Sourced(parts, from),
           NEW qty \in Nat, qty <= Held(parts, 1..Never)
    PROVE  LET new == Arrive(rows, parts, qty)
               units == Split(ArrivalOrder(parts), parts, qty)
           IN  /\ Shelf(new) /\ Kept(rows, new)
               /\ Total(new) = Total(rows) + qty
               /\ \A days : OpeningIn(rows, days)
                            => /\ OpeningIn(new, days) /\ Share(parts, units, days) \in Int
                               /\ Held(new, days) = Held(rows, days) + Share(parts, units, days)
<1> DEFINE order == ArrivalOrder(parts)
           units == Split(order, parts, qty)
           new == Arrive(rows, parts, qty)
           N == Len(parts)
<1>1. new = ArriveAll(rows, parts, units, order)
  BY DEF Arrive, ArriveAll
<1>2. Lists(order, DOMAIN parts)
  BY Orders
<1> HIDE DEF order, new
<1>3. /\ units \in [DOMAIN parts -> Nat] /\ SumFunction(units) = qty
  BY <1>2, SplitSplits
<1> HIDE DEF units
<1>4. ASSUME NEW days, OpeningIn(rows, days)
      PROVE  /\ new \in Shelves(rows, days) /\ Share(parts, units, days) \in Int
             /\ Held(new, days) = Held(rows, days) + Share(parts, units, days)
  <2>1. PICK h : /\ ShareByShare(h, rows, parts, units, order, days)
                 /\ ArriveAll(rows, parts, units, order) = h[N]
    BY <1>2, <1>3, <1>4, ArriveTurns
  <2>2. /\ h[N] \in Shelves(rows, days) /\ Share(parts, units, days) \in Int
        /\ Held(h[N], days) = Held(rows, days) + Share(parts, units, days)
    BY <1>2, <1>3, <1>4, <2>1, SharesAdd
  <2>3. QED
    BY <1>1, <2>1, <2>2
<1>5. Shelf(new) /\ Kept(rows, new) /\ Total(new) = Total(rows) + qty
  <2>1. OpeningIn(rows, 1..Never)
    <3>1. DOMAIN rows = 1..Len(rows) /\ Never \in Nat \ {0}
          /\ \A i \in 1..Len(rows) : rows[i].expiry \in 1..Never
      BY ShelfHas
    <3>2. QED
      BY <3>1 DEF OpeningIn
  <2>2. /\ new \in Shelves(rows, 1..Never)
        /\ Held(new, 1..Never) = Held(rows, 1..Never) + Share(parts, units, 1..Never)
    BY <1>4, <2>1
  <2>3. Shelf(new) /\ Kept(rows, new)
    BY <2>2 DEF Shelves
  <2>4. Held(new, 1..Never) = Total(new) /\ Held(rows, 1..Never) = Total(rows)
    BY <2>3, ShelfHas
  <2>5. Share(parts, units, 1..Never) = qty
    <3>1. ShareOf(parts, units, 1..Never) = units
      <4>1. \A n \in DOMAIN parts : parts[n].expiry \in 1..Never
        BY PartsHave
      <4>2. units = [n \in DOMAIN parts |-> units[n]]
        BY <1>3
      <4>3. ShareOf(parts, units, 1..Never) = [n \in DOMAIN parts |-> units[n]]
        BY <4>1 DEF ShareOf
      <4>4. QED
        BY <4>2, <4>3
    <3>2. QED
      BY <1>3, <3>1 DEF Share
  <2>6. QED
    BY <2>2, <2>3, <2>4, <2>5
<1>6. \A days : OpeningIn(rows, days)
                => /\ OpeningIn(new, days) /\ Share(parts, units, days) \in Int
                   /\ Held(new, days) = Held(rows, days) + Share(parts, units, days)
  BY <1>4 DEF Shelves
<1>7. QED
  BY <1>5, <1>6 DEF new, units, order

\* What goes back is added to the sender's batches.
LEMMA GoBackAdds ==
    ASSUME NEW rows, Shelf(rows), NEW parts \in Seq(Part), Sourced(parts, rows),
           NEW qty \in Nat, qty <= Held(parts, 1..Never)
    PROVE  LET new == GoBack(rows, parts, qty)
               units == Split(ReturnOrder(parts), parts, qty)
           IN  /\ Shelf(new) /\ Kept(rows, new)
               /\ Total(new) = Total(rows) + qty
               /\ \A days : OpeningIn(rows, days)
                            => /\ OpeningIn(new, days) /\ Share(parts, units, days) \in Int
                               /\ Held(new, days) = Held(rows, days) + Share(parts, units, days)
<1> DEFINE order == ReturnOrder(parts)
           units == Split(order, parts, qty)
           new == GoBack(rows, parts, qty)
           N == Len(parts)
<1>1. new = GoBackAll(rows, parts, units, order)
  BY DEF GoBack, GoBackAll
<1>2. Lists(order, DOMAIN parts)
  BY Orders
<1> HIDE DEF order, new
<1>3. /\ units \in [DOMAIN parts -> Nat] /\ SumFunction(units) = qty
  BY <1>2, SplitSplits
<1> HIDE DEF units
<1>4. ASSUME NEW days, OpeningIn(rows, days)
      PROVE  /\ new \in Shelves(rows, days) /\ Share(parts, units, days) \in Int
             /\ Held(new, days) = Held(rows, days) + Share(parts, units, days)
  <2>1. PICK h : /\ ShareByShare(h, rows, parts, units, order, days)
                 /\ GoBackAll(rows, parts, units, order) = h[N]
    BY <1>2, <1>3, <1>4, GoBackTurns
  <2>2. /\ h[N] \in Shelves(rows, days) /\ Share(parts, units, days) \in Int
        /\ Held(h[N], days) = Held(rows, days) + Share(parts, units, days)
    BY <1>2, <1>3, <1>4, <2>1, SharesAdd
  <2>3. QED
    BY <1>1, <2>1, <2>2
<1>5. Shelf(new) /\ Kept(rows, new) /\ Total(new) = Total(rows) + qty
  <2>1. OpeningIn(rows, 1..Never)
    <3>1. DOMAIN rows = 1..Len(rows) /\ Never \in Nat \ {0}
          /\ \A i \in 1..Len(rows) : rows[i].expiry \in 1..Never
      BY ShelfHas
    <3>2. QED
      BY <3>1 DEF OpeningIn
  <2>2. /\ new \in Shelves(rows, 1..Never)
        /\ Held(new, 1..Never) = Held(rows, 1..Never) + Share(parts, units, 1..Never)
    BY <1>4, <2>1
  <2>3. Shelf(new) /\ Kept(rows, new)
    BY <2>2 DEF Shelves
  <2>4. Held(new, 1..Never) = Total(new) /\ Held(rows, 1..Never) = Total(rows)
    BY <2>3, ShelfHas
  <2>5. Share(parts, units, 1..Never) = qty
    <3>1. ShareOf(parts, units, 1..Never) = units
      <4>1. \A n \in DOMAIN parts : parts[n].expiry \in 1..Never
        BY PartsHave
      <4>2. units = [n \in DOMAIN parts |-> units[n]]
        BY <1>3
      <4>3. ShareOf(parts, units, 1..Never) = [n \in DOMAIN parts |-> units[n]]
        BY <4>1 DEF ShareOf
      <4>4. QED
        BY <4>2, <4>3
    <3>2. QED
      BY <1>3, <3>1 DEF Share
  <2>6. QED
    BY <2>2, <2>3, <2>4, <2>5
<1>6. \A days : OpeningIn(rows, days)
                => /\ OpeningIn(new, days) /\ Share(parts, units, days) \in Int
                   /\ Held(new, days) = Held(rows, days) + Share(parts, units, days)
  BY <1>4 DEF Shelves
<1>7. QED
  BY <1>5, <1>6 DEF new, units, order

\* Of no expiry date do more units arrive and go back than were sent.
LEMMA SharesOnce ==
    ASSUME NEW parts \in Seq(Part), NEW got \in Nat, NEW back \in Nat,
           got + back <= Held(parts, 1..Never), NEW days
    PROVE  LET there == Share(parts, Split(ArrivalOrder(parts), parts, got), days)
               here == Share(parts, Split(ReturnOrder(parts), parts, back), days)
           IN  /\ there \in Int /\ here \in Int /\ Held(parts, days) \in Int
               /\ there >= 0 /\ here >= 0
               /\ there + here <= Held(parts, days)
<1> DEFINE D == DOMAIN parts
           there == Split(ArrivalOrder(parts), parts, got)
           here == Split(ReturnOrder(parts), parts, back)
           a == ShareOf(parts, there, days)
           b == ShareOf(parts, here, days)
           p == HeldOf(parts, days)
           both == [n \in D |-> a[n] + b[n]]
           none == [n \in D |-> 0]
<1>1. IsFiniteSet(D) /\ \A n \in D : parts[n].qty \in Nat
  BY PartsHave
<1>2. there \in [D -> Nat] /\ here \in [D -> Nat]
  BY Orders, SplitSplits
<1>3. \A n \in D : there[n] + here[n] <= parts[n].qty
  BY NoUnitTwice
<1> HIDE DEF there, here
<1>4. /\ DOMAIN a = D /\ DOMAIN b = D /\ DOMAIN p = D
      /\ \A n \in D : /\ a[n] = IF parts[n].expiry \in days THEN there[n] ELSE 0
                      /\ b[n] = IF parts[n].expiry \in days THEN here[n] ELSE 0
                      /\ p[n] = IF parts[n].expiry \in days THEN parts[n].qty ELSE 0
  BY DEF ShareOf, HeldOf
<1> HIDE DEF a, b, p
<1>5. \A n \in D : /\ a[n] \in Int /\ b[n] \in Int /\ p[n] \in Int
                   /\ 0 <= a[n] /\ 0 <= b[n] /\ a[n] + b[n] <= p[n]
  <2> SUFFICES ASSUME NEW n \in D
               PROVE  /\ a[n] \in Int /\ b[n] \in Int /\ p[n] \in Int
                      /\ 0 <= a[n] /\ 0 <= b[n] /\ a[n] + b[n] <= p[n]
    OBVIOUS
  <2>1. /\ there[n] \in Nat /\ here[n] \in Nat /\ parts[n].qty \in Nat
        /\ there[n] + here[n] <= parts[n].qty
    BY <1>1, <1>2, <1>3
  <2>2. QED
    BY <1>4, <2>1
<1>6. /\ DOMAIN both = D /\ DOMAIN none = D
      /\ \A n \in D : both[n] = a[n] + b[n] /\ both[n] \in Int /\ none[n] = 0
  BY <1>5
<1> HIDE DEF both, none, D
<1>7. SumFunction(a) \in Int /\ SumFunction(b) \in Int /\ SumFunction(p) \in Int
  <2>1. /\ \A n \in DOMAIN a : a[n] \in Int
        /\ \A n \in DOMAIN b : b[n] \in Int
        /\ \A n \in DOMAIN p : p[n] \in Int
    BY <1>4, <1>5
  <2>2. QED
    BY <1>1, <1>4, <2>1, TotalInt
<1>8. SumFunction(both) = SumFunction(a) + SumFunction(b)
  <2>1. /\ IsFiniteSet(DOMAIN a) /\ DOMAIN b = DOMAIN a /\ DOMAIN both = DOMAIN a
        /\ \A n \in DOMAIN a : a[n] \in Int /\ b[n] \in Int /\ both[n] = a[n] + b[n]
    BY <1>1, <1>4, <1>5, <1>6
  <2>2. QED
    BY <2>1, TotalPlus
<1>9. SumFunction(both) <= SumFunction(p)
  <2>1. /\ IsFiniteSet(DOMAIN both) /\ DOMAIN p = DOMAIN both
        /\ \A n \in DOMAIN both : both[n] \in Int /\ p[n] \in Int /\ both[n] <= p[n]
    BY <1>1, <1>4, <1>5, <1>6
  <2>2. QED
    BY <2>1, TotalAtLeast
<1>10. SumFunction(none) = 0
  <2>1. IsFiniteSet(DOMAIN none) /\ \A n \in DOMAIN none : none[n] = 0
    BY <1>1, <1>6
  <2>2. QED
    BY <2>1, TotalZero
<1>11. SumFunction(none) <= SumFunction(a) /\ SumFunction(none) <= SumFunction(b)
  <2>1. /\ IsFiniteSet(DOMAIN none) /\ DOMAIN a = DOMAIN none /\ DOMAIN b = DOMAIN none
        /\ \A n \in DOMAIN none : none[n] \in Int /\ a[n] \in Int /\ none[n] <= a[n]
        /\ \A n \in DOMAIN none : none[n] \in Int /\ b[n] \in Int /\ none[n] <= b[n]
    BY <1>1, <1>4, <1>5, <1>6
  <2>2. SumFunction(none) <= SumFunction(a)
    BY <2>1, TotalAtLeast
  <2>3. SumFunction(none) <= SumFunction(b)
    BY <2>1, TotalAtLeast
  <2>4. QED
    BY <2>2, <2>3
<1>12. QED
  BY <1>7, <1>8, <1>9, <1>10, <1>11 DEF Share, Held, a, b, p, there, here

----------------------------------------------------------------------------
(***************************************************************************)
(* The invariant.                                                          *)
(***************************************************************************)
Row == [status : {"none", "SENT", "RECEIVED", "CANCELLED"}, number : Nat,
        parts : Seq(Part), received : Units, returned : Units, writtenOff : Units]

\* What a request has read, it has read of a transfer that never changes.
Asked ==
    \A r \in Requests :
        /\ req[r].op = "send" => req[r].seen >= body[req[r].transfer].qty
        /\ req[r].op = "receive" => req[r].got <= body[req[r].transfer].qty

\* The parts of what is under way are its units, out of the sender's batches.
OnTheWay(t) ==
    transfer[t].status = "SENT" =>
        /\ Held(transfer[t].parts, 1..Never) = body[t].qty
        /\ Sourced(transfer[t].parts, batches[body[t].from])

RoadOf(rows, bodies) ==
    [t \in Transfers |-> IF rows[t].status = "SENT" THEN bodies[t].qty ELSE 0]

LostOf(rows) == [t \in Transfers |-> rows[t].writtenOff]

Accounted ==
    SumFunction([b \in Branches |-> Total(InitBatches[b])])
    = SumFunction(stock) + sold + SumFunction(RoadOf(transfer, body))
      + SumFunction(LostOf(transfer))

\* While no branch has been below zero.
StockFits == ~everShort => \A b \in Branches : stock[b] >= 0 /\ Total(batches[b]) = stock[b]

TransferInv ==
    /\ TypeOK /\ Asked /\ Accounted /\ StockFits
    /\ \A b \in Branches : Shelf(batches[b])
    /\ \A t \in Transfers : /\ body[t].from # body[t].to /\ OnTheWay(t)
                            /\ transfer[t].status # "RECEIVED" => transfer[t].writtenOff = 0

LEMMA InvHas ==
    ASSUME TransferInv
    PROVE  /\ MaxQty \in Nat /\ Never \in Nat \ {0}
           /\ IsFiniteSet(Branches) /\ IsFiniteSet(Transfers)
           /\ stock \in [Branches -> Int] /\ batches \in [Branches -> Seq(Batch)]
           /\ transfer \in [Transfers -> Row] /\ req \in [Requests -> Request]
           /\ sold \in Nat /\ nextTransferNumber \in Nat /\ everShort \in BOOLEAN
           /\ \A b \in Branches : Shelf(batches[b]) /\ Total(batches[b]) \in Int
           /\ \A t \in Transfers :
                 /\ body[t].from \in Branches /\ body[t].to \in Branches
                 /\ body[t].from # body[t].to
                 /\ body[t].qty \in Units \ {0} /\ body[t].qty \in Nat \ {0}
                 /\ body[t].qty <= MaxQty /\ body[t].picks \in Seq(Pick)
                 /\ transfer[t] \in Row /\ transfer[t].parts \in Seq(Part)
                 /\ transfer[t].writtenOff \in Nat
<1>1. /\ MaxQty \in Nat /\ Never \in Nat \ {0}
      /\ IsFiniteSet(Branches) /\ IsFiniteSet(Transfers)
  BY TransfersAssumption
<1>2. /\ stock \in [Branches -> Int] /\ batches \in [Branches -> Seq(Batch)]
      /\ transfer \in [Transfers -> Row] /\ req \in [Requests -> Request]
      /\ sold \in Nat /\ nextTransferNumber \in Nat /\ everShort \in BOOLEAN
      /\ body \in [Transfers -> Body]
  BY DEF TransferInv, TypeOK, Row
<1>3. \A b \in Branches : Shelf(batches[b])
  BY DEF TransferInv
<1>4. \A b \in Branches : Total(batches[b]) \in Int
  <2> TAKE b \in Branches
  <2>1. Held(batches[b], 1..Never) = Total(batches[b]) /\ Held(batches[b], 1..Never) \in Int
    BY <1>3, ShelfHas
  <2>2. QED
    BY <2>1
<1>5. \A n \in Units : n \in Nat /\ n <= MaxQty
  BY <1>1 DEF Units
<1>6. ASSUME NEW t \in Transfers
      PROVE  /\ body[t].from \in Branches /\ body[t].to \in Branches
             /\ body[t].from # body[t].to
             /\ body[t].qty \in Units \ {0} /\ body[t].qty \in Nat \ {0}
             /\ body[t].qty <= MaxQty /\ body[t].picks \in Seq(Pick)
             /\ transfer[t] \in Row /\ transfer[t].parts \in Seq(Part)
             /\ transfer[t].writtenOff \in Nat
  <2>1. body[t] \in Body /\ transfer[t] \in Row
    BY <1>2
  <2>2. body[t].from # body[t].to
    BY DEF TransferInv
  <2>3. /\ body[t].from \in Branches /\ body[t].to \in Branches
        /\ body[t].qty \in Units \ {0} /\ body[t].picks \in Seq(Pick)
    BY <2>1 DEF Body
  <2>4. transfer[t].parts \in Seq(Part) /\ transfer[t].writtenOff \in Units
    BY <2>1 DEF Row
  <2>5. QED
    BY <1>5, <2>1, <2>2, <2>3, <2>4
<1>7. QED
  BY <1>1, <1>2, <1>3, <1>4, <1>6

LEMMA RequestHas ==
    ASSUME TransferInv, NEW r \in Requests
    PROVE  /\ req[r].op = "send" => /\ req[r].transfer \in Transfers /\ req[r].seen \in Int
                                    /\ req[r].seen >= body[req[r].transfer].qty
           /\ req[r].op = "cancel" => req[r].transfer \in Transfers
           /\ req[r].op = "receive" => /\ req[r].transfer \in Transfers /\ req[r].got \in Units
                                       /\ req[r].short \in {"RETURN", "WRITE_OFF"}
                                       /\ req[r].got <= body[req[r].transfer].qty
<1>1. req[r] \in Request
  BY InvHas
<1>2. /\ req[r].op = "send" => req[r].transfer \in Transfers /\ req[r].seen \in Int
      /\ req[r].op = "cancel" => req[r].transfer \in Transfers
      /\ req[r].op = "receive" => /\ req[r].transfer \in Transfers /\ req[r].got \in Units
                                  /\ req[r].short \in {"RETURN", "WRITE_OFF"}
  BY <1>1 DEF Request, Idle
<1>3. QED
  BY <1>2 DEF TransferInv, Asked

\* One value of a function changed.
LEMMA OneChanged ==
    ASSUME NEW S, IsFiniteSet(S), NEW f \in [S -> Int], NEW g \in [S -> Int], NEW e \in S,
           \A x \in S : x # e => g[x] = f[x]
    PROVE  /\ SumFunction(f) \in Int /\ SumFunction(g) \in Int
           /\ SumFunction(g) = SumFunction(f) + (g[e] - f[e])
<1>1. /\ IsFiniteSet(DOMAIN f) /\ DOMAIN g = DOMAIN f /\ e \in DOMAIN f
      /\ \A x \in DOMAIN f : f[x] \in Int /\ g[x] \in Int
      /\ \A x \in DOMAIN f : x # e => f[x] = g[x]
  OBVIOUS
<1>2. IsFiniteSet(DOMAIN g) /\ \A x \in DOMAIN g : g[x] \in Int
  BY <1>1
<1>3. SumFunction(f) \in Int /\ SumFunction(g) \in Int
  BY <1>1, <1>2, TotalInt
<1>4. QED
  BY <1>1, <1>3, TotalChanged

LEMMA SumsInt ==
    ASSUME TransferInv
    PROVE  /\ SumFunction(stock) \in Int /\ SumFunction(RoadOf(transfer, body)) \in Int
           /\ SumFunction(LostOf(transfer)) \in Int
           /\ RoadOf(transfer, body) \in [Transfers -> Int]
           /\ LostOf(transfer) \in [Transfers -> Int]
<1> DEFINE road == RoadOf(transfer, body)
           gone == LostOf(transfer)
<1>1. road \in [Transfers -> Int] /\ gone \in [Transfers -> Int]
  BY InvHas DEF RoadOf, LostOf
<1> HIDE DEF road, gone
<1>2. /\ IsFiniteSet(DOMAIN stock) /\ \A b \in DOMAIN stock : stock[b] \in Int
      /\ IsFiniteSet(DOMAIN road) /\ \A t \in DOMAIN road : road[t] \in Int
      /\ IsFiniteSet(DOMAIN gone) /\ \A t \in DOMAIN gone : gone[t] \in Int
  BY <1>1, InvHas
<1>3. SumFunction(stock) \in Int
  BY <1>2, TotalInt
<1>4. SumFunction(road) \in Int
  BY <1>2, TotalInt
<1>5. SumFunction(gone) \in Int
  BY <1>2, TotalInt
<1>6. QED
  BY <1>1, <1>3, <1>4, <1>5 DEF road, gone

LEMMA KeptSourced ==
    ASSUME NEW parts \in Seq(Part), NEW rows, Shelf(rows), NEW new, Shelf(new), Kept(rows, new),
           Sourced(parts, rows)
    PROVE  Sourced(parts, new)
<1>1. Len(rows) \in Nat /\ Len(new) \in Nat /\ Len(rows) <= Len(new)
  BY ShelfHas DEF Kept
<1>2. \A i \in 1..Len(rows) : i \in 1..Len(new) /\ new[i].expiry = rows[i].expiry
  BY <1>1 DEF Kept
<1>3. QED
  BY <1>2 DEF Sourced

\* A transfer moved: what its row says more is what the batches have less.
Moved(t) ==
    /\ UNCHANGED <<body, sold>>
    /\ nextTransferNumber' \in Nat /\ everShort' \in BOOLEAN
    /\ req' \in [Requests -> Request] /\ Asked'
    /\ stock' \in [Branches -> Int] /\ batches' \in [Branches -> Seq(Batch)]
    /\ StockFits'
    /\ \A b \in Branches : Shelf(batches'[b]) /\ Kept(batches[b], batches'[b])
    /\ transfer' \in [Transfers -> Row]
    /\ \A u \in Transfers : u # t => transfer'[u] = transfer[u]
    /\ OnTheWay(t)'
    /\ transfer'[t].status # "RECEIVED" => transfer'[t].writtenOff = 0
    /\ SumFunction(stock')
         = SumFunction(stock) + (RoadOf(transfer, body)[t] - RoadOf(transfer', body)[t])
           + (transfer[t].writtenOff - transfer'[t].writtenOff)

LEMMA TransferMoves ==
    ASSUME TransferInv, NEW t \in Transfers, Moved(t)
    PROVE  TransferInv'
<1> DEFINE road == RoadOf(transfer, body)
           road2 == RoadOf(transfer', body)
           gone == LostOf(transfer)
           gone2 == LostOf(transfer')
<1>1. TypeOK'
  BY InvHas DEF TransferInv, TypeOK, Row, Moved
<1>2. Accounted'
  <2>1. road \in [Transfers -> Int] /\ gone \in [Transfers -> Int]
    BY SumsInt
  <2>2. road2 \in [Transfers -> Int] /\ gone2 \in [Transfers -> Int]
    <3>1. \A u \in Transfers : transfer'[u].writtenOff \in Int /\ body[u].qty \in Int
      <4>1. \A n \in Units : n \in Int
        BY DEF Units
      <4>2. QED
        BY <4>1, InvHas DEF Row, Moved
    <3>2. QED
      BY <3>1 DEF RoadOf, LostOf
  <2>3. \A u \in Transfers : u # t => road2[u] = road[u] /\ gone2[u] = gone[u]
    BY DEF RoadOf, LostOf, Moved
  <2>4. gone[t] = transfer[t].writtenOff /\ gone2[t] = transfer'[t].writtenOff
    BY DEF LostOf
  <2> HIDE DEF road, road2, gone, gone2
  <2>5. IsFiniteSet(Transfers) /\ SumFunction(stock) \in Int /\ sold \in Int
    BY SumsInt, InvHas
  <2>6. SumFunction(stock') = SumFunction(stock) + (road[t] - road2[t]) + (gone[t] - gone2[t])
    BY <2>4 DEF road, road2, Moved
  <2>7. SumFunction(stock') + sold + SumFunction(road2) + SumFunction(gone2)
         = SumFunction(stock) + sold + SumFunction(road) + SumFunction(gone)
    <3>1. /\ SumFunction(road) \in Int /\ SumFunction(road2) \in Int
          /\ SumFunction(road2) = SumFunction(road) + (road2[t] - road[t])
      <4>1. \A u \in Transfers : u # t => road2[u] = road[u]
        BY <2>3
      <4>2. QED
        BY <2>1, <2>2, <2>5, <4>1, OneChanged
    <3>2. /\ SumFunction(gone) \in Int /\ SumFunction(gone2) \in Int
          /\ SumFunction(gone2) = SumFunction(gone) + (gone2[t] - gone[t])
      <4>1. \A u \in Transfers : u # t => gone2[u] = gone[u]
        BY <2>3
      <4>2. QED
        BY <2>1, <2>2, <2>5, <4>1, OneChanged
    <3>3. road[t] \in Int /\ road2[t] \in Int /\ gone[t] \in Int /\ gone2[t] \in Int
      BY <2>1, <2>2
    <3>4. QED
      BY <2>5, <2>6, <3>1, <3>2, <3>3
  <2>8. SumFunction([b \in Branches |-> Total(InitBatches[b])])
         = SumFunction(stock) + sold + SumFunction(road) + SumFunction(gone)
    BY DEF TransferInv, Accounted, road, gone
  <2>9. road2 = RoadOf(transfer', body') /\ gone2 = LostOf(transfer') /\ sold' = sold
    BY DEF road2, gone2, Moved
  <2>10. QED
    BY <2>7, <2>8, <2>9 DEF Accounted
<1>3. \A u \in Transfers : u # t => OnTheWay(u)'
  <2> SUFFICES ASSUME NEW u \in Transfers, u # t, transfer[u].status = "SENT"
               PROVE  /\ Held(transfer'[u].parts, 1..Never) = body'[u].qty
                      /\ Sourced(transfer'[u].parts, batches'[body'[u].from])
    BY DEF OnTheWay, Moved
  <2> DEFINE from == body[u].from
             parts == transfer[u].parts
  <2>1. /\ Held(parts, 1..Never) = body[u].qty
        /\ Sourced(parts, batches[from])
    BY DEF TransferInv, OnTheWay
  <2>2. from \in Branches /\ parts \in Seq(Part) /\ Shelf(batches[from])
    BY InvHas
  <2>3. Shelf(batches'[from]) /\ Kept(batches[from], batches'[from])
    BY <2>2 DEF Moved
  <2> HIDE DEF from, parts
  <2>4. Sourced(parts, batches'[from])
    BY <2>1, <2>2, <2>3, KeptSourced
  <2>5. QED
    BY <2>1, <2>4 DEF from, parts, Moved
<1>4. \A u \in Transfers : body'[u].from # body'[u].to
  BY DEF TransferInv, Moved
<1>5. \A u \in Transfers : OnTheWay(u)'
  BY <1>3 DEF Moved
<1>6. \A u \in Transfers : transfer'[u].status # "RECEIVED" => transfer'[u].writtenOff = 0
  BY DEF TransferInv, Moved
<1>7. QED
  BY <1>1, <1>2, <1>4, <1>5, <1>6 DEF TransferInv, Moved

----------------------------------------------------------------------------
(***************************************************************************)
(* The transactions.                                                       *)
(***************************************************************************)

\* A request is answered.
LEMMA RequestCloses ==
    ASSUME TransferInv, NEW r \in Requests, Close(r), UNCHANGED body
    PROVE  req' \in [Requests -> Request] /\ Asked'
<1>1. req \in [Requests -> Request] /\ Idle \in Request
  BY InvHas DEF Request
<1>2. req' = [req EXCEPT ![r] = Idle]
  BY DEF Close
<1>3. req' \in [Requests -> Request]
  BY <1>1, <1>2
<1>4. \A q \in Requests : req'[q] = req[q] \/ req'[q].op = "idle"
  BY <1>1, <1>2 DEF Idle
<1>5. Asked'
  BY <1>4 DEF TransferInv, Asked
<1>6. QED
  BY <1>3, <1>5

\* What a send that commits does.
LEMMA SentPlan ==
    ASSUME NEW rows, Shelf(rows), NEW picks \in Seq(Pick), NEW qty \in Units \ {0},
           qty \in Nat, Never \in Nat \ {0}
    PROVE  LET plan == PlanSend(rows, picks, qty)
           IN  /\ Shelf(plan.rows) /\ Kept(rows, plan.rows) /\ Len(plan.rows) = Len(rows)
               /\ plan.parts \in Seq(Part) /\ Sourced(plan.parts, rows)
               /\ Held(plan.parts, 1..Never) = qty
               /\ Total(rows) >= qty => Total(plan.rows) = Total(rows) - qty
               /\ \A days : Never \notin days
                            => Held(plan.rows, days) + Held(plan.parts, days) = Held(rows, days)
<1> DEFINE plan == PlanSend(rows, picks, qty)
<1>1. /\ Shelf(plan.rows) /\ Kept(rows, plan.rows) /\ Len(plan.rows) = Len(rows)
      /\ plan.parts \in Seq(Part) /\ Sourced(plan.parts, rows)
      /\ Held(plan.parts, 1..Never) = qty
      /\ \E none \in Nat :
            /\ Total(rows) >= qty => none = 0
            /\ \A days : Held(plan.rows, days) + Held(plan.parts, days)
                         = Held(rows, days) + IF Never \in days THEN none ELSE 0
  BY PlanSendPlans
<1> HIDE DEF plan
<1>2. PICK none \in Nat :
         /\ Total(rows) >= qty => none = 0
         /\ \A days : Held(plan.rows, days) + Held(plan.parts, days)
                      = Held(rows, days) + IF Never \in days THEN none ELSE 0
  BY <1>1
<1>3. /\ Held(plan.rows, 1..Never) \in Int /\ Held(plan.rows, 1..Never) = Total(plan.rows)
      /\ Held(rows, 1..Never) \in Int /\ Held(rows, 1..Never) = Total(rows)
      /\ \A days : Held(rows, days) \in Int
  BY <1>1, ShelfHas
<1>4. Total(rows) >= qty => Total(plan.rows) = Total(rows) - qty
  <2>1. Held(plan.rows, 1..Never) + Held(plan.parts, 1..Never) = Held(rows, 1..Never) + none
    BY <1>2
  <2>2. QED
    BY <1>1, <1>2, <1>3, <2>1
<1>5. \A days : Never \notin days
                => Held(plan.rows, days) + Held(plan.parts, days) = Held(rows, days)
  <2> TAKE days
  <2> HAVE Never \notin days
  <2>1. Held(plan.rows, days) + Held(plan.parts, days)
        = Held(rows, days) + IF Never \in days THEN none ELSE 0
    BY <1>2
  <2>2. Held(rows, days) \in Int
    BY <1>3
  <2>3. QED
    BY <2>1, <2>2
<1>6. QED
  BY <1>1, <1>4, <1>5 DEF plan

LEMMA SendDoes ==
    ASSUME TransferInv, NEW r \in Requests, CommitSend(r)
    PROVE  LET t == req[r].transfer
               from == body[t].from
               plan == PlanSend(batches[from], body[t].picks, body[t].qty)
           IN  /\ t \in Transfers /\ transfer[t].status = "none"
               /\ UNCHANGED <<body, sold>> /\ Close(r)
               /\ nextTransferNumber' \in Nat
               /\ stock' \in [Branches -> Int] /\ stock'[from] = stock[from] - body[t].qty
               /\ \A c \in Branches : c # from => stock'[c] = stock[c]
               /\ everShort' = (everShort \/ \E c \in Branches : stock'[c] < 0)
               /\ batches' = [batches EXCEPT ![from] = plan.rows]
               /\ transfer'[t].status = "SENT" /\ transfer'[t].parts = plan.parts
               /\ transfer'[t].writtenOff = 0
               /\ plan.parts \in Seq(Part) => transfer' \in [Transfers -> Row]
               /\ \A u \in Transfers : u # t => transfer'[u] = transfer[u]
<1> DEFINE t == req[r].transfer
           from == body[t].from
           plan == PlanSend(batches[from], body[t].picks, body[t].qty)
           row == [NoTransfer EXCEPT !.status = "SENT", !.number = nextTransferNumber,
                                     !.parts = plan.parts]
<1>1. t \in Transfers
  BY RequestHas DEF CommitSend, Handling
<1>2. /\ from \in Branches /\ body[t].qty \in Int /\ stock[from] \in Int
      /\ transfer \in [Transfers -> Row] /\ nextTransferNumber \in Nat /\ 0 \in Units
  BY <1>1, InvHas DEF Units
<1>3. /\ transfer[t].status = "none" /\ UNCHANGED <<body, sold>> /\ Close(r)
      /\ nextTransferNumber' = nextTransferNumber + 1
      /\ transfer' = [transfer EXCEPT ![t] = row]
      /\ StockTo([stock EXCEPT ![from] = @ - body[t].qty])
      /\ batches' = [batches EXCEPT ![from] = plan.rows]
  BY DEF CommitSend
<1>4. /\ stock' = [stock EXCEPT ![from] = @ - body[t].qty]
      /\ everShort' = (everShort \/ \E c \in Branches : stock'[c] < 0)
  BY <1>3 DEF StockTo
<1>5. /\ stock' \in [Branches -> Int] /\ stock'[from] = stock[from] - body[t].qty
      /\ \A c \in Branches : c # from => stock'[c] = stock[c]
  BY <1>2, <1>4, InvHas
<1> HIDE DEF t, from, plan
<1>6. /\ row.status = "SENT" /\ row.parts = plan.parts /\ row.writtenOff = 0
      /\ plan.parts \in Seq(Part) => row \in Row
  BY <1>2 DEF Row, NoTransfer
<1> HIDE DEF row
<1>7. /\ transfer'[t] = row
      /\ \A u \in Transfers : u # t => transfer'[u] = transfer[u]
      /\ row \in Row => transfer' \in [Transfers -> Row]
  BY <1>1, <1>2, <1>3
<1>8. nextTransferNumber' \in Nat
  BY <1>2, <1>3
<1>9. QED
  BY <1>1, <1>3, <1>4, <1>5, <1>6, <1>7, <1>8 DEF t, from, plan

LEMMA SendMoves ==
    ASSUME TransferInv, NEW r \in Requests, CommitSend(r),
           NEW t \in Transfers, t = req[r].transfer
    PROVE  Moved(t)
<1> DEFINE from == body[t].from
           qty == body[t].qty
           rows == batches[from]
           picks == body[t].picks
           plan == PlanSend(rows, picks, qty)
<1>1. /\ t \in Transfers /\ transfer[t].status = "none"
      /\ UNCHANGED <<body, sold>> /\ Close(r)
      /\ nextTransferNumber' \in Nat
      /\ stock' \in [Branches -> Int] /\ stock'[from] = stock[from] - qty
      /\ \A c \in Branches : c # from => stock'[c] = stock[c]
      /\ everShort' = (everShort \/ \E c \in Branches : stock'[c] < 0)
      /\ batches' = [batches EXCEPT ![from] = plan.rows]
      /\ transfer'[t].status = "SENT" /\ transfer'[t].parts = plan.parts
      /\ transfer'[t].writtenOff = 0
      /\ plan.parts \in Seq(Part) => transfer' \in [Transfers -> Row]
      /\ \A u \in Transfers : u # t => transfer'[u] = transfer[u]
  BY SendDoes
<1>2. /\ from \in Branches /\ qty \in Units \ {0} /\ qty \in Nat \ {0}
      /\ picks \in Seq(Pick) /\ Shelf(rows) /\ Total(rows) \in Int
      /\ batches \in [Branches -> Seq(Batch)] /\ stock \in [Branches -> Int]
      /\ Never \in Nat \ {0}
  BY <1>1, InvHas
<1>3. /\ Shelf(plan.rows) /\ Kept(rows, plan.rows)
      /\ plan.parts \in Seq(Part) /\ Sourced(plan.parts, rows)
      /\ Held(plan.parts, 1..Never) = qty
  <2> HIDE DEF rows, qty, picks
  <2>1. QED
    BY <1>2, SentPlan
<1>5. Total(rows) >= qty => Total(plan.rows) = Total(rows) - qty
  <2> HIDE DEF rows, qty, picks
  <2>1. QED
    BY <1>2, SentPlan
<1>6. Kept(rows, plan.rows) => Sourced(plan.parts, plan.rows)
  BY <1>2, <1>3, KeptSourced
<1>7. /\ everShort' \in BOOLEAN
      /\ SumFunction(stock) \in Int /\ SumFunction(stock') = SumFunction(stock) - qty
  <2>1. IsFiniteSet(Branches) /\ everShort \in BOOLEAN /\ stock[from] \in Int /\ stock'[from] \in Int
    BY <1>1, <1>2, InvHas
  <2>2. everShort' \in BOOLEAN
    BY <1>1, <2>1
  <2> HIDE DEF from, qty
  <2>3. SumFunction(stock) \in Int /\ SumFunction(stock') = SumFunction(stock) + (stock'[from] - stock[from])
    <3>1. /\ from \in Branches /\ stock \in [Branches -> Int] /\ stock' \in [Branches -> Int]
          /\ \A c \in Branches : c # from => stock'[c] = stock[c]
      BY <1>1, <1>2
    <3>2. QED
      BY <2>1, <3>1, OneChanged
  <2>4. QED
    BY <1>1, <1>2, <2>1, <2>2, <2>3
<1>8. req' \in [Requests -> Request] /\ Asked'
  BY <1>1, RequestCloses
<1>9. /\ batches'[from] = plan.rows
      /\ \A b \in Branches : b # from => batches'[b] = batches[b]
      /\ batches' \in [Branches -> Seq(Batch)]
  <2>1. plan.rows \in Seq(Batch)
    BY <1>3, ShelfHas
  <2> HIDE DEF plan
  <2>2. QED
    BY <1>1, <1>2, <2>1
<1>10. \A b \in Branches : Shelf(batches'[b]) /\ Kept(batches[b], batches'[b])
  <2>1. \A b \in Branches : Shelf(batches[b]) /\ Kept(batches[b], batches[b])
    BY InvHas, ShelfHas DEF Kept
  <2> HIDE DEF plan
  <2>2. QED
    BY <1>3, <1>9, <2>1 DEF rows
<1>11. StockFits'
  <2> SUFFICES ASSUME ~everShort', NEW b \in Branches
               PROVE  stock'[b] >= 0 /\ Total(batches'[b]) = stock'[b]
    BY DEF StockFits
  <2>1. ~everShort /\ \A c \in Branches : stock'[c] >= 0
    <3> HIDE DEF from, qty, rows, plan
    <3>1. ~everShort /\ \A c \in Branches : ~(stock'[c] < 0)
      BY <1>1, Zenon
    <3>2. stock' \in [Branches -> Int]
      BY <1>1
    <3>3. QED
      BY <3>1, <3>2
  <2>2. \A c \in Branches : Total(batches[c]) = stock[c]
    BY <2>1 DEF TransferInv, StockFits
  <2>3. CASE b = from
    <3>1. stock'[from] >= 0 /\ Total(rows) = stock[from] /\ stock[from] \in Int
      BY <1>2, <2>1, <2>2
    <3> HIDE DEF rows, plan, qty
    <3>2. Total(rows) >= qty
      BY <1>1, <1>2, <3>1
    <3>3. Total(plan.rows) = stock'[from]
      BY <1>1, <1>2, <1>5, <3>1, <3>2
    <3>4. QED
      BY <1>9, <2>3, <3>1, <3>3
  <2>4. CASE b # from
    BY <1>1, <1>9, <2>1, <2>2, <2>4
  <2>5. QED
    BY <2>3, <2>4
<1>12. OnTheWay(t)'
  <2>1. Sourced(plan.parts, plan.rows)
    BY <1>3, <1>6
  <2> HIDE DEF plan
  <2>2. transfer'[t].parts = plan.parts /\ body' = body /\ batches'[body[t].from] = plan.rows
    BY <1>1, <1>9 DEF from
  <2>3. Held(transfer'[t].parts, 1..Never) = body'[t].qty
    BY <1>3, <2>2 DEF qty
  <2>4. Sourced(transfer'[t].parts, batches'[body'[t].from])
    BY <2>1, <2>2
  <2>5. QED
    BY <2>3, <2>4 DEF OnTheWay
<1>13. SumFunction(stock')
         = SumFunction(stock) + (RoadOf(transfer, body)[t] - RoadOf(transfer', body)[t])
           + (transfer[t].writtenOff - transfer'[t].writtenOff)
  <2>1. transfer[t].writtenOff = 0
    BY <1>1 DEF TransferInv
  <2>2. RoadOf(transfer, body)[t] = 0 /\ RoadOf(transfer', body)[t] = qty
    BY <1>1 DEF RoadOf
  <2>3. SumFunction(stock) \in Int
    BY SumsInt
  <2> HIDE DEF qty
  <2>4. transfer'[t].writtenOff = 0 /\ qty \in Int
    BY <1>1, <1>2
  <2>5. QED
    BY <1>7, <2>1, <2>2, <2>3, <2>4
<1> HIDE DEF plan, rows, qty, from
<1>14. QED
  BY <1>1, <1>3, <1>7, <1>8, <1>9, <1>10, <1>11, <1>12, <1>13 DEF Moved

\* Two values of a function changed.
LEMMA TwoChanged ==
    ASSUME NEW S, IsFiniteSet(S), NEW f \in [S -> Int], NEW g \in [S -> Int],
           NEW d \in S, NEW e \in S, d # e, \A x \in S : x # d /\ x # e => g[x] = f[x]
    PROVE  /\ SumFunction(f) \in Int
           /\ SumFunction(g) = SumFunction(f) + (g[d] - f[d]) + (g[e] - f[e])
<1> DEFINE h == [f EXCEPT ![d] = g[d]]
<1>1. /\ h \in [S -> Int] /\ h[d] = g[d] /\ h[e] = f[e]
      /\ \A x \in S : x # d => h[x] = f[x]
      /\ \A x \in S : x # e => g[x] = h[x]
  OBVIOUS
<1>2. f[d] \in Int /\ g[d] \in Int /\ f[e] \in Int /\ g[e] \in Int
  OBVIOUS
<1> HIDE DEF h
<1>3. SumFunction(f) \in Int /\ SumFunction(h) = SumFunction(f) + (h[d] - f[d])
  BY <1>1, OneChanged
<1>4. SumFunction(h) \in Int /\ SumFunction(g) = SumFunction(h) + (g[e] - h[e])
  BY <1>1, OneChanged
<1>5. QED
  BY <1>1, <1>2, <1>3, <1>4

\* A transfer under way is settled: some units arrive, some go back.
Settles(t, got, back) ==
    LET from == body[t].from
        to == body[t].to
        parts == transfer[t].parts
    IN  /\ transfer[t].status = "SENT" /\ got + back <= body[t].qty
        /\ UNCHANGED <<body, sold, nextTransferNumber>>
        /\ req' \in [Requests -> Request] /\ Asked'
        /\ stock' \in [Branches -> Int]
        /\ stock'[to] = stock[to] + got /\ stock'[from] = stock[from] + back
        /\ \A b \in Branches : b # to /\ b # from => stock'[b] = stock[b]
        /\ everShort' = (everShort \/ \E b \in Branches : stock'[b] < 0)
        /\ batches' = [b \in Branches |-> batches'[b]]
        /\ \/ batches'[to] = Arrive(batches[to], parts, got)
           \/ got = 0 /\ batches'[to] = batches[to]
        /\ batches'[from] = GoBack(batches[from], parts, back)
        /\ \A b \in Branches : b # to /\ b # from => batches'[b] = batches[b]
        /\ transfer' \in [Transfers -> Row]
        /\ transfer'[t].status \in {"RECEIVED", "CANCELLED"}
        /\ transfer'[t].writtenOff = body[t].qty - got - back
        /\ transfer'[t].status # "RECEIVED" => transfer'[t].writtenOff = 0
        /\ \A u \in Transfers : u # t => transfer'[u] = transfer[u]

LEMMA CancelSettles ==
    ASSUME TransferInv, NEW r \in Requests, CommitCancel(r),
           NEW t \in Transfers, t = req[r].transfer
    PROVE  Settles(t, 0, body[t].qty)
<1> DEFINE from == body[t].from
           to == body[t].to
           qty == body[t].qty
           new == GoBack(batches[from], transfer[t].parts, qty)
<1>1. /\ from \in Branches /\ to \in Branches /\ from # to /\ qty \in Int
      /\ stock \in [Branches -> Int] /\ transfer \in [Transfers -> Row]
      /\ batches \in [Branches -> Seq(Batch)] /\ transfer[t] \in Row
  BY InvHas
<1>2. /\ transfer[t].status = "SENT" /\ UNCHANGED <<body, sold, nextTransferNumber>> /\ Close(r)
      /\ transfer' = [transfer EXCEPT ![t].status = "CANCELLED"]
      /\ StockTo([stock EXCEPT ![from] = @ + qty])
      /\ batches' = [batches EXCEPT ![from] = new]
  BY DEF CommitCancel, StillInTransit
<1>3. req' \in [Requests -> Request] /\ Asked'
  BY <1>2, RequestCloses
<1>4. /\ stock' = [stock EXCEPT ![from] = @ + qty]
      /\ everShort' = (everShort \/ \E b \in Branches : stock'[b] < 0)
  BY <1>2 DEF StockTo
<1>5. transfer[t].writtenOff = 0
  BY <1>2 DEF TransferInv
<1> HIDE DEF from, to, qty, new
<1>6. /\ stock' \in [Branches -> Int] /\ stock'[to] = stock[to] + 0 /\ stock'[from] = stock[from] + qty
      /\ \A b \in Branches : b # from => stock'[b] = stock[b]
  BY <1>1, <1>4
<1>7. /\ batches' = [b \in Branches |-> batches'[b]] /\ batches'[from] = new
      /\ \A b \in Branches : b # from => batches'[b] = batches[b]
  BY <1>1, <1>2
<1>8. /\ transfer' \in [Transfers -> Row]
      /\ transfer'[t].status = "CANCELLED" /\ transfer'[t].writtenOff = 0
      /\ \A u \in Transfers : u # t => transfer'[u] = transfer[u]
  <2> DEFINE row == [transfer[t] EXCEPT !.status = "CANCELLED"]
  <2>1. row \in Row /\ row.status = "CANCELLED" /\ row.writtenOff = 0
    BY <1>1, <1>5 DEF Row
  <2>2. transfer' = [transfer EXCEPT ![t] = row]
    BY <1>1, <1>2
  <2> HIDE DEF row
  <2>3. QED
    BY <1>1, <2>1, <2>2
<1>9. 0 + qty <= qty /\ qty - 0 - qty = 0 /\ 0 = 0
  BY <1>1
<1>10. batches'[to] = batches[to]
  BY <1>1, <1>7
<1>11. QED
  BY <1>2, <1>3, <1>4, <1>6, <1>7, <1>8, <1>9, <1>10 DEF Settles, from, to, qty, new

LEMMA ReceiveSettles ==
    ASSUME TransferInv, NEW r \in Requests, CommitReceive(r),
           NEW t \in Transfers, t = req[r].transfer
    PROVE  \E got, back \in Units : Settles(t, got, back)
<1> DEFINE from == body[t].from
           to == body[t].to
           qty == body[t].qty
           parts == transfer[t].parts
           got == req[r].got
           back == ToReturn(t, got, req[r].short)
           off == ToWriteOff(t, got, req[r].short)
           there == Arrive(batches[to], parts, got)
           here == GoBack(batches[from], parts, back)
<1>1. /\ from \in Branches /\ to \in Branches /\ from # to
      /\ qty \in Nat /\ qty <= MaxQty /\ MaxQty \in Nat
      /\ stock \in [Branches -> Int] /\ transfer \in [Transfers -> Row]
      /\ batches \in [Branches -> Seq(Batch)] /\ transfer[t] \in Row
  BY InvHas
<1>2. req[r].op = "receive"
  BY DEF CommitReceive, Handling
<1>3. got \in Units /\ got <= qty /\ req[r].short \in {"RETURN", "WRITE_OFF"}
  BY <1>2, RequestHas
<1>4. back \in Units /\ off \in Units /\ got + back <= qty /\ off = qty - got - back
  <2>1. got \in Nat /\ got <= MaxQty
    BY <1>1, <1>3 DEF Units
  <2> HIDE DEF got
  <2>2. CASE req[r].short = "RETURN"
    <3>1. back = qty - got /\ off = 0
      BY <2>2 DEF ToReturn, ToWriteOff
    <3> HIDE DEF back, off, qty
    <3>2. QED
      BY <1>1, <1>3, <2>1, <3>1 DEF Units
  <2>3. CASE req[r].short = "WRITE_OFF"
    <3>1. back = 0 /\ off = qty - got
      BY <2>3 DEF ToReturn, ToWriteOff
    <3> HIDE DEF back, off, qty
    <3>2. QED
      BY <1>1, <1>3, <2>1, <3>1 DEF Units
  <2>4. QED
    BY <1>3, <2>2, <2>3
<1>5. /\ transfer[t].status = "SENT" /\ UNCHANGED <<body, sold, nextTransferNumber>> /\ Close(r)
      /\ transfer' = [transfer EXCEPT
            ![t].status = "RECEIVED", ![t].received = got,
            ![t].returned = back, ![t].writtenOff = off]
      /\ StockTo([stock EXCEPT ![to] = @ + got, ![from] = @ + back])
      /\ batches' = [batches EXCEPT ![to] = Arrive(@, parts, got), ![from] = GoBack(@, parts, back)]
  BY DEF CommitReceive, StillInTransit
<1>6. req' \in [Requests -> Request] /\ Asked'
  BY <1>5, RequestCloses
<1>7. /\ stock' = [stock EXCEPT ![to] = @ + got, ![from] = @ + back]
      /\ everShort' = (everShort \/ \E b \in Branches : stock'[b] < 0)
  BY <1>5 DEF StockTo
<1>8. got \in Int /\ back \in Int
  BY <1>1, <1>3, <1>4 DEF Units
<1>9. batches' = [batches EXCEPT ![to] = there, ![from] = here]
  BY <1>1, <1>5
<1> HIDE DEF from, to, qty, got, back, off, there, here
<1>10. /\ stock' \in [Branches -> Int] /\ stock'[to] = stock[to] + got /\ stock'[from] = stock[from] + back
       /\ \A b \in Branches : b # to /\ b # from => stock'[b] = stock[b]
  BY <1>1, <1>7, <1>8
<1>11. /\ batches' = [b \in Branches |-> batches'[b]] /\ batches'[to] = there /\ batches'[from] = here
       /\ \A b \in Branches : b # to /\ b # from => batches'[b] = batches[b]
  BY <1>1, <1>9
<1>12. /\ transfer' \in [Transfers -> Row]
       /\ transfer'[t].status = "RECEIVED" /\ transfer'[t].writtenOff = off
       /\ \A u \in Transfers : u # t => transfer'[u] = transfer[u]
  <2> DEFINE row == [transfer[t] EXCEPT !.status = "RECEIVED", !.received = got,
                                        !.returned = back, !.writtenOff = off]
  <2>1. row \in Row /\ row.status = "RECEIVED" /\ row.writtenOff = off
    BY <1>1, <1>3, <1>4 DEF Row
  <2>2. transfer' = [transfer EXCEPT ![t] = row]
    BY <1>1, <1>5
  <2> HIDE DEF row
  <2>3. QED
    BY <1>1, <2>1, <2>2
<1>13. Settles(t, got, back)
  BY <1>4, <1>5, <1>6, <1>7, <1>10, <1>11, <1>12 DEF Settles, from, to, qty, there, here
<1>14. QED
  BY <1>3, <1>4, <1>13

LEMMA SettleMoves ==
    ASSUME TransferInv, NEW t \in Transfers, NEW got \in Nat, NEW back \in Nat,
           Settles(t, got, back)
    PROVE  Moved(t)
<1> DEFINE from == body[t].from
           to == body[t].to
           qty == body[t].qty
           parts == transfer[t].parts
           rowsTo == batches[to]
           rowsFrom == batches[from]
           newTo == batches'[to]
           newFrom == batches'[from]
<1>1. /\ from \in Branches /\ to \in Branches /\ from # to
      /\ qty \in Nat \ {0} /\ parts \in Seq(Part)
      /\ Shelf(rowsTo) /\ Shelf(rowsFrom)
      /\ Total(rowsTo) \in Int /\ Total(rowsFrom) \in Int
      /\ batches \in [Branches -> Seq(Batch)] /\ stock \in [Branches -> Int]
      /\ IsFiniteSet(Branches) /\ everShort \in BOOLEAN /\ nextTransferNumber \in Nat
  BY InvHas
<1>2. /\ transfer[t].status = "SENT" /\ got + back <= qty
      /\ UNCHANGED <<body, sold, nextTransferNumber>>
      /\ req' \in [Requests -> Request] /\ Asked'
      /\ transfer' \in [Transfers -> Row]
      /\ transfer'[t].status \in {"RECEIVED", "CANCELLED"}
      /\ transfer'[t].writtenOff = qty - got - back
      /\ transfer'[t].status # "RECEIVED" => transfer'[t].writtenOff = 0
      /\ \A u \in Transfers : u # t => transfer'[u] = transfer[u]
  BY DEF Settles
<1>3. /\ stock' \in [Branches -> Int]
      /\ stock'[to] = stock[to] + got /\ stock'[from] = stock[from] + back
      /\ \A b \in Branches : b # to /\ b # from => stock'[b] = stock[b]
      /\ everShort' = (everShort \/ \E b \in Branches : stock'[b] < 0)
  BY DEF Settles
<1>4. /\ newTo = Arrive(rowsTo, parts, got) \/ (got = 0 /\ newTo = rowsTo)
      /\ newFrom = GoBack(rowsFrom, parts, back)
      /\ \A b \in Branches : b # to /\ b # from => batches'[b] = batches[b]
  BY DEF Settles
<1>5. Held(parts, 1..Never) = qty /\ Sourced(parts, rowsFrom)
  BY <1>2 DEF TransferInv, OnTheWay
<1>6. got <= Held(parts, 1..Never) /\ back <= Held(parts, 1..Never)
  <2> HIDE DEF qty, parts
  <2>1. QED
    BY <1>1, <1>2, <1>5, SMTT(30)
<1>7. Shelf(newTo) /\ Kept(rowsTo, newTo) /\ Total(newTo) = Total(rowsTo) + got
  <2>1. CASE newTo = Arrive(rowsTo, parts, got)
    <3> HIDE DEF parts, rowsTo, newTo, rowsFrom
    <3>1. /\ Shelf(Arrive(rowsTo, parts, got)) /\ Kept(rowsTo, Arrive(rowsTo, parts, got))
          /\ Total(Arrive(rowsTo, parts, got)) = Total(rowsTo) + got
      BY <1>1, <1>5, <1>6, ArriveAdds
    <3>2. QED
      BY <2>1, <3>1
  <2>2. CASE got = 0 /\ newTo = rowsTo
    <3> HIDE DEF rowsTo, newTo
    <3>1. Kept(rowsTo, rowsTo)
      BY <1>1, ShelfHas DEF Kept
    <3>2. QED
      BY <1>1, <2>2, <3>1
  <2>3. QED
    BY <1>4, <2>1, <2>2
<1>8. Shelf(newFrom) /\ Kept(rowsFrom, newFrom) /\ Total(newFrom) = Total(rowsFrom) + back
  <2> HIDE DEF parts, newFrom, rowsFrom
  <2>1. /\ Shelf(GoBack(rowsFrom, parts, back)) /\ Kept(rowsFrom, GoBack(rowsFrom, parts, back))
        /\ Total(GoBack(rowsFrom, parts, back)) = Total(rowsFrom) + back
    BY <1>1, <1>5, <1>6, GoBackAdds
  <2>2. QED
    BY <1>4, <2>1
<1>9. \A b \in Branches : Shelf(batches'[b]) /\ Kept(batches[b], batches'[b])
  <2>1. \A b \in Branches : Shelf(batches[b]) /\ Kept(batches[b], batches[b])
    BY InvHas, ShelfHas DEF Kept
  <2>2. \A b \in Branches : b # to /\ b # from => batches'[b] = batches[b]
    BY <1>4
  <2> TAKE b \in Branches
  <2>3. CASE b = to
    BY <1>7, <2>3
  <2>4. CASE b = from
    BY <1>8, <2>4
  <2>5. CASE b # to /\ b # from
    BY <2>1, <2>2, <2>5
  <2>6. QED
    BY <2>3, <2>4, <2>5
<1>10. batches' \in [Branches -> Seq(Batch)]
  <2>1. \A b \in Branches : batches'[b] \in Seq(Batch)
    BY <1>9, ShelfHas
  <2>2. batches' = [b \in Branches |-> batches'[b]]
    BY DEF Settles
  <2>3. QED
    BY <2>1, <2>2
<1>11. SumFunction(stock) \in Int /\ SumFunction(stock') = SumFunction(stock) + got + back
  <2>1. \A b \in Branches : b # to /\ b # from => stock'[b] = stock[b]
    BY <1>3
  <2> HIDE DEF from, to
  <2>2. /\ IsFiniteSet(Branches) /\ stock \in [Branches -> Int] /\ stock' \in [Branches -> Int]
        /\ to \in Branches /\ from \in Branches /\ to # from
    BY <1>1, <1>3
  <2>3. /\ SumFunction(stock) \in Int
        /\ SumFunction(stock') = SumFunction(stock) + (stock'[to] - stock[to]) + (stock'[from] - stock[from])
    BY <2>1, <2>2, TwoChanged
  <2>4. stock[to] \in Int /\ stock[from] \in Int
    BY <1>1
  <2>5. QED
    BY <1>3, <2>3, <2>4
<1>12. everShort' \in BOOLEAN
  BY <1>1, <1>3
<1>13. StockFits'
  <2> SUFFICES ASSUME ~everShort', NEW b \in Branches
               PROVE  stock'[b] >= 0 /\ Total(batches'[b]) = stock'[b]
    BY DEF StockFits
  <2>1. ~everShort /\ \A c \in Branches : stock'[c] >= 0
    <3> HIDE DEF from, to
    <3>1. ~everShort /\ \A c \in Branches : ~(stock'[c] < 0)
      BY <1>3, Zenon
    <3>2. stock' \in [Branches -> Int]
      BY <1>3
    <3>3. QED
      BY <3>1, <3>2
  <2>2. \A c \in Branches : Total(batches[c]) = stock[c]
    BY <2>1 DEF TransferInv, StockFits
  <2>3. CASE b = to
    BY <1>1, <1>3, <1>7, <2>1, <2>2, <2>3
  <2>4. CASE b = from
    BY <1>1, <1>3, <1>8, <2>1, <2>2, <2>4
  <2>5. CASE b # to /\ b # from
    BY <1>3, <1>4, <2>1, <2>2, <2>5
  <2>6. QED
    BY <2>3, <2>4, <2>5
<1>14. OnTheWay(t)'
  BY <1>2 DEF OnTheWay
<1>15. SumFunction(stock')
         = SumFunction(stock) + (RoadOf(transfer, body)[t] - RoadOf(transfer', body)[t])
           + (transfer[t].writtenOff - transfer'[t].writtenOff)
  <2>1. transfer[t].writtenOff = 0
    BY <1>2 DEF TransferInv
  <2>2. RoadOf(transfer, body)[t] = qty /\ RoadOf(transfer', body)[t] = 0
    BY <1>2 DEF RoadOf
  <2> HIDE DEF qty
  <2>3. QED
    BY <1>1, <1>2, <1>11, <2>1, <2>2
<1> HIDE DEF rowsTo, rowsFrom, newTo, newFrom, qty, from, to, parts
<1>16. QED
  BY <1>1, <1>2, <1>3, <1>9, <1>10, <1>11, <1>12, <1>13, <1>14, <1>15 DEF Moved

----------------------------------------------------------------------------
(***************************************************************************)
(* Sales, and what a request does before its transaction.                  *)
(***************************************************************************)

\* What the batches of a branch are after a unit is sold.
LEMMA UnitSold ==
    ASSUME NEW rows, Shelf(rows)
    PROVE  LET new == Out(rows, PlanTake(rows, 1, 0).take)
           IN  /\ Shelf(new) /\ Kept(rows, new) /\ Len(new) = Len(rows)
               /\ Total(rows) \in Int /\ Total(new) = Total(rows) - Least(1, Total(rows))
               /\ \A days : Held(new, days) <= Held(rows, days)
<1> DEFINE take == PlanTake(rows, 1, 0).take
           new == Out(rows, take)
<1>1. /\ rows \in Seq(Batch) /\ Len(rows) \in Nat /\ DOMAIN rows = 1..Len(rows)
      /\ IsFiniteSet(DOMAIN rows) /\ Never \in Nat
      /\ \A i \in 1..Len(rows) : rows[i].qty \in Int
      /\ \A days : Held(rows, days) \in Int
      /\ Held(rows, 1..Never) = Total(rows)
  BY ShelfHas
<1>2. /\ take \in [DOMAIN rows -> Nat]
      /\ \A i \in DOMAIN rows : take[i] <= rows[i].qty
      /\ SumFunction(take) = Least(1, Total(rows))
  BY <1>1, PlanTakeTakes
<1> HIDE DEF take
<1>3. /\ Shelf(new) /\ Len(new) = Len(rows) /\ DOMAIN new = DOMAIN rows
      /\ \A i \in DOMAIN rows : /\ new[i].qty = rows[i].qty - take[i]
                                /\ new[i].expiry = rows[i].expiry
                                /\ new[i].opening = rows[i].opening
      /\ Total(rows) \in Int /\ Total(new) = Total(rows) - SumFunction(take)
  BY <1>1, <1>2, OutTakesOut
<1> HIDE DEF new
<1>4. Kept(rows, new)
  BY <1>1, <1>3 DEF Kept
<1>5. ASSUME NEW days
      PROVE  Held(new, days) <= Held(rows, days)
  <2> DEFINE p == HeldOf(rows, days)
             q == HeldOf(new, days)
  <2>1. /\ DOMAIN p = DOMAIN rows /\ DOMAIN q = DOMAIN rows
        /\ \A i \in DOMAIN rows : /\ p[i] = IF rows[i].expiry \in days THEN rows[i].qty ELSE 0
                                  /\ q[i] = IF new[i].expiry \in days THEN new[i].qty ELSE 0
    BY <1>3 DEF HeldOf
  <2> HIDE DEF p, q
  <2>2. \A i \in DOMAIN rows : p[i] \in Int /\ q[i] \in Int /\ q[i] <= p[i]
    <3> TAKE i \in DOMAIN rows
    <3>1. take[i] \in Nat /\ rows[i].qty \in Int
      BY <1>1, <1>2
    <3>2. QED
      BY <1>3, <2>1, <3>1
  <2>3. /\ IsFiniteSet(DOMAIN q) /\ DOMAIN p = DOMAIN q
        /\ \A i \in DOMAIN q : q[i] \in Int /\ p[i] \in Int /\ q[i] <= p[i]
    BY <1>1, <2>1, <2>2
  <2>4. SumFunction(q) <= SumFunction(p)
    BY <2>3, TotalAtLeast
  <2>5. QED
    BY <2>4 DEF p, q, Held
<1>6. QED
  BY <1>2, <1>3, <1>4, <1>5 DEF new, take

LEMMA SellSells ==
    ASSUME TransferInv, NEW b \in Branches, Sell(b)
    PROVE  LET new == Out(batches[b], PlanTake(batches[b], 1, 0).take)
           IN  /\ stock[b] > 0 /\ sold' = sold + 1
               /\ stock' \in [Branches -> Int] /\ stock'[b] = stock[b] - 1
               /\ \A c \in Branches : c # b => stock'[c] = stock[c]
               /\ everShort' = (everShort \/ \E c \in Branches : stock'[c] < 0)
               /\ batches' = [batches EXCEPT ![b] = new]
               /\ UNCHANGED <<body, transfer, nextTransferNumber, req>>
<1>1. stock \in [Branches -> Int] /\ batches \in [Branches -> Seq(Batch)]
  BY InvHas
<1>2. /\ stock[b] > 0 /\ sold' = sold + 1
      /\ StockTo([stock EXCEPT ![b] = @ - 1])
      /\ UNCHANGED <<body, transfer, nextTransferNumber, req>>
  BY DEF Sell
<1>3. /\ stock' = [stock EXCEPT ![b] = @ - 1]
      /\ everShort' = (everShort \/ \E c \in Branches : stock'[c] < 0)
  BY <1>2 DEF StockTo
<1>4. /\ stock' \in [Branches -> Int] /\ stock'[b] = stock[b] - 1
      /\ \A c \in Branches : c # b => stock'[c] = stock[c]
  BY <1>1, <1>3
<1>5. batches' = [batches EXCEPT ![b] = Out(batches[b], PlanTake(batches[b], 1, 0).take)]
  BY <1>1 DEF Sell
<1>6. QED
  BY <1>2, <1>3, <1>4, <1>5

LEMMA SellKeeps ==
    ASSUME TransferInv, NEW b \in Branches, Sell(b)
    PROVE  TransferInv'
<1> DEFINE rows == batches[b]
           new == Out(rows, PlanTake(rows, 1, 0).take)
<1>1. /\ stock[b] > 0 /\ sold' = sold + 1
      /\ stock' \in [Branches -> Int] /\ stock'[b] = stock[b] - 1
      /\ \A c \in Branches : c # b => stock'[c] = stock[c]
      /\ everShort' = (everShort \/ \E c \in Branches : stock'[c] < 0)
      /\ batches' = [batches EXCEPT ![b] = new]
      /\ UNCHANGED <<body, transfer, nextTransferNumber, req>>
  BY SellSells
<1>2. /\ stock \in [Branches -> Int] /\ batches \in [Branches -> Seq(Batch)]
      /\ IsFiniteSet(Branches) /\ Shelf(rows) /\ Total(rows) \in Int
      /\ everShort \in BOOLEAN /\ sold \in Nat /\ stock[b] \in Int
  BY InvHas
<1>3. Shelf(new) /\ Kept(rows, new) /\ Total(new) = Total(rows) - Least(1, Total(rows))
  <2> HIDE DEF rows
  <2>1. QED
    BY <1>2, UnitSold
<1> HIDE DEF new
<1>4. /\ batches'[b] = new /\ batches' \in [Branches -> Seq(Batch)]
      /\ \A c \in Branches : c # b => batches'[c] = batches[c]
  <2>1. new \in Seq(Batch)
    BY <1>3, ShelfHas
  <2>2. QED
    BY <1>1, <1>2, <2>1
<1>5. \A c \in Branches : Shelf(batches'[c]) /\ Kept(batches[c], batches'[c])
  <2>1. \A c \in Branches : Shelf(batches[c]) /\ Kept(batches[c], batches[c])
    BY InvHas, ShelfHas DEF Kept
  <2>2. QED
    BY <1>3, <1>4, <2>1
<1>6. TypeOK'
  <2>1. sold' \in Nat /\ everShort' \in BOOLEAN
    BY <1>1, <1>2
  <2>2. TypeOK
    BY DEF TransferInv
  <2>3. QED
    BY <1>1, <1>4, <2>1, <2>2 DEF TypeOK
<1>7. Asked'
  BY <1>1 DEF TransferInv, Asked
<1>8. Accounted'
  <2> DEFINE road == SumFunction(RoadOf(transfer, body))
             gone == SumFunction(LostOf(transfer))
             first == SumFunction([c \in Branches |-> Total(InitBatches[c])])
  <2>1. SumFunction(stock) \in Int /\ SumFunction(stock') = SumFunction(stock) + (stock'[b] - stock[b])
    <3>1. \A c \in Branches : c # b => stock'[c] = stock[c]
      BY <1>1
    <3>2. stock \in [Branches -> Int] /\ stock' \in [Branches -> Int] /\ IsFiniteSet(Branches)
      BY <1>1, <1>2
    <3>3. QED
      BY <3>1, <3>2, OneChanged
  <2>2. road \in Int /\ gone \in Int
    BY SumsInt
  <2>3. first = SumFunction(stock) + sold + road + gone
    BY DEF TransferInv, Accounted
  <2>4. road = SumFunction(RoadOf(transfer', body')) /\ gone = SumFunction(LostOf(transfer'))
    BY <1>1
  <2> HIDE DEF road, gone, first
  <2>5. first = SumFunction(stock') + sold' + road + gone
    BY <1>1, <1>2, <2>1, <2>2, <2>3, SMTT(30)
  <2>6. QED
    BY <2>4, <2>5 DEF Accounted, first
<1>9. StockFits'
  <2> SUFFICES ASSUME ~everShort', NEW c \in Branches
               PROVE  stock'[c] >= 0 /\ Total(batches'[c]) = stock'[c]
    BY DEF StockFits
  <2>1. ~everShort /\ stock'[c] >= 0
    <3>1. ~everShort /\ ~(stock'[c] < 0)
      BY <1>1, Zenon
    <3>2. stock'[c] \in Int
      BY <1>1
    <3>3. QED
      BY <3>1, <3>2
  <2>2. \A d \in Branches : Total(batches[d]) = stock[d]
    BY <2>1 DEF TransferInv, StockFits
  <2>3. CASE c = b
    <3>1. Total(rows) = stock[b]
      BY <2>2
    <3>2. Total(new) = stock[b] - 1
      BY <1>1, <1>2, <1>3, <3>1 DEF Least
    <3>3. QED
      BY <1>1, <1>4, <2>1, <2>3, <3>2
  <2>4. CASE c # b
    BY <1>1, <1>4, <2>1, <2>2, <2>4
  <2>5. QED
    BY <2>3, <2>4
<1>10. \A t \in Transfers : OnTheWay(t)'
  <2> SUFFICES ASSUME NEW t \in Transfers, transfer[t].status = "SENT"
               PROVE  /\ Held(transfer'[t].parts, 1..Never) = body'[t].qty
                      /\ Sourced(transfer'[t].parts, batches'[body'[t].from])
    BY <1>1 DEF OnTheWay
  <2> DEFINE from == body[t].from
             parts == transfer[t].parts
  <2>1. Held(parts, 1..Never) = body[t].qty /\ Sourced(parts, batches[from])
    BY DEF TransferInv, OnTheWay
  <2>2. from \in Branches /\ parts \in Seq(Part)
    BY InvHas
  <2>3. Shelf(batches[from]) /\ Shelf(batches'[from]) /\ Kept(batches[from], batches'[from])
    BY <1>5, <2>2, InvHas
  <2> HIDE DEF from, parts
  <2>4. Sourced(parts, batches'[from])
    BY <2>1, <2>2, <2>3, KeptSourced
  <2>5. QED
    BY <1>1, <2>1, <2>4 DEF from, parts
<1>11. \A t \in Transfers : /\ body'[t].from # body'[t].to
                            /\ transfer'[t].status # "RECEIVED" => transfer'[t].writtenOff = 0
  BY <1>1 DEF TransferInv
<1>12. QED
  BY <1>5, <1>6, <1>7, <1>8, <1>9, <1>10, <1>11 DEF TransferInv

\* Only the requests change.
LEMMA RequestsKeep ==
    ASSUME TransferInv, req' \in [Requests -> Request], Asked',
           UNCHANGED <<body, stock, batches, transfer, nextTransferNumber, sold, everShort>>
    PROVE  TransferInv'
<1>1. TypeOK'
  BY DEF TransferInv, TypeOK
<1>2. Accounted' /\ StockFits'
  BY DEF TransferInv, Accounted, StockFits
<1>3. \A t \in Transfers : OnTheWay(t)'
  BY DEF TransferInv, OnTheWay
<1>4. QED
  BY <1>1, <1>2, <1>3 DEF TransferInv

LEMMA TakeKeeps ==
    ASSUME TransferInv, NEW r \in Requests, NEW request \in Request, Take(r, request),
           request.op = "send" => request.seen >= body[request.transfer].qty,
           request.op = "receive" => request.got <= body[request.transfer].qty,
           UNCHANGED <<body, stock, batches, transfer, nextTransferNumber, sold, everShort>>
    PROVE  TransferInv'
<1>1. req \in [Requests -> Request] /\ req' = [req EXCEPT ![r] = request]
  BY InvHas DEF Take
<1>2. req' \in [Requests -> Request] /\ \A q \in Requests : req'[q] = req[q] \/ req'[q] = request
  BY <1>1
<1>3. Asked'
  BY <1>2 DEF TransferInv, Asked
<1>4. QED
  BY <1>2, <1>3, RequestsKeep

LEMMA BeginKeeps ==
    ASSUME TransferInv, NEW r \in Requests, NEW t \in Transfers, NEW got \in Units,
           NEW short \in {"RETURN", "WRITE_OFF"},
           BeginSend(r, t) \/ BeginCancel(r, t) \/ BeginReceive(r, t, got, short)
    PROVE  TransferInv'
<1>1. CASE BeginSend(r, t)
  <2> DEFINE request == [op |-> "send", transfer |-> t, seen |-> stock[body[t].from]]
  <2>1. stock[body[t].from] \in Int
    BY InvHas
  <2>2. /\ request \in Request /\ request.op = "send" /\ request.transfer = t
        /\ request.seen = stock[body[t].from]
    BY <2>1 DEF Request
  <2>3. /\ Take(r, request) /\ stock[body[t].from] >= body[t].qty
        /\ UNCHANGED <<body, stock, batches, transfer, nextTransferNumber, sold, everShort>>
    BY <1>1 DEF BeginSend, Enough
  <2> HIDE DEF request
  <2>4. QED
    BY <2>2, <2>3, TakeKeeps
<1>2. CASE BeginCancel(r, t)
  <2> DEFINE request == [op |-> "cancel", transfer |-> t]
  <2>1. request \in Request /\ request.op = "cancel"
    BY DEF Request
  <2>2. /\ Take(r, request)
        /\ UNCHANGED <<body, stock, batches, transfer, nextTransferNumber, sold, everShort>>
    BY <1>2 DEF BeginCancel
  <2> HIDE DEF request
  <2>3. QED
    BY <2>1, <2>2, TakeKeeps
<1>3. CASE BeginReceive(r, t, got, short)
  <2> DEFINE request == [op |-> "receive", transfer |-> t, got |-> got, short |-> short]
  <2>1. request \in Request /\ request.op = "receive" /\ request.transfer = t /\ request.got = got
    BY DEF Request
  <2>2. /\ Take(r, request) /\ got <= body[t].qty
        /\ UNCHANGED <<body, stock, batches, transfer, nextTransferNumber, sold, everShort>>
    BY <1>3 DEF BeginReceive
  <2> HIDE DEF request
  <2>3. QED
    BY <2>1, <2>2, TakeKeeps
<1>4. QED
  BY <1>1, <1>2, <1>3

LEMMA CloseKeeps ==
    ASSUME TransferInv, NEW r \in Requests, CloseUnchanged(r)
    PROVE  TransferInv'
<1>1. /\ Close(r)
      /\ UNCHANGED <<body, stock, batches, transfer, nextTransferNumber, sold, everShort>>
  BY DEF CloseUnchanged
<1>2. QED
  BY <1>1, RequestCloses, RequestsKeep

----------------------------------------------------------------------------
(***************************************************************************)
(* The theorems.                                                           *)
(***************************************************************************)

\* What a step commits, if anything.
LEMMA StepCommits ==
    ASSUME TransferInv, [Next]_vars
    PROVE  \/ UNCHANGED <<body, stock, batches, transfer, sold>>
           \/ \E b \in Branches : Sell(b)
           \/ \E r \in Requests : CommitSend(r)
           \/ \E t \in Transfers, got, back \in Units : Settles(t, got, back)
<1> DEFINE Nothing == UNCHANGED <<body, stock, batches, transfer, sold>>
           Settling == \E t \in Transfers, got, back \in Units : Settles(t, got, back)
<1>1. ASSUME UNCHANGED vars \/ \E t \in Transfers : Replay(t) PROVE Nothing
  BY <1>1 DEF vars, Replay
<1>2. ASSUME NEW r \in Requests, SentMeanwhile(r) \/ RefuseNotInTransit(r) \/ Fail(r)
      PROVE  Nothing
  BY <1>2 DEF SentMeanwhile, RefuseNotInTransit, Fail, CloseUnchanged
<1>3. ASSUME NEW r \in Requests, NEW t \in Transfers, BeginSend(r, t) \/ BeginCancel(r, t)
      PROVE  Nothing
  BY <1>3 DEF BeginSend, BeginCancel
<1>4. ASSUME NEW r \in Requests, NEW t \in Transfers, NEW got \in Units,
             NEW short \in {"RETURN", "WRITE_OFF"}, BeginReceive(r, t, got, short)
      PROVE  Nothing
  BY <1>4 DEF BeginReceive
<1>5. ASSUME NEW r \in Requests, CommitReceive(r) PROVE Settling
  <2>1. PICK t \in Transfers : t = req[r].transfer
    BY <1>5, RequestHas DEF CommitReceive, Handling
  <2>2. QED
    BY <1>5, <2>1, ReceiveSettles
<1>6. ASSUME NEW r \in Requests, CommitCancel(r) PROVE Settling
  <2>1. PICK t \in Transfers : t = req[r].transfer
    BY <1>6, RequestHas DEF CommitCancel, Handling
  <2>2. 0 \in Units /\ body[t].qty \in Units
    BY InvHas DEF Units
  <2>3. Settles(t, 0, body[t].qty)
    BY <1>6, <2>1, CancelSettles
  <2>4. QED
    BY <2>2, <2>3
<1> HIDE DEF Nothing, Settling
<1>7. \/ Nothing \/ Settling
      \/ \E b \in Branches : Sell(b)
      \/ \E r \in Requests : CommitSend(r)
  BY <1>1, <1>2, <1>3, <1>4, <1>5, <1>6, Zenon DEF Next
<1>8. QED
  BY <1>7 DEF Nothing, Settling

LEMMA InitKeeps == Init => TransferInv
<1> SUFFICES ASSUME Init PROVE TransferInv
  OBVIOUS
<1> DEFINE first == [b \in Branches |-> Total(InitBatches[b])]
           road == RoadOf(transfer, body)
           gone == LostOf(transfer)
<1>1. /\ body \in Bodies /\ stock = first /\ batches = InitBatches
      /\ transfer = [t \in Transfers |-> NoTransfer] /\ nextTransferNumber = 1
      /\ req = [r \in Requests |-> Idle] /\ sold = 0 /\ everShort = FALSE
  BY DEF Init
<1>2. /\ IsFiniteSet(Branches) /\ IsFiniteSet(Transfers) /\ MaxQty \in Nat
      /\ InitBatches \in [Branches -> Seq(Batch)]
      /\ \A b \in Branches : \A i \in DOMAIN InitBatches[b] : InitBatches[b][i].qty >= 0
      /\ body \in [Transfers -> Body]
      /\ \A t \in Transfers : body[t].from # body[t].to
  BY <1>1, TransfersAssumption
<1>3. \A b \in Branches : Shelf(batches[b])
  BY <1>1, <1>2 DEF Shelf
<1>4. \A b \in Branches : first[b] \in Int /\ first[b] >= 0
  <2> TAKE b \in Branches
  <2> DEFINE f == [i \in DOMAIN batches[b] |-> batches[b][i].qty]
             none == [i \in DOMAIN batches[b] |-> 0]
  <2>1. /\ IsFiniteSet(DOMAIN batches[b]) /\ Held(batches[b], 1..Never) \in Int
        /\ Held(batches[b], 1..Never) = Total(batches[b])
        /\ \A i \in DOMAIN batches[b] : batches[b][i].qty \in Int /\ batches[b][i].qty >= 0
    BY <1>3, ShelfHas
  <2>2. /\ DOMAIN none = DOMAIN batches[b] /\ DOMAIN f = DOMAIN none
        /\ \A i \in DOMAIN none : none[i] = 0 /\ none[i] \in Int /\ f[i] \in Int /\ none[i] <= f[i]
    BY <2>1
  <2> HIDE DEF none, f
  <2>3. SumFunction(none) = 0
    BY <2>1, <2>2, TotalZero
  <2>4. SumFunction(none) <= SumFunction(f)
    <3>1. /\ IsFiniteSet(DOMAIN none) /\ DOMAIN f = DOMAIN none
          /\ \A i \in DOMAIN none : none[i] \in Int /\ f[i] \in Int /\ none[i] <= f[i]
      BY <2>1, <2>2
    <3>2. QED
      BY <3>1, TotalAtLeast
  <2>5. Total(batches[b]) = SumFunction(f)
    BY DEF Total, f
  <2>6. first[b] = Total(batches[b])
    BY <1>1
  <2> HIDE DEF first
  <2>7. QED
    BY <2>1, <2>3, <2>4, <2>5, <2>6
<1>5. first \in [Branches -> Int]
  BY <1>4
<1>6. NoTransfer \in Row /\ NoTransfer.status = "none" /\ NoTransfer.writtenOff = 0
  <2>1. 0 \in Units
    BY <1>2 DEF Units
  <2>2. QED
    BY <2>1 DEF NoTransfer, Row
<1>7. TypeOK
  <2>1. /\ transfer \in [Transfers -> Row] /\ req \in [Requests -> Request]
    BY <1>1, <1>6 DEF Request
  <2>2. QED
    BY <1>1, <1>2, <1>5, <2>1 DEF TypeOK, Row
<1>8. Asked
  BY <1>1 DEF Asked, Idle
<1>9. Accounted
  <2>1. /\ IsFiniteSet(DOMAIN road) /\ \A t \in DOMAIN road : road[t] = 0
        /\ IsFiniteSet(DOMAIN gone) /\ \A t \in DOMAIN gone : gone[t] = 0
    BY <1>1, <1>2, <1>6 DEF RoadOf, LostOf
  <2> HIDE DEF road, gone, first
  <2>2. SumFunction(road) = 0
    BY <2>1, TotalZero
  <2>3. SumFunction(gone) = 0
    BY <2>1, TotalZero
  <2>4. SumFunction(first) \in Int
    <3>1. IsFiniteSet(DOMAIN first) /\ \A b \in DOMAIN first : first[b] \in Int
      BY <1>2, <1>5
    <3>2. QED
      BY <3>1, TotalInt
  <2>5. SumFunction(first) = SumFunction(stock) + sold + SumFunction(road) + SumFunction(gone)
    BY <1>1, <2>2, <2>3, <2>4
  <2>6. QED
    BY <2>5 DEF Accounted, road, gone, first
<1>10. StockFits
  BY <1>1, <1>4 DEF StockFits
<1>11. \A t \in Transfers : OnTheWay(t) /\ transfer[t].writtenOff = 0
  BY <1>1, <1>6 DEF OnTheWay
<1>12. QED
  BY <1>2, <1>3, <1>7, <1>8, <1>9, <1>10, <1>11 DEF TransferInv

LEMMA NextKeeps == TransferInv /\ [Next]_vars => TransferInv'
<1> SUFFICES ASSUME TransferInv, [Next]_vars PROVE TransferInv'
  OBVIOUS
<1>1. CASE UNCHANGED vars
  <2>1. UNCHANGED <<body, stock, batches, transfer, nextTransferNumber, sold, everShort, req>>
    BY <1>1 DEF vars
  <2>2. req' \in [Requests -> Request] /\ Asked'
    BY <2>1 DEF TransferInv, TypeOK, Asked
  <2>3. QED
    BY <2>1, <2>2, RequestsKeep
<1>2. CASE \E t \in Transfers : Replay(t)
  BY <1>1, <1>2 DEF Replay
<1>3. ASSUME NEW b \in Branches, Sell(b) PROVE TransferInv'
  BY <1>3, SellKeeps
<1>4. ASSUME NEW r \in Requests, NEW t \in Transfers, BeginSend(r, t) \/ BeginCancel(r, t)
      PROVE  TransferInv'
  <2>1. 0 \in Units
    BY TransfersAssumption DEF Units
  <2>2. QED
    BY <1>4, <2>1, BeginKeeps
<1>5. ASSUME NEW r \in Requests, NEW t \in Transfers, NEW got \in Units,
             NEW short \in {"RETURN", "WRITE_OFF"}, BeginReceive(r, t, got, short)
      PROVE  TransferInv'
  BY <1>5, BeginKeeps
<1>6. ASSUME NEW r \in Requests, CommitSend(r) PROVE TransferInv'
  <2>1. PICK t \in Transfers : t = req[r].transfer
    BY <1>6, SendDoes
  <2>2. Moved(t)
    BY <1>6, <2>1, SendMoves
  <2>3. QED
    BY <2>2, TransferMoves
<1>7. ASSUME NEW r \in Requests, CommitReceive(r) PROVE TransferInv'
  <2>1. PICK t \in Transfers : t = req[r].transfer
    BY <1>7, RequestHas DEF CommitReceive, Handling
  <2>2. PICK got, back \in Units : Settles(t, got, back)
    BY <1>7, <2>1, ReceiveSettles
  <2>3. got \in Nat /\ back \in Nat
    BY DEF Units
  <2>4. Moved(t)
    BY <2>2, <2>3, SettleMoves
  <2>5. QED
    BY <2>4, TransferMoves
<1>8. ASSUME NEW r \in Requests, CommitCancel(r) PROVE TransferInv'
  <2>1. PICK t \in Transfers : t = req[r].transfer
    BY <1>8, RequestHas DEF CommitCancel, Handling
  <2>2. Settles(t, 0, body[t].qty)
    BY <1>8, <2>1, CancelSettles
  <2>3. 0 \in Nat /\ body[t].qty \in Nat
    BY InvHas
  <2>4. Moved(t)
    BY <2>2, <2>3, SettleMoves
  <2>5. QED
    BY <2>4, TransferMoves
<1>9. ASSUME NEW r \in Requests, SentMeanwhile(r) \/ RefuseNotInTransit(r) \/ Fail(r)
      PROVE  TransferInv'
  <2>1. CloseUnchanged(r)
    BY <1>9 DEF SentMeanwhile, RefuseNotInTransit, Fail
  <2>2. QED
    BY <2>1, CloseKeeps
<1>10. QED
  BY <1>1, <1>2, <1>3, <1>4, <1>5, <1>6, <1>7, <1>8, <1>9, Zenon DEF Next

\* Units are conserved because each transfer's parts are the units it took, and
\* a share of them is never given twice.
THEOREM TransfersHold == Spec => []TransferInv
<1>1. QED
  BY InitKeeps, NextKeeps, PTL DEF Spec

\* Of every state of the transfers: their types.
THEOREM TransferTypes == Spec => []TypeOK
<1>1. TransferInv => TypeOK
  BY DEF TransferInv
<1>2. QED
  BY <1>1, TransfersHold, PTL

\* Whatever overlaps, what the branches had is at a branch, under way, written
\* off or sold; and batches add up to the stock while no branch fell below zero.
THEOREM UnitsAreConserved == Spec => []UnitsConserved
<1>1. TransferInv => UnitsConserved
  <2>1. RoadOf(transfer, body) = [t \in Transfers |-> IF InTransit(t) THEN body[t].qty ELSE 0]
    BY DEF RoadOf, InTransit
  <2>2. LostOf(transfer) = [t \in Transfers |-> transfer[t].writtenOff]
    BY DEF LostOf
  <2>3. QED
    BY <2>1, <2>2 DEF TransferInv, Accounted, StockFits, UnitsConserved
<1>2. QED
  BY <1>1, TransfersHold, PTL

\* A branch falls below zero, or further, only by a send that saw more stock
\* than was left when it committed.
THEOREM OverdraftsAreOvertakenSends == Spec => OnlyAnOvertakenSendOverdraws
<1> DEFINE Excuse(b) == \E r \in Requests :
                            /\ Handling(r, "send") /\ req'[r] = Idle
                            /\ body[req[r].transfer].from = b
                            /\ stock[b] < req[r].seen
           Step == \A b \in Branches : stock'[b] < Least(0, stock[b]) => Excuse(b)
<1>1. TransferInv /\ [Next]_vars => [Step]_vars
  <2> SUFFICES ASSUME TransferInv, Next PROVE Step
    OBVIOUS
  <2>1. stock \in [Branches -> Int] /\ req \in [Requests -> Request]
    BY InvHas
  <2>2. ASSUME stock' \in [Branches -> Int], \A b \in Branches : stock'[b] >= Least(0, stock[b])
        PROVE  Step
    <3> HIDE DEF Excuse
    <3>1. QED
      BY <2>1, <2>2 DEF Least
  <2>3. ASSUME UNCHANGED stock PROVE Step
    BY <2>1, <2>2, <2>3 DEF Least
  <2>4. ASSUME NEW b \in Branches, Sell(b) PROVE Step
    <3>1. /\ stock[b] > 0 /\ stock' \in [Branches -> Int] /\ stock'[b] = stock[b] - 1
          /\ \A c \in Branches : c # b => stock'[c] = stock[c]
      BY <2>4, SellSells
    <3>2. \A c \in Branches : stock'[c] >= Least(0, stock[c])
      BY <2>1, <3>1 DEF Least
    <3>3. QED
      BY <2>2, <3>1, <3>2
  <2>5. ASSUME NEW t \in Transfers, NEW got \in Nat, NEW back \in Nat, Settles(t, got, back)
        PROVE  Step
    <3>1. /\ body[t].to \in Branches /\ body[t].from \in Branches
          /\ stock' \in [Branches -> Int]
          /\ stock'[body[t].to] = stock[body[t].to] + got
          /\ stock'[body[t].from] = stock[body[t].from] + back
          /\ \A b \in Branches : b # body[t].to /\ b # body[t].from => stock'[b] = stock[b]
      BY <2>5, InvHas DEF Settles
    <3>2. \A b \in Branches : stock'[b] >= Least(0, stock[b])
      <4> TAKE b \in Branches
      <4>1. stock[b] \in Int
        BY <2>1
      <4>2. CASE b = body[t].to
        BY <3>1, <4>1, <4>2 DEF Least
      <4>3. CASE b = body[t].from
        BY <3>1, <4>1, <4>3 DEF Least
      <4>4. CASE b # body[t].to /\ b # body[t].from
        BY <3>1, <4>1, <4>4 DEF Least
      <4>5. QED
        BY <4>2, <4>3, <4>4
    <3>3. QED
      BY <2>2, <3>1, <3>2
  <2>6. ASSUME NEW r \in Requests, CommitSend(r) PROVE Step
    <3> DEFINE t == req[r].transfer
               from == body[t].from
    <3>1. /\ t \in Transfers /\ Close(r)
          /\ stock'[from] = stock[from] - body[t].qty
          /\ \A c \in Branches : c # from => stock'[c] = stock[c]
      BY <2>6, SendDoes
    <3>2. /\ req[r].op = "send" /\ req[r].seen \in Int /\ req[r].seen >= body[t].qty
      BY <2>6, RequestHas DEF CommitSend, Handling
    <3>3. from \in Branches /\ body[t].qty \in Int
      BY <3>1, InvHas
    <3>4. req'[r] = Idle
      BY <2>1, <3>1 DEF Close
    <3>5. stock'[from] < Least(0, stock[from]) => Excuse(from)
      <4> SUFFICES ASSUME stock'[from] < Least(0, stock[from]) PROVE Excuse(from)
        OBVIOUS
      <4>1. stock[from] \in Int
        BY <2>1, <3>3
      <4> HIDE DEF from
      <4>2. stock[from] < req[r].seen
        BY <3>1, <3>2, <3>3, <4>1 DEF Least
      <4>3. QED
        BY <3>2, <3>4, <4>2 DEF Handling, from
    <3>6. \A b \in Branches : b # from => ~(stock'[b] < Least(0, stock[b]))
      BY <2>1, <3>1 DEF Least
    <3> HIDE DEF Excuse, from, t
    <3>7. QED
      BY <3>5, <3>6
  <2>7. \A n \in Units : n \in Nat
    BY DEF Units
  <2> HIDE DEF Step
  <2>8. QED
    BY <2>3, <2>4, <2>5, <2>6, <2>7, StepCommits, Zenon
<1>2. QED
  BY <1>1, TransfersHold, PTL DEF Spec, OnlyAnOvertakenSendOverdraws

----------------------------------------------------------------------------
(***************************************************************************)
(* Freight.                                                                *)
(***************************************************************************)
LEMMA FreightBegins == Init => Freight!Init
<1> SUFFICES ASSUME Init PROVE Freight!Init
  OBVIOUS
<1> DEFINE gone == [t \in Transfers |-> transfer[t].writtenOff]
<1>1. /\ stock = [b \in Branches |-> Total(InitBatches[b])]
      /\ transfer = [t \in Transfers |-> NoTransfer]
  BY DEF Init
<1>2. \A t \in Transfers : Transit(t) = [state |-> "none"] /\ transfer[t].writtenOff = 0
  BY <1>1 DEF Transit, NoTransfer
<1>3. SumFunction(gone) = 0
  <2>1. IsFiniteSet(DOMAIN gone) /\ \A t \in DOMAIN gone : gone[t] = 0
    BY <1>2, TransfersAssumption
  <2> HIDE DEF gone
  <2>2. QED
    BY <2>1, TotalZero
<1>4. [t \in Transfers |-> Transit(t)] = [t \in Transfers |-> Freight!None]
  BY <1>2 DEF Freight!None
<1>5. QED
  BY <1>1, <1>3, <1>4 DEF Freight!Init

\* What is under way and what is lost after one transfer moved.
LEMMA TransitMoves ==
    ASSUME TransferInv, NEW t \in Transfers, UNCHANGED body,
           transfer' \in [Transfers -> Row],
           \A u \in Transfers : u # t => transfer'[u] = transfer[u]
    PROVE  LET transit == [u \in Transfers |-> Transit(u)]
               gone == [u \in Transfers |-> transfer[u].writtenOff]
           IN  /\ transit' = [transit EXCEPT ![t] = Transit(t)']
               /\ SumFunction(gone) \in Int
               /\ SumFunction(gone')
                    = SumFunction(gone) + (transfer'[t].writtenOff - transfer[t].writtenOff)
<1> DEFINE gone == [u \in Transfers |-> transfer[u].writtenOff]
           new == [u \in Transfers |-> transfer'[u].writtenOff]
<1>1. \A u \in Transfers : u # t => Transit(u)' = Transit(u)
  BY DEF Transit, InTransit
<1>2. [u \in Transfers |-> Transit(u)'] = [[u \in Transfers |-> Transit(u)] EXCEPT ![t] = Transit(t)']
  BY <1>1
<1>3. gone \in [Transfers -> Int] /\ new \in [Transfers -> Int] /\ IsFiniteSet(Transfers)
  <2>1. \A n \in Units : n \in Int
    BY DEF Units
  <2>2. transfer \in [Transfers -> Row] /\ IsFiniteSet(Transfers)
    BY InvHas
  <2>3. QED
    BY <2>1, <2>2 DEF Row
<1>4. /\ gone[t] = transfer[t].writtenOff /\ new[t] = transfer'[t].writtenOff
      /\ \A u \in Transfers : u # t => new[u] = gone[u]
  OBVIOUS
<1>5. SumFunction(gone) \in Int /\ SumFunction(new) = SumFunction(gone) + (new[t] - gone[t])
  <2> HIDE DEF gone, new
  <2>1. QED
    BY <1>3, <1>4, OneChanged
<1>6. QED
  BY <1>2, <1>4, <1>5

LEMMA SendIsFreight ==
    ASSUME TransferInv, NEW r \in Requests, CommitSend(r)
    PROVE  Freight!Next
<1>1. PICK t \in Transfers : t = req[r].transfer
  BY SendDoes
<1> DEFINE from == body[t].from
           to == body[t].to
           qty == body[t].qty
           transit == [u \in Transfers |-> Transit(u)]
           gone == [u \in Transfers |-> transfer[u].writtenOff]
<1>2. /\ transfer[t].status = "none" /\ UNCHANGED body
      /\ stock' \in [Branches -> Int] /\ stock'[from] = stock[from] - qty
      /\ \A c \in Branches : c # from => stock'[c] = stock[c]
      /\ transfer'[t].status = "SENT" /\ transfer'[t].writtenOff = 0
      /\ \A u \in Transfers : u # t => transfer'[u] = transfer[u]
  BY <1>1, SendDoes
<1>3. transfer' \in [Transfers -> Row]
  BY <1>1, SendMoves DEF Moved
<1>4. /\ stock \in [Branches -> Int] /\ from \in Branches /\ to \in Branches /\ from # to
      /\ qty \in Units \ {0} /\ transfer[t].writtenOff = 0
  BY <1>2, InvHas DEF TransferInv
<1>5. transit[t] = Freight!None /\ Transit(t)' = Freight!Load(from, to, qty)
  BY <1>2 DEF Transit, InTransit, Freight!None, Freight!Load
<1>6. transit' = [transit EXCEPT ![t] = Freight!Load(from, to, qty)]
  BY <1>2, <1>3, <1>5, TransitMoves
<1>7. SumFunction(gone') = SumFunction(gone)
  <2>1. /\ SumFunction(gone) \in Int
        /\ SumFunction(gone') = SumFunction(gone) + (transfer'[t].writtenOff - transfer[t].writtenOff)
    BY <1>2, <1>3, TransitMoves
  <2> HIDE DEF gone
  <2>2. QED
    BY <1>2, <1>4, <2>1
<1>8. stock' = [stock EXCEPT ![from] = @ - qty]
  <2> HIDE DEF from, qty
  <2>1. QED
    BY <1>2, <1>4
<1>9. Freight!Send(t, from, to, qty)
  BY <1>5, <1>6, <1>7, <1>8 DEF Freight!Send
<1>10. QED
  BY <1>4, <1>9 DEF Freight!Next

LEMMA SettleIsFreight ==
    ASSUME TransferInv, NEW t \in Transfers, NEW got \in Units, NEW back \in Units,
           Settles(t, got, back)
    PROVE  Freight!Next
<1> DEFINE from == body[t].from
           to == body[t].to
           qty == body[t].qty
           transit == [u \in Transfers |-> Transit(u)]
           gone == [u \in Transfers |-> transfer[u].writtenOff]
           new == [b \in Branches |->
                     stock[b] + (IF b = transit[t].to THEN got ELSE 0)
                              + (IF b = transit[t].from THEN back ELSE 0)]
<1>1. /\ transfer[t].status = "SENT" /\ got + back <= qty /\ UNCHANGED body
      /\ stock' \in [Branches -> Int]
      /\ stock'[to] = stock[to] + got /\ stock'[from] = stock[from] + back
      /\ \A b \in Branches : b # to /\ b # from => stock'[b] = stock[b]
      /\ transfer' \in [Transfers -> Row]
      /\ transfer'[t].status \in {"RECEIVED", "CANCELLED"}
      /\ transfer'[t].writtenOff = qty - got - back
      /\ \A u \in Transfers : u # t => transfer'[u] = transfer[u]
  BY DEF Settles
<1>2. /\ stock \in [Branches -> Int] /\ from \in Branches /\ to \in Branches /\ from # to
      /\ qty \in Nat /\ transfer[t].writtenOff = 0 /\ got \in Int /\ back \in Int
  <2>1. transfer[t].writtenOff = 0
    BY <1>1 DEF TransferInv
  <2>2. got \in Int /\ back \in Int
    BY DEF Units
  <2>3. QED
    BY <2>1, <2>2, InvHas
<1>3. /\ transit[t].state = "sent" /\ transit[t].from = from /\ transit[t].to = to
      /\ transit[t].qty = qty /\ Transit(t)' = Freight!Settled
  BY <1>1 DEF Transit, InTransit, Freight!Settled
<1>4. transit' = [transit EXCEPT ![t] = Freight!Settled]
  BY <1>1, <1>3, TransitMoves
<1>5. SumFunction(gone') = SumFunction(gone) + (transit[t].qty - got - back)
  <2>1. /\ SumFunction(gone) \in Int
        /\ SumFunction(gone') = SumFunction(gone) + (transfer'[t].writtenOff - transfer[t].writtenOff)
    BY <1>1, TransitMoves
  <2> HIDE DEF gone, transit, qty
  <2>2. QED
    BY <1>1, <1>2, <1>3, <2>1
<1>6. stock' = new
  <2> HIDE DEF from, to, transit
  <2>1. \A b \in Branches : new[b] = stock'[b]
    <3> TAKE b \in Branches
    <3>1. stock[b] \in Int /\ stock'[b] \in Int
      BY <1>1, <1>2
    <3>2. QED
      BY <1>1, <1>2, <1>3, <3>1
  <2>2. QED
    BY <1>1, <2>1
<1>7. Freight!Settle(t, got, back)
  <2>1. got + back <= transit[t].qty
    BY <1>1, <1>3
  <2>2. QED
    BY <1>3, <1>4, <1>5, <1>6, <2>1 DEF Freight!Settle
<1>8. QED
  BY <1>7 DEF Freight!Next

LEMMA SellIsFreight ==
    ASSUME TransferInv, NEW b \in Branches, Sell(b)
    PROVE  Freight!Next
<1>1. /\ stock[b] > 0 /\ stock' = [stock EXCEPT ![b] = @ - 1] /\ UNCHANGED <<body, transfer>>
  BY DEF Sell, StockTo
<1>2. /\ UNCHANGED [t \in Transfers |-> Transit(t)]
      /\ UNCHANGED SumFunction([t \in Transfers |-> transfer[t].writtenOff])
  BY <1>1 DEF Transit, InTransit
<1>3. Freight!Sell(b)
  BY <1>1, <1>2 DEF Freight!Sell
<1>4. QED
  BY <1>3 DEF Freight!Next

\* What is committed is freight: each transfer is sent once and settled once,
\* whatever requests overlap, fail or come again.
THEOREM TransfersAreFreight == Spec => KeepsFreight
<1>1. TransferInv /\ [Next]_vars => [Freight!Next]_(Freight!vars)
  <2> SUFFICES ASSUME TransferInv, [Next]_vars PROVE [Freight!Next]_(Freight!vars)
    OBVIOUS
  <2>1. ASSUME UNCHANGED <<body, stock, batches, transfer, sold>>
        PROVE  UNCHANGED Freight!vars
    BY <2>1 DEF Freight!vars, Transit, InTransit
  <2>2. \/ UNCHANGED <<body, stock, batches, transfer, sold>>
        \/ Freight!Next
    BY StepCommits, SellIsFreight, SendIsFreight, SettleIsFreight, Zenon
  <2>3. QED
    BY <2>1, <2>2
<1>2. QED
  BY <1>1, TransfersHold, FreightBegins, PTL DEF Spec, KeepsFreight, Freight!Spec

----------------------------------------------------------------------------
(***************************************************************************)
(* Expiry dates.                                                           *)
(***************************************************************************)

\* No branch starts with a date on its catch-all batch.  One may be given a
\* date by hand (PATCH /batches/:id); what is added to it later then takes the
\* date on, and nothing could be said of that date.
OpeningsUndated ==
    \A b \in Branches : \A i \in DOMAIN InitBatches[b] :
        InitBatches[b][i].opening => InitBatches[b][i].expiry = Never

DatedAt(rows, day) == [b \in Branches |-> Held(rows[b], {day})]

DatedOf(rows, day) ==
    [t \in Transfers |-> IF rows[t].status = "SENT" THEN Held(rows[t].parts, {day}) ELSE 0]

Dated(day) == SumFunction(DatedAt(batches, day)) + SumFunction(DatedOf(transfer, day))

\* The catch-all batches hold no unit of this day.
Apart(day) == \A b \in Branches : OpeningIn(batches[b], {day})

DatedInv ==
    \A day \in 1..(Never - 1) :
        /\ Apart(day)
        /\ Dated(day) <= SumFunction(DatedAt(InitBatches, day))

\* Of rows that hold to the invariant.
LEMMA DatedSums ==
    ASSUME TransferInv, NEW rows, \A b \in Branches : Shelf(rows[b]),
           NEW moved \in [Transfers -> Row], NEW day
    PROVE  /\ DatedAt(rows, day) \in [Branches -> Int]
           /\ DatedOf(moved, day) \in [Transfers -> Int]
           /\ SumFunction(DatedAt(rows, day)) \in Int
           /\ SumFunction(DatedOf(moved, day)) \in Int
<1> DEFINE at == DatedAt(rows, day)
           off == DatedOf(moved, day)
<1>1. \A b \in Branches : Held(rows[b], {day}) \in Int
  BY ShelfHas
<1>2. \A t \in Transfers : Held(moved[t].parts, {day}) \in Int
  <2> TAKE t \in Transfers
  <2> DEFINE parts == moved[t].parts
  <2>1. parts \in Seq(Part)
    BY DEF Row
  <2> HIDE DEF parts
  <2>2. IsFiniteSet(DOMAIN parts) /\ \A n \in DOMAIN parts : parts[n].qty \in Int
    BY <2>1, PartsHave
  <2>3. Held(parts, {day}) \in Int
    BY <2>2, HeldIsInt
  <2>4. QED
    BY <2>3 DEF parts
<1>3. at \in [Branches -> Int] /\ off \in [Transfers -> Int]
  <2>1. at \in [Branches -> Int]
    BY <1>1 DEF DatedAt
  <2>2. off \in [Transfers -> Int]
    <3>1. \A t \in Transfers :
             (IF moved[t].status = "SENT" THEN Held(moved[t].parts, {day}) ELSE 0) \in Int
      BY <1>2
    <3>2. QED
      BY <3>1 DEF DatedOf
  <2>3. QED
    BY <2>1, <2>2
<1> HIDE DEF at, off
<1>4. /\ IsFiniteSet(DOMAIN at) /\ \A b \in DOMAIN at : at[b] \in Int
      /\ IsFiniteSet(DOMAIN off) /\ \A t \in DOMAIN off : off[t] \in Int
  BY <1>3, InvHas
<1>5. SumFunction(at) \in Int
  BY <1>4, TotalInt
<1>6. SumFunction(off) \in Int
  BY <1>4, TotalInt
<1>7. QED
  BY <1>3, <1>5, <1>6 DEF at, off

\* Before: TransferInv; after: the same of the transfers and the shelves.
LEMMA DatedChanged ==
    ASSUME TransferInv, NEW t \in Transfers, Moved(t), NEW day
    PROVE  LET at == DatedAt(batches, day)
               at2 == DatedAt(batches', day)
               off == DatedOf(transfer, day)
               off2 == DatedOf(transfer', day)
           IN  /\ at \in [Branches -> Int] /\ at2 \in [Branches -> Int]
               /\ off[t] \in Int /\ off2[t] \in Int
               /\ SumFunction(at) \in Int /\ SumFunction(off) \in Int
               /\ SumFunction(off2) = SumFunction(off) + (off2[t] - off[t])
<1> DEFINE off == DatedOf(transfer, day)
           off2 == DatedOf(transfer', day)
<1>1. /\ \A b \in Branches : Shelf(batches[b]) /\ Shelf(batches'[b])
      /\ transfer \in [Transfers -> Row] /\ transfer' \in [Transfers -> Row]
      /\ IsFiniteSet(Transfers)
  BY InvHas DEF Moved
<1>2. /\ DatedAt(batches, day) \in [Branches -> Int] /\ off \in [Transfers -> Int]
      /\ SumFunction(DatedAt(batches, day)) \in Int /\ SumFunction(off) \in Int
  BY <1>1, DatedSums
<1>3. DatedAt(batches', day) \in [Branches -> Int] /\ off2 \in [Transfers -> Int]
  BY <1>1, DatedSums
<1>4. \A u \in Transfers : u # t => off2[u] = off[u]
  BY DEF DatedOf, Moved
<1> HIDE DEF off, off2
<1>5. SumFunction(off2) = SumFunction(off) + (off2[t] - off[t])
  BY <1>1, <1>2, <1>3, <1>4, OneChanged
<1>6. QED
  BY <1>2, <1>3, <1>5 DEF off, off2

\* The same batches with other quantities.
LEMMA KeptApart ==
    ASSUME NEW rows, Shelf(rows), NEW new, Shelf(new), Kept(rows, new), Len(new) = Len(rows),
           NEW days, OpeningIn(rows, days)
    PROVE  OpeningIn(new, days)
<1>1. DOMAIN new = DOMAIN rows /\ DOMAIN rows = 1..Len(rows)
  BY ShelfHas
<1>2. QED
  BY <1>1 DEF Kept, OpeningIn

LEMMA InitShelves ==
    \A b \in Branches : Shelf(InitBatches[b])
  BY TransfersAssumption DEF Shelf

LEMMA SendDated ==
    ASSUME TransferInv, NEW r \in Requests, CommitSend(r), NEW day \in 1..(Never - 1), Apart(day)
    PROVE  Apart(day)' /\ Dated(day)' <= Dated(day)
<1>1. PICK t \in Transfers : t = req[r].transfer
  BY SendDoes
<1> DEFINE from == body[t].from
           rows == batches[from]
           picks == body[t].picks
           qty == body[t].qty
           plan == PlanSend(rows, picks, qty)
           at == DatedAt(batches, day)
           at2 == DatedAt(batches', day)
           off == DatedOf(transfer, day)
           off2 == DatedOf(transfer', day)
<1>2. /\ transfer[t].status = "none" /\ batches' = [batches EXCEPT ![from] = plan.rows]
      /\ transfer'[t].status = "SENT" /\ transfer'[t].parts = plan.parts
  BY <1>1, SendDoes
<1>3. Moved(t)
  BY <1>1, SendMoves
<1>4. /\ from \in Branches /\ Shelf(rows) /\ picks \in Seq(Pick)
      /\ qty \in Units \ {0} /\ qty \in Nat /\ Never \in Nat \ {0}
      /\ batches \in [Branches -> Seq(Batch)] /\ IsFiniteSet(Branches)
  BY InvHas
<1>5. Never \notin {day}
  BY <1>4
<1>6. /\ Shelf(plan.rows) /\ Kept(rows, plan.rows) /\ Len(plan.rows) = Len(rows)
      /\ Held(plan.rows, {day}) + Held(plan.parts, {day}) = Held(rows, {day})
  <2> HIDE DEF rows, qty, picks
  <2>1. /\ Shelf(plan.rows) /\ Kept(rows, plan.rows) /\ Len(plan.rows) = Len(rows)
        /\ \A days : Never \notin days
                     => Held(plan.rows, days) + Held(plan.parts, days) = Held(rows, days)
    BY <1>4, SentPlan
  <2> HIDE DEF plan
  <2>2. QED
    BY <1>5, <2>1
<1> HIDE DEF plan
<1>7. /\ batches'[from] = plan.rows
      /\ \A b \in Branches : b # from => batches'[b] = batches[b]
  BY <1>2, <1>4
<1>8. Apart(day)'
  <2>1. OpeningIn(rows, {day})
    BY <1>4 DEF Apart
  <2>2. OpeningIn(plan.rows, {day})
    <3> HIDE DEF rows
    <3>1. QED
      BY <1>4, <1>6, <2>1, KeptApart
  <2>3. \A b \in Branches : OpeningIn(batches'[b], {day})
    BY <1>7, <2>2 DEF Apart
  <2>4. QED
    BY <2>3 DEF Apart
<1>9. Dated(day)' = Dated(day)
  <2>1. /\ at \in [Branches -> Int] /\ at2 \in [Branches -> Int]
        /\ off[t] \in Int /\ off2[t] \in Int
        /\ SumFunction(at) \in Int /\ SumFunction(off) \in Int
        /\ SumFunction(off2) = SumFunction(off) + (off2[t] - off[t])
    BY <1>3, DatedChanged
  <2>2. /\ at[from] = Held(rows, {day}) /\ at2[from] = Held(plan.rows, {day})
        /\ \A b \in Branches : b # from => at2[b] = at[b]
    BY <1>4, <1>7 DEF DatedAt
  <2>3. off[t] = 0 /\ off2[t] = Held(plan.parts, {day})
    BY <1>2 DEF DatedOf
  <2>4. Dated(day) = SumFunction(at) + SumFunction(off) /\ Dated(day)' = SumFunction(at2) + SumFunction(off2)
    BY DEF Dated
  <2> HIDE DEF at, at2, off, off2, rows, from
  <2>5. SumFunction(at2) = SumFunction(at) + (at2[from] - at[from])
    <3>1. /\ at \in [Branches -> Int] /\ at2 \in [Branches -> Int] /\ from \in Branches
          /\ IsFiniteSet(Branches) /\ \A b \in Branches : b # from => at2[b] = at[b]
      BY <1>4, <2>1, <2>2
    <3>2. QED
      BY <3>1, OneChanged
  <2>6. at[from] \in Int /\ at2[from] \in Int
    BY <1>4, <2>1
  <2> HIDE DEF Dated
  <2>7. QED
    BY <1>6, <2>1, <2>2, <2>3, <2>4, <2>5, <2>6
<1>10. Dated(day) \in Int
  <2>1. SumFunction(at) \in Int /\ SumFunction(off) \in Int
    BY <1>3, DatedChanged
  <2>2. QED
    BY <2>1 DEF Dated
<1>11. QED
  BY <1>8, <1>9, <1>10

LEMMA SettleDated ==
    ASSUME TransferInv, NEW t \in Transfers, NEW got \in Nat, NEW back \in Nat,
           Settles(t, got, back), NEW day \in 1..(Never - 1), Apart(day)
    PROVE  Apart(day)' /\ Dated(day)' <= Dated(day)
<1> DEFINE from == body[t].from
           to == body[t].to
           parts == transfer[t].parts
           rowsTo == batches[to]
           rowsFrom == batches[from]
           newTo == batches'[to]
           newFrom == batches'[from]
           there == Share(parts, Split(ArrivalOrder(parts), parts, got), {day})
           here == Share(parts, Split(ReturnOrder(parts), parts, back), {day})
           at == DatedAt(batches, day)
           at2 == DatedAt(batches', day)
           off == DatedOf(transfer, day)
           off2 == DatedOf(transfer', day)
<1>1. /\ from \in Branches /\ to \in Branches /\ from # to /\ parts \in Seq(Part)
      /\ Shelf(rowsTo) /\ Shelf(rowsFrom) /\ body[t].qty \in Nat /\ IsFiniteSet(Branches)
  BY InvHas
<1>2. Moved(t)
  BY SettleMoves
<1>3. /\ transfer[t].status = "SENT" /\ got + back <= body[t].qty
      /\ transfer'[t].status # "SENT"
      /\ newTo = Arrive(rowsTo, parts, got) \/ (got = 0 /\ newTo = rowsTo)
      /\ newFrom = GoBack(rowsFrom, parts, back)
      /\ \A b \in Branches : b # to /\ b # from => batches'[b] = batches[b]
  BY DEF Settles
<1>4. Held(parts, 1..Never) = body[t].qty /\ Sourced(parts, rowsFrom)
  BY <1>3 DEF TransferInv, OnTheWay
<1>5. /\ got + back <= Held(parts, 1..Never)
      /\ got <= Held(parts, 1..Never) /\ back <= Held(parts, 1..Never)
  <2> HIDE DEF parts
  <2>1. QED
    BY <1>1, <1>3, <1>4
<1>6. OpeningIn(rowsTo, {day}) /\ OpeningIn(rowsFrom, {day})
  BY <1>1 DEF Apart
<1>7. /\ there \in Int /\ here \in Int /\ Held(parts, {day}) \in Int
      /\ there >= 0 /\ there + here <= Held(parts, {day})
  <2> HIDE DEF parts
  <2>1. QED
    BY <1>1, <1>5, SharesOnce
<1>8. Held(rowsTo, {day}) \in Int /\ Held(rowsFrom, {day}) \in Int
  BY <1>1, ShelfHas
<1>9. /\ OpeningIn(newTo, {day})
      /\ Held(newTo, {day}) <= Held(rowsTo, {day}) + there
  <2>1. CASE newTo = Arrive(rowsTo, parts, got)
    <3> HIDE DEF parts, rowsTo, newTo, rowsFrom
    <3>1. /\ OpeningIn(Arrive(rowsTo, parts, got), {day})
          /\ Held(Arrive(rowsTo, parts, got), {day}) = Held(rowsTo, {day}) + there
      BY <1>1, <1>4, <1>5, <1>6, ArriveAdds
    <3> HIDE DEF there
    <3>2. QED
      BY <1>7, <1>8, <2>1, <3>1
  <2>2. CASE got = 0 /\ newTo = rowsTo
    <3> HIDE DEF rowsTo, newTo, there
    <3>1. QED
      BY <1>6, <1>7, <1>8, <2>2
  <2>3. QED
    BY <1>3, <2>1, <2>2
<1>10. /\ OpeningIn(newFrom, {day})
       /\ Held(newFrom, {day}) = Held(rowsFrom, {day}) + here
  <2> HIDE DEF parts, newFrom, rowsFrom
  <2>1. /\ OpeningIn(GoBack(rowsFrom, parts, back), {day})
        /\ Held(GoBack(rowsFrom, parts, back), {day}) = Held(rowsFrom, {day}) + here
    BY <1>1, <1>4, <1>5, <1>6, GoBackAdds
  <2>2. QED
    BY <1>3, <2>1
<1>11. Apart(day)'
  <2>1. \A b \in Branches : OpeningIn(batches'[b], {day})
    <3> TAKE b \in Branches
    <3>1. CASE b = to
      BY <1>9, <3>1
    <3>2. CASE b = from
      BY <1>10, <3>2
    <3>3. CASE b # to /\ b # from
      BY <1>3, <3>3 DEF Apart
    <3>4. QED
      BY <3>1, <3>2, <3>3
  <2>2. QED
    BY <2>1 DEF Apart
<1>12. Dated(day)' <= Dated(day)
  <2>1. /\ at \in [Branches -> Int] /\ at2 \in [Branches -> Int]
        /\ off[t] \in Int /\ off2[t] \in Int
        /\ SumFunction(at) \in Int /\ SumFunction(off) \in Int
        /\ SumFunction(off2) = SumFunction(off) + (off2[t] - off[t])
    BY <1>2, DatedChanged
  <2>2. /\ at[to] = Held(rowsTo, {day}) /\ at2[to] = Held(newTo, {day})
        /\ at[from] = Held(rowsFrom, {day}) /\ at2[from] = Held(newFrom, {day})
        /\ \A b \in Branches : b # to /\ b # from => at2[b] = at[b]
    BY <1>1, <1>3 DEF DatedAt
  <2>3. off[t] = Held(parts, {day}) /\ off2[t] = 0
    BY <1>3 DEF DatedOf
  <2>4. Dated(day) = SumFunction(at) + SumFunction(off) /\ Dated(day)' = SumFunction(at2) + SumFunction(off2)
    BY DEF Dated
  <2> HIDE DEF at, at2, off, off2, rowsTo, rowsFrom, newTo, newFrom, from, to, there, here, parts
  <2>5. SumFunction(at2) = SumFunction(at) + (at2[to] - at[to]) + (at2[from] - at[from])
    <3>1. /\ at \in [Branches -> Int] /\ at2 \in [Branches -> Int] /\ IsFiniteSet(Branches)
          /\ to \in Branches /\ from \in Branches /\ to # from
          /\ \A b \in Branches : b # to /\ b # from => at2[b] = at[b]
      BY <1>1, <2>1, <2>2
    <3>2. QED
      BY <3>1, TwoChanged
  <2>6. at2[to] \in Int /\ at2[from] \in Int /\ at[to] \in Int /\ at[from] \in Int
    BY <1>1, <2>1
  <2>7. at2[to] <= at[to] + there /\ at2[from] = at[from] + here
    BY <1>9, <1>10, <2>2
  <2> HIDE DEF Dated
  <2>8. QED
    BY <1>7, <2>1, <2>3, <2>4, <2>5, <2>6, <2>7
<1>13. QED
  BY <1>11, <1>12

LEMMA SellDated ==
    ASSUME TransferInv, NEW b \in Branches, Sell(b), NEW day \in 1..(Never - 1), Apart(day)
    PROVE  Apart(day)' /\ Dated(day)' <= Dated(day)
<1> DEFINE rows == batches[b]
           new == Out(rows, PlanTake(rows, 1, 0).take)
           at == DatedAt(batches, day)
           at2 == DatedAt(batches', day)
           off == DatedOf(transfer, day)
<1>1. batches' = [batches EXCEPT ![b] = new] /\ UNCHANGED transfer
  BY SellSells
<1>2. /\ Shelf(rows) /\ batches \in [Branches -> Seq(Batch)] /\ IsFiniteSet(Branches)
      /\ transfer \in [Transfers -> Row]
      /\ \A c \in Branches : Shelf(batches[c])
  BY InvHas
<1>3. /\ Shelf(new) /\ Kept(rows, new) /\ Len(new) = Len(rows)
      /\ Held(new, {day}) <= Held(rows, {day})
  <2> HIDE DEF rows
  <2>1. QED
    BY <1>2, UnitSold
<1> HIDE DEF new
<1>4. batches'[b] = new /\ \A c \in Branches : c # b => batches'[c] = batches[c]
  BY <1>1, <1>2
<1>5. Apart(day)'
  <2>1. OpeningIn(rows, {day})
    BY DEF Apart
  <2>2. OpeningIn(new, {day})
    <3> HIDE DEF rows
    <3>1. QED
      BY <1>2, <1>3, <2>1, KeptApart
  <2>3. \A c \in Branches : OpeningIn(batches'[c], {day})
    BY <1>4, <2>2 DEF Apart
  <2>4. QED
    BY <2>3 DEF Apart
<1>6. Dated(day)' <= Dated(day)
  <2>1. /\ at \in [Branches -> Int] /\ SumFunction(at) \in Int /\ SumFunction(off) \in Int
    BY <1>2, DatedSums
  <2>2. at2 \in [Branches -> Int]
    <3>1. \A c \in Branches : Shelf(batches'[c])
      BY <1>2, <1>3, <1>4
    <3>2. QED
      BY <1>2, <3>1, DatedSums
  <2>3. /\ at[b] = Held(rows, {day}) /\ at2[b] = Held(new, {day})
        /\ \A c \in Branches : c # b => at2[c] = at[c]
    BY <1>4 DEF DatedAt
  <2>4. Dated(day) = SumFunction(at) + SumFunction(off) /\ Dated(day)' = SumFunction(at2) + SumFunction(off)
    BY <1>1 DEF Dated
  <2> HIDE DEF at, at2, off, rows
  <2>5. SumFunction(at2) = SumFunction(at) + (at2[b] - at[b])
    <3>1. /\ at \in [Branches -> Int] /\ at2 \in [Branches -> Int] /\ IsFiniteSet(Branches)
          /\ \A c \in Branches : c # b => at2[c] = at[c]
      BY <1>2, <2>1, <2>2, <2>3
    <3>2. QED
      BY <3>1, OneChanged
  <2>6. at[b] \in Int /\ at2[b] \in Int
    BY <2>1, <2>2
  <2> HIDE DEF Dated
  <2>7. QED
    BY <1>3, <2>1, <2>3, <2>4, <2>5, <2>6
<1>7. QED
  BY <1>5, <1>6

LEMMA DatedKeeps ==
    TransferInv /\ DatedInv /\ [Next]_vars => DatedInv'
<1> SUFFICES ASSUME TransferInv, DatedInv, [Next]_vars, NEW day \in 1..(Never - 1)
             PROVE  Apart(day)' /\ Dated(day)' <= SumFunction(DatedAt(InitBatches, day))
  BY DEF DatedInv
<1> DEFINE first == SumFunction(DatedAt(InitBatches, day))
           Holds == Apart(day)' /\ Dated(day)' <= Dated(day)
<1>1. Apart(day) /\ Dated(day) <= first
  BY DEF DatedInv
<1>2. first \in Int /\ Dated(day) \in Int /\ Dated(day)' \in Int
  <2>1. TransferInv'
    BY NextKeeps
  <2>2. \A b \in Branches : Shelf(batches[b]) /\ Shelf(batches'[b]) /\ Shelf(InitBatches[b])
    BY <2>1, InitShelves, Zenon DEF TransferInv
  <2>3. transfer \in [Transfers -> Row] /\ transfer' \in [Transfers -> Row]
    BY <2>1, InvHas DEF TransferInv, TypeOK, Row
  <2>4. SumFunction(DatedAt(batches, day)) \in Int /\ SumFunction(DatedOf(transfer, day)) \in Int
    BY <2>2, <2>3, DatedSums
  <2>5. SumFunction(DatedAt(batches', day)) \in Int /\ SumFunction(DatedOf(transfer', day)) \in Int
    BY <2>2, <2>3, DatedSums
  <2>6. first \in Int
    BY <2>2, <2>3, DatedSums
  <2>7. QED
    BY <2>4, <2>5, <2>6 DEF Dated
<1>3. ASSUME UNCHANGED <<body, stock, batches, transfer, sold>> PROVE Holds
  <2>1. Apart(day)' /\ Dated(day)' = Dated(day)
    BY <1>1, <1>3 DEF Apart, Dated
  <2> HIDE DEF Apart, Dated
  <2>2. QED
    BY <1>2, <2>1
<1>4. \A n \in Units : n \in Nat
  BY DEF Units
<1>5. Holds
  <2> HIDE DEF Holds
  <2>1. ASSUME NEW b \in Branches, Sell(b) PROVE Holds
    BY <1>1, <2>1, SellDated DEF Holds
  <2>2. ASSUME NEW r \in Requests, CommitSend(r) PROVE Holds
    BY <1>1, <2>2, SendDated DEF Holds
  <2>3. ASSUME NEW t \in Transfers, NEW got \in Units, NEW back \in Units, Settles(t, got, back)
        PROVE  Holds
    BY <1>1, <1>4, <2>3, SettleDated DEF Holds
  <2>4. QED
    BY <1>3, <2>1, <2>2, <2>3, StepCommits, Zenon
<1>6. QED
  <2> HIDE DEF first
  <2>1. QED
    BY <1>1, <1>2, <1>5 DEF first

LEMMA DatedBegins == Init /\ OpeningsUndated => DatedInv
<1> SUFFICES ASSUME Init, OpeningsUndated, NEW day \in 1..(Never - 1)
             PROVE  Apart(day) /\ Dated(day) <= SumFunction(DatedAt(InitBatches, day))
  BY DEF DatedInv
<1> DEFINE off == DatedOf(transfer, day)
           at == DatedAt(InitBatches, day)
<1>1. batches = InitBatches /\ \A t \in Transfers : transfer[t].status = "none"
  BY DEF Init, NoTransfer
<1>2. day # Never /\ Never \notin {day}
  BY TransfersAssumption
<1>3. Apart(day)
  BY <1>1, <1>2 DEF Apart, OpeningIn, OpeningsUndated
<1>4. SumFunction(off) = 0
  <2>1. IsFiniteSet(DOMAIN off) /\ \A t \in DOMAIN off : off[t] = 0
    BY <1>1, TransfersAssumption DEF DatedOf
  <2> HIDE DEF off
  <2>2. QED
    BY <2>1, TotalZero
<1>5. SumFunction(at) \in Int
  <2>1. TransferInv
    BY InitKeeps
  <2>2. transfer \in [Transfers -> Row]
    BY <2>1, InvHas
  <2>3. QED
    BY <2>1, <2>2, InitShelves, DatedSums
<1>6. Dated(day) = SumFunction(at) + SumFunction(off)
  BY <1>1 DEF Dated
<1> HIDE DEF at, off, Dated
<1>7. QED
  BY <1>3, <1>4, <1>5, <1>6 DEF at

\* Of each expiry date no more units are ever at the branches and under way than
\* there were, as long as no branch started with a date on its catch-all batch.
THEOREM ExpiryDatesTravel ==
    ASSUME OpeningsUndated
    PROVE  Spec => []ExpiriesTravel
<1>1. Init => DatedInv
  BY DatedBegins
<1>2. DatedInv => ExpiriesTravel
  <2> SUFFICES ASSUME DatedInv, NEW day \in 1..(Never - 1)
               PROVE  SumFunction([b \in Branches |-> UnitsThatExpire(batches[b], day)])
                      + SumFunction([t \in Transfers |->
                            IF InTransit(t) THEN UnitsThatExpire(transfer[t].parts, day) ELSE 0])
                      <= SumFunction([b \in Branches |-> UnitsThatExpire(InitBatches[b], day)])
    BY DEF ExpiriesTravel
  <2>1. \A rows : UnitsThatExpire(rows, day) = Held(rows, {day})
    BY HeldOfADay
  <2>2. /\ DatedAt(batches, day) = [b \in Branches |-> UnitsThatExpire(batches[b], day)]
        /\ DatedAt(InitBatches, day) = [b \in Branches |-> UnitsThatExpire(InitBatches[b], day)]
        /\ DatedOf(transfer, day) = [t \in Transfers |->
              IF InTransit(t) THEN UnitsThatExpire(transfer[t].parts, day) ELSE 0]
    BY <2>1 DEF DatedAt, DatedOf, InTransit
  <2>3. Dated(day) <= SumFunction(DatedAt(InitBatches, day))
    BY DEF DatedInv
  <2>4. QED
    BY <2>2, <2>3 DEF Dated
<1>3. QED
  BY <1>1, <1>2, TransfersHold, DatedKeeps, PTL DEF Spec
=============================================================================
