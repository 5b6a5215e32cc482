-------------------------- MODULE BatchStockProofs --------------------------
(***************************************************************************)
(* The batches of one product at one branch keep up with its stock number, *)
(* for any number of bill lines, requests and batches.                     *)
(***************************************************************************)
EXTENDS BatchStock, BatchesProofs, Calculations

\* Units sold and not given back that no batch gave, or is owed, for them.
Owed(line) == (line.qty - line.back) - (SumFunction(line.taken) - SumFunction(line.restored))

\* What a bill line took from n batches and put back fits what it sold and what
\* came back.
LineOK(line, n) ==
    /\ line.back <= line.qty
    /\ line.qty = 0 => line.taken = NoUnits /\ line.restored = NoUnits
    /\ \A i \in 1..MaxBatches :
          line.restored[i] <= line.taken[i] /\ (i > n => line.taken[i] = 0)
    /\ SumFunction(line.taken) <= line.qty
    /\ SumFunction(line.restored) <= line.back
    /\ Owed(line) >= 0

OwedByAll(some) == SumFunction([l \in Lines |-> Owed(some[l])])

LinesOK == \A l \in Lines : LineOK(lines[l], Len(batches))

\* Unless tracking was ever switched, every request believes what is.
Believed ==
    "switched" \notin past =>
        \A r \in Requests :
            /\ req[r].phase = "loaded" => req[r].tracking = tracking
            /\ req[r].phase = "turning" => tracking = FALSE

\* The batches hold at least what is in stock and what came back to no batch
\* may still add to it.
Covered ==
    tracking /\ past \subseteq {"belowZero"} => Total(batches) - stock >= OwedByAll(lines)

\* Until the stock was below zero the batches are the stock, line by line.
Even ==
    tracking /\ past = {} => /\ stock >= 0 /\ Total(batches) = stock
                             /\ \A l \in Lines : Owed(lines[l]) = 0

StockInv == TypeOK /\ LinesOK /\ Believed /\ Covered /\ Even

----------------------------------------------------------------------------
(***************************************************************************)
(* A bill line by itself.                                                  *)
(***************************************************************************)

LEMMA LineParts ==
    ASSUME NEW line \in Line
    PROVE  /\ line = [qty |-> line.qty, back |-> line.back,
                      taken |-> line.taken, restored |-> line.restored]
           /\ line.qty \in 0..MaxQty /\ line.back \in 0..MaxQty
           /\ line.taken \in [1..MaxBatches -> Nat] /\ line.restored \in [1..MaxBatches -> Nat]
           /\ SumFunction(line.taken) \in Int /\ SumFunction(line.restored) \in Int
           /\ Owed(line) \in Int /\ MaxBatches \in Nat /\ MaxQty \in Nat
<1>1. /\ line = [qty |-> line.qty, back |-> line.back,
                 taken |-> line.taken, restored |-> line.restored]
      /\ line.qty \in 0..MaxQty /\ line.back \in 0..MaxQty
      /\ line.taken \in [1..MaxBatches -> Nat] /\ line.restored \in [1..MaxBatches -> Nat]
  BY DEF Line
<1>2. MaxBatches \in Nat /\ MaxQty \in Nat
  BY BatchStockAssumption
<1>3. IsFiniteSet(1..MaxBatches)
  BY <1>2, FS_Interval
<1>4. \A f \in [1..MaxBatches -> Nat] : SumFunction(f) \in Int
  <2> SUFFICES ASSUME NEW f \in [1..MaxBatches -> Nat] PROVE SumFunction(f) \in Int
    OBVIOUS
  <2>1. DOMAIN f = 1..MaxBatches /\ \A i \in DOMAIN f : f[i] \in Int
    OBVIOUS
  <2>2. QED
    BY <1>3, <2>1, TotalInt
<1>5. QED
  BY <1>1, <1>2, <1>4 DEF Owed

LEMMA LineSoldEdit ==
    ASSUME NEW line \in Line, NEW a, NEW b
    PROVE  [line EXCEPT !.qty = a, !.taken = b]
           = [qty |-> a, back |-> line.back, taken |-> b, restored |-> line.restored]
<1> DEFINE c == line.qty
           d == line.back
           e == line.taken
           f == line.restored
           x == [qty |-> c, back |-> d, taken |-> e, restored |-> f]
<1>1. line = x
  BY LineParts
<1>2. [x EXCEPT !.qty = a] = [qty |-> a, back |-> d, taken |-> e, restored |-> f]
  OBVIOUS
<1>3. [[qty |-> a, back |-> d, taken |-> e, restored |-> f] EXCEPT !.taken = b]
      = [qty |-> a, back |-> d, taken |-> b, restored |-> f]
  OBVIOUS
<1>4. [line EXCEPT !.qty = a, !.taken = b] = [[line EXCEPT !.qty = a] EXCEPT !.taken = b]
  OBVIOUS
<1> HIDE DEF x
<1>5. QED
  BY <1>1, <1>2, <1>3, <1>4

LEMMA LineGivenBackEdit ==
    ASSUME NEW line \in Line, NEW a, NEW b
    PROVE  [line EXCEPT !.back = a, !.restored = b]
           = [qty |-> line.qty, back |-> a, taken |-> line.taken, restored |-> b]
<1> DEFINE c == line.qty
           d == line.back
           e == line.taken
           f == line.restored
           x == [qty |-> c, back |-> d, taken |-> e, restored |-> f]
<1>1. line = x
  BY LineParts
<1>2. [x EXCEPT !.back = a] = [qty |-> c, back |-> a, taken |-> e, restored |-> f]
  OBVIOUS
<1>3. [[qty |-> c, back |-> a, taken |-> e, restored |-> f] EXCEPT !.restored = b]
      = [qty |-> c, back |-> a, taken |-> e, restored |-> b]
  OBVIOUS
<1>4. [line EXCEPT !.back = a, !.restored = b]
      = [[line EXCEPT !.back = a] EXCEPT !.restored = b]
  OBVIOUS
<1> HIDE DEF x
<1>5. QED
  BY <1>1, <1>2, <1>3, <1>4

LEMMA PaddedPads ==
    ASSUME NEW n \in Nat, n <= MaxBatches, NEW units \in [1..n -> Nat]
    PROVE  /\ Padded(units) \in [1..MaxBatches -> Nat]
           /\ \A i \in 1..n : i \in 1..MaxBatches /\ Padded(units)[i] = units[i]
           /\ \A i \in 1..MaxBatches : i > n => Padded(units)[i] = 0
           /\ SumFunction(Padded(units)) = SumFunction(units)
<1> DEFINE all == Padded(units)
<1>1. MaxBatches \in Nat /\ IsFiniteSet(1..MaxBatches)
  <2>1. MaxBatches \in Nat
    BY BatchStockAssumption
  <2>2. QED
    BY <2>1, FS_Interval
<1>2. /\ DOMAIN units = 1..n /\ 1..n \subseteq 1..MaxBatches
      /\ \A i \in 1..n : units[i] \in Nat
  BY <1>1
<1>3. /\ DOMAIN all = 1..MaxBatches /\ all = [i \in 1..MaxBatches |-> all[i]]
      /\ \A i \in 1..n : all[i] = units[i]
      /\ \A i \in (1..MaxBatches) \ (1..n) : all[i] = 0
  BY <1>2 DEF Padded
<1> HIDE DEF all
<1>4. \A i \in 1..MaxBatches : all[i] \in Nat
  BY <1>2, <1>3, SMTT(30)
<1>5. /\ IsFiniteSet(DOMAIN all) /\ DOMAIN units \subseteq DOMAIN all
      /\ \A i \in DOMAIN all : all[i] \in Int
      /\ \A i \in DOMAIN units : all[i] = units[i]
      /\ \A i \in DOMAIN all \ DOMAIN units : all[i] = 0
  <2>1. IsFiniteSet(DOMAIN all) /\ DOMAIN units \subseteq DOMAIN all
    BY <1>1, <1>2, <1>3
  <2>2. \A i \in DOMAIN all : all[i] \in Int
    BY <1>3, <1>4
  <2>3. /\ \A i \in DOMAIN units : all[i] = units[i]
        /\ \A i \in DOMAIN all \ DOMAIN units : all[i] = 0
    BY <1>2, <1>3
  <2>4. QED
    BY <2>1, <2>2, <2>3
<1>6. SumFunction(all) = SumFunction(units)
  BY <1>5, TotalPadded
<1>7. all \in [1..MaxBatches -> Nat]
  BY <1>3, <1>4
<1>8. \A i \in 1..MaxBatches : i > n => all[i] = 0
  BY <1>1, <1>3
<1>9. QED
  BY <1>2, <1>3, <1>6, <1>7, <1>8 DEF all

LEMMA NoUnitsSum == NoUnits \in [1..MaxBatches -> Nat] /\ SumFunction(NoUnits) = 0
<1>1. MaxBatches \in Nat /\ IsFiniteSet(1..MaxBatches)
  <2>1. MaxBatches \in Nat
    BY BatchStockAssumption
  <2>2. QED
    BY <2>1, FS_Interval
<1>2. /\ DOMAIN NoUnits = 1..MaxBatches /\ \A i \in DOMAIN NoUnits : NoUnits[i] = 0
      /\ NoUnits \in [1..MaxBatches -> Nat]
  BY DEF NoUnits
<1>3. QED
  BY <1>1, <1>2, TotalZero

\* A line that is sold owes what no batch gave for it.
LEMMA LineSold ==
    ASSUME NEW line \in Line, NEW n \in Nat, n <= MaxBatches, LineOK(line, n), line.qty = 0,
           NEW q \in 1..MaxQty, NEW take \in [1..n -> Nat],
           SumFunction(take) \in Int, SumFunction(take) <= q
    PROVE  LET new == [qty |-> q, back |-> line.back, taken |-> Padded(take),
                       restored |-> line.restored]
           IN  /\ new \in Line /\ LineOK(new, n)
               /\ Owed(line) = 0 /\ Owed(new) = q - SumFunction(take)
<1> DEFINE new == [qty |-> q, back |-> line.back, taken |-> Padded(take),
                   restored |-> line.restored]
<1>1. /\ line.back = 0 /\ line.taken = NoUnits /\ line.restored = NoUnits
      /\ SumFunction(NoUnits) = 0 /\ NoUnits \in [1..MaxBatches -> Nat]
      /\ \A i \in 1..MaxBatches : NoUnits[i] = 0
      /\ MaxQty \in Nat
  <2>1. line.back \in 0..MaxQty /\ MaxQty \in Nat
    BY LineParts
  <2>2. line.back <= line.qty /\ line.taken = NoUnits /\ line.restored = NoUnits
    BY DEF LineOK
  <2>3. \A i \in 1..MaxBatches : NoUnits[i] = 0
    BY DEF NoUnits
  <2>4. QED
    BY <2>1, <2>2, <2>3, NoUnitsSum
<1>2. /\ Padded(take) \in [1..MaxBatches -> Nat]
      /\ \A i \in 1..MaxBatches : i > n => Padded(take)[i] = 0
      /\ SumFunction(Padded(take)) = SumFunction(take)
  BY PaddedPads
<1>3. /\ new.qty = q /\ new.back = 0 /\ new.taken = Padded(take) /\ new.restored = NoUnits
  BY <1>1
<1>4. new \in Line
  BY <1>1, <1>2 DEF Line
<1> HIDE DEF new
<1>5. Owed(line) = 0 /\ Owed(new) = q - SumFunction(take)
  BY <1>1, <1>2, <1>3 DEF Owed
<1>6. \A i \in 1..MaxBatches : new.restored[i] <= new.taken[i] /\ (i > n => new.taken[i] = 0)
  BY <1>1, <1>2, <1>3
<1>7. LineOK(new, n)
  BY <1>1, <1>2, <1>3, <1>5, <1>6 DEF LineOK
<1>8. QED
  BY <1>4, <1>5, <1>7 DEF new

\* What comes back goes to the batches it came from, as far as they are owed
\* it; the rest the line owes no longer.
LEMMA LineGivenBack ==
    ASSUME NEW line \in Line, NEW rows \in Seq(Batch), Len(rows) <= MaxBatches,
           LineOK(line, Len(rows)), NEW q \in 1..MaxQty, q <= line.qty - line.back
    PROVE  LET units == PlanRestore(rows, line.taken, line.restored, q)
               new == [qty |-> line.qty, back |-> line.back + q, taken |-> line.taken,
                       restored |-> [i \in 1..MaxBatches |-> line.restored[i] + Padded(units)[i]]]
           IN  /\ units \in [DOMAIN rows -> Nat] /\ SumFunction(units) \in Int
               /\ new \in Line /\ LineOK(new, Len(rows))
               /\ Owed(new) = Owed(line) - (q - SumFunction(units))
               /\ SumFunction(units) <= q
               /\ Owed(line) = 0 => SumFunction(units) = q
<1> DEFINE n == Len(rows)
           D == DOMAIN rows
           units == PlanRestore(rows, line.taken, line.restored, q)
           padded == Padded(units)
           restored == [i \in 1..MaxBatches |-> line.restored[i] + padded[i]]
           new == [qty |-> line.qty, back |-> line.back + q, taken |-> line.taken,
                   restored |-> restored]
           owed == [i \in D |-> line.taken[i] - line.restored[i]]
           left == [i \in 1..MaxBatches |-> line.taken[i] - line.restored[i]]
<1>1. /\ line.qty \in 0..MaxQty /\ line.back \in 0..MaxQty
      /\ line.taken \in [1..MaxBatches -> Nat] /\ line.restored \in [1..MaxBatches -> Nat]
      /\ SumFunction(line.taken) \in Int /\ SumFunction(line.restored) \in Int
      /\ MaxBatches \in Nat /\ MaxQty \in Nat
  BY LineParts
<1>2. Never \in Nat \ {0}
  BY BatchStockAssumption
<1>3. /\ n \in Nat /\ D = 1..n /\ D \subseteq 1..MaxBatches /\ IsFiniteSet(1..MaxBatches)
      /\ IsFiniteSet(D)
  <2>1. n \in Nat /\ D = 1..n /\ D \subseteq 1..MaxBatches
    <3>1. n \in Nat /\ D = 1..n
      BY <1>2, ShelfParts
    <3> HIDE DEF D
    <3>2. QED
      BY <1>1, <3>1
  <2>2. IsFiniteSet(1..MaxBatches)
    BY <1>1, FS_Interval
  <2>3. QED
    BY <2>1, <2>2, FS_Subset
<1>4. \A i \in 1..MaxBatches : line.restored[i] <= line.taken[i] /\ (i > n => line.taken[i] = 0)
  BY DEF LineOK
<1>5. /\ units \in [D -> Nat]
      /\ \A i \in D : line.restored[i] + units[i] <= line.taken[i]
      /\ SumFunction(owed) \in Int
      /\ SumFunction(units) = Least(q, SumFunction(owed))
  <2>1. q \in Nat /\ Never \in Nat
    BY <1>1, <1>2
  <2>2. \A i \in D : /\ line.taken[i] \in Nat /\ line.restored[i] \in Nat
                     /\ line.restored[i] <= line.taken[i]
    BY <1>1, <1>3, <1>4
  <2>3. QED
    BY <2>1, <2>2, PlanRestoreRestores
<1> HIDE DEF units
<1>6. /\ padded \in [1..MaxBatches -> Nat]
      /\ \A i \in D : padded[i] = units[i]
      /\ \A i \in 1..MaxBatches : i > n => padded[i] = 0
      /\ SumFunction(padded) = SumFunction(units)
  BY <1>3, <1>5, PaddedPads
<1> HIDE DEF padded
<1>7. /\ \A i \in 1..MaxBatches : /\ line.taken[i] \in Nat /\ line.restored[i] \in Nat
                                  /\ padded[i] \in Nat
                                  /\ restored[i] = line.restored[i] + padded[i]
                                  /\ left[i] = line.taken[i] - line.restored[i]
      /\ DOMAIN restored = 1..MaxBatches /\ DOMAIN left = 1..MaxBatches
      /\ DOMAIN line.taken = 1..MaxBatches /\ DOMAIN line.restored = 1..MaxBatches
      /\ DOMAIN padded = 1..MaxBatches
      /\ restored \in [1..MaxBatches -> Nat]
  <2>1. \A i \in 1..MaxBatches : line.taken[i] \in Nat /\ line.restored[i] \in Nat /\ padded[i] \in Nat
    BY <1>1, <1>6
  <2>2. \A i \in 1..MaxBatches : line.restored[i] + padded[i] \in Nat
    BY <2>1
  <2>3. QED
    BY <1>1, <1>6, <2>1, <2>2
<1>8. /\ DOMAIN owed = D /\ \A i \in D : owed[i] = left[i]
      /\ \A i \in 1..MaxBatches : i \in D \/ i > n
  BY <1>3
<1> HIDE DEF restored, left, owed, n, D
<1>9. /\ \A i \in 1..MaxBatches : left[i] \in Int /\ line.taken[i] = left[i] + line.restored[i]
      /\ \A i \in 1..MaxBatches : i > n => left[i] = 0
  <2> SUFFICES ASSUME NEW i \in 1..MaxBatches
               PROVE  /\ left[i] \in Int /\ line.taken[i] = left[i] + line.restored[i]
                      /\ i > n => left[i] = 0
    OBVIOUS
  <2>1. /\ line.taken[i] \in Nat /\ line.restored[i] \in Nat
        /\ left[i] = line.taken[i] - line.restored[i]
        /\ line.restored[i] <= line.taken[i] /\ (i > n => line.taken[i] = 0)
    BY <1>4, <1>7
  <2>2. QED
    BY <2>1, SMTT(30)
<1>10. SumFunction(line.taken) = SumFunction(left) + SumFunction(line.restored)
  <2> DEFINE taken == line.taken
             back == line.restored
  <2>1. /\ IsFiniteSet(DOMAIN left) /\ DOMAIN back = DOMAIN left /\ DOMAIN taken = DOMAIN left
        /\ \A i \in DOMAIN left : left[i] \in Int /\ back[i] \in Int /\ taken[i] = left[i] + back[i]
    BY <1>3, <1>7, <1>9
  <2> HIDE DEF taken, back
  <2>2. SumFunction(taken) = SumFunction(left) + SumFunction(back)
    BY <2>1, TotalPlus
  <2>3. QED
    BY <2>2 DEF taken, back
<1>11. SumFunction(left) = SumFunction(owed)
  <2>1. /\ IsFiniteSet(DOMAIN left) /\ DOMAIN owed \subseteq DOMAIN left
        /\ \A i \in DOMAIN left : left[i] \in Int
        /\ \A i \in DOMAIN owed : left[i] = owed[i]
        /\ \A i \in DOMAIN left \ DOMAIN owed : left[i] = 0
    BY <1>3, <1>7, <1>8, <1>9
  <2>2. QED
    BY <2>1, TotalPadded
<1>12. SumFunction(restored) = SumFunction(line.restored) + SumFunction(padded)
  <2> DEFINE back == line.restored
  <2>1. /\ IsFiniteSet(DOMAIN back) /\ DOMAIN padded = DOMAIN back /\ DOMAIN restored = DOMAIN back
        /\ \A i \in DOMAIN back :
              back[i] \in Int /\ padded[i] \in Int /\ restored[i] = back[i] + padded[i]
    BY <1>3, <1>7
  <2> HIDE DEF back
  <2>2. SumFunction(restored) = SumFunction(back) + SumFunction(padded)
    BY <2>1, TotalPlus
  <2>3. QED
    BY <2>2 DEF back
<1> DEFINE took == SumFunction(line.taken)
           gave == SumFunction(line.restored)
           r == SumFunction(units)
<1>13. /\ took \in Int /\ gave \in Int /\ r = Least(q, took - gave) /\ r \in Int
       /\ SumFunction(restored) = gave + r
  <2>1. SumFunction(owed) = took - gave
    BY <1>1, <1>5, <1>10, <1>11
  <2>2. r = Least(q, took - gave)
    BY <1>5, <2>1
  <2>3. took - gave \in Int /\ q \in Int
    BY <1>1
  <2>4. r \in Int
    BY <2>2, <2>3 DEF Least
  <2>5. QED
    BY <1>1, <1>6, <1>12, <2>2, <2>4
<1>14. /\ took <= line.qty /\ gave <= line.back /\ Owed(line) >= 0
       /\ Owed(line) = (line.qty - line.back) - (took - gave)
  BY DEF LineOK, Owed
<1>15. /\ new.qty = line.qty /\ new.back = line.back + q /\ new.taken = line.taken
       /\ new.restored = restored
  OBVIOUS
<1>16. line.back + q \in 0..MaxQty
  BY <1>1
<1>17. new \in Line
  BY <1>1, <1>7, <1>16 DEF Line
<1> HIDE DEF new, took, gave, r
<1>18. Owed(new) = (line.qty - (line.back + q)) - (took - (gave + r))
  BY <1>13, <1>15 DEF Owed, took
<1>19. /\ r <= q /\ Owed(new) = Owed(line) - (q - r) /\ Owed(new) >= 0
       /\ Owed(line) = 0 => r = q
       /\ gave + r <= line.back + q
  <2> DEFINE sold == line.qty
             back == line.back
             was == Owed(line)
             now == Owed(new)
  <2>1. /\ sold \in Int /\ back \in Int /\ q \in Int /\ took \in Int /\ gave \in Int
        /\ r = Least(q, took - gave) /\ gave <= back /\ q <= sold - back
        /\ was >= 0 /\ was = (sold - back) - (took - gave)
        /\ now = (sold - (back + q)) - (took - (gave + r))
    BY <1>1, <1>13, <1>14, <1>18, SMTT(30)
  <2>2. QED
    <3> HIDE DEF sold, back, was, now
    <3>1. /\ r <= q /\ now = was - (q - r) /\ now >= 0
          /\ was = 0 => r = q
          /\ gave + r <= back + q
      <4>1. CASE q <= took - gave
        BY <2>1, <4>1 DEF Least
      <4>2. CASE ~(q <= took - gave)
        BY <2>1, <4>2 DEF Least
      <4>3. QED
        BY <4>1, <4>2
    <3>2. QED
      BY <3>1 DEF sold, back, was, now
<1>20. \A i \in 1..MaxBatches : new.restored[i] <= new.taken[i] /\ (i > n => new.taken[i] = 0)
  <2> SUFFICES ASSUME NEW i \in 1..MaxBatches
               PROVE  restored[i] <= line.taken[i]
    BY <1>4, <1>15
  <2>1. CASE i \in D
    BY <1>5, <1>6, <1>7, <2>1 DEF D
  <2>2. CASE i > n
    <3>1. padded[i] = 0 /\ line.restored[i] \in Nat /\ line.restored[i] <= line.taken[i]
          /\ restored[i] = line.restored[i] + padded[i]
      BY <1>4, <1>6, <1>7, <2>2
    <3>2. QED
      BY <3>1
  <2>3. QED
    BY <1>8, <2>1, <2>2
<1>21. LineOK(new, n)
  <2>1. new.back <= new.qty
    BY <1>1, <1>15
  <2>2. new.qty # 0
    BY <1>1, <1>15
  <2>3. SumFunction(new.taken) <= new.qty /\ SumFunction(new.restored) <= new.back
    BY <1>13, <1>14, <1>15, <1>19 DEF took
  <2>4. QED
    BY <1>19, <1>20, <2>1, <2>2, <2>3 DEF LineOK
<1>22. QED
  BY <1>5, <1>13, <1>17, <1>19, <1>21 DEF new, restored, padded, units, r, n, D

\* More batches do not change what a line has to do with the others.
LEMMA LineKept ==
    ASSUME NEW line, NEW n \in Int, NEW m \in Int, n <= m, LineOK(line, n)
    PROVE  LineOK(line, m)
<1>1. \A i \in 1..MaxBatches : i > m => i > n
  OBVIOUS
<1>2. QED
  BY <1>1 DEF LineOK

LEMMA OwedChanged ==
    ASSUME NEW some \in [Lines -> Line], NEW l \in Lines, NEW new \in Line
    PROVE  OwedByAll([some EXCEPT ![l] = new])
           = OwedByAll(some) + (Owed(new) - Owed(some[l]))
<1> DEFINE now == [some EXCEPT ![l] = new]
           f == [k \in Lines |-> Owed(some[k])]
           g == [k \in Lines |-> Owed(now[k])]
<1>1. \A k \in Lines : some[k] \in Line /\ now[k] \in Line /\ (k # l => now[k] = some[k])
  OBVIOUS
<1>2. now[l] = new
  OBVIOUS
<1>3. \A k \in Lines : Owed(some[k]) \in Int /\ Owed(now[k]) \in Int
  BY <1>1, LineParts
<1>4. /\ IsFiniteSet(DOMAIN f) /\ DOMAIN g = DOMAIN f /\ l \in DOMAIN f
      /\ \A k \in DOMAIN f : f[k] \in Int /\ g[k] \in Int
      /\ \A k \in DOMAIN f : k # l => f[k] = g[k]
      /\ f[l] = Owed(some[l]) /\ g[l] = Owed(new)
  <2>1. DOMAIN f = Lines /\ DOMAIN g = Lines
    OBVIOUS
  <2>2. IsFiniteSet(Lines)
    BY BatchStockAssumption
  <2>3. \A k \in Lines : f[k] \in Int /\ g[k] \in Int
    BY <1>3
  <2>4. \A k \in Lines : k # l => f[k] = g[k]
    BY <1>1
  <2>5. f[l] = Owed(some[l]) /\ g[l] = Owed(new)
    BY <1>2
  <2> HIDE DEF f, g
  <2>6. QED
    BY <2>1, <2>2, <2>3, <2>4, <2>5
<1>5. OwedByAll(some) = SumFunction(f) /\ OwedByAll(now) = SumFunction(g)
  BY DEF OwedByAll
<1> HIDE DEF f, g
<1>6. SumFunction(f) \in Int
  BY <1>4, TotalInt
<1>7. SumFunction(g) = SumFunction(f) + (g[l] - f[l])
  BY <1>4, TotalChanged
<1>8. QED
  BY <1>4, <1>5, <1>6, <1>7

LEMMA OwedInt ==
    ASSUME NEW some \in [Lines -> Line]
    PROVE  OwedByAll(some) \in Int
<1> DEFINE f == [k \in Lines |-> Owed(some[k])]
<1>1. \A k \in Lines : Owed(some[k]) \in Int
  BY LineParts
<1>2. DOMAIN f = Lines /\ IsFiniteSet(Lines) /\ \A k \in Lines : f[k] \in Int
  BY <1>1, BatchStockAssumption
<1>3. SumFunction(f) \in Int
  <2> HIDE DEF f
  <2>1. QED
    BY <1>2, TotalInt
<1>4. QED
  BY <1>3 DEF OwedByAll

\* Nobody owes anything: nothing is owed by all.
LEMMA NothingOwed ==
    ASSUME NEW some, \A l \in Lines : Owed(some[l]) = 0
    PROVE  OwedByAll(some) = 0
<1> DEFINE f == [k \in Lines |-> Owed(some[k])]
<1>1. DOMAIN f = Lines /\ IsFiniteSet(Lines) /\ \A k \in Lines : f[k] = 0
  BY BatchStockAssumption
<1>2. SumFunction(f) = 0
  <2> HIDE DEF f
  <2>1. QED
    BY <1>1, TotalZero
<1>3. QED
  BY <1>2 DEF OwedByAll

\* What a request that believes batches are tracked, or not, takes out.
LEMMA Taken ==
    ASSUME NEW rows, Shelf(rows), NEW believes, NEW q \in Nat, NEW preferred
    PROVE  LET take == IF believes THEN PlanTake(rows, q, preferred).take
                       ELSE [i \in DOMAIN rows |-> 0]
           IN  /\ take \in [DOMAIN rows -> Nat] /\ SumFunction(take) \in Int
               /\ SumFunction(take) <= q
               /\ believes => SumFunction(take) = Least(q, Total(rows))
               /\ Shelf(Out(rows, take)) /\ Len(Out(rows, take)) = Len(rows)
               /\ Total(Out(rows, take)) = Total(rows) - SumFunction(take)
<1> DEFINE none == [i \in DOMAIN rows |-> 0]
           plan == PlanTake(rows, q, preferred).take
           take == IF believes THEN plan ELSE none
<1>1. Never \in Nat
  BY BatchStockAssumption
<1>2. /\ IsFiniteSet(DOMAIN rows) /\ \A i \in DOMAIN rows : rows[i].qty >= 0 /\ rows[i].qty \in Int
  BY <1>1, ShelfParts DEF Shelf
<1>3. /\ plan \in [DOMAIN rows -> Nat]
      /\ \A i \in DOMAIN rows : plan[i] <= rows[i].qty
      /\ SumFunction(plan) = Least(q, Total(rows))
  BY <1>1, PlanTakeTakes
<1>4. /\ none \in [DOMAIN rows -> Nat]
      /\ \A i \in DOMAIN rows : none[i] <= rows[i].qty
      /\ SumFunction(none) = 0
  <2>1. DOMAIN none = DOMAIN rows /\ \A i \in DOMAIN rows : none[i] = 0
    OBVIOUS
  <2>2. none \in [DOMAIN rows -> Nat]
    OBVIOUS
  <2> HIDE DEF none
  <2>3. SumFunction(none) = 0
    BY <1>2, <2>1, TotalZero
  <2>4. \A i \in DOMAIN rows : none[i] <= rows[i].qty
    BY <1>2, <2>1
  <2>5. QED
    BY <2>2, <2>3, <2>4
<1> HIDE DEF none, plan
<1>5. /\ take \in [DOMAIN rows -> Nat]
      /\ \A i \in DOMAIN rows : take[i] <= rows[i].qty
  BY <1>3, <1>4
<1>6. (believes => SumFunction(take) = Least(q, Total(rows)))
      /\ (~believes => SumFunction(take) = 0)
  BY <1>3, <1>4
<1> HIDE DEF take
<1>7. /\ Shelf(Out(rows, take)) /\ Len(Out(rows, take)) = Len(rows)
      /\ SumFunction(take) \in Int /\ Total(rows) \in Int
      /\ Total(Out(rows, take)) = Total(rows) - SumFunction(take)
  BY <1>1, <1>5, OutTakesOut
<1>8. SumFunction(take) <= q
  BY <1>6, <1>7 DEF Least
<1>9. QED
  BY <1>5, <1>6, <1>7, <1>8 DEF take, plan, none

----------------------------------------------------------------------------
(***************************************************************************)
(* What each operation does to batches, lines and what is owed.            *)
(***************************************************************************)

\* The batches and lines of a state, as typed and fitting each other.
Sound(rows, some) ==
    /\ Shelf(rows) /\ Len(rows) <= MaxBatches
    /\ some \in [Lines -> Line]
    /\ \A l \in Lines : LineOK(some[l], Len(rows))

LEMMA SoundState ==
    ASSUME TypeOK, LinesOK
    PROVE  /\ Sound(batches, lines) /\ batches \in Seq(Batch) /\ Len(batches) \in Nat
           /\ stock \in Int /\ Total(batches) \in Int /\ OwedByAll(lines) \in Int
           /\ Never \in Nat \ {0}
           /\ MaxQty \in Nat \ {0} /\ MaxBatches \in Nat
<1>1. /\ Sound(batches, lines) /\ batches \in Seq(Batch) /\ stock \in Int
      /\ Len(batches) \in Nat
  BY DEF TypeOK, LinesOK, Sound, Shelf, BatchesNeverNegative
<1>2. Never \in Nat \ {0} /\ MaxQty \in Nat \ {0} /\ MaxBatches \in Nat
  BY BatchStockAssumption
<1>3. OwedByAll(lines) \in Int
  BY <1>1, OwedInt DEF Sound
<1>4. Total(batches) \in Int
  <2> DEFINE have == [i \in DOMAIN batches |-> batches[i].qty]
  <2>1. /\ IsFiniteSet(DOMAIN batches) /\ DOMAIN have = DOMAIN batches
        /\ \A i \in DOMAIN batches : have[i] \in Int
    BY <1>1, <1>2, ShelfParts
  <2> HIDE DEF have
  <2>2. SumFunction(have) \in Int
    BY <2>1, TotalInt
  <2>3. QED
    BY <2>2 DEF Total, have
<1>5. QED
  BY <1>1, <1>2, <1>3, <1>4

\* What the batches of a request hold less, or more, for units moved.
LEMMA SellDoes ==
    ASSUME TypeOK, LinesOK, NEW r \in Requests, NEW l \in Lines, NEW q \in 1..MaxQty,
           NEW preferred, Sell(r, l, q, preferred)
    PROVE  \E t \in Int :
              /\ t <= q /\ (req[r].tracking => t = Least(q, Total(batches)))
              /\ Sound(batches', lines')
              /\ Total(batches') = Total(batches) - t
              /\ Owed(lines[l]) = 0 /\ Owed(lines'[l]) = q - t
              /\ \A k \in Lines : k # l => lines'[k] = lines[k]
              /\ OwedByAll(lines') = OwedByAll(lines) + (q - t)
<1> DEFINE n == Len(batches)
           believes == req[r].tracking
           take == IF believes THEN PlanTake(batches, q, preferred).take
                   ELSE [i \in DOMAIN batches |-> 0]
           t == SumFunction(take)
           line == lines[l]
           new == [qty |-> q, back |-> line.back, taken |-> Padded(take),
                   restored |-> line.restored]
<1>1. /\ Sound(batches, lines) /\ batches \in Seq(Batch) /\ n \in Nat
      /\ Total(batches) \in Int /\ OwedByAll(lines) \in Int /\ q \in Nat
  BY SoundState
<1>2. /\ take \in [DOMAIN batches -> Nat] /\ t \in Int /\ t <= q
      /\ believes => t = Least(q, Total(batches))
      /\ Shelf(Out(batches, take)) /\ Len(Out(batches, take)) = n
      /\ Total(Out(batches, take)) = Total(batches) - t
  <2>1. Shelf(batches)
    BY <1>1 DEF Sound
  <2> HIDE DEF believes
  <2>2. QED
    BY <1>1, <2>1, Taken
<1>3. /\ batches' = Out(batches, take) /\ line.qty = 0
      /\ lines' = [lines EXCEPT ![l].qty = q, ![l].taken = Padded(take)]
  BY DEF Sell
<1> HIDE DEF take, t, believes
<1>4. line \in Line /\ LineOK(line, n) /\ n <= MaxBatches /\ DOMAIN batches = 1..n
  BY <1>1 DEF Sound
<1>5. /\ new \in Line /\ LineOK(new, n) /\ Owed(line) = 0 /\ Owed(new) = q - t
  BY <1>1, <1>2, <1>3, <1>4, LineSold DEF t
<1>6. lines' = [lines EXCEPT ![l] = new]
  <2>2. [line EXCEPT !.qty = q, !.taken = Padded(take)] = new
    <3> DEFINE padded == Padded(take)
    <3> HIDE DEF padded
    <3>1. [line EXCEPT !.qty = q, !.taken = padded]
          = [qty |-> q, back |-> line.back, taken |-> padded, restored |-> line.restored]
      <4>1. line \in Line
        BY <1>4
      <4> HIDE DEF line
      <4>2. QED
        BY <4>1, LineSoldEdit
    <3>2. QED
      BY <3>1 DEF padded
  <2>3. QED
    BY <1>1, <1>3, <2>2 DEF Sound
<1> HIDE DEF new, n
<1>7. /\ lines' \in [Lines -> Line] /\ lines'[l] = new
      /\ \A k \in Lines : k # l => lines'[k] = lines[k]
  BY <1>1, <1>5, <1>6 DEF Sound
<1>8. OwedByAll(lines') = OwedByAll(lines) + (q - t)
  <2>1. lines \in [Lines -> Line]
    BY <1>1 DEF Sound
  <2>2. OwedByAll(lines') = OwedByAll(lines) + (Owed(new) - Owed(lines[l]))
    BY <1>5, <1>6, <2>1, OwedChanged
  <2>3. QED
    BY <1>1, <1>2, <1>5, <2>2
<1>9. \A k \in Lines : LineOK(lines'[k], n)
  BY <1>1, <1>5, <1>7 DEF Sound, n
<1>10. Sound(batches', lines')
  BY <1>2, <1>3, <1>4, <1>7, <1>9 DEF Sound
<1>11. QED
  BY <1>2, <1>3, <1>5, <1>7, <1>8, <1>10 DEF believes

LEMMA GiveBackDoes ==
    ASSUME TypeOK, LinesOK, NEW r \in Requests, NEW l \in Lines, NEW q \in 1..MaxQty,
           GiveBack(r, l, q)
    PROVE  \E t \in Int :
              /\ t <= q /\ (Owed(lines[l]) = 0 => t = q)
              /\ Sound(batches', lines')
              /\ Total(batches') = Total(batches) + t
              /\ Owed(lines'[l]) = Owed(lines[l]) - (q - t)
              /\ \A k \in Lines : k # l => lines'[k] = lines[k]
              /\ OwedByAll(lines') = OwedByAll(lines) - (q - t)
<1> DEFINE n == Len(batches)
           line == lines[l]
           units == PlanRestore(batches, line.taken, line.restored, q)
           t == SumFunction(units)
           restored == [i \in 1..MaxBatches |-> line.restored[i] + Padded(units)[i]]
           new == [qty |-> line.qty, back |-> line.back + q, taken |-> line.taken,
                   restored |-> restored]
<1>1. /\ Sound(batches, lines) /\ batches \in Seq(Batch) /\ n \in Nat
      /\ Total(batches) \in Int /\ OwedByAll(lines) \in Int /\ q \in Nat /\ Never \in Nat
  BY SoundState
<1>2. line \in Line /\ LineOK(line, n) /\ n <= MaxBatches /\ DOMAIN batches = 1..n
  BY <1>1 DEF Sound
<1>3. /\ q <= line.qty - line.back
      /\ batches' = Move(batches, units)
      /\ lines' = [lines EXCEPT ![l].back = @ + q,
                                ![l].restored = [i \in 1..MaxBatches |-> @[i] + Padded(units)[i]]]
  BY DEF GiveBack, StillSold, PutBack
<1>4. /\ units \in [DOMAIN batches -> Nat] /\ t \in Int
      /\ new \in Line /\ LineOK(new, n)
      /\ Owed(new) = Owed(line) - (q - t)
      /\ t <= q /\ (Owed(line) = 0 => t = q)
  BY <1>1, <1>2, <1>3, LineGivenBack
<1> HIDE DEF units
<1>5. lines' = [lines EXCEPT ![l] = new]
  <2>1. line = [qty |-> line.qty, back |-> line.back,
                taken |-> line.taken, restored |-> line.restored]
    BY <1>2, LineParts
  <2> DEFINE back == line.back + q
  <2>2. [line EXCEPT !.back = back, !.restored = restored] = new
    <3> HIDE DEF restored
    <3>1. QED
      BY <1>2, LineGivenBackEdit
  <2>3. lines' = [lines EXCEPT ![l] = [line EXCEPT !.back = back, !.restored = restored]]
    <3> HIDE DEF units
    <3>1. lines \in [Lines -> Line]
      BY <1>1 DEF Sound
    <3>2. QED
      BY <1>3, <2>1, <3>1
  <2> HIDE DEF new, restored, back
  <2>4. QED
    BY <2>2, <2>3
<1>6. /\ Move(batches, units) \in Seq(Batch) /\ Len(Move(batches, units)) = n
      /\ DOMAIN Move(batches, units) = DOMAIN batches
      /\ \A i \in DOMAIN batches : Move(batches, units)[i].qty = batches[i].qty + units[i]
      /\ Total(Move(batches, units)) = Total(batches) + t
  <2>1. units \in [DOMAIN batches -> Int]
    BY <1>4
  <2>2. QED
    BY <1>1, <2>1, MoveMoves
<1>7. Shelf(batches')
  <2> SUFFICES ASSUME NEW i \in DOMAIN batches PROVE batches[i].qty + units[i] >= 0
    BY <1>3, <1>6 DEF Shelf
  <2>1. batches[i].qty \in Int /\ batches[i].qty >= 0 /\ units[i] \in Nat
    BY <1>1, <1>4, ShelfParts DEF Sound, Shelf
  <2>2. QED
    BY <2>1
<1> HIDE DEF new, n, t
<1>8. /\ lines' \in [Lines -> Line] /\ lines'[l] = new
      /\ \A k \in Lines : k # l => lines'[k] = lines[k]
  BY <1>1, <1>4, <1>5 DEF Sound
<1>9. OwedByAll(lines') = OwedByAll(lines) - (q - t)
  <2>1. lines \in [Lines -> Line]
    BY <1>1 DEF Sound
  <2>2. OwedByAll(lines') = OwedByAll(lines) + (Owed(new) - Owed(lines[l]))
    BY <1>4, <1>5, <2>1, OwedChanged
  <2>3. Owed(lines[l]) \in Int
    BY <1>2, LineParts
  <2>4. QED
    BY <1>1, <1>4, <2>2, <2>3
<1>10. \A k \in Lines : LineOK(lines'[k], n)
  BY <1>1, <1>4, <1>8 DEF Sound, n
<1>11. Sound(batches', lines')
  BY <1>2, <1>3, <1>6, <1>7, <1>8, <1>10 DEF Sound
<1>12. QED
  BY <1>3, <1>4, <1>6, <1>8, <1>9, <1>11

----------------------------------------------------------------------------
(***************************************************************************)
(* The invariant holds at first and every step keeps it.                   *)
(***************************************************************************)

LEMMA StockInvInit ==
    ASSUME Init
    PROVE  StockInv
<1>1. Never \in Nat \ {0} /\ MaxQty \in Nat \ {0} /\ MaxBatches \in Nat /\ InitTracking \subseteq BOOLEAN
  BY BatchStockAssumption
<1>2. NoUnits \in [1..MaxBatches -> Nat] /\ SumFunction(NoUnits) = 0
      /\ \A i \in 1..MaxBatches : NoUnits[i] = 0
  BY NoUnitsSum DEF NoUnits
<1> DEFINE line == [qty |-> 0, back |-> 0, taken |-> NoUnits, restored |-> NoUnits]
<1>3. line.qty = 0 /\ line.back = 0 /\ line.taken = NoUnits /\ line.restored = NoUnits
  OBVIOUS
<1>4. line \in Line
  BY <1>1, <1>2 DEF Line
<1>5. lines = [l \in Lines |-> line]
  BY DEF Init
<1> HIDE DEF line
<1>6. Owed(line) = 0
  BY <1>2, <1>3 DEF Owed
<1>7. batches = <<>> /\ stock = 0 /\ past = {} /\ tracking \in BOOLEAN
      /\ req = [r \in Requests |-> Idle]
  BY <1>1 DEF Init
<1>8. Len(batches) = 0 /\ DOMAIN batches = {} /\ batches \in Seq(Batch)
  BY <1>7
<1>9. Total(batches) = 0
  <2> DEFINE have == [i \in DOMAIN batches |-> batches[i].qty]
  <2>1. DOMAIN have = {}
    BY <1>8
  <2> HIDE DEF have
  <2>2. SumFunction(have) = 0
    BY <2>1, TotalEmpty
  <2>3. QED
    BY <2>2 DEF Total, have
<1>10. LineOK(line, 0)
  BY <1>2, <1>3, <1>6 DEF LineOK
<1>11. \A l \in Lines : lines[l] = line
  BY <1>5
<1>12. OwedByAll(lines) = 0
  BY <1>6, <1>11, NothingOwed
<1>13. TypeOK
  <2>1. lines \in [Lines -> Line]
    BY <1>4, <1>5
  <2>2. req \in [Requests -> Request]
    BY <1>7 DEF Request
  <2>3. Len(batches) <= MaxBatches
    BY <1>1, <1>8
  <2>4. BatchesNeverNegative
    BY <1>8 DEF BatchesNeverNegative
  <2>5. past \subseteq {"belowZero", "setAfter", "switched"}
    BY <1>7
  <2>6. tracking \in BOOLEAN /\ stock \in Int /\ batches \in Seq(Batch)
    BY <1>7, <1>8
  <2>7. QED
    BY <2>1, <2>2, <2>3, <2>4, <2>5, <2>6 DEF TypeOK
<1>14. LinesOK
  BY <1>8, <1>10, <1>11 DEF LinesOK
<1>15. Believed
  BY <1>7 DEF Believed, Idle
<1>16. Covered
  BY <1>7, <1>9, <1>12 DEF Covered
<1>17. Even
  BY <1>6, <1>7, <1>9, <1>11 DEF Even
<1>18. QED
  BY <1>13, <1>14, <1>15, <1>16, <1>17 DEF StockInv

\* More batches on the shelf suit the lines as well.
LEMMA SoundMore ==
    ASSUME NEW rows, NEW some, Sound(rows, some), NEW more, Shelf(more),
           Len(rows) <= Len(more), Len(more) <= MaxBatches
    PROVE  Sound(more, some)
<1>1. Len(rows) \in Int /\ Len(more) \in Int
  BY DEF Sound, Shelf
<1>2. \A l \in Lines : LineOK(some[l], Len(more))
  BY <1>1, LineKept DEF Sound
<1>3. QED
  BY <1>2 DEF Sound

\* A request that is done leaves the others with what they believe.
LEMMA ClosedReq ==
    ASSUME StockInv, NEW r \in Requests, Close(r)
    PROVE  /\ req' \in [Requests -> Request]
           /\ ((past \subseteq past' /\ tracking' = tracking) \/ "switched" \in past') => Believed'
<1>1. req \in [Requests -> Request] /\ Idle \in Request
  BY DEF StockInv, TypeOK, Request
<1>2. /\ req' \in [Requests -> Request]
      /\ \A x \in Requests : req'[x] = req[x] \/ req'[x] = Idle
  BY <1>1 DEF Close
<1>3. ASSUME past \subseteq past' /\ tracking' = tracking
      PROVE  Believed'
  <2> SUFFICES ASSUME "switched" \notin past', NEW x \in Requests
               PROVE  /\ req'[x].phase = "loaded" => req'[x].tracking = tracking'
                      /\ req'[x].phase = "turning" => tracking' = FALSE
    BY DEF Believed
  <2>1. "switched" \notin past
    BY <1>3
  <2>2. CASE req'[x] = req[x]
    BY <1>3, <2>1, <2>2 DEF StockInv, Believed
  <2>3. CASE req'[x] = Idle
    BY <2>3 DEF Idle
  <2>4. QED
    BY <1>2, <2>2, <2>3
<1>4. ASSUME "switched" \in past' PROVE Believed'
  BY <1>4 DEF Believed
<1>5. QED
  BY <1>2, <1>3, <1>4

\* An operation on the stock keeps the invariant when batches and lines stay
\* sound and the batches still cover the stock.
LEMMA StockMoved ==
    ASSUME StockInv, NEW r \in Requests, Close(r), tracking' = tracking, stock' \in Int,
           past \subseteq past', past' \subseteq {"belowZero", "setAfter", "switched"},
           Sound(batches', lines'),
           tracking /\ past' \subseteq {"belowZero"}
              => Total(batches') - stock' >= OwedByAll(lines'),
           tracking /\ past' = {} => /\ stock' >= 0 /\ Total(batches') = stock'
                                     /\ \A l \in Lines : Owed(lines'[l]) = 0
    PROVE  StockInv'
<1>1. req' \in [Requests -> Request] /\ Believed'
  BY ClosedReq
<1>2. TypeOK'
  BY <1>1 DEF StockInv, TypeOK, Sound, Shelf, BatchesNeverNegative
<1>3. LinesOK'
  BY DEF LinesOK, Sound
<1>4. Covered'
  BY DEF Covered
<1>5. Even'
  BY DEF Even
<1>6. QED
  BY <1>1, <1>2, <1>3, <1>4, <1>5 DEF StockInv

\* A step that leaves stock, batches and lines alone keeps it too.
LEMMA StockAlone ==
    ASSUME StockInv, UNCHANGED <<stock, batches, lines>>,
           (past' = past /\ tracking' = tracking) \/ "switched" \in past',
           past' \subseteq {"belowZero", "setAfter", "switched"}, tracking' \in BOOLEAN,
           req' \in [Requests -> Request], Believed'
    PROVE  StockInv'
<1>1. TypeOK'
  BY DEF StockInv, TypeOK, BatchesNeverNegative
<1>2. LinesOK'
  BY DEF StockInv, LinesOK
<1>3. Covered' /\ Even'
  <2>1. CASE past' = past /\ tracking' = tracking
    <3>1. Covered'
      BY <2>1 DEF StockInv, Covered
    <3>2. Even'
      BY <2>1 DEF StockInv, Even
    <3>3. QED
      BY <3>1, <3>2
  <2>2. CASE "switched" \in past'
    <3>1. ~(past' \subseteq {"belowZero"}) /\ past' # {}
      BY <2>2
    <3>2. QED
      BY <3>1 DEF Covered, Even
  <2>3. QED
    BY <2>1, <2>2
<1>4. QED
  BY <1>1, <1>2, <1>3 DEF StockInv

\* What StockTo does to the history.
LEMMA StockToNotes ==
    ASSUME StockInv, NEW n \in Int, StockTo(n)
    PROVE  /\ stock' = n /\ past \subseteq past'
           /\ past' \subseteq {"belowZero", "setAfter", "switched"}
           /\ past' \subseteq {"belowZero"} => past \subseteq {"belowZero"}
           /\ past' = {} => past = {} /\ n >= 0
<1>1. past \subseteq {"belowZero", "setAfter", "switched"}
  BY DEF StockInv, TypeOK
<1>2. QED
  BY <1>1 DEF StockTo

\* What a request may rely on, and what the batches hold before its step.
LEMMA BeforeStep ==
    ASSUME StockInv, NEW r \in Requests, Loaded(r)
    PROVE  /\ TypeOK /\ LinesOK /\ Sound(batches, lines) /\ Shelf(batches)
           /\ stock \in Int /\ Total(batches) \in Int /\ OwedByAll(lines) \in Int
           /\ tracking /\ past \subseteq {"belowZero"}
              => req[r].tracking /\ Total(batches) - stock >= OwedByAll(lines)
           /\ tracking /\ past = {} => /\ req[r].tracking /\ stock >= 0 /\ Total(batches) = stock
                                       /\ \A l \in Lines : Owed(lines[l]) = 0
                                       /\ OwedByAll(lines) = 0
<1>1. /\ TypeOK /\ LinesOK /\ Sound(batches, lines) /\ Shelf(batches)
      /\ stock \in Int /\ Total(batches) \in Int /\ OwedByAll(lines) \in Int
  BY SoundState DEF StockInv, Sound
<1>2. past \subseteq {"belowZero"} => req[r].tracking = tracking
  <2>1. past \subseteq {"belowZero"} => "switched" \notin past
    OBVIOUS
  <2>2. QED
    BY <2>1 DEF StockInv, Believed, Loaded
<1>3. past = {} => past \subseteq {"belowZero"}
  OBVIOUS
<1>4. tracking /\ past \subseteq {"belowZero"}
      => req[r].tracking /\ Total(batches) - stock >= OwedByAll(lines)
  BY <1>2 DEF StockInv, Covered
<1>5. tracking /\ past = {} => /\ req[r].tracking /\ stock >= 0 /\ Total(batches) = stock
                               /\ \A l \in Lines : Owed(lines[l]) = 0
  BY <1>2, <1>3 DEF StockInv, Even
<1>6. (\A l \in Lines : Owed(lines[l]) = 0) => OwedByAll(lines) = 0
  BY NothingOwed
<1>7. QED
  BY <1>1, <1>4, <1>5, <1>6

LEMMA SellKeeps ==
    ASSUME StockInv, NEW r \in Requests, NEW l \in Lines, NEW q \in 1..MaxQty,
           NEW preferred, Sell(r, l, q, preferred)
    PROVE  StockInv'
<1>1. /\ Loaded(r) /\ StockTo(stock - q) /\ Close(r) /\ tracking' = tracking
  BY DEF Sell
<1>2. /\ TypeOK /\ LinesOK
      /\ stock \in Int /\ Total(batches) \in Int /\ OwedByAll(lines) \in Int
      /\ tracking /\ past \subseteq {"belowZero"}
         => req[r].tracking /\ Total(batches) - stock >= OwedByAll(lines)
      /\ tracking /\ past = {} => /\ req[r].tracking /\ stock >= 0 /\ Total(batches) = stock
                                  /\ \A k \in Lines : Owed(lines[k]) = 0
  BY <1>1, BeforeStep
<1>3. PICK t \in Int :
        /\ t <= q /\ (req[r].tracking => t = Least(q, Total(batches)))
        /\ Sound(batches', lines')
        /\ Total(batches') = Total(batches) - t
        /\ Owed(lines[l]) = 0 /\ Owed(lines'[l]) = q - t
        /\ \A k \in Lines : k # l => lines'[k] = lines[k]
        /\ OwedByAll(lines') = OwedByAll(lines) + (q - t)
  BY <1>2, SellDoes
<1>4. q \in Int /\ stock - q \in Int
  BY <1>2, BatchStockAssumption
<1>5. /\ stock' = stock - q /\ past \subseteq past'
      /\ past' \subseteq {"belowZero", "setAfter", "switched"}
      /\ past' \subseteq {"belowZero"} => past \subseteq {"belowZero"}
      /\ past' = {} => past = {} /\ stock - q >= 0
  BY <1>1, <1>4, StockToNotes
<1>6. ASSUME tracking, past' \subseteq {"belowZero"}
      PROVE  Total(batches') - stock' >= OwedByAll(lines')
  <2>1. Total(batches) - stock >= OwedByAll(lines)
    BY <1>2, <1>5, <1>6
  <2>2. QED
    BY <1>2, <1>3, <1>4, <1>5, <2>1
<1>7. ASSUME tracking, past' = {}
      PROVE  /\ stock' >= 0 /\ Total(batches') = stock'
             /\ \A k \in Lines : Owed(lines'[k]) = 0
  <2>1. /\ req[r].tracking /\ Total(batches) = stock /\ stock - q >= 0
        /\ \A k \in Lines : Owed(lines[k]) = 0
    BY <1>2, <1>5, <1>7
  <2>2. t = Least(q, Total(batches))
    BY <1>3, <2>1
  <2>3. t = q
    BY <1>2, <1>4, <2>1, <2>2 DEF Least
  <2>4. Owed(lines'[l]) = 0 /\ Total(batches') = stock'
    BY <1>2, <1>3, <1>4, <1>5, <2>1, <2>3
  <2>5. \A k \in Lines : Owed(lines'[k]) = 0
    BY <1>3, <2>1, <2>4
  <2>6. QED
    BY <1>5, <2>1, <2>4, <2>5
<1>8. stock' \in Int
  BY <1>4, <1>5
<1>9. QED
  BY <1>1, <1>3, <1>5, <1>6, <1>7, <1>8, StockMoved

LEMMA GiveBackKeeps ==
    ASSUME StockInv, NEW r \in Requests, NEW l \in Lines, NEW q \in 1..MaxQty, GiveBack(r, l, q)
    PROVE  StockInv'
<1>1. /\ Loaded(r) /\ StockTo(stock + q) /\ Close(r) /\ tracking' = tracking
  BY DEF GiveBack
<1>2. /\ TypeOK /\ LinesOK
      /\ stock \in Int /\ Total(batches) \in Int /\ OwedByAll(lines) \in Int
      /\ tracking /\ past \subseteq {"belowZero"}
         => req[r].tracking /\ Total(batches) - stock >= OwedByAll(lines)
      /\ tracking /\ past = {} => /\ req[r].tracking /\ stock >= 0 /\ Total(batches) = stock
                                  /\ \A k \in Lines : Owed(lines[k]) = 0
  BY <1>1, BeforeStep
<1>3. PICK t \in Int :
        /\ t <= q /\ (Owed(lines[l]) = 0 => t = q)
        /\ Sound(batches', lines')
        /\ Total(batches') = Total(batches) + t
        /\ Owed(lines'[l]) = Owed(lines[l]) - (q - t)
        /\ \A k \in Lines : k # l => lines'[k] = lines[k]
        /\ OwedByAll(lines') = OwedByAll(lines) - (q - t)
  BY <1>2, GiveBackDoes
<1>4. q \in Int /\ stock + q \in Int
  BY <1>2, BatchStockAssumption
<1>5. /\ stock' = stock + q /\ past \subseteq past'
      /\ past' \subseteq {"belowZero", "setAfter", "switched"}
      /\ past' \subseteq {"belowZero"} => past \subseteq {"belowZero"}
      /\ past' = {} => past = {} /\ stock + q >= 0
  BY <1>1, <1>4, StockToNotes
<1>6. ASSUME tracking, past' \subseteq {"belowZero"}
      PROVE  Total(batches') - stock' >= OwedByAll(lines')
  <2>1. Total(batches) - stock >= OwedByAll(lines)
    BY <1>2, <1>5, <1>6
  <2>2. QED
    BY <1>2, <1>3, <1>4, <1>5, <2>1
<1>7. ASSUME tracking, past' = {}
      PROVE  /\ stock' >= 0 /\ Total(batches') = stock'
             /\ \A k \in Lines : Owed(lines'[k]) = 0
  <2>1. /\ Total(batches) = stock /\ stock + q >= 0
        /\ \A k \in Lines : Owed(lines[k]) = 0
    BY <1>2, <1>5, <1>7
  <2>2. t = q
    BY <1>3, <2>1
  <2>3. Owed(lines'[l]) = 0 /\ Total(batches') = stock'
    BY <1>2, <1>3, <1>4, <1>5, <2>1, <2>2
  <2>4. \A k \in Lines : Owed(lines'[k]) = 0
    BY <1>3, <2>1, <2>3
  <2>5. QED
    BY <1>5, <2>1, <2>3, <2>4
<1>8. stock' \in Int
  BY <1>4, <1>5
<1>9. QED
  BY <1>1, <1>3, <1>5, <1>6, <1>7, <1>8, StockMoved

\* The operations that leave the lines alone: stock and batches move, and the
\* batches of whoever tracks them no less than the stock.
LEMMA ShelfMoves ==
    ASSUME StockInv, NEW r \in Requests, Loaded(r), Close(r), UNCHANGED <<tracking, lines>>,
           stock' \in Int, past \subseteq past',
           past' \subseteq {"belowZero", "setAfter", "switched"},
           past' \subseteq {"belowZero"} => past \subseteq {"belowZero"},
           past' = {} => past = {} /\ stock' >= 0,
           Shelf(batches'), Len(batches) <= Len(batches'), Len(batches') <= MaxBatches,
           Total(batches') \in Int,
           req[r].tracking /\ past' \subseteq {"belowZero"}
              => \/ past = {} /\ Total(batches') = stock'
                 \/ Total(batches') - stock' >= Total(batches) - stock,
           req[r].tracking /\ past' = {} /\ Total(batches) = stock => Total(batches') = stock'
    PROVE  StockInv'
<1>1. /\ Sound(batches, lines)
      /\ stock \in Int /\ Total(batches) \in Int /\ OwedByAll(lines) \in Int
      /\ tracking /\ past \subseteq {"belowZero"}
         => req[r].tracking /\ Total(batches) - stock >= OwedByAll(lines)
      /\ tracking /\ past = {} => /\ req[r].tracking /\ stock >= 0 /\ Total(batches) = stock
                                  /\ \A l \in Lines : Owed(lines[l]) = 0
                                  /\ OwedByAll(lines) = 0
  BY BeforeStep
<1>2. Sound(batches', lines')
  BY <1>1, SoundMore
<1>3. ASSUME tracking, past' \subseteq {"belowZero"}
      PROVE  Total(batches') - stock' >= OwedByAll(lines')
  <2>1. req[r].tracking /\ Total(batches) - stock >= OwedByAll(lines)
    BY <1>1, <1>3
  <2>2. CASE past = {} /\ Total(batches') = stock'
    <3>1. OwedByAll(lines') = 0
      BY <1>1, <1>3, <2>2
    <3>2. Total(batches') - stock' = stock' - stock'
      BY <2>2, Zenon
    <3>3. stock' - stock' = 0
      <4>1. \A x \in Int : x - x = 0
        OBVIOUS
      <4>2. stock' \in Int
        OBVIOUS
      <4>3. QED
        BY <4>1, <4>2, Zenon
    <3>4. QED
      BY <3>1, <3>2, <3>3
  <2>3. CASE Total(batches') - stock' >= Total(batches) - stock
    <3>1. OwedByAll(lines') = OwedByAll(lines)
      OBVIOUS
    <3>2. QED
      BY <1>1, <2>1, <2>3, <3>1
  <2>4. QED
    BY <1>3, <2>1, <2>2, <2>3
<1>4. ASSUME tracking, past' = {}
      PROVE  /\ stock' >= 0 /\ Total(batches') = stock'
             /\ \A l \in Lines : Owed(lines'[l]) = 0
  BY <1>1, <1>4
<1>5. QED
  BY <1>2, <1>3, <1>4, StockMoved

LEMMA AddKeeps ==
    ASSUME StockInv, NEW r \in Requests, NEW q \in 1..MaxQty, Add(r, q)
    PROVE  StockInv'
<1> DEFINE more == AddToOpening(batches, q)
<1>1. /\ Loaded(r) /\ StockTo(stock + q) /\ Close(r) /\ UNCHANGED <<tracking, lines>>
      /\ batches' = IF req[r].tracking THEN more ELSE batches
      /\ Len(batches') <= MaxBatches
  BY DEF Add, Fits
<1>2. Shelf(batches) /\ stock \in Int /\ Total(batches) \in Int /\ Len(batches) \in Nat
  BY <1>1, BeforeStep DEF Shelf
<1>3. q \in Int /\ q > 0 /\ Never \in Nat \ {0} /\ stock + q \in Int
  BY <1>2, BatchStockAssumption
<1>4. Most(0, q) = q
  BY <1>3 DEF Most
<1>5. Shelf(more) /\ Len(batches) <= Len(more) /\ Total(more) = Total(batches) + q
  BY <1>2, <1>3, <1>4, AddToOpeningAdds
<1>6. /\ stock' = stock + q /\ past \subseteq past'
      /\ past' \subseteq {"belowZero", "setAfter", "switched"}
      /\ past' \subseteq {"belowZero"} => past \subseteq {"belowZero"}
      /\ past' = {} => past = {} /\ stock + q >= 0
  BY <1>1, <1>3, StockToNotes
<1> HIDE DEF more
<1>7. Shelf(batches') /\ Len(batches) <= Len(batches') /\ Total(batches') \in Int
  BY <1>1, <1>2, <1>3, <1>5
<1>8. req[r].tracking => Total(batches') = Total(batches) + q
  BY <1>1, <1>5
<1>9. req[r].tracking => Total(batches') - stock' >= Total(batches) - stock
  BY <1>2, <1>3, <1>6, <1>8
<1>10. req[r].tracking /\ Total(batches) = stock => Total(batches') = stock'
  BY <1>6, <1>8
<1>11. stock' \in Int /\ (past' = {} => past = {} /\ stock' >= 0)
  BY <1>3, <1>6
<1>12. QED
  BY <1>1, <1>6, <1>7, <1>9, <1>10, <1>11, ShelfMoves

LEMMA ReduceKeeps ==
    ASSUME StockInv, NEW r \in Requests, NEW q \in 1..MaxQty, Reduce(r, q)
    PROVE  StockInv'
<1> DEFINE believes == req[r].tracking
           none == 0
           plan == PlanTake(batches, q, none).take
           take == IF believes THEN plan ELSE [i \in DOMAIN batches |-> 0]
           t == SumFunction(take)
           left == Out(batches, take)
<1>1. /\ Loaded(r) /\ StockTo(stock - q) /\ Close(r) /\ UNCHANGED <<tracking, lines>>
      /\ batches' = IF believes THEN Out(batches, plan) ELSE batches
  BY DEF Reduce
<1>2. /\ Shelf(batches) /\ Sound(batches, lines) /\ stock \in Int /\ Total(batches) \in Int
      /\ Len(batches) \in Nat
  BY <1>1, BeforeStep DEF Shelf
<1>3. q \in Nat /\ stock - q \in Int
  BY <1>2, BatchStockAssumption
<1>4. /\ take \in [DOMAIN batches -> Nat] /\ t \in Int /\ t <= q
      /\ believes => t = Least(q, Total(batches))
      /\ Shelf(left) /\ Len(left) = Len(batches)
      /\ Total(left) = Total(batches) - t
  <2>1. Shelf(batches) /\ q \in Nat
    BY <1>2, <1>3
  <2> HIDE DEF believes, none
  <2>2. QED
    BY <2>1, Taken
<1>5. believes => batches' = left
  BY <1>1
<1>6. ~believes => batches' = batches
  BY <1>1
<1>7. /\ stock' = stock - q /\ past \subseteq past'
      /\ past' \subseteq {"belowZero", "setAfter", "switched"}
      /\ past' \subseteq {"belowZero"} => past \subseteq {"belowZero"}
      /\ past' = {} => past = {} /\ stock - q >= 0
  BY <1>1, <1>3, StockToNotes
<1> HIDE DEF left, t, take, plan, believes
<1>8. Shelf(batches') /\ Len(batches) <= Len(batches') /\ Total(batches') \in Int
      /\ Len(batches') <= MaxBatches
  BY <1>2, <1>4, <1>5, <1>6 DEF Sound
<1>9. believes => Total(batches') = Total(batches) - t /\ t \in Int /\ t <= q
  BY <1>4, <1>5
<1>10. believes => Total(batches') - stock' >= Total(batches) - stock
  BY <1>2, <1>3, <1>7, <1>9
<1>11. believes /\ past' = {} /\ Total(batches) = stock => Total(batches') = stock'
  <2>1. believes /\ past' = {} /\ Total(batches) = stock => t = q
    BY <1>2, <1>3, <1>4, <1>7 DEF Least
  <2>2. QED
    BY <1>2, <1>3, <1>7, <1>9, <2>1
<1>12. stock' \in Int /\ (past' = {} => past = {} /\ stock' >= 0)
  BY <1>3, <1>7
<1>13. QED
  BY <1>1, <1>7, <1>8, <1>10, <1>11, <1>12, ShelfMoves DEF believes

LEMMA SetStockKeeps ==
    ASSUME StockInv, NEW r \in Requests, NEW q \in 0..MaxQty, SetStock(r, q)
    PROVE  StockInv'
<1> DEFINE even == Reconcile(batches, q)
<1>1. /\ Loaded(r) /\ Close(r) /\ UNCHANGED <<tracking, lines>> /\ stock' = q
      /\ past' = IF "belowZero" \in past THEN past \cup {"setAfter"} ELSE past
      /\ batches' = IF req[r].tracking THEN even ELSE batches
      /\ Len(batches') <= MaxBatches
  BY DEF SetStock, Fits
<1>2. Shelf(batches) /\ stock \in Int /\ Total(batches) \in Int /\ Len(batches) \in Nat
  BY <1>1, BeforeStep DEF Shelf
<1>3. q \in Nat /\ q >= 0 /\ Never \in Nat \ {0}
  BY BatchStockAssumption
<1>4. Most(0, q) = q
  BY <1>3 DEF Most
<1>5. Shelf(even) /\ Len(batches) <= Len(even) /\ Total(even) = q
  BY <1>2, <1>3, <1>4, ReconcileEvens
<1>6. past \subseteq {"belowZero", "setAfter", "switched"}
  BY DEF StockInv, TypeOK
<1>7. /\ past \subseteq past' /\ past' \subseteq {"belowZero", "setAfter", "switched"}
      /\ past' \subseteq {"belowZero"} => past = {}
      /\ past' = {} => past = {}
  BY <1>1, <1>6
<1> HIDE DEF even
<1>8. Shelf(batches') /\ Len(batches) <= Len(batches') /\ Total(batches') \in Int
  BY <1>1, <1>2, <1>3, <1>5
<1>9. req[r].tracking => Total(batches') = stock'
  BY <1>1, <1>5
<1>10. stock' \in Int /\ stock' >= 0
  BY <1>1, <1>3
<1>11. /\ past' \subseteq {"belowZero"} => past \subseteq {"belowZero"}
       /\ past' = {} => past = {} /\ stock' >= 0
  BY <1>7, <1>10
<1>12. req[r].tracking /\ past' \subseteq {"belowZero"} => past = {} /\ Total(batches') = stock'
  BY <1>7, <1>9
<1>13. QED
  BY <1>1, <1>7, <1>8, <1>9, <1>10, <1>11, <1>12, ShelfMoves

LEMMA AddBatchKeeps ==
    ASSUME StockInv, NEW r \in Requests, NEW q \in 1..MaxQty, NEW expiry \in 1..Never,
           AddBatch(r, q, expiry)
    PROVE  StockInv'
<1> DEFINE b == [qty |-> q, expiry |-> expiry, opening |-> FALSE]
           more == Append(batches, b)
<1>1. /\ Loaded(r) /\ StockTo(stock + q) /\ Close(r) /\ UNCHANGED <<tracking, lines>>
      /\ batches' = more /\ Len(batches') <= MaxBatches
  BY DEF AddBatch, Fits
<1>2. Shelf(batches) /\ stock \in Int /\ Total(batches) \in Int /\ Len(batches) \in Nat
  BY <1>1, BeforeStep DEF Shelf
<1>3. q \in Int /\ q > 0 /\ Never \in Nat /\ stock + q \in Int
  BY <1>2, BatchStockAssumption
<1>4. b \in Batch /\ b.qty = q
  BY <1>3 DEF Batch
<1> HIDE DEF b
<1>5. Shelf(more) /\ Len(more) = Len(batches) + 1 /\ Total(more) = Total(batches) + q
  BY <1>2, <1>3, <1>4, AppendAdds
<1>6. /\ stock' = stock + q /\ past \subseteq past'
      /\ past' \subseteq {"belowZero", "setAfter", "switched"}
      /\ past' \subseteq {"belowZero"} => past \subseteq {"belowZero"}
      /\ past' = {} => past = {} /\ stock + q >= 0
  BY <1>1, <1>3, StockToNotes
<1> HIDE DEF more
<1>7. Shelf(batches') /\ Len(batches) <= Len(batches') /\ Total(batches') \in Int
  BY <1>1, <1>2, <1>3, <1>5
<1>8. Total(batches') = Total(batches) + q
  BY <1>1, <1>5
<1>9. Total(batches') - stock' >= Total(batches) - stock
  BY <1>2, <1>3, <1>6, <1>8
<1>10. Total(batches) = stock => Total(batches') = stock'
  BY <1>6, <1>8
<1>11. stock' \in Int /\ (past' = {} => past = {} /\ stock' >= 0)
  BY <1>3, <1>6
<1>12. QED
  BY <1>1, <1>6, <1>7, <1>9, <1>10, <1>11, ShelfMoves

\* A corrected expiry moves no unit.
LEMMA ChangeExpiryKeeps ==
    ASSUME StockInv, NEW r \in Requests, NEW i \in 1..MaxBatches, NEW expiry \in 1..Never,
           ChangeExpiry(r, i, expiry)
    PROVE  StockInv'
<1>1. /\ Loaded(r) /\ Close(r) /\ UNCHANGED <<tracking, stock, lines, past>>
      /\ i \in DOMAIN batches /\ batches' = [batches EXCEPT ![i].expiry = expiry]
  BY DEF ChangeExpiry
<1>2. /\ Shelf(batches) /\ Sound(batches, lines) /\ stock \in Int /\ Total(batches) \in Int
      /\ batches \in Seq(Batch)
  BY <1>1, BeforeStep DEF Shelf
<1>3. Never \in Nat
  BY BatchStockAssumption
<1>4. /\ Len(batches) \in Nat /\ DOMAIN batches = 1..Len(batches)
      /\ \A k \in DOMAIN batches : batches[k] \in Batch /\ batches[k].qty >= 0
  BY <1>2, <1>3, ShelfParts DEF Shelf
<1> DEFINE b == batches[i]
<1>5. b \in Batch
  BY <1>1, <1>4
<1>6. [b EXCEPT !.expiry = expiry] \in Batch /\ [b EXCEPT !.expiry = expiry].qty = b.qty
  <2> HIDE DEF b
  <2>1. /\ b = [qty |-> b.qty, expiry |-> b.expiry, opening |-> b.opening]
        /\ b.qty \in Int /\ b.opening \in BOOLEAN
    BY <1>5 DEF Batch
  <2>2. [b EXCEPT !.expiry = expiry] = [qty |-> b.qty, expiry |-> expiry, opening |-> b.opening]
    BY <2>1
  <2>3. [qty |-> b.qty, expiry |-> expiry, opening |-> b.opening] \in Batch
    BY <2>1 DEF Batch
  <2>4. QED
    BY <2>2, <2>3
<1>7. /\ DOMAIN batches' = DOMAIN batches /\ batches' = [k \in DOMAIN batches |-> batches'[k]]
      /\ batches'[i] = [b EXCEPT !.expiry = expiry]
      /\ \A k \in DOMAIN batches : k # i => batches'[k] = batches[k]
  BY <1>1
<1> HIDE DEF b
<1>8. \A k \in DOMAIN batches : batches'[k] \in Batch /\ batches'[k].qty = batches[k].qty
  <2> SUFFICES ASSUME NEW k \in DOMAIN batches
               PROVE  batches'[k] \in Batch /\ batches'[k].qty = batches[k].qty
    OBVIOUS
  <2>1. CASE k = i
    BY <1>6, <1>7, <2>1 DEF b
  <2>2. CASE k # i
    BY <1>4, <1>7, <2>2
  <2>3. QED
    BY <2>1, <2>2
<1>9. batches' \in [1..Len(batches) -> Batch]
  BY <1>4, <1>7, <1>8
<1>10. batches' \in Seq(Batch) /\ Len(batches') = Len(batches)
  BY <1>4, <1>9
<1>11. Shelf(batches')
  BY <1>4, <1>7, <1>8, <1>10 DEF Shelf
<1>12. Total(batches') = Total(batches)
  <2>1. [k \in DOMAIN batches' |-> batches'[k].qty] = [k \in DOMAIN batches |-> batches[k].qty]
    BY <1>7, <1>8
  <2>2. QED
    BY <2>1 DEF Total
<1>13. Len(batches) <= Len(batches') /\ Len(batches') <= MaxBatches
  BY <1>2, <1>4, <1>10 DEF Sound
<1>14. past \subseteq {"belowZero", "setAfter", "switched"}
  BY DEF StockInv, TypeOK
<1>15. Sound(batches', lines')
  BY <1>1, <1>2, <1>11, <1>13, SoundMore
<1>16. tracking /\ past' \subseteq {"belowZero"}
         => Total(batches') - stock' >= OwedByAll(lines')
  BY <1>1, <1>12 DEF StockInv, Covered
<1>17. tracking /\ past' = {} => /\ stock' >= 0 /\ Total(batches') = stock'
                                 /\ \A l \in Lines : Owed(lines'[l]) = 0
  BY <1>1, <1>12 DEF StockInv, Even
<1>18. QED
  BY <1>1, <1>2, <1>14, <1>15, <1>16, <1>17, StockMoved

\* Turning tracking on ends what the other invariants speak of.
LEMMA TurnOnKeeps ==
    ASSUME StockInv, NEW r \in Requests, TurnOn(r)
    PROVE  StockInv'
<1> DEFINE even == Reconcile(batches, req[r].stock)
<1>1. /\ req[r].phase = "turning" /\ Close(r) /\ UNCHANGED <<stock, lines>>
      /\ batches' = IF req[r].stock > 0 THEN even ELSE batches
      /\ Len(batches') <= MaxBatches /\ tracking' = TRUE /\ past' = past \cup {"switched"}
  BY DEF TurnOn, Fits, TrackingTo
<1>2. /\ Sound(batches, lines) /\ Shelf(batches) /\ Len(batches) \in Nat
      /\ Never \in Nat \ {0} /\ stock \in Int
  BY SoundState DEF StockInv, Sound
<1>3. req[r].stock \in Int
  BY <1>1 DEF StockInv, TypeOK, Request, Idle
<1>4. Shelf(even) /\ Len(batches) <= Len(even)
  BY <1>2, <1>3, ReconcileEvens
<1> HIDE DEF even
<1>5. Shelf(batches') /\ Len(batches) <= Len(batches')
  BY <1>1, <1>2, <1>4
<1>6. Sound(batches', lines')
  BY <1>1, <1>2, <1>5, SoundMore
<1>7. req' \in [Requests -> Request] /\ Believed'
  <2>1. "switched" \in past'
    BY <1>1
  <2>2. QED
    BY <1>1, <2>1, ClosedReq
<1>8. past' \subseteq {"belowZero", "setAfter", "switched"}
  BY <1>1 DEF StockInv, TypeOK
<1>9. TypeOK'
  BY <1>1, <1>2, <1>6, <1>7, <1>8 DEF TypeOK, Sound, Shelf, BatchesNeverNegative
<1>10. LinesOK'
  BY <1>6 DEF LinesOK, Sound
<1>11. Covered' /\ Even'
  <2>1. ~(past' \subseteq {"belowZero"}) /\ past' # {}
    BY <1>1
  <2>2. QED
    BY <2>1 DEF Covered, Even
<1>12. QED
  BY <1>7, <1>9, <1>10, <1>11 DEF StockInv

\* The steps that move no stock.
LEMMA OthersKeep ==
    ASSUME StockInv, NEW r \in Requests,
           Load(r) \/ ReadStock(r) \/ KeepOn(r) \/ TurnOff(r) \/ Fail(r)
    PROVE  StockInv'
<1>1. /\ req \in [Requests -> Request] /\ tracking \in BOOLEAN /\ stock \in Int
      /\ past \subseteq {"belowZero", "setAfter", "switched"}
  BY DEF StockInv, TypeOK
<1>2. CASE Load(r)
  <2> DEFINE new == [phase |-> "loaded", tracking |-> tracking]
  <2>1. req' = [req EXCEPT ![r] = new] /\ UNCHANGED <<tracking, stock, batches, lines, past>>
    BY <1>2 DEF Load
  <2>2. new \in Request /\ new.phase = "loaded" /\ new.tracking = tracking
    BY <1>1 DEF Request
  <2> HIDE DEF new
  <2>3. req' \in [Requests -> Request]
    BY <1>1, <2>1, <2>2
  <2>4. \A x \in Requests : req'[x] = req[x] \/ req'[x] = new
    BY <1>1, <2>1
  <2>5. Believed'
    <3> SUFFICES ASSUME "switched" \notin past, NEW x \in Requests
                 PROVE  /\ req'[x].phase = "loaded" => req'[x].tracking = tracking
                        /\ req'[x].phase = "turning" => tracking = FALSE
      BY <2>1 DEF Believed
    <3>1. CASE req'[x] = req[x]
      BY <3>1 DEF StockInv, Believed
    <3>2. CASE req'[x] = new
      BY <2>2, <3>2
    <3>3. QED
      BY <2>4, <3>1, <3>2
  <2>6. QED
    BY <1>1, <2>1, <2>3, <2>5, StockAlone
<1>3. CASE ReadStock(r)
  <2> DEFINE new == [phase |-> "turning", stock |-> stock]
  <2>1. /\ req' = [req EXCEPT ![r] = new] /\ UNCHANGED <<tracking, stock, batches, lines, past>>
        /\ req[r].phase = "loaded" /\ ~req[r].tracking
    BY <1>3 DEF ReadStock, Loaded
  <2>2. new \in Request /\ new.phase = "turning"
    BY <1>1 DEF Request
  <2>3. req[r].tracking \in BOOLEAN
    BY <1>1, <2>1 DEF Request, Idle
  <2> HIDE DEF new
  <2>4. req' \in [Requests -> Request]
    BY <1>1, <2>1, <2>2
  <2>5. \A x \in Requests : req'[x] = req[x] \/ req'[x] = new
    BY <1>1, <2>1
  <2>6. "switched" \notin past => req[r].tracking = tracking
    BY <2>1 DEF StockInv, Believed
  <2>7. "switched" \notin past => tracking = FALSE
    <3>1. req[r].tracking = FALSE
      BY <2>1, <2>3, Zenon
    <3>2. QED
      BY <2>6, <3>1, Zenon
  <2>8. Believed'
    <3> SUFFICES ASSUME "switched" \notin past, NEW x \in Requests
                 PROVE  /\ req'[x].phase = "loaded" => req'[x].tracking = tracking
                        /\ req'[x].phase = "turning" => tracking = FALSE
      BY <2>1 DEF Believed
    <3>1. CASE req'[x] = req[x]
      BY <3>1 DEF StockInv, Believed
    <3>2. CASE req'[x] = new
      BY <2>2, <2>7, <3>2
    <3>3. QED
      BY <2>5, <3>1, <3>2
  <2>9. QED
    BY <1>1, <2>1, <2>4, <2>8, StockAlone
<1>4. CASE KeepOn(r) \/ TurnOff(r)
  <2>1. /\ Close(r) /\ UNCHANGED <<stock, batches, lines>> /\ tracking' \in BOOLEAN
        /\ past' = past \cup {"switched"}
    BY <1>4 DEF KeepOn, TurnOff, TrackingTo
  <2>2. "switched" \in past' /\ past' \subseteq {"belowZero", "setAfter", "switched"}
    BY <1>1, <2>1
  <2>3. req' \in [Requests -> Request] /\ Believed'
    BY <2>1, <2>2, ClosedReq
  <2>4. QED
    BY <2>1, <2>2, <2>3, StockAlone
<1>5. CASE Fail(r)
  <2>1. Close(r) /\ UNCHANGED <<tracking, stock, batches, lines, past>>
    BY <1>5 DEF Fail
  <2>2. req' \in [Requests -> Request] /\ Believed'
    BY <2>1, ClosedReq
  <2>3. QED
    BY <1>1, <2>1, <2>2, StockAlone
<1>6. QED
  BY <1>2, <1>3, <1>4, <1>5

LEMMA StockInvStep ==
    ASSUME StockInv, [Next]_vars
    PROVE  StockInv'
<1>1. CASE UNCHANGED vars
  BY <1>1 DEF vars, StockInv, TypeOK, LinesOK, Believed, Covered, Even, BatchesNeverNegative
<1>2. CASE Next
  <2>1. PICK r \in Requests :
          \/ Load(r)
          \/ ReadStock(r) \/ TurnOn(r) \/ KeepOn(r) \/ TurnOff(r) \/ Fail(r)
          \/ \E q \in 1..MaxQty :
                \/ \E l \in Lines, preferred \in 0..Len(batches) : Sell(r, l, q, preferred)
                \/ \E l \in Lines : GiveBack(r, l, q)
                \/ Add(r, q)
                \/ Reduce(r, q)
                \/ \E expiry \in 1..Never : AddBatch(r, q, expiry)
          \/ \E q \in 0..MaxQty : SetStock(r, q)
          \/ \E i \in 1..MaxBatches, expiry \in 1..Never : ChangeExpiry(r, i, expiry)
    BY <1>2 DEF Next
  <2>2. CASE Load(r) \/ ReadStock(r) \/ KeepOn(r) \/ TurnOff(r) \/ Fail(r)
    BY <2>2, OthersKeep
  <2>3. CASE TurnOn(r)
    BY <2>3, TurnOnKeeps
  <2>4. ASSUME NEW q \in 1..MaxQty, NEW l \in Lines, NEW preferred \in 0..Len(batches),
               Sell(r, l, q, preferred)
        PROVE  StockInv'
    BY <2>4, SellKeeps
  <2>5. ASSUME NEW q \in 1..MaxQty, NEW l \in Lines, GiveBack(r, l, q)
        PROVE  StockInv'
    BY <2>5, GiveBackKeeps
  <2>6. ASSUME NEW q \in 1..MaxQty, Add(r, q) PROVE StockInv'
    BY <2>6, AddKeeps
  <2>7. ASSUME NEW q \in 1..MaxQty, Reduce(r, q) PROVE StockInv'
    BY <2>7, ReduceKeeps
  <2>8. ASSUME NEW q \in 1..MaxQty, NEW expiry \in 1..Never, AddBatch(r, q, expiry)
        PROVE  StockInv'
    BY <2>8, AddBatchKeeps
  <2>9. ASSUME NEW q \in 0..MaxQty, SetStock(r, q) PROVE StockInv'
    BY <2>9, SetStockKeeps
  <2>10. ASSUME NEW i \in 1..MaxBatches, NEW expiry \in 1..Never, ChangeExpiry(r, i, expiry)
         PROVE  StockInv'
    BY <2>10, ChangeExpiryKeeps
  <2>11. QED
    BY <2>1, <2>2, <2>3, <2>4, <2>5, <2>6, <2>7, <2>8, <2>9, <2>10
<1>3. QED
  BY <1>1, <1>2
----------------------------------------------------------------------------
(***************************************************************************)
(* The theorems.                                                           *)
(***************************************************************************)

\* Every reachable state has its types, its lines fit the batches, requests
\* believe what is unless tracking was switched, and the batches cover the stock.
THEOREM StockInvHolds == Spec => []StockInv
<1>1. Init => StockInv
  BY StockInvInit
<1>2. StockInv /\ [Next]_vars => StockInv'
  BY StockInvStep
<1>3. QED
  BY <1>1, <1>2, PTL DEF Spec

\* No batch ever holds less than nothing, whatever is sold, given back or
\* corrected (planTake, restoreToBatches, reconcileBatches), and the rest of the
\* state keeps its types.
THEOREM BatchTypeHolds == Spec => []TypeOK
<1>1. StockInv => TypeOK
  BY DEF StockInv
<1>2. QED
  BY <1>1, StockInvHolds, PTL

\* As long as the stock was never below zero and tracking never switched, the
\* batches add up to the stock number.
THEOREM BatchesAddUpHolds == Spec => []BatchesAddUp
<1>1. StockInv => BatchesAddUp
  BY DEF StockInv, Even, BatchesAddUp
<1>2. QED
  BY <1>1, StockInvHolds, PTL

LEMMA OwedIsPositive ==
    ASSUME TypeOK, LinesOK
    PROVE  OwedByAll(lines) \in Int /\ OwedByAll(lines) >= 0
<1> DEFINE owed == [l \in Lines |-> Owed(lines[l])]
           zero == [l \in Lines |-> 0]
<1>1. OwedByAll(lines) \in Int
  BY SoundState
<1>2. IsFiniteSet(Lines)
  BY BatchStockAssumption
<1>3. DOMAIN owed = Lines /\ DOMAIN zero = Lines
  OBVIOUS
<1>4. \A l \in Lines : owed[l] \in Int /\ zero[l] \in Int /\ zero[l] <= owed[l]
  <2> SUFFICES ASSUME NEW l \in Lines
               PROVE  Owed(lines[l]) \in Int /\ 0 <= Owed(lines[l])
    OBVIOUS
  <2>1. lines[l] \in Line /\ Owed(lines[l]) >= 0
    BY DEF TypeOK, LinesOK, LineOK
  <2>2. Owed(lines[l]) \in Int
    BY <2>1, LineParts
  <2>3. QED
    BY <2>1, <2>2
<1>5. \A l \in Lines : zero[l] = 0
  OBVIOUS
<1>6. OwedByAll(lines) = SumFunction(owed)
  BY DEF OwedByAll
<1> HIDE DEF owed, zero
<1>7. SumFunction(zero) <= SumFunction(owed)
  BY <1>2, <1>3, <1>4, TotalAtLeast
<1>8. SumFunction(zero) = 0
  BY <1>2, <1>3, <1>5, TotalZero
<1>9. QED
  BY <1>1, <1>6, <1>7, <1>8

\* Sales and reductions below zero leave no unit in stock without a batch: what
\* the lines are still owed by no batch is covered by what the batches hold.
THEOREM CoveredHolds == Spec => []EveryUnitHasABatch
<1>1. StockInv => EveryUnitHasABatch
  <2> SUFFICES ASSUME StockInv, tracking, past \subseteq {"belowZero"}
               PROVE  Total(batches) >= stock
    BY DEF EveryUnitHasABatch
  <2>1. OwedByAll(lines) \in Int /\ OwedByAll(lines) >= 0
    BY OwedIsPositive DEF StockInv
  <2>2. Total(batches) - stock >= OwedByAll(lines)
    BY DEF StockInv, Covered
  <2>3. Total(batches) \in Int /\ stock \in Int
    BY SoundState DEF StockInv, TypeOK
  <2>4. QED
    BY <2>1, <2>2, <2>3
<1>2. QED
  BY <1>1, StockInvHolds, PTL

\* A bill line puts back into a batch at most what it took from it, in however
\* many returns, and at most what it gave back (restoreToBatches).
THEOREM RestoredHolds == Spec => []RestoredWithinTaken
<1>1. StockInv => RestoredWithinTaken
  BY DEF StockInv, LinesOK, LineOK, RestoredWithinTaken
<1>2. QED
  BY <1>1, StockInvHolds, PTL

\* What a plan takes, it takes from the batch that expires first.
LEMMA PlanTakesFirst ==
    ASSUME NEW rows, Shelf(rows), NEW q \in Nat, NEW preferred,
           NEW i \in DOMAIN rows, NEW j \in DOMAIN rows, NEW after,
           after = Out(rows, PlanTake(rows, q, preferred).take),
           after[j].qty < rows[j].qty, rows[i].expiry < rows[j].expiry, after[i].qty > 0
    PROVE  preferred \in {i, j}
<1> DEFINE take == PlanTake(rows, q, preferred).take
<1>1. Never \in Nat
  BY BatchStockAssumption
<1>2. /\ take \in [DOMAIN rows -> Nat]
      /\ \A k \in DOMAIN rows : take[k] <= rows[k].qty
      /\ take[j] > 0 /\ rows[i].expiry < rows[j].expiry /\ take[i] < rows[i].qty
         => preferred \in {i, j}
  BY <1>1, PlanTakeTakes
<1>3. after = Out(rows, take)
  OBVIOUS
<1> HIDE DEF take
<1>4. after[i].qty = rows[i].qty - take[i] /\ after[j].qty = rows[j].qty - take[j]
  BY <1>1, <1>2, <1>3, OutTakesOut
<1>5. rows[i].qty \in Int /\ rows[j].qty \in Int /\ take[i] \in Int /\ take[j] \in Int
  BY <1>1, <1>2, ShelfParts DEF Shelf
<1>6. take[j] > 0 /\ take[i] < rows[i].qty
  BY <1>4, <1>5
<1>7. QED
  BY <1>2, <1>6

\* A plan of nothing takes nothing.
LEMMA NoTakeNoMove ==
    ASSUME NEW rows, Shelf(rows), NEW j \in DOMAIN rows
    PROVE  Out(rows, [i \in DOMAIN rows |-> 0])[j].qty = rows[j].qty
<1> DEFINE none == [i \in DOMAIN rows |-> 0]
<1>1. Never \in Nat
  BY BatchStockAssumption
<1>2. \A i \in DOMAIN rows : rows[i].qty >= 0 /\ rows[i].qty \in Int
  BY <1>1, ShelfParts DEF Shelf
<1>3. /\ none \in [DOMAIN rows -> Nat] /\ none[j] = 0
      /\ \A i \in DOMAIN rows : none[i] = 0
  OBVIOUS
<1> HIDE DEF none
<1>4. \A i \in DOMAIN rows : none[i] <= rows[i].qty
  BY <1>2, <1>3
<1>5. Out(rows, none)[j].qty = rows[j].qty - none[j]
  BY <1>1, <1>3, <1>4, OutTakesOut
<1>6. QED
  BY <1>2, <1>3, <1>5 DEF none

\* Evening the batches out upwards lowers none of them.
LEMMA OpeningLowersNone ==
    ASSUME NEW rows, Shelf(rows), NEW q \in Int, NEW j \in DOMAIN rows
    PROVE  ~(AddToOpening(rows, q)[j].qty < rows[j].qty)
<1>1. Never \in Nat
  BY BatchStockAssumption
<1>2. /\ rows \in Seq(Batch) /\ rows[j].qty \in Int
      /\ \A i \in DOMAIN rows : rows[i].qty \in Int /\ rows[i] \in Batch
  BY <1>1, ShelfParts DEF Shelf
<1>3. CASE q <= 0
  BY <1>2, <1>3 DEF AddToOpening
<1>4. CASE q > 0 /\ Opening(rows) # {}
  <2>1. PICK i \in DOMAIN rows : AddToOpening(rows, q) = [rows EXCEPT ![i].qty = @ + q]
    <3> DEFINE i == CHOOSE i \in Opening(rows) : TRUE
    <3>1. i \in DOMAIN rows
      BY <1>4 DEF Opening
    <3>2. AddToOpening(rows, q) = [rows EXCEPT ![i].qty = @ + q]
      BY <1>4 DEF AddToOpening
    <3>3. QED
      BY <3>1, <3>2
  <2>2. [rows EXCEPT ![i].qty = @ + q][j].qty
        = IF i = j THEN rows[j].qty + q ELSE rows[j].qty
    <3>1. DOMAIN rows = 1..Len(rows)
      BY <1>2
    <3>2. rows[i] \in Batch /\ rows[j] \in Batch
      BY <1>2
    <3>3. QED
      BY <1>2, <3>1, <3>2 DEF Batch
  <2>3. QED
    BY <1>2, <1>4, <2>1, <2>2
<1>5. CASE q > 0 /\ Opening(rows) = {}
  <2> DEFINE row == [qty |-> q, expiry |-> Never, opening |-> TRUE]
  <2>1. AddToOpening(rows, q) = Append(rows, row)
    BY <1>5 DEF AddToOpening
  <2> HIDE DEF row
  <2>2. Append(rows, row)[j] = rows[j]
    BY <1>2
  <2>3. QED
    BY <1>2, <2>1, <2>2
<1>6. QED
  BY <1>3, <1>4, <1>5

\* Units leave the batch that expires first, by a sale, a reduction or a SET,
\* except from or past the batch the cashier picked (sortFefo, planTake).
THEOREM EarliestHolds == Spec => EarliestExpiryFirst
<1>1. ASSUME StockInv, NEW i \in DOMAIN batches, NEW j \in DOMAIN batches,
             batches'[j].qty < batches[j].qty, batches[i].expiry < batches[j].expiry,
             batches'[i].qty > 0,
             NEW r \in Requests, NEW picked \in 0..Len(batches), Takes(r, picked)
      PROVE  picked \in {i, j}
  <2>1. Shelf(batches) /\ batches[j].qty \in Int /\ Never \in Nat
    <3>1. Shelf(batches) /\ Never \in Nat
      BY <1>1, SoundState DEF StockInv, Sound
    <3>2. QED
      BY <3>1, ShelfParts DEF Shelf
  <2>2. ~(batches[j].qty < batches[j].qty)
    BY <2>1
  <2>7. ASSUME NEW n \in Nat, batches' = Out(batches, PlanTake(batches, n, picked).take)
        PROVE  picked \in {i, j}
    <3> DEFINE before == batches
               after == batches'
    <3>1. Shelf(before) /\ i \in DOMAIN before /\ j \in DOMAIN before
      BY <1>1, <2>1
    <3>2. after = Out(before, PlanTake(before, n, picked).take)
      BY <2>7
    <3>3. after[j].qty < before[j].qty /\ before[i].expiry < before[j].expiry /\ after[i].qty > 0
      BY <1>1
    <3> HIDE DEF before, after
    <3>4. QED
      BY <2>7, <3>1, <3>2, <3>3, PlanTakesFirst
  <2>3. ASSUME NEW l \in Lines, NEW q \in 1..MaxQty, Sell(r, l, q, picked)
        PROVE  picked \in {i, j}
    <3>1. batches' = Out(batches, IF req[r].tracking THEN PlanTake(batches, q, picked).take
                                  ELSE [k \in DOMAIN batches |-> 0])
      BY <2>3 DEF Sell
    <3>2. CASE req[r].tracking
      <4>1. q \in Nat /\ batches' = Out(batches, PlanTake(batches, q, picked).take)
        BY <3>1, <3>2, BatchStockAssumption
      <4>2. QED
        BY <2>7, <4>1
    <3>3. CASE ~req[r].tracking
      <4>1. batches' = Out(batches, [k \in DOMAIN batches |-> 0])
        BY <3>1, <3>3
      <4>2. batches'[j].qty = batches[j].qty
        BY <2>1, <4>1, NoTakeNoMove
      <4>3. QED
        BY <1>1, <2>2, <4>2
    <3>4. QED
      BY <3>2, <3>3
  <2>4. ASSUME picked = 0, NEW q \in 1..MaxQty, Reduce(r, q)
        PROVE  picked \in {i, j}
    <3>1. batches' = IF req[r].tracking THEN Out(batches, PlanTake(batches, q, picked).take)
                     ELSE batches
      BY <2>4 DEF Reduce
    <3>2. q \in Nat
      BY BatchStockAssumption
    <3>3. CASE req[r].tracking
      <4>1. batches' = Out(batches, PlanTake(batches, q, picked).take)
        BY <3>1, <3>3
      <4>2. QED
        BY <2>7, <3>2, <4>1
    <3>4. CASE ~req[r].tracking
      BY <1>1, <2>2, <3>1, <3>4
    <3>5. QED
      BY <3>3, <3>4
  <2>5. ASSUME picked = 0, NEW q \in 0..MaxQty, SetStock(r, q)
        PROVE  picked \in {i, j}
    <3> DEFINE sum == SumFunction([k \in DOMAIN batches |-> Most(0, batches[k].qty)])
               target == Most(0, q)
    <3>1. batches' = IF req[r].tracking THEN Reconcile(batches, q) ELSE batches
      BY <2>5 DEF SetStock
    <3>2. Reconcile(batches, q)
          = IF target > sum THEN AddToOpening(batches, target - sum)
            ELSE Out(batches, PlanTake(batches, sum - target, picked).take)
      BY <2>5 DEF Reconcile
    <3>3. sum \in Int /\ target \in Int
      <4> DEFINE capped == [k \in DOMAIN batches |-> Most(0, batches[k].qty)]
      <4>1. IsFiniteSet(DOMAIN batches) /\ \A k \in DOMAIN batches : batches[k].qty \in Int
        BY <2>1, ShelfParts DEF Shelf
      <4>2. DOMAIN capped = DOMAIN batches /\ \A k \in DOMAIN capped : capped[k] \in Int
        BY <4>1 DEF Most
      <4> HIDE DEF capped
      <4>3. SumFunction(capped) \in Int
        BY <4>1, <4>2, TotalInt
      <4>4. target \in Int
        BY BatchStockAssumption DEF Most
      <4>5. QED
        BY <4>3, <4>4 DEF capped
    <3> HIDE DEF sum, target
    <3>4. CASE ~req[r].tracking
      BY <1>1, <2>2, <3>1, <3>4
    <3>5. CASE req[r].tracking /\ target > sum
      <4>1. batches' = AddToOpening(batches, target - sum) /\ target - sum \in Int
        BY <3>1, <3>2, <3>3, <3>5
      <4>2. QED
        BY <1>1, <2>1, <4>1, OpeningLowersNone
    <3>6. CASE req[r].tracking /\ ~(target > sum)
      <4>1. PICK n \in Nat : batches' = Out(batches, PlanTake(batches, n, picked).take)
        BY <3>1, <3>2, <3>3, <3>6
      <4>2. QED
        BY <2>7, <4>1
    <3>7. QED
      BY <3>4, <3>5, <3>6
  <2>6. QED
    BY <1>1, <2>3, <2>4, <2>5 DEF Takes
<1>2. StockInv /\ [Next]_vars =>
        [\A i, j \in DOMAIN batches :
            /\ batches'[j].qty < batches[j].qty
            /\ batches[i].expiry < batches[j].expiry
            /\ batches'[i].qty > 0
            => \A r \in Requests, picked \in 0..Len(batches) :
                  Takes(r, picked) => picked \in {i, j}]_vars
  BY <1>1
<1>3. QED
  BY <1>2, StockInvHolds, PTL DEF Spec, EarliestExpiryFirst


----------------------------------------------------------------------------
(***************************************************************************)
(* The plans.                                                              *)
(***************************************************************************)
QtysOf(rows) == [i \in DOMAIN rows |-> rows[i].qty]
FirstOf(rows, preferred, i) == {j \in DOMAIN rows \ {i} : GivesFirst(rows, preferred, j, i)}

\* Of two batches one gives first, and what gives first gives before the rest.
LEMMA GivesInOrder ==
    ASSUME NEW rows, NEW preferred, DOMAIN rows \subseteq Int, \A k \in DOMAIN rows : rows[k].expiry \in Int,
           NEW i \in DOMAIN rows, NEW j \in DOMAIN rows \ {i}
    PROVE  /\ GivesFirst(rows, preferred, j, i) \/ GivesFirst(rows, preferred, i, j)
           /\ \A a \in FirstOf(rows, preferred, i) :
                 j \notin FirstOf(rows, preferred, i) => a # j /\ GivesFirst(rows, preferred, a, j)
<1>1. \A k \in DOMAIN rows : k \in Int /\ rows[k].expiry \in Int
  OBVIOUS
<1>2. GivesFirst(rows, preferred, j, i) \/ GivesFirst(rows, preferred, i, j)
  BY <1>1 DEF GivesFirst, Before
<1>3. ASSUME NEW a \in FirstOf(rows, preferred, i), j \notin FirstOf(rows, preferred, i)
      PROVE  a # j /\ GivesFirst(rows, preferred, a, j)
  <2>1. a \in DOMAIN rows /\ a # i /\ GivesFirst(rows, preferred, a, i) /\ ~GivesFirst(rows, preferred, j, i)
    BY <1>3 DEF FirstOf
  <2>2. GivesFirst(rows, preferred, i, j)
    BY <1>2, <2>1
  <2>3. QED
    BY <1>1, <2>1, <2>2 DEF GivesFirst, Before
<1>4. QED
  BY <1>2, <1>3

\* planTake takes of a batch what those that give first could not give.
LEMMA TakesWhatIsLeft ==
    ASSUME NEW rows, Shelf(rows), Never \in Nat, NEW qty \in Nat, NEW preferred, NEW i \in DOMAIN rows
    PROVE  PlanTake(rows, qty, preferred).take[i]
             = Least(rows[i].qty, Most(0, qty - Sum(QtysOf(rows), FirstOf(rows, preferred, i))))
<1> DEFINE D == DOMAIN rows
           take == PlanTake(rows, qty, preferred).take
           have == QtysOf(rows)
           A == FirstOf(rows, preferred, i)
           B == D \ (A \cup {i})
<1>1. /\ IsFiniteSet(D) /\ D \subseteq Int
      /\ \A k \in D : rows[k].qty \in Nat /\ rows[k].expiry \in Int
  BY ShelfParts DEF Shelf
<1>2. /\ take \in [D -> Nat] /\ \A k \in D : take[k] <= rows[k].qty
      /\ SumFunction(take) = Least(qty, Total(rows))
      /\ \A k, j \in D : take[j] > 0 /\ k # j /\ GivesFirst(rows, preferred, k, j) => take[k] = rows[k].qty
  BY PlanTakeTakes
<1>3. D = (A \cup {i}) \cup B /\ i \notin A /\ (A \cup {i}) \cap B = {} /\ A \subseteq D /\ B \subseteq D
  BY DEF FirstOf
<1>4. IsFiniteSet(A) /\ IsFiniteSet(A \cup {i}) /\ IsFiniteSet(B)
  BY <1>1, <1>3, FS_Subset
<1>5. \A j \in B : /\ GivesFirst(rows, preferred, i, j) /\ j # i
                   /\ \A a \in A : a # j /\ GivesFirst(rows, preferred, a, j)
  <2> SUFFICES ASSUME NEW j \in B
               PROVE  /\ GivesFirst(rows, preferred, i, j) /\ j # i
                      /\ \A a \in A : a # j /\ GivesFirst(rows, preferred, a, j)
    OBVIOUS
  <2>1. j \in D \ {i} /\ j \notin A
    OBVIOUS
  <2>2. ~GivesFirst(rows, preferred, j, i)
    BY <2>1 DEF FirstOf
  <2>3. \A k \in D : rows[k].expiry \in Int
    BY <1>1
  <2>4. QED
    BY <1>1, <2>1, <2>2, <2>3, GivesInOrder
<1>6. \A a \in A : a \in D /\ a # i /\ GivesFirst(rows, preferred, a, i)
  BY DEF FirstOf
<1>7. /\ \A k \in D : have[k] = rows[k].qty /\ have[k] \in Int
      /\ Total(rows) = Sum(have, D)
  <2>1. Total(rows) = SumFunction(have) /\ DOMAIN have = D
    BY DEF Total, QtysOf
  <2>2. SumFunction(have) = Sum(have, D)
    BY <2>1 DEF SumFunction, Sum
  <2>3. \A k \in D : have[k] = rows[k].qty
    BY DEF QtysOf
  <2>4. QED
    BY <1>1, <2>1, <2>2, <2>3
<1> HIDE DEF D, take, have, A, B
<1>8. SumFunction(take) = Sum(take, D) /\ \A k \in D : take[k] \in Int
  BY <1>2 DEF SumFunction, Sum
<1>9. /\ Sum(take, D) = (take[i] + Sum(take, A)) + Sum(take, B)
      /\ Sum(have, D) = (have[i] + Sum(have, A)) + Sum(have, B)
  <2>1. /\ \A k \in (A \cup {i}) \cup B : take[k] \in Int
        /\ \A k \in (A \cup {i}) \cup B : have[k] \in Int
        /\ \A k \in A \cup {i} : take[k] \in Int
        /\ \A k \in A \cup {i} : have[k] \in Int
    BY <1>3, <1>7, <1>8
  <2>2. Sum(take, (A \cup {i}) \cup B) = Sum(take, A \cup {i}) + Sum(take, B)
    BY <1>3, <1>4, <2>1, SumUnion
  <2>3. Sum(have, (A \cup {i}) \cup B) = Sum(have, A \cup {i}) + Sum(have, B)
    BY <1>3, <1>4, <2>1, SumUnion
  <2>4. Sum(take, A \cup {i}) = take[i] + Sum(take, A)
    BY <1>3, <1>4, <2>1, SumAdded
  <2>5. Sum(have, A \cup {i}) = have[i] + Sum(have, A)
    BY <1>3, <1>4, <2>1, SumAdded
  <2>6. QED
    BY <1>3, <2>2, <2>3, <2>4, <2>5
<1>10. /\ Sum(take, A) \in Nat /\ Sum(take, B) \in Nat /\ Sum(have, A) \in Nat /\ Sum(have, B) \in Nat
       /\ Sum(take, A) <= Sum(have, A) /\ Sum(take, B) <= Sum(have, B)
  <2>1. \A k \in D : take[k] \in Nat /\ have[k] \in Nat /\ take[k] <= have[k]
    BY <1>1, <1>2, <1>7 DEF D
  <2>2. (\A k \in A : take[k] \in Nat /\ have[k] \in Nat /\ take[k] <= have[k])
        /\ \A k \in B : take[k] \in Nat /\ have[k] \in Nat /\ take[k] <= have[k]
    BY <1>3, <2>1
  <2>3. Sum(take, A) \in Nat /\ Sum(have, A) \in Nat
    BY <1>4, <2>2, SumNat
  <2>4. Sum(take, B) \in Nat /\ Sum(have, B) \in Nat
    BY <1>4, <2>2, SumNat
  <2>5. Sum(take, A) <= Sum(have, A)
    BY <1>4, <2>2, SumAtLeast
  <2>6. Sum(take, B) <= Sum(have, B)
    BY <1>4, <2>2, SumAtLeast
  <2>7. QED
    BY <2>3, <2>4, <2>5, <2>6
<1>11. take[i] \in Nat /\ have[i] \in Nat /\ take[i] <= have[i] /\ have[i] = rows[i].qty
  BY <1>1, <1>2, <1>7 DEF D
<1>12. (take[i] > 0 \/ Sum(take, B) > 0) => Sum(take, A) = Sum(have, A)
  <2> SUFFICES ASSUME take[i] > 0 \/ Sum(take, B) > 0 PROVE Sum(take, A) = Sum(have, A)
    OBVIOUS
  <2>1. CASE take[i] > 0
    <3>1. \A a \in A : take[a] = have[a]
      BY <1>2, <1>6, <1>7, <2>1 DEF D
    <3>2. QED
      BY <1>4, <3>1, SumEqual
  <2>2. CASE Sum(take, B) > 0
    <3>1. \E j \in B : take[j] > 0
      <4> SUFFICES ASSUME \A j \in B : ~(take[j] > 0) PROVE FALSE
        OBVIOUS
      <4>1. \A j \in B : take[j] = 0
        BY <1>2, <1>3
      <4>2. Sum(take, B) = 0
        BY <1>4, <4>1, SumZero
      <4>3. QED
        BY <2>2, <4>2
    <3>2. PICK j \in B : take[j] > 0
      BY <3>1
    <3>3. \A a \in A : take[a] = have[a]
      BY <1>2, <1>3, <1>5, <1>7, <3>2
    <3>4. QED
      BY <1>4, <3>3, SumEqual
  <2>3. QED
    BY <2>1, <2>2
<1>13. Sum(take, B) > 0 => take[i] = have[i]
  <2> SUFFICES ASSUME Sum(take, B) > 0 PROVE take[i] = have[i]
    OBVIOUS
  <2>1. \E j \in B : take[j] > 0
    <3> SUFFICES ASSUME \A j \in B : ~(take[j] > 0) PROVE FALSE
      OBVIOUS
    <3>1. \A j \in B : take[j] = 0
      BY <1>2, <1>3
    <3>2. Sum(take, B) = 0
      BY <1>4, <3>1, SumZero
    <3>3. QED
      BY <3>2
  <2>2. PICK j \in B : take[j] > 0
    BY <2>1
  <2>3. j \in D /\ i \in D /\ i # j /\ GivesFirst(rows, preferred, i, j)
    BY <1>3, <1>5, <2>2
  <2>4. QED
    BY <1>2, <1>7, <2>2, <2>3
<1>14. Sum(take, D) = Least(qty, Sum(have, D))
  BY <1>2, <1>7, <1>8
<1>15. take[i] = Least(have[i], Most(0, qty - Sum(have, A)))
  <2>1. CASE Sum(take, D) = qty
    BY <1>9, <1>10, <1>11, <1>12, <1>13, <2>1 DEF Least, Most
  <2>2. CASE Sum(take, D) # qty
    <3>1. Sum(take, D) = Sum(have, D) /\ Sum(have, D) < qty
      <4>1. Sum(have, D) \in Int
        BY <1>9, <1>10, <1>11
      <4>2. QED
        BY <1>14, <2>2, <4>1 DEF Least
    <3>2. take[i] = have[i]
      <4>1. (take[i] + Sum(take, A)) + Sum(take, B) = (have[i] + Sum(have, A)) + Sum(have, B)
        BY <1>9, <3>1, Zenon
      <4>2. QED
        BY <1>10, <1>11, <4>1
    <3>3. QED
      BY <1>9, <1>10, <1>11, <3>1, <3>2 DEF Least, Most
  <2>3. QED
    BY <2>1, <2>2
<1>16. QED
  BY <1>11, <1>15 DEF take, have, A

\* What the line's returns put back of it: all that was taken, of each batch.
LEMMA ReturnsPutBack ==
    ASSUME NEW rows, Shelf(rows), Never \in Nat, NEW qty \in Nat, NEW preferred, NEW first \in 0..qty
    PROVE  LET take == PlanTake(rows, qty, preferred).take
               left == Out(rows, take)
               none == [i \in DOMAIN rows |-> 0]
               one == PlanRestore(left, take, none, first)
               two == PlanRestore(left, take, one, qty - first)
           IN  Move(Move(left, one), two) = rows
<1> DEFINE D == DOMAIN rows
           take == PlanTake(rows, qty, preferred).take
           left == Out(rows, take)
           none == [i \in D |-> 0]
           one == PlanRestore(left, take, none, first)
           two == PlanRestore(left, take, one, qty - first)
           owed1 == [i \in DOMAIN left |-> take[i] - none[i]]
           owed2 == [i \in DOMAIN left |-> take[i] - one[i]]
           both == [i \in D |-> one[i] + two[i]]
<1>1. /\ IsFiniteSet(D) /\ \A i \in D : rows[i] \in Batch /\ rows[i].qty \in Nat
      /\ rows \in Seq(Batch) /\ D = 1..Len(rows)
  BY ShelfParts DEF Shelf
<1>2. /\ take \in [D -> Nat] /\ \A i \in D : take[i] <= rows[i].qty
      /\ SumFunction(take) = Least(qty, Total(rows))
  BY PlanTakeTakes
<1>3. /\ Shelf(left) /\ DOMAIN left = D
      /\ \A i \in D : /\ left[i].qty = rows[i].qty - take[i]
                      /\ left[i].expiry = rows[i].expiry /\ left[i].opening = rows[i].opening
      /\ SumFunction(take) \in Int /\ Total(rows) \in Int
  <2> HIDE DEF take
  <2>1. QED
    BY <1>2, OutTakesOut
<1>4. first \in Nat /\ qty - first \in Nat
  OBVIOUS
<1>5. \A i \in D : none[i] = 0 /\ take[i] \in Nat
  BY <1>2
<1>6. left \in Seq(Batch)
  BY <1>3 DEF Shelf
<1>7. DOMAIN owed1 = D /\ DOMAIN owed2 = D /\ (\A i \in D : owed1[i] = take[i] - none[i]) /\ \A i \in D : owed2[i] = take[i] - one[i]
  BY <1>3
<1> HIDE DEF take, left, none, D
<1>8. /\ one \in [D -> Nat] /\ \A i \in D : none[i] + one[i] <= take[i]
      /\ SumFunction(owed1) \in Int /\ SumFunction(one) = Least(first, SumFunction(owed1))
  <2>1. \A i \in DOMAIN left : take[i] \in Nat /\ none[i] \in Nat /\ none[i] <= take[i]
    BY <1>3, <1>5
  <2>2. QED
    BY <1>3, <1>4, <1>6, <2>1, PlanRestoreRestores
<1>9. /\ two \in [D -> Nat] /\ \A i \in D : one[i] + two[i] <= take[i]
      /\ SumFunction(owed2) \in Int /\ SumFunction(two) = Least(qty - first, SumFunction(owed2))
  <2>1. \A i \in DOMAIN left : take[i] \in Nat /\ one[i] \in Nat /\ one[i] <= take[i]
    BY <1>3, <1>5, <1>8
  <2>2. Never \in Nat /\ qty - first \in Nat
    BY <1>4
  <2> HIDE DEF one
  <2>3. /\ two \in [DOMAIN left -> Nat] /\ \A i \in DOMAIN left : one[i] + two[i] <= take[i]
        /\ SumFunction(owed2) \in Int /\ SumFunction(two) = Least(qty - first, SumFunction(owed2))
    BY <1>6, <2>1, <2>2, PlanRestoreRestores
  <2>4. QED
    BY <1>3, <2>3
<1>10. DOMAIN both = D /\ \A i \in D : both[i] = one[i] + two[i]
  OBVIOUS
<1> HIDE DEF one, two, owed1, owed2, both
<1>11. DOMAIN take = D /\ DOMAIN one = D /\ DOMAIN two = D
  BY <1>2, <1>8, <1>9
<1>12. \A i \in D : /\ take[i] \in Int /\ one[i] \in Int /\ two[i] \in Int /\ owed1[i] = take[i] /\ owed2[i] \in Int
                    /\ take[i] = owed2[i] + one[i] /\ both[i] \in Int /\ both[i] <= take[i]
  <2> SUFFICES ASSUME NEW i \in D
               PROVE  /\ take[i] \in Int /\ one[i] \in Int /\ two[i] \in Int /\ owed1[i] = take[i] /\ owed2[i] \in Int
                      /\ take[i] = owed2[i] + one[i] /\ both[i] \in Int /\ both[i] <= take[i]
    OBVIOUS
  <2>1. take[i] \in Nat /\ none[i] = 0 /\ one[i] \in Nat /\ two[i] \in Nat /\ one[i] + two[i] <= take[i]
    BY <1>5, <1>8, <1>9
  <2>2. owed1[i] = take[i] - none[i] /\ owed2[i] = take[i] - one[i] /\ both[i] = one[i] + two[i]
    BY <1>7, <1>10
  <2>3. QED
    BY <2>1, <2>2
<1>13. SumFunction(owed1) = SumFunction(take)
  <2>1. SumFunction(owed1) = Sum(owed1, D) /\ SumFunction(take) = Sum(take, D)
    BY <1>7, <1>11 DEF SumFunction, Sum
  <2>2. Sum(owed1, D) = Sum(take, D)
    BY <1>1, <1>12, SumEqual
  <2>3. QED
    BY <2>1, <2>2
<1>14. SumFunction(take) = SumFunction(owed2) + SumFunction(one)
  <2>1. IsFiniteSet(DOMAIN owed2) /\ DOMAIN one = DOMAIN owed2 /\ DOMAIN take = DOMAIN owed2
    BY <1>1, <1>7, <1>11
  <2>2. \A i \in DOMAIN owed2 : owed2[i] \in Int /\ one[i] \in Int /\ take[i] = owed2[i] + one[i]
    BY <1>7, <1>12
  <2>3. QED
    BY <2>1, <2>2, TotalPlus
<1>15. SumFunction(both) = SumFunction(one) + SumFunction(two)
  <2>1. IsFiniteSet(DOMAIN one) /\ DOMAIN two = DOMAIN one /\ DOMAIN both = DOMAIN one
    BY <1>1, <1>10, <1>11
  <2>2. \A i \in DOMAIN one : one[i] \in Int /\ two[i] \in Int /\ both[i] = one[i] + two[i]
    BY <1>10, <1>11, <1>12
  <2>3. QED
    BY <2>1, <2>2, TotalPlus
<1>16. SumFunction(one) \in Int /\ SumFunction(two) \in Int
  BY <1>1, <1>11, <1>12, TotalInt
<1>17. SumFunction(take) <= qty
  BY <1>2, <1>3 DEF Least
<1>18. SumFunction(both) = SumFunction(take)
  <2>1. /\ SumFunction(one) = Least(first, SumFunction(take))
        /\ SumFunction(two) = Least(qty - first, SumFunction(owed2))
        /\ SumFunction(owed2) \in Int /\ SumFunction(take) \in Int
    BY <1>3, <1>8, <1>9, <1>13
  <2>2. first \in Int /\ qty \in Int /\ first <= qty
    BY <1>4
  <2>3. CASE first <= SumFunction(take)
    BY <1>14, <1>15, <1>16, <1>17, <2>1, <2>2, <2>3 DEF Least
  <2>4. CASE ~(first <= SumFunction(take))
    BY <1>14, <1>15, <1>16, <1>17, <2>1, <2>2, <2>4 DEF Least
  <2>5. QED
    BY <2>3, <2>4
<1>19. \A i \in D : both[i] = take[i]
  <2> SUFFICES ASSUME NEW e \in D, both[e] # take[e] PROVE FALSE
    OBVIOUS
  <2> DEFINE mix1 == [i \in D |-> IF i = e THEN both[i] ELSE take[i]]
  <2>1. \A i \in D : mix1[i] \in Int /\ both[i] \in Int /\ both[i] <= mix1[i]
    BY <1>12
  <2>2. (\A i \in D : take[i] \in Int /\ mix1[i] \in Int) /\ \A i \in D : i # e => take[i] = mix1[i]
    BY <1>12
  <2>3. mix1[e] = both[e]
    OBVIOUS
  <2> HIDE DEF mix1
  <2>4. Sum(mix1, D) = Sum(take, D) + (mix1[e] - take[e])
    BY <1>1, <2>2, SumChanged
  <2>5. Sum(both, D) <= Sum(mix1, D)
    BY <1>1, <2>1, SumAtLeast
  <2>6. Sum(both, D) = Sum(take, D)
    BY <1>10, <1>11, <1>18 DEF SumFunction, Sum
  <2>7. Sum(take, D) \in Int /\ both[e] \in Int /\ take[e] \in Int /\ both[e] <= take[e]
    BY <1>1, <1>12, SumInt
  <2>8. QED
    BY <2>3, <2>4, <2>5, <2>6, <2>7
<1>20. /\ Move(left, one) \in Seq(Batch) /\ DOMAIN Move(left, one) = D
       /\ \A i \in D : Move(left, one)[i].qty = left[i].qty + one[i] /\ Move(left, one)[i].expiry = left[i].expiry
                       /\ Move(left, one)[i].opening = left[i].opening
  <2>1. one \in [DOMAIN left -> Int]
    BY <1>3, <1>8
  <2>2. QED
    BY <1>3, <1>6, <2>1, MoveMoves
<1> DEFINE back == Move(Move(left, one), two)
<1>21. /\ back \in Seq(Batch) /\ DOMAIN back = D
       /\ \A i \in D : back[i].qty = left[i].qty + one[i] + two[i] /\ back[i].expiry = left[i].expiry
                       /\ back[i].opening = left[i].opening
  <2>1. two \in [DOMAIN Move(left, one) -> Int]
    BY <1>9, <1>20
  <2>2. QED
    BY <1>20, <2>1, MoveMoves
<1> HIDE DEF back
<1>22. \A i \in D : back[i] = rows[i]
  <2> SUFFICES ASSUME NEW i \in D PROVE back[i] = rows[i]
    OBVIOUS
  <2>1. back[i].qty = rows[i].qty
    <3>1. back[i].qty = left[i].qty + one[i] + two[i] /\ left[i].qty = rows[i].qty - take[i]
      BY <1>3, <1>21
    <3>2. one[i] + two[i] = take[i] /\ rows[i].qty \in Nat /\ one[i] \in Int /\ two[i] \in Int /\ take[i] \in Int
      BY <1>1, <1>10, <1>12, <1>19
    <3>3. QED
      BY <3>1, <3>2
  <2>2. back[i].expiry = rows[i].expiry /\ back[i].opening = rows[i].opening
    BY <1>3, <1>21
  <2>3. back[i] \in Batch /\ rows[i] \in Batch
    BY <1>1, <1>21
  <2>4. QED
    BY <2>1, <2>2, <2>3 DEF Batch
<1>23. back = rows
  BY <1>1, <1>21, <1>22 DEF D
<1>24. QED
  BY <1>23 DEF back, one, two, none, left, take, D

\* The inputs of a plan stay a shelf and a quantity.
PlanInputsOK == Shelf(rack) /\ wanted \in Nat

LEMMA ShelvesFit == Never \in Nat \ {0} => \A s \in Shelves : Shelf(s)
<1> SUFFICES ASSUME Never \in Nat \ {0}, NEW s \in Shelves PROVE Shelf(s)
  OBVIOUS
<1>1. PICK n \in 0..ShelfBatches : s \in [1..n -> [qty : 0..ShelfUnits, expiry : 1..Never, opening : BOOLEAN]]
  BY DEF Shelves
<1>2. n \in Nat
  OBVIOUS
<1>3. \A b \in [qty : 0..ShelfUnits, expiry : 1..Never, opening : BOOLEAN] : b \in Batch /\ b.qty >= 0
  BY DEF Batch
<1>4. DOMAIN s = 1..n /\ \A i \in DOMAIN s : s[i] \in Batch /\ s[i].qty >= 0
  BY <1>1, <1>3
<1>5. s \in [1..n -> Batch]
  BY <1>1, <1>4
<1>6. s \in Seq(Batch)
  BY <1>2, <1>5
<1>7. QED
  BY <1>4, <1>6 DEF Shelf

LEMMA EmptyShelf == Shelf(<<>>)
  BY DEF Shelf

LEMMA PlanInputsFit == CalculationsSpec => []PlanInputsOK
<1> USE CalculationsAssumption
<1>1. CalculationsInit => PlanInputsOK
  BY ShelvesFit, EmptyShelf DEF CalculationsInit, Plan, NoPlan, PlanInputsOK
<1>2. PlanInputsOK /\ [CalculationsNext]_<<planInputs, billInputs>> => PlanInputsOK'
  <2> SUFFICES ASSUME PlanInputsOK, [CalculationsNext]_<<planInputs, billInputs>> PROVE PlanInputsOK'
    OBVIOUS
  <2>1. CASE Ask
    <3>1. rack' = rack
      BY <2>1 DEF Ask
    <3>2. ShelfUnits * ShelfBatches + 1 \in Int
      OBVIOUS
    <3>3. wanted' \in 0..(ShelfUnits * ShelfBatches + 1)
      BY <2>1 DEF Ask
    <3> DEFINE bound == ShelfUnits * ShelfBatches + 1
    <3> HIDE DEF bound
    <3>4. wanted' \in Nat
      <4>1. wanted' \in 0..bound
        BY <3>3 DEF bound
      <4>2. QED
        BY <4>1
    <3>5. QED
      BY <3>1, <3>4 DEF PlanInputsOK, Shelf
  <2>2. CASE Reckon
    BY <2>2 DEF Reckon, planInputs, PlanInputsOK, Shelf
  <2>3. CASE UNCHANGED <<planInputs, billInputs>>
    BY <2>3 DEF planInputs, PlanInputsOK, Shelf
  <2>4. QED
    BY <2>1, <2>2, <2>3 DEF CalculationsNext
<1>3. QED
  BY <1>1, <1>2, PTL DEF CalculationsSpec

\* What TakesInOrder says is taken is what planTake takes.
LEMMA TakesAhead ==
    ASSUME PlanInputsOK
    PROVE  TakesInOrder
<1> USE CalculationsAssumption
<1> DEFINE plan == PlanTake(rack, wanted, choice)
<1>1. /\ Shelf(rack) /\ wanted \in Nat /\ Never \in Nat /\ rack \in Seq(Batch)
      /\ \A i \in DOMAIN rack : rack[i].qty \in Nat
  BY ShelfParts DEF PlanInputsOK, Shelf
<1>2. ASSUME NEW i \in DOMAIN rack
      PROVE  plan.take[i] = Least(rack[i].qty, Most(0, wanted - QtyOf(Ahead(i))))
  <2>1. plan.take[i] = Least(rack[i].qty, Most(0, wanted - Sum(QtysOf(rack), FirstOf(rack, choice, i))))
    BY <1>1, TakesWhatIsLeft
  <2>2. Ahead(i) = FirstOf(rack, choice, i)
    <3>1. \A j \in DOMAIN rack \ {i} :
             (\/ j = choice
              \/ /\ i # choice
                 /\ \/ rack[j].expiry < rack[i].expiry
                    \/ rack[j].expiry = rack[i].expiry /\ j < i)
             <=> GivesFirst(rack, choice, j, i)
      BY DEF GivesFirst, Before
    <3>2. QED
      BY <3>1 DEF Ahead, FirstOf
  <2> DEFINE some == Ahead(i)
  <2>3. some \subseteq DOMAIN rack
    BY DEF Ahead
  <2>4. QtyOf(some) = Sum(QtysOf(rack), some)
    <3> HIDE DEF some
    <3>1. IsFiniteSet(some)
      BY <1>1, <2>3, ShelfParts, FS_Subset
    <3> DEFINE f == [j \in some |-> rack[j].qty]
    <3>2. SumFunction(f) = Sum(f, some)
      BY DEF SumFunction, Sum
    <3>3. \A j \in some : f[j] = QtysOf(rack)[j]
      BY <2>3 DEF QtysOf
    <3> HIDE DEF f
    <3>4. Sum(f, some) = Sum(QtysOf(rack), some)
      BY <3>1, <3>3, SumEqual
    <3>5. QtyOf(some) = SumFunction(f)
      BY DEF QtyOf, f
    <3>6. QED
      BY <3>2, <3>4, <3>5
  <2>5. QED
    BY <2>1, <2>2, <2>4
<1>3. plan.shortfall = Most(0, wanted - Total(rack))
  <2>1. Shelf(rack) /\ wanted \in Nat /\ Never \in Nat
    BY <1>1
  <2>3. SumFunction(plan.take) = Least(wanted, Total(rack))
    BY <2>1, PlanTakeTakes
  <2>4. plan.shortfall = wanted - SumFunction(plan.take)
    BY <2>1, PlanTakeTakes
  <2>2. Total(rack) \in Int
    <3> DEFINE f == [i \in DOMAIN rack |-> rack[i].qty]
    <3>1. IsFiniteSet(DOMAIN rack)
      BY <1>1, ShelfParts
    <3>2. DOMAIN f = DOMAIN rack /\ \A i \in DOMAIN f : f[i] \in Int
      BY <1>1
    <3>3. SumFunction(f) \in Int
      BY <3>1, <3>2, TotalInt
    <3>4. QED
      BY <3>3 DEF Total
  <2>5. QED
    BY <2>1, <2>2, <2>3, <2>4 DEF Least, Most
<1>4. QED
  BY <1>2, <1>3 DEF TakesInOrder

\* PlansAreKept, for any shelf and any quantity: a sale takes from the chosen
\* batch first, then from the earliest expiry on, and what it took goes back
\* where it came from, however the returns split it.
THEOREM PlansHold == CalculationsSpec => []PlansAreKept
<1>1. PlanInputsOK => PlansAreKept
  <2> SUFFICES ASSUME PlanInputsOK PROVE PlansAreKept
    OBVIOUS
  <2>1. TakesInOrder
    BY TakesAhead
  <2>2. RestoreUndoesTake
    <3>1. Shelf(rack) /\ wanted \in Nat /\ Never \in Nat
      BY CalculationsAssumption DEF PlanInputsOK
    <3>2. QED
      BY <3>1, ReturnsPutBack DEF RestoreUndoesTake
  <2>3. QED
    BY <2>1, <2>2 DEF PlansAreKept
<1>2. QED
  BY <1>1, PlanInputsFit, PTL
=============================================================================
