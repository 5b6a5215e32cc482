---------------------------- MODULE Statements ----------------------------
(***************************************************************************)
(* What is computed from the rows of a party's account and of the cash     *)
(* drawer (lib/books.ts, services/books.ts).  A row of a statement is      *)
(* [id, at, debit, credit, due]: debit adds to what is owed, credit takes  *)
(* from it.  Moments are numbers; an id is a pair, the kind of the row and *)
(* a number.                                                               *)
(***************************************************************************)
EXTENDS Integers, FiniteSets, Functions

Amount(f(_), set) == SumFunction([x \in set |-> f(x)])

IdBefore(i, j) == i[1] < j[1] \/ (i[1] = j[1] /\ i[2] < j[2])

\* Of equal moments the smaller id first.
DueBefore(a, b) == a.at < b.at \/ (a.at = b.at /\ IdBefore(a.id, b.id))

\* Wrong: every due is offered all of the credits.
SettleEach(dues, credits) ==
    {[id |-> d.id, at |-> d.at, due |-> d.due, amount |-> d.debit,
      paid |-> IF d.debit < credits THEN d.debit ELSE credits] : d \in dues}

\* settleOldestFirst: a due is paid from what the dues before it left.
SettleOldestFirst(dues, credits) ==
    LET earlier(d) == Amount(LAMBDA e : e.debit, {e \in dues : DueBefore(e, d)})
        left(d) == IF credits > earlier(d) THEN credits - earlier(d) ELSE 0
    IN  {[id |-> d.id, at |-> d.at, due |-> d.due, amount |-> d.debit,
          paid |-> IF d.debit < left(d) THEN d.debit ELSE left(d)] : d \in dues}

\* buildStatement: the balance, dues with what is paid of them, open, advance.
Statement(rows) ==
    LET credits == Amount(LAMBDA r : r.credit, rows)
        dues == SettleOldestFirst({r \in rows : r.debit > 0}, credits)
        paid == Amount(LAMBDA d : d.paid, dues)
    IN  [balance |-> Amount(LAMBDA r : r.debit - r.credit, rows),
         open |-> Amount(LAMBDA d : d.amount - d.paid, dues),
         advance |-> credits - paid,
         dues |-> dues]

OpenItems(statement) == {d \in statement.dues : d.paid < d.amount}

\* The limits of the buckets of agingBucket, 0: not due.
Overdue(dueDay, today) == IF today > dueDay THEN today - dueDay ELSE 0

Bucket(d) == IF d <= 0 THEN 0 ELSE IF d <= 30 THEN 1 ELSE IF d <= 60 THEN 2 ELSE IF d <= 90 THEN 3 ELSE 4

\* age: what is open, by how long it is overdue.
Aged(items, today) ==
    [k \in 0..4 |-> Amount(LAMBDA d : d.amount - d.paid,
                           {d \in items : Bucket(Overdue(d.due, today)) = k})]

----------------------------------------------------------------------------
\* Wrong: moves before the owner's opening day are carried forward.
CarriedFromTheStart(opening, moves, from) == {m \in moves : m.at < from}

\* The moves a range starts with: those since the owner's opening day.
Carried(opening, moves, from) == {m \in moves : opening.day <= m.at /\ m.at < from}

\* cashBook: the closing of each day of a range.  opening.day is 0 when the
\* owner set none; before it the book is empty, on it it starts at opening.amount.
CashBook(opening, moves, from, to) ==
    LET start == IF from < opening.day THEN 0
                 ELSE opening.amount + Amount(LAMBDA m : m.amount, Carried(opening, moves, from))
        list(d) == IF d < opening.day THEN {} ELSE {m \in moves : m.at = d}
        closing[d \in (from - 1)..to] ==
            IF d = from - 1 THEN start
            ELSE LET balance == IF d = opening.day /\ from < opening.day THEN opening.amount ELSE closing[d - 1]
                 IN  balance + Amount(LAMBDA m : m.amount, list(d))
    IN  [d \in from..to |-> closing[d]]
=============================================================================
