---------------------------- MODULE MCTransfers ----------------------------
\* Small instances of Transfers for TLC.
EXTENDS Transfers, TLC

CONSTANTS b1, b2, t1, t2, r1, r2

Dated(qty, expiry) == [qty |-> qty, expiry |-> expiry, opening |-> FALSE]
Undated(qty) == [qty |-> qty, expiry |-> Never, opening |-> TRUE]

\* b1 holds an undated batch and two dated ones, b2 nothing.
Shelves ==
    [b \in Branches |-> IF b = b1 THEN <<Undated(2), Dated(1, 2), Dated(1, 1)>> ELSE <<>>]

\* Two units of t1 go out, of picked batches (the
\* first holds less than is picked) or of any; two of t2 go out too,
\* or one comes back.
Trips ==
    {[t \in Transfers |-> IF t = t1 THEN first ELSE second] :
        first \in [from : {b1}, to : {b2}, qty : {2},
                  picks : {<<>>, <<[batch |-> 2, qty |-> 2], [batch |-> 1, qty |-> 1]>>}],
        second \in {[from |-> b1, to |-> b2, qty |-> 2, picks |-> <<>>],
                    [from |-> b2, to |-> b1, qty |-> 1, picks |-> <<>>]}}

RequestSymmetry == Permutations(Requests)
=============================================================================
