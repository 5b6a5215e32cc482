---------------------------- MODULE PlanTimeline ----------------------------
(***************************************************************************)
(* services/planTimeline.ts: which plan is active at a moment, and what    *)
(* redeeming a licence key does to an account's timeline.                  *)
(*                                                                         *)
(* A timeline is a sequence of segments, in the order they were created.   *)
(* A plan without a price has price 0.                                     *)
(***************************************************************************)
EXTENDS Integers, FiniteSetsExt, SequencesExt

CONSTANT
    DAY_MS  \* the length of a day on the clock

Later(s, t) == IF s > t THEN s ELSE t

Sources == {"TRIAL", "KEY", "GRANT"}

Running(segments, t) ==
    {i \in DOMAIN segments : segments[i].startsAt <= t /\ segments[i].endsAt > t}

\* The last started of the segments that run now.
Current(segments, t) ==
    CHOOSE i \in Running(segments, t) :
        \A j \in Running(segments, t) :
            \/ segments[j].startsAt < segments[i].startsAt
            \/ segments[j].startsAt = segments[i].startsAt /\ j <= i

Expired(segments, t) == Running(segments, t) = {}

Queued(segments, t) == {i \in DOMAIN segments : segments[i].startsAt > t}

LastEnd(segments, t) == Max({t} \cup {segments[i].endsAt : i \in DOMAIN segments})

\* Whole days from t to end, rounded up.
DaysTo(end, t) == (end - t + DAY_MS - 1) \div DAY_MS

Segment(key, source, from, days) ==
    [plan |-> key.plan, price |-> key.price, source |-> source,
     startsAt |-> from, endsAt |-> from + days * DAY_MS]

\* Wrong: what is queued is forgotten.
AddedAtCurrentEnd(segments, t, key) ==
    LET start == IF Expired(segments, t) THEN t ELSE segments[Current(segments, t)].endsAt
    IN  Append(segments, Segment(key, "KEY", start, key.days))

\* EXTEND and START_LATER: after anything already there.
Added(segments, t, key) ==
    LET start == IF Expired(segments, t) /\ Queued(segments, t) = {}
                 THEN t ELSE LastEnd(segments, t)
    IN  Append(segments, Segment(key, "KEY", start, key.days))

\* The days left of a paid plan, by monthly price.
ConvertedDays(current, t, key) ==
    IF current.source = "KEY" /\ key.price > 0
    THEN (((current.endsAt - t) \div DAY_MS) * current.price) \div key.price
    ELSE 0

\* SWITCH_NOW: the current segment is cut, the new one starts, the queued ones
\* move behind it.
Switched(segments, t, key) ==
    LET c      == Current(segments, t)
        fresh  == Segment(key, "KEY", t, key.days + ConvertedDays(segments[c], t, key))
        Moved(q) ==
            LET start == fresh.endsAt + Later(0, q.startsAt - segments[c].endsAt)
            IN  [q EXCEPT !.startsAt = start, !.endsAt = start + (q.endsAt - q.startsAt)]
    IN  Append([i \in DOMAIN segments |->
                    IF i = c THEN [segments[i] EXCEPT !.endsAt = t]
                    ELSE IF i \in Queued(segments, t) THEN Moved(segments[i])
                    ELSE segments[i]],
               fresh)

DifferentPlan(segments, t, key) ==
    ~Expired(segments, t) /\ segments[Current(segments, t)].plan # key.plan

\* planRedemption, with the choice "now" or "later".
Redeemed(segments, t, key, choice) ==
    IF DifferentPlan(segments, t, key) /\ choice = "now"
    THEN Switched(segments, t, key)
    ELSE Added(segments, t, key)
=============================================================================
