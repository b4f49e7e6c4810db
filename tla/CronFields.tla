------------------------------ MODULE CronFields ------------------------------
(***************************************************************************)
(* The day-of-week field of a POSIX cron expression, as it is renumbered   *)
(* for the cron crate.  POSIX counts from 0 for Sunday to 6, and allows 7  *)
(* for Sunday too; the crate counts from 1 for Sunday to 7.  A field is a  *)
(* list of items: *, a day, a range, each perhaps with a step.  Names of   *)
(* days, which both sides read alike and are not renumbered, are left out, *)
(* and so is the text itself.                                              *)
(***************************************************************************)
EXTENDS Naturals, FiniteSets

CONSTANT MaxItems    \* bound: items of a field

ASSUME MaxItemsAssumption == MaxItems \in Nat

VARIABLE field       \* the items an administrator has written

PosixDays == 0 .. 7
Steps == 1 .. 7

Star(s) == [kind |-> "star", from |-> 0, to |-> 0, step |-> s]
Day(d) == [kind |-> "day", from |-> d, to |-> d, step |-> 1]
Span(a, b, s) == [kind |-> "range", from |-> a, to |-> b, step |-> s]
Items ==
    {Star(s) : s \in Steps} \union {Day(d) : d \in PosixDays}
    \union {Span(r[1], r[2], r[3]) : r \in {x \in PosixDays \X PosixDays \X Steps : x[1] <= x[2]}}

Every(a, b, s) == {d \in a .. b : (d - a) % s = 0}

-----------------------------------------------------------------------------
(* What POSIX means by an item: days counted from 0, Sunday, to 6.         *)

Meant(i) ==
    IF i.kind = "star" THEN Every(0, 6, i.step)
                       ELSE {d % 7 : d \in Every(i.from, i.to, i.step)}

-----------------------------------------------------------------------------
(* What the code makes of it.                                              *)

\* Mutant: 7 stays what it is.
RenumberDay(d) == IF d < 7 THEN d + 1 ELSE d

\* normalize_day_of_week_item for a day, and, through it, for both ends of a
\* range and for what stands before a step.
Renumber(d) == IF d = 7 THEN 1 ELSE d + 1

NormalizeItem(i) ==
    IF i.kind = "star" THEN i ELSE [i EXCEPT !.from = Renumber(@), !.to = Renumber(@)]

\* The days the crate runs on, counted from 1; it refuses a range that ends
\* before it begins, and with it the whole expression.
CrateDays(i) == IF i.kind = "star" THEN Every(1, 7, i.step) ELSE Every(i.from, i.to, i.step)
Refused(i) == i.from > i.to

Accepted(f) == \A i \in f : ~Refused(NormalizeItem(i))
RunsOn(f) == UNION {{d - 1 : d \in CrateDays(NormalizeItem(i))} : i \in f}

-----------------------------------------------------------------------------
CronInit == field = {}

\* normalize_day_of_week_field treats the items one by one.
Write(i) == Cardinality(field) < MaxItems /\ field' = field \union {i}

CronNext == \E i \in Items : Write(i)

CronSpec == CronInit /\ [][CronNext]_field

-----------------------------------------------------------------------------
(* Properties.                                                             *)

ToSunday(i) == i.kind = "range" /\ i.to = 7

\* A field without a range that ends with 7 is accepted and runs on the days it
\* means, also where it counts Sunday as 7 and Saturday as the end of a step.
RunsAsMeant ==
    (\A i \in field : ~ToSunday(i))
    => Accepted(field) /\ RunsOn(field) = UNION {Meant(i) : i \in field}
=============================================================================
