------------------------------- MODULE NextRun -------------------------------
(***************************************************************************)
(* _next_run of the asset group schedules (api/routes/scheduler.py): when  *)
(* a group with a given plan runs next, seen from an instant now.          *)
(*                                                                         *)
(* An instant is a day and a time of day.  Days are counted from a Monday, *)
(* as the weekday arithmetic needs; MonthStart[m] is the first day of the  *)
(* month m, which hides the years and the lengths of the months.  A plan   *)
(* is parsed already: its time of day, and what its day string means as a  *)
(* weekday (0 when it is none) and as a day of the month (1 when it is not *)
(* a number).  For a time or a day that no calendar has the code raises    *)
(* and the group is not stored.                                            *)
(***************************************************************************)
EXTENDS Integers

CONSTANTS
  MaxTod,      \* the last time of day; times of day are 0 .. MaxTod
  Months,      \* months are 0 .. Months
  MonthStart

ASSUME NextRunAssumption ==
  /\ MaxTod \in Nat
  /\ Months \in Nat \ {0}
  /\ MonthStart \in [0 .. Months -> Nat]
  /\ \A m, n \in 0 .. Months : m < n => MonthStart[m] + 28 <= MonthStart[n]
  /\ \A d \in MonthStart[0] .. MonthStart[Months] - 1 :
       \E m \in 0 .. Months - 1 : MonthStart[m] <= d /\ d < MonthStart[m + 1]

Tods     == 0 .. MaxTod
Instants == [day : Nat, tod : Tods]
Kinds    == {"manual", "daily", "weekly", "monthly", "other"}
Days     == [weekday : 0 .. 6, dom : 1 .. 31]
Plans    == [kind : Kinds, tod : Tods, day : Days]

Later(a, b) == a.day > b.day \/ (a.day = b.day /\ a.tod > b.tod)

At(day, tod) == [day |-> day, tod |-> tod]

Daily(plan, now) ==
  LET nxt == At(now.day, plan.tod)
  IN  IF Later(nxt, now) THEN nxt ELSE At(now.day + 1, plan.tod)

Weekly(plan, now) ==
  LET delta == (plan.day.weekday - now.day) % 7
      nxt   == At(now.day + delta, plan.tod)
  IN  IF Later(nxt, now) THEN nxt ELSE At(now.day + delta + 7, plan.tod)

\* The month now is in.
MonthOf(now) ==
  CHOOSE m \in 0 .. Months - 1 : MonthStart[m] <= now.day /\ now.day < MonthStart[m + 1]

DayOfMonth(plan) == IF plan.day.dom > 28 THEN 28 ELSE plan.day.dom

Monthly(plan, now) ==
  LET m   == MonthOf(now)
      nxt == At(MonthStart[m] + DayOfMonth(plan) - 1, plan.tod)
  IN  IF Later(nxt, now) THEN nxt
      ELSE At(MonthStart[m + 1] + DayOfMonth(plan) - 1, plan.tod)

\* A schedule string that is none of the four is stored, and gives today.
Other(plan, now) == At(now.day, plan.tod)

None == [day |-> -1, tod |-> 0]

NextOf(plan, now) ==
  CASE plan.kind = "manual"  -> None
    [] plan.kind = "daily"   -> Daily(plan, now)
    [] plan.kind = "weekly"  -> Weekly(plan, now)
    [] plan.kind = "monthly" -> Monthly(plan, now)
    [] OTHER                 -> Other(plan, now)
-----------------------------------------------------------------------------
\* The instants a plan names, independently of now.
Matches(plan, t) ==
  /\ t.tod = plan.tod
  /\ plan.kind = "weekly" => t.day % 7 = plan.day.weekday
  /\ plan.kind = "monthly" => \E m \in 0 .. Months :
       t.day = MonthStart[m] + DayOfMonth(plan) - 1

\* The next run is the first instant of the plan after now: none is skipped
\* and none is repeated.
IsFirstAfter(plan, now, t) ==
  /\ Matches(plan, t) /\ Later(t, now)
  /\ \A d \in now.day .. t.day : \A s \in Tods :
       Matches(plan, At(d, s)) /\ Later(At(d, s), now) => ~Later(t, At(d, s))
=============================================================================
