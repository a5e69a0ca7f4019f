----------------------------- MODULE MCScheduler -----------------------------
(* Small instances of Scheduler for TLC: one or two days of one month.     *)
EXTENDS Scheduler, TLC

CONSTANTS tA, tB, g1, g2, a1, b1

MonthsTwo == 0 :> 0 @@ 1 :> 31

\* Two groups and an agent of one tenant, and an agent of another.
TenantOfAll == g1 :> tA @@ g2 :> tA @@ a1 :> tA @@ b1 :> tB

Plan(kind, tod) == [kind |-> kind, tod |-> tod, day |-> [weekday |-> 0, dom |-> 1]]

ManualDaily == {Plan("manual", 0), Plan("daily", 1)}

\* And a second time of day, and a string that is no schedule.
AnyPlan == ManualDaily \cup {Plan("daily", 2), Plan("other", 0)}

OwnAndForeign == {{a1, b1}}

(* The arithmetic of NextRun, which so few days cannot exercise: every plan *)
(* at every instant of December to April, a leap year's February among them.*)
Calendar ==
  INSTANCE NextRun WITH MaxTod <- 1, Months <- 5,
    MonthStart <- 0 :> 3 @@ 1 :> 34 @@ 2 :> 65 @@ 3 :> 94 @@ 4 :> 125 @@ 5 :> 155

Scheduled ==
  {p \in Calendar!Plans :
     /\ p.kind \in {"daily", "weekly", "monthly"}
     /\ p.kind # "weekly" => p.day.weekday = 0
     /\ p.kind # "monthly" => p.day.dom = 1}

ASSUME NextIsFirst ==
  \A day \in 3..154, tod \in 0..1 : \A p \in Scheduled :
    LET here == Calendar!At(day, tod)
    IN  Calendar!IsFirstAfter(p, here, Calendar!NextOf(p, here))
=============================================================================
