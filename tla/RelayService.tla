---------------------------- MODULE RelayService ----------------------------
(***************************************************************************)
(* What the collector relay promises the agents that hand it scan results, *)
(* with no queue, no process, no network and no crash: a result that was   *)
(* accepted stays pending until the platform has it or has refused it for  *)
(* good; results reach the platform in the order they were accepted; and   *)
(* what the platform has, or has refused, never becomes pending again.     *)
(***************************************************************************)

CONSTANTS
  Results,     \* every scan result an agent may ever submit
  Refusable    \* the results the platform refuses for good (its job is gone)

VARIABLES
  pending,     \* accepted, and neither delivered nor refused yet
  delivered,   \* applied by the platform at least once
  refused,     \* refused by the platform for good
  earlier      \* earlier[r]: what had been accepted when r was handed over

serviceVars == <<pending, delivered, refused, earlier>>

ServiceTypeOK ==
  /\ pending \subseteq Results
  /\ delivered \subseteq Results
  /\ refused \subseteq Refusable
  /\ earlier \in [Results -> SUBSET Results]

ServiceInit ==
  /\ pending = {}
  /\ delivered = {}
  /\ refused = {}
  /\ earlier = [r \in Results |-> {}]

\* An agent hands r over: the results accepted so far come before it.
HandOver(r) ==
  /\ r \notin pending \cup delivered \cup refused
  /\ earlier' = [earlier EXCEPT ![r] = pending \cup delivered \cup refused]
  /\ UNCHANGED <<pending, delivered, refused>>

\* The relay takes responsibility for r.
Accept(r) ==
  /\ r \notin pending \cup delivered \cup refused
  /\ pending' = pending \cup {r}
  /\ UNCHANGED <<delivered, refused, earlier>>

\* The platform applies r, after everything accepted before r was handed over.
Deliver(r) ==
  /\ r \in pending
  /\ earlier[r] \cap pending = {}
  /\ pending' = pending \ {r}
  /\ delivered' = delivered \cup {r}
  /\ UNCHANGED <<refused, earlier>>

\* The platform refuses r for good, in the same order.
Refuse(r) ==
  /\ r \in pending \cap Refusable
  /\ earlier[r] \cap pending = {}
  /\ pending' = pending \ {r}
  /\ refused' = refused \cup {r}
  /\ UNCHANGED <<delivered, earlier>>

ServiceNext == \E r \in Results : HandOver(r) \/ Accept(r) \/ Deliver(r) \/ Refuse(r)

ServiceSpec == ServiceInit /\ [][ServiceNext]_serviceVars
=============================================================================
