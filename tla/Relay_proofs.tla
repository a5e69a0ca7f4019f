---------------------------- MODULE Relay_proofs ----------------------------
(***************************************************************************)
(* Proofs about Relay for any set of results, any batch limit and any      *)
(* number of interruptions: IndInv is inductive, each safety property      *)
(* follows from it, and every step of the relay is a step of RelayService  *)
(* or a stutter.                                                           *)
(***************************************************************************)
EXTENDS Relay, TLAPS

\* The initial state satisfies every part of the invariant.
LEMMA IndInvInit == Init => IndInv
  BY RelayAssumption
  DEF Init, IndInv, TypeOK, EngineStates, Answers, Bookkeeping, Serving,
      Accounted, Ordered, Counted

\* Every step keeps the types.
LEMMA TypeOKStep ==
  ASSUME IndInv, Next
  PROVE  TypeOK'
<1>. USE RelayAssumption DEF IndInv, TypeOK, EngineStates, Answers, inVars, netVars
<1>1. ASSUME NEW r \in Results, Receive(r) PROVE TypeOK'
  BY <1>1 DEF Receive
<1>2. ASSUME NEW r \in Results, Enqueue(r) PROVE TypeOK'
  BY <1>2 DEF Enqueue
<1>3. CASE Start
  BY <1>3 DEF Start
<1>4. CASE Enroll
  BY <1>4 DEF Enroll
<1>5. CASE HeartbeatDenied
  BY <1>5 DEF HeartbeatDenied, Die
<1>6. CASE Wake
  BY <1>6 DEF Wake
<1>7. CASE Shutdown
  BY <1>7 DEF Shutdown, Die
<1>8. CASE BeginDrain
  BY <1>8 DEF BeginDrain, Oldest
<1>9. CASE EndDrain
  BY <1>9 DEF EndDrain
<1>10. ASSUME NEW r \in Results, Submit(r) PROVE TypeOK'
  BY <1>10 DEF Submit, IsNext
<1>11. CASE Answered
  BY <1>11 DEF Answered
<1>12. CASE MarkUploaded
  BY <1>12 DEF MarkUploaded, Bookkeeping
<1>13. CASE SubmitFailed
  BY <1>13 DEF SubmitFailed, Abandon
<1>14. CASE SubmitDenied
  BY <1>14 DEF SubmitDenied, Die
<1>15. CASE Timeout
  BY <1>15 DEF Timeout, Abandon, Fault, OrphanPending, CountUnheard
<1>16. CASE Crash
  BY <1>16 DEF Crash, Die, Fault, OrphanPending, CountUnheard
<1>17. CASE Stop
  <2>1. running' \in BOOLEAN  BY <1>17, Zenon DEF Stop
  <2>2. faults' \in Nat  BY <1>17 DEF Stop, Fault
  <2>3. UNCHANGED <<engine, rows, batch, item, answer, dropped, unheard, receiving,
                    clock, stamp, accepted, seen, orphans, deliveries, tokenValid>>
    BY <1>17, Zenon DEF Stop
  <2>. QED  BY <2>1, <2>2, <2>3
<1>18. CASE ServerError
  BY <1>18 DEF ServerError, Fault
<1>19. CASE Garble
  BY <1>19 DEF Garble, Fault
<1>20. CASE Handle
  BY <1>20 DEF Handle, Bookkeeping, Kinds
<1>21. CASE RevokeToken
  BY <1>21 DEF RevokeToken
<1>22. ASSUME NEW r \in Results, HandleOrphan(r) PROVE TypeOK'
  BY <1>22 DEF HandleOrphan
<1>23. ASSUME NEW r \in Results, LoseOrphan(r) PROVE TypeOK'
  BY <1>23 DEF LoseOrphan
<1>. QED
  BY <1>1, <1>2, <1>3, <1>4, <1>5, <1>6, <1>7, <1>8, <1>9, <1>10, <1>11, <1>12,
     <1>13, <1>14, <1>15, <1>16, <1>17, <1>18, <1>19, <1>20, <1>21, <1>22, <1>23
  DEF Next, Inbound, MainStep, Interruption, Platform

\* Every step keeps the main thread's variables in line with the queue.
LEMMA BookkeepingStep ==
  ASSUME IndInv, Next
  PROVE  Bookkeeping'
<1>. USE RelayAssumption DEF IndInv, TypeOK, EngineStates, Bookkeeping, Serving, inVars, netVars
<1>1. ASSUME NEW r \in Results, Receive(r) PROVE Bookkeeping'
  BY <1>1 DEF Receive
<1>2. ASSUME NEW r \in Results, Enqueue(r) PROVE Bookkeeping'
  BY <1>2 DEF Enqueue
<1>3. CASE Start
  BY <1>3 DEF Start
<1>4. CASE Enroll
  BY <1>4 DEF Enroll
<1>5. CASE HeartbeatDenied
  BY <1>5 DEF HeartbeatDenied, Die
<1>6. CASE Wake
  BY <1>6 DEF Wake
<1>7. CASE Shutdown
  BY <1>7 DEF Shutdown, Die
<1>8. CASE BeginDrain
  BY <1>8 DEF BeginDrain, Oldest
<1>9. CASE EndDrain
  BY <1>9 DEF EndDrain
<1>10. ASSUME NEW r \in Results, Submit(r) PROVE Bookkeeping'
  BY <1>10 DEF Submit, IsNext
<1>11. CASE Answered
  BY <1>11 DEF Answered
<1>12. CASE MarkUploaded
  BY <1>12 DEF MarkUploaded
<1>13. CASE SubmitFailed
  BY <1>13 DEF SubmitFailed, Abandon
<1>14. CASE SubmitDenied
  BY <1>14 DEF SubmitDenied, Die
<1>15. CASE Timeout
  BY <1>15 DEF Timeout, Abandon, Fault, OrphanPending, CountUnheard
<1>16. CASE Crash
  BY <1>16 DEF Crash, Die, Fault, OrphanPending, CountUnheard
<1>17. CASE Stop
  BY <1>17 DEF Stop, Fault
<1>18. CASE ServerError
  BY <1>18 DEF ServerError, Fault
<1>19. CASE Garble
  BY <1>19 DEF Garble, Fault
<1>20. CASE Handle
  BY <1>20 DEF Handle, Kinds
<1>21. CASE RevokeToken
  BY <1>21 DEF RevokeToken
<1>22. ASSUME NEW r \in Results, HandleOrphan(r) PROVE Bookkeeping'
  BY <1>22 DEF HandleOrphan
<1>23. ASSUME NEW r \in Results, LoseOrphan(r) PROVE Bookkeeping'
  BY <1>23 DEF LoseOrphan
<1>. QED
  BY <1>1, <1>2, <1>3, <1>4, <1>5, <1>6, <1>7, <1>8, <1>9, <1>10, <1>11, <1>12,
     <1>13, <1>14, <1>15, <1>16, <1>17, <1>18, <1>19, <1>20, <1>21, <1>22, <1>23
  DEF Next, Inbound, MainStep, Interruption, Platform

\* No step makes an accepted result disappear: the only one that deletes a row,
\* MarkUploaded, follows a 200, a 404 or a garbled answer.
LEMMA AccountedStep ==
  ASSUME IndInv, Next
  PROVE  Accounted'
<1>. USE RelayAssumption DEF IndInv, TypeOK, Bookkeeping, Accounted, inVars, netVars
<1>1. ASSUME NEW r \in Results, Receive(r) PROVE Accounted'
  BY <1>1 DEF Receive
<1>2. ASSUME NEW r \in Results, Enqueue(r) PROVE Accounted'
  BY <1>2 DEF Enqueue
<1>3. CASE Start
  BY <1>3 DEF Start
<1>4. CASE Enroll
  BY <1>4 DEF Enroll
<1>5. CASE HeartbeatDenied
  BY <1>5 DEF HeartbeatDenied, Die
<1>6. CASE Wake
  BY <1>6 DEF Wake
<1>7. CASE Shutdown
  BY <1>7 DEF Shutdown, Die
<1>8. CASE BeginDrain
  BY <1>8 DEF BeginDrain, Oldest
<1>9. CASE EndDrain
  BY <1>9 DEF EndDrain
<1>10. ASSUME NEW r \in Results, Submit(r) PROVE Accounted'
  BY <1>10 DEF Submit, IsNext
<1>11. CASE Answered
  BY <1>11 DEF Answered
<1>12. CASE MarkUploaded
  BY <1>12 DEF MarkUploaded
<1>13. CASE SubmitFailed
  BY <1>13 DEF SubmitFailed, Abandon
<1>14. CASE SubmitDenied
  BY <1>14 DEF SubmitDenied, Die
<1>15. CASE Timeout
  BY <1>15 DEF Timeout, Abandon, Fault, OrphanPending, CountUnheard
<1>16. CASE Crash
  BY <1>16 DEF Crash, Die, Fault, OrphanPending, CountUnheard
<1>17. CASE Stop
  BY <1>17 DEF Stop, Fault
<1>18. CASE ServerError
  BY <1>18 DEF ServerError, Fault
<1>19. CASE Garble
  BY <1>19 DEF Garble, Fault
<1>20. CASE Handle
  BY <1>20 DEF Handle
<1>21. CASE RevokeToken
  BY <1>21 DEF RevokeToken
<1>22. ASSUME NEW r \in Results, HandleOrphan(r) PROVE Accounted'
  BY <1>22 DEF HandleOrphan
<1>23. ASSUME NEW r \in Results, LoseOrphan(r) PROVE Accounted'
  BY <1>23 DEF LoseOrphan
<1>. QED
  BY <1>1, <1>2, <1>3, <1>4, <1>5, <1>6, <1>7, <1>8, <1>9, <1>10, <1>11, <1>12,
     <1>13, <1>14, <1>15, <1>16, <1>17, <1>18, <1>19, <1>20, <1>21, <1>22, <1>23
  DEF Next, Inbound, MainStep, Interruption, Platform

\* No step lets a result overtake one accepted before it: lists are read
\* oldest first, and submitted in that order.
LEMMA OrderedStep ==
  ASSUME IndInv, Next
  PROVE  Ordered'
<1>. USE RelayAssumption DEF IndInv, TypeOK, Bookkeeping, Ordered, inVars, netVars
<1>1. ASSUME NEW r \in Results, Receive(r) PROVE Ordered'
  BY <1>1 DEF Receive
<1>2. ASSUME NEW r \in Results, Enqueue(r) PROVE Ordered'
  BY <1>2 DEF Enqueue
<1>3. CASE Start
  BY <1>3 DEF Start
<1>4. CASE Enroll
  BY <1>4 DEF Enroll
<1>5. CASE HeartbeatDenied
  BY <1>5 DEF HeartbeatDenied, Die
<1>6. CASE Wake
  BY <1>6 DEF Wake
<1>7. CASE Shutdown
  BY <1>7 DEF Shutdown, Die
<1>8. CASE BeginDrain
  BY <1>8 DEF BeginDrain, Oldest
<1>9. CASE EndDrain
  BY <1>9 DEF EndDrain
<1>10. ASSUME NEW r \in Results, Submit(r) PROVE Ordered'
  BY <1>10 DEF Submit, IsNext
<1>11. CASE Answered
  BY <1>11 DEF Answered
<1>12. CASE MarkUploaded
  BY <1>12 DEF MarkUploaded
<1>13. CASE SubmitFailed
  BY <1>13 DEF SubmitFailed, Abandon
<1>14. CASE SubmitDenied
  BY <1>14 DEF SubmitDenied, Die
<1>15. CASE Timeout
  BY <1>15 DEF Timeout, Abandon, Fault, OrphanPending, CountUnheard
<1>16. CASE Crash
  BY <1>16 DEF Crash, Die, Fault, OrphanPending, CountUnheard
<1>17. CASE Stop
  BY <1>17 DEF Stop, Fault
<1>18. CASE ServerError
  BY <1>18 DEF ServerError, Fault
<1>19. CASE Garble
  BY <1>19 DEF Garble, Fault
<1>20. CASE Handle
  BY <1>20 DEF Handle
<1>21. CASE RevokeToken
  BY <1>21 DEF RevokeToken
<1>22. ASSUME NEW r \in Results, HandleOrphan(r) PROVE Ordered'
  BY <1>22 DEF HandleOrphan
<1>23. ASSUME NEW r \in Results, LoseOrphan(r) PROVE Ordered'
  BY <1>23 DEF LoseOrphan
<1>. QED
  BY <1>1, <1>2, <1>3, <1>4, <1>5, <1>6, <1>7, <1>8, <1>9, <1>10, <1>11, <1>12,
     <1>13, <1>14, <1>15, <1>16, <1>17, <1>18, <1>19, <1>20, <1>21, <1>22, <1>23
  DEF Next, Inbound, MainStep, Interruption, Platform

\* Every step charges a further request for a result to an unheard one.
LEMMA CountedStep ==
  ASSUME IndInv, Next
  PROVE  Counted'
<1>. USE RelayAssumption DEF IndInv, TypeOK, Bookkeeping, Counted, inVars, netVars
<1>1. ASSUME NEW r \in Results, Receive(r) PROVE Counted'
  BY <1>1 DEF Receive
<1>2. ASSUME NEW r \in Results, Enqueue(r) PROVE Counted'
  BY <1>2 DEF Enqueue
<1>3. CASE Start
  BY <1>3 DEF Start
<1>4. CASE Enroll
  BY <1>4 DEF Enroll
<1>5. CASE HeartbeatDenied
  BY <1>5 DEF HeartbeatDenied, Die
<1>6. CASE Wake
  BY <1>6 DEF Wake
<1>7. CASE Shutdown
  BY <1>7 DEF Shutdown, Die
<1>8. CASE BeginDrain
  BY <1>8 DEF BeginDrain, Oldest
<1>9. CASE EndDrain
  BY <1>9 DEF EndDrain
<1>10. ASSUME NEW r \in Results, Submit(r) PROVE Counted'
  BY <1>10 DEF Submit, IsNext
<1>11. CASE Answered
  BY <1>11 DEF Answered
<1>12. CASE MarkUploaded
  BY <1>12 DEF MarkUploaded
<1>13. CASE SubmitFailed
  BY <1>13 DEF SubmitFailed, Abandon
<1>14. CASE SubmitDenied
  BY <1>14 DEF SubmitDenied, Die
<1>15. CASE Timeout
  BY <1>15 DEF Timeout, Abandon, Fault, OrphanPending, CountUnheard
<1>16. CASE Crash
  BY <1>16 DEF Crash, Die, Fault, OrphanPending, CountUnheard
<1>17. CASE Stop
  BY <1>17 DEF Stop, Fault
<1>18. CASE ServerError
  BY <1>18 DEF ServerError, Fault
<1>19. CASE Garble
  BY <1>19 DEF Garble, Fault
<1>20. CASE Handle
  BY <1>20 DEF Handle
<1>21. CASE RevokeToken
  BY <1>21 DEF RevokeToken
<1>22. ASSUME NEW r \in Results, HandleOrphan(r) PROVE Counted'
  BY <1>22 DEF HandleOrphan
<1>23. ASSUME NEW r \in Results, LoseOrphan(r) PROVE Counted'
  BY <1>23 DEF LoseOrphan
<1>. QED
  BY <1>1, <1>2, <1>3, <1>4, <1>5, <1>6, <1>7, <1>8, <1>9, <1>10, <1>11, <1>12,
     <1>13, <1>14, <1>15, <1>16, <1>17, <1>18, <1>19, <1>20, <1>21, <1>22, <1>23
  DEF Next, Inbound, MainStep, Interruption, Platform

\* The invariant is inductive.
LEMMA IndInvStep == IndInv /\ [Next]_vars => IndInv'
<1>1. ASSUME IndInv, Next PROVE IndInv'
  BY <1>1, TypeOKStep, BookkeepingStep, AccountedStep, OrderedStep, CountedStep
  DEF IndInv
<1>2. ASSUME IndInv, UNCHANGED vars PROVE IndInv'
  BY <1>2
  DEF vars, inVars, netVars, IndInv, TypeOK, Bookkeeping, Serving, Accounted,
      Ordered, Counted
<1>. QED  BY <1>1, <1>2

\* The inductive invariant holds in every reachable state.
THEOREM Invariance == Spec => []IndInv
  BY IndInvInit, IndInvStep, PTL DEF Spec

\* Type correctness of the relay (all of collector/codecore_collector).
THEOREM TypeCorrect == Spec => []TypeOK
<1>1. IndInv => TypeOK  BY DEF IndInv
<1>. QED  BY <1>1, Invariance, PTL

\* No result an agent was told is queued disappears, whatever is lost, late or
\* killed, if nothing but the platform answers the relay's requests.
THEOREM NoLoss == ~Garbling /\ Spec => []NothingLost
<1>1. ~Garbling /\ IndInv => NothingLost
  BY DEF IndInv, TypeOK, Bookkeeping, Accounted, NothingLost, Delivered
<1>2. CASE Garbling  BY <1>2
<1>3. CASE ~Garbling
  <2>1. IndInv => NothingLost  BY <1>1, <1>3
  <2>. QED  BY <2>1, Invariance, PTL
<1>. QED  BY <1>2, <1>3

\* Results reach the platform in the order they were accepted.
THEOREM OrderKept == Spec => []InOrder
<1>1. IndInv => InOrder
  BY DEF IndInv, TypeOK, Ordered, InOrder, Delivered
<1>. QED  BY <1>1, Invariance, PTL

\* A result is applied more than once only for submissions left unanswered.
THEOREM Duplicates == Spec => []DuplicatesExplained
<1>1. IndInv => DuplicatesExplained
  BY DEF IndInv, TypeOK, Counted, DuplicatesExplained
<1>. QED  BY <1>1, Invariance, PTL
-----------------------------------------------------------------------------
(***************************************************************************)
(* The relay implements RelayService.                                      *)
(***************************************************************************)

\* What has been accepted is what the service holds as pending, delivered or
\* refused.
LEMMA AcceptedIsServed ==
  ASSUME IndInv
  PROVE  (rows \ Delivered) \cup Delivered \cup (dropped \ Delivered) = accepted
  BY DEF IndInv, TypeOK, Bookkeeping, Accounted, Delivered

\* A submission in progress or on its way, and applied by the platform, is a
\* delivery, or changes nothing if the platform has the result already.
LEMMA ApplyDelivers ==
  ASSUME IndInv, ~Garbling, NEW r \in Results, r \in accepted,
         seen[r] \cap rows = {}, Kind[r] = "ok",
         deliveries' = [deliveries EXCEPT ![r] = @ + 1],
         UNCHANGED <<rows, dropped, seen>>
  PROVE  [Service!ServiceNext]_(Service!serviceVars)
<1>1. Delivered' = Delivered \cup {r}
  BY DEF IndInv, TypeOK, Delivered
<1>2. CASE r \in Delivered
  BY <1>1, <1>2 DEF Service!serviceVars
<1>3. CASE r \notin Delivered
  <2>1. r \in rows /\ r \notin dropped
    BY <1>3, "nojob" # "ok" DEF IndInv, Accounted, Bookkeeping, Delivered
  <2>2. (rows \ Delivered)' = (rows \ Delivered) \ {r}
    BY <1>1
  <2>3. (dropped \ Delivered)' = dropped \ Delivered
    BY <1>1, <2>1
  <2>4. Service!Deliver(r)
    BY <1>1, <1>3, <2>1, <2>2, <2>3 DEF Service!Deliver
  <2>. QED  BY <2>4 DEF Service!ServiceNext
<1>. QED  BY <1>2, <1>3

\* Every step of the relay is a step of the service or changes nothing there.
LEMMA ServiceStep ==
  ASSUME IndInv, ~Garbling, Next
  PROVE  [Service!ServiceNext]_(Service!serviceVars)
<1>. USE DEF inVars, netVars
<1>1. ASSUME NEW r \in Results, Receive(r)
      PROVE  [Service!ServiceNext]_(Service!serviceVars)
  <2>1. r \notin accepted
    BY <1>1 DEF Receive, IndInv, TypeOK, Bookkeeping
  <2>2. Delivered' = Delivered
    BY <1>1 DEF Receive, Delivered
  <2>3. Service!HandOver(r)
    BY <1>1, <2>1, <2>2, AcceptedIsServed DEF Receive, Service!HandOver
  <2>. QED  BY <2>3 DEF Service!ServiceNext
<1>2. ASSUME NEW r \in Results, Enqueue(r)
      PROVE  [Service!ServiceNext]_(Service!serviceVars)
  <2>1. r \notin accepted
    BY <1>2 DEF Enqueue, IndInv, Bookkeeping
  <2>2. Delivered' = Delivered
    BY <1>2 DEF Enqueue, Delivered
  <2>3. r \notin Delivered
    BY <2>1, AcceptedIsServed
  <2>4. Service!Accept(r)
    BY <1>2, <2>1, <2>2, <2>3, AcceptedIsServed DEF Enqueue, Service!Accept
  <2>. QED  BY <2>4 DEF Service!ServiceNext
<1>3. CASE Handle
  <2>1. item \in Results /\ item \in accepted /\ seen[item] \cap rows = {}
    BY <1>3 DEF Handle, IndInv, TypeOK, Bookkeeping, Ordered
  <2>2. CASE tokenValid /\ Kind[item] = "ok"
    BY <1>3, <2>1, <2>2, ApplyDelivers DEF Handle
  <2>3. CASE ~(tokenValid /\ Kind[item] = "ok")
    BY <1>3, <2>3 DEF Handle, Delivered, Service!serviceVars
  <2>. QED  BY <2>2, <2>3
<1>4. ASSUME NEW r \in Results, HandleOrphan(r)
      PROVE  [Service!ServiceNext]_(Service!serviceVars)
  <2>1. r \in accepted /\ seen[r] \cap rows = {}
    BY <1>4 DEF HandleOrphan, IndInv, TypeOK, Bookkeeping, Ordered
  <2>2. CASE tokenValid /\ Kind[r] = "ok"
    BY <1>4, <2>1, <2>2, ApplyDelivers DEF HandleOrphan
  <2>3. CASE ~(tokenValid /\ Kind[r] = "ok")
    BY <1>4, <2>3 DEF HandleOrphan, Delivered, Service!serviceVars
  <2>. QED  BY <2>2, <2>3
<1>5. CASE MarkUploaded
  <2>1. /\ item \in Results
        /\ item \in rows
        /\ seen[item] \cap rows = {}
        /\ answer \in {"ok", "notfound"}
    BY <1>5 DEF MarkUploaded, IndInv, TypeOK, Bookkeeping, Ordered
  <2>2. Delivered' = Delivered
    BY <1>5 DEF MarkUploaded, Delivered
  <2>3. CASE item \in Delivered
    BY <1>5, <2>2, <2>3 DEF MarkUploaded, Service!serviceVars
  <2>4. CASE item \notin Delivered
    <3>1. answer = "notfound" /\ Kind[item] = "nojob"
      BY <2>1, <2>4 DEF IndInv, Bookkeeping, Delivered
    <3>2. Service!Refuse(item)
      BY <1>5, <2>1, <2>2, <2>4, <3>1 DEF MarkUploaded, Service!Refuse
    <3>. QED  BY <2>1, <3>2 DEF Service!ServiceNext
  <2>. QED  BY <2>3, <2>4
<1>6. ASSUME UNCHANGED <<rows, deliveries, dropped, seen>>
      PROVE  [Service!ServiceNext]_(Service!serviceVars)
  BY <1>6 DEF Delivered, Service!serviceVars
<1>7. CASE MainStep
  BY <1>5, <1>6, <1>7
  DEF MainStep, Start, Enroll, HeartbeatDenied, Wake, Shutdown, BeginDrain,
      EndDrain, Answered, SubmitFailed, SubmitDenied, Submit
<1>8. CASE Interruption
  BY <1>6, <1>8
  DEF Interruption, Timeout, Crash, Stop, ServerError, Garble
<1>9. CASE Platform
  BY <1>3, <1>4, <1>6, <1>9 DEF Platform, RevokeToken, LoseOrphan
<1>. QED  BY <1>1, <1>2, <1>7, <1>8, <1>9 DEF Next, Inbound

\* The relay implements its service, unless something else answers for the
\* platform.
THEOREM Implementation == ~Garbling /\ Spec => ImplementsService
<1>1. Init => Service!ServiceInit
  BY DEF Init, Delivered, Service!ServiceInit
<1>2. ~Garbling /\ IndInv /\ [Next]_vars => [Service!ServiceNext]_(Service!serviceVars)
  <2>1. CASE UNCHANGED vars
    BY <2>1 DEF vars, inVars, netVars, Delivered, Service!serviceVars
  <2>. QED  BY <2>1, ServiceStep
<1>3. CASE Garbling  BY <1>3
<1>4. CASE ~Garbling
  <2>1. IndInv /\ [Next]_vars => [Service!ServiceNext]_(Service!serviceVars)
    BY <1>2, <1>4
  <2>. QED
    BY <1>1, <2>1, Invariance, PTL DEF Spec, ImplementsService, Service!ServiceSpec
<1>. QED  BY <1>3, <1>4
=============================================================================
