--------------------------- MODULE TicketWorkflow ---------------------------
(***************************************************************************)
(* What a ticket promises its team, without requests and databases: it     *)
(* moves along the workflow, and comments and evidence once attached stay. *)
(***************************************************************************)
CONSTANTS Comments, Files, ValidTransitions

VARIABLES status, comments, evidence

Init == status = "open" /\ comments = {} /\ evidence = {}

Move ==
  /\ \E to \in ValidTransitions[status] : status' = to
  /\ UNCHANGED <<comments, evidence>>

Comment ==
  /\ \E x \in Comments : comments' = comments \cup {x}
  /\ UNCHANGED <<status, evidence>>

Attach ==
  /\ \E f \in Files : evidence' = evidence \cup {f}
  /\ UNCHANGED <<status, comments>>

Next == Move \/ Comment \/ Attach

Spec == Init /\ [][Next]_<<status, comments, evidence>>
=============================================================================
