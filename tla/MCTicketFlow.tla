---------------------------- MODULE MCTicketFlow ----------------------------
(* Small instances of TicketFlow for TLC.                                  *)
EXTENDS TicketFlow, TLC

Symmetry == Permutations(Requests) \cup Permutations(Comments) \cup Permutations(Files)
=============================================================================
