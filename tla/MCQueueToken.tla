--------------------------- MODULE MCQueueToken ----------------------------
(* Small instances of QueueToken for TLC.                                  *)
EXTENDS QueueToken, TLC

UserSymmetry == Permutations(Users)

(* Pages are used in behaviours without a worker, and with exact clocks;   *)
(* workers, in behaviours whose pages nobody uses and whose admissions are *)
(* all for one event.                                                      *)
WorkersUnused == skew = 0 /\ popped = {} /\ known = {} /\ \A w \in Workers : work[w] = Idle
PagesUnused == userId = None /\ chosen = [p \in Tabs |-> FirstEvent]
OneAdmitted == popped \subseteq Users \X {FirstEvent}
OneSide == WorkersUnused \/ (PagesUnused /\ OneAdmitted)
============================================================================
