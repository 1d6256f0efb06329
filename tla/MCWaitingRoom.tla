-------------------------- MODULE MCWaitingRoom ----------------------------
(* Small instances of WaitingRoom for TLC.                                 *)
EXTENDS WaitingRoom

(* Users, and the admissions, are interchangeable.                         *)
UserSymmetry == Permutations(Users) \cup Permutations(Admitters)

(* Two runs at once are followed only when both are admissions, no command *)
(* has failed, the sale has begun and nobody is in the middle of a poll;   *)
(* one run, in every circumstance.                                         *)
Busy == {p \in Admitters \cup Crons : run[p].pc # "idle"}
NoPoll == \A u \in Users : poll[u] = None
OneTrouble ==
    Cardinality(Busy) > 1 =>
        faults = 0 /\ Busy \subseteq Admitters /\ now = MaxTime /\ NoPoll

(* Times that a fast clock has read and that have not come yet are followed*)
(* until an admission asks the bucket and as long as nobody polls.         *)
AheadOfTime ==
    \/ \E u \in Users : join[u].stamp > now
    \/ \E p \in Busy :
          run[p].stamp > (IF run[p].pc = "adding" THEN now + Cardinality(Users) ELSE now)
    \/ \E i \in DOMAIN active : active[i].score > 2 * now + 2
BeforeAdmission ==
    /\ NoPoll /\ pops = 0
    /\ \A p \in Busy : run[p].pc \notin {"read", "write", "pop"}

OneTroubleAndClocks == OneTrouble /\ (AheadOfTime => BeforeAdmission)
============================================================================
