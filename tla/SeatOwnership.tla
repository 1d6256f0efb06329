--------------------------- MODULE SeatOwnership ---------------------------
(***************************************************************************)
(* What the seat inventory promises, without counters, keys or scripts:    *)
(* every seat is free, held or sold by one hold, or gone.  A hold gets all *)
(* its seats in one step and never more later; a seat passes from one hold *)
(* to another only by way of being free, and only the hold that owns it    *)
(* is ever asked to give it back.                                          *)
(***************************************************************************)
EXTENDS FiniteSets

CONSTANTS Seats, Holds, Nobody

VARIABLES
    owner,      \* owner[s]: the hold that has seat s, or Nobody
    stage,      \* stage[s]: "free", "held", "sold" or "gone"
    used        \* the holds that were ever granted

vars == <<owner, stage, used>>

OwnedBy(h) == {s \in Seats : owner[s] = h}
HeldBy(h) == {s \in OwnedBy(h) : stage[s] = "held"}

Init ==
    /\ owner = [s \in Seats |-> Nobody]
    /\ stage = [s \in Seats |-> "free"]
    /\ used = {}

Take(S, h, st) ==
    /\ owner' = [s \in Seats |-> IF s \in S THEN h ELSE owner[s]]
    /\ stage' = [s \in Seats |-> IF s \in S THEN st ELSE stage[s]]

Grant(h, S) ==
    /\ h \notin used
    /\ S # {} /\ \A s \in S : stage[s] = "free"
    /\ Take(S, h, "held")
    /\ used' = used \cup {h}

Sell(h, S) ==
    /\ S # {} /\ S \subseteq HeldBy(h)
    /\ Take(S, h, "sold")
    /\ UNCHANGED used

Return(h) ==
    /\ OwnedBy(h) # {}
    /\ Take(OwnedBy(h), Nobody, "free")
    /\ UNCHANGED used

Lapse(h) ==
    /\ HeldBy(h) # {}
    /\ Take(HeldBy(h), Nobody, "gone")
    /\ UNCHANGED used

Next ==
    \E h \in Holds :
        \/ \E S \in SUBSET Seats : Grant(h, S) \/ Sell(h, S)
        \/ Return(h)
        \/ Lapse(h)

Spec == Init /\ [][Next]_vars
============================================================================
