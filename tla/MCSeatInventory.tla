-------------------------- MODULE MCSeatInventory --------------------------
(* Small instances of SeatInventory for TLC.                               *)
EXTENDS SeatInventory, TLC

(* Every list of up to n seats, also those that name a seat twice.         *)
ListsUpTo(n) == UNION {[1 .. m -> Seats] : m \in 1 .. n}

OneSeatOrTwo == ListsUpTo(2)

(* One category: the seeded count is the number of seats.                  *)
SeatQuota == [c \in Categories |-> Cardinality(Seats)]

BuyerSymmetry == Permutations(Users) \cup Permutations(Seats)
                 \cup Permutations(Holds) \cup Permutations(Orders)
============================================================================
