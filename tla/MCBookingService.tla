------------------------- MODULE MCBookingService --------------------------
(* Small instances of BookingService for TLC.                              *)
EXTENDS BookingService, TLC

(* Every list of up to n different seats.                                  *)
ListsUpTo(n) ==
    {ss \in UNION {[1 .. m -> Seats] : m \in 1 .. n} : Cardinality(Range(ss)) = Len(ss)}

OneSeat == ListsUpTo(1)
OneSeatOrTwo == ListsUpTo(2)

(* One category: the seeded count is the number of seats.                  *)
SeatQuota == [c \in Categories |-> Cardinality(Seats)]

(* One seat per category.                                                  *)
OneEach == [c \in Categories |-> 1]

ServiceSymmetry == Permutations(Users) \cup Permutations(Seats) \cup Permutations(Holds)
                   \cup Permutations(Orders) \cup Permutations(Keys)
                   \cup Permutations(Reapers)
============================================================================
