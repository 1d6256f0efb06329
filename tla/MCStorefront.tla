--------------------------- MODULE MCStorefront ----------------------------
(* Small instances of Storefront for TLC.                                  *)
EXTENDS Storefront, TLC

OneSeat == {<<s>> : s \in Seats}

(* One seat per category.                                                  *)
OneEach == [c \in Categories |-> 1]

OneBuyer == [p \in Pages |-> CHOOSE u \in Users : TRUE]

Alike == Permutations(Seats) \cup Permutations(Holds) \cup Permutations(Orders)

(* Two pages in use at once are followed while no hold has expired and     *)
(* nothing has failed; one page, in every circumstance.                    *)
InUse == {p \in Pages : picked[p] # <<>> \/ shown[p] # None
                       \/ Asking(p) # {} \/ Committing(p) # {}}
TwoPagesOnlyUndisturbed == Cardinality(InUse) > 1 => faults = 0 /\ due = {}
============================================================================
