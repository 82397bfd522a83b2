------------------------------ MODULE MCPayment ------------------------------
(***************************************************************************)
(* Instances of Payment for TLC: the duration sold by each plan version,   *)
(* and the symmetry of the safety runs.                                    *)
(***************************************************************************)
EXTENDS Payment, TLC

MCDays == [v \in PlanVersions |-> v]

MCSymmetry ==
    Permutations(Users) \union Permutations(Orders) \union Permutations(Events)
    \union Permutations(Txns) \union Permutations(Workers) \union Permutations(Keys)
=============================================================================
