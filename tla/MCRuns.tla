------------------------------- MODULE MCRuns -------------------------------
(* The collector alone: an assignment of one subscription, an inherited one *)
(* and a policy.                                                            *)
EXTENDS Platform

CONSTANTS s1, s2, direct, inherited, policy

CollectorOnly == {[init |-> "reuse", modules |-> {"collector"}]}

PlacesOfItems ==
  [t \in {direct, inherited, policy} |->
     CASE t = direct    -> {s1}
       [] t = inherited -> {s1, s2}
       [] t = policy    -> {"policies"}]
=============================================================================
