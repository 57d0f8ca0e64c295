----------------------------- MODULE MCPlatform -----------------------------
(* Both workers, or the collector alone, every way to prepare the database. *)
EXTENDS Platform

CONSTANTS n1, s1, s2, direct

SomeConfigs ==
  {[init |-> "", modules |-> {"web"}],
   [init |-> "reuse", modules |-> {"grantworker", "remediator"}],
   [init |-> "fresh", modules |-> {"collector"}],
   [init |-> "", modules |-> {"collector"}]}

PlacesOfItems == [t \in {direct} |-> {s1}]
=============================================================================
