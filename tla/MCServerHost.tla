---------------------------- MODULE MCServerHost ----------------------------
(***************************************************************************)
(* Symmetry for checking ServerHost: requests, customers and addresses are *)
(* interchangeable, each among its own kind.                               *)
(***************************************************************************)
EXTENDS ServerHost, TLC

Symmetry ==
  Permutations(Customers) \union Permutations(SensorPosts) \union Permutations(TaskPosts)
    \union Permutations(SetPosts) \union Permutations(Addresses)
=============================================================================
