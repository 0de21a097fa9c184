------------------------- MODULE MCDriverOnboarding -------------------------
(* Instances of DriverOnboarding for TLC. *)
EXTENDS DriverOnboarding, TLC

\* Images, forms, requests and submits are interchangeable.
Symmetry ==
    Permutations(Images) \cup Permutations(Details) \cup Permutations(Handlers)
    \cup Permutations(Submits)
=============================================================================
