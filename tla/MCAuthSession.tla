--------------------------- MODULE MCAuthSession ----------------------------
(* Instances of AuthSession for TLC. *)
EXTENDS AuthSession, TLC

\* Requests with the same abilities are interchangeable, and so are sessions.
Symmetry == Permutations(Sessions)
              \cup Permutations(Requests \ Opening) \cup Permutations(Opening)
=============================================================================
