---------------------------- MODULE MCAuthService ----------------------------
(* One user, two requests at a time. *)
EXTENDS AuthService, TLC

Symmetry == Permutations(Workers) \cup Permutations(Sessions)
              \cup Permutations(Tokens) \cup Permutations(Links)
=============================================================================
