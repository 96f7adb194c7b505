----------------------------- MODULE MCUserSession -----------------------------
(* UserSession for TLC: the requests are interchangeable. *)
EXTENDS UserSession, TLC

Symm == Permutations(Procs)

================================================================================
