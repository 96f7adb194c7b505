--------------------------- MODULE MCTokenBudget ----------------------------
(***************************************************************************)
(* An instance of TokenBudget for TLC: a native and a chat bound, usages   *)
(* inside and outside of them, and policies that turn each limit on, off   *)
(* and around.                                                             *)
(***************************************************************************)
EXTENDS TokenBudget, TLC

ActorSymmetry == Permutations(Requests) \cup Permutations(Reviewers)

TwoBounds ==
  {[source |-> "responses", input |-> 1, maxOutput |-> 1],
   [source |-> "chat", input |-> ChatContext, maxOutput |-> 2]}

\* within both bounds, above the window, below the counted input
ThreeUsages ==
  {[input |-> 1, output |-> 1, fee |-> 1],
   [input |-> 1, output |-> 2, fee |-> 0],
   [input |-> 0, output |-> 1, fee |-> 2]}

TwoUsages == {u \in ThreeUsages : u.input = 1}

Policy(enabled, limit, setFee, feeEnabled, feeLimit) ==
  [enabled |-> enabled, limit |-> limit, setFee |-> setFee,
   feeEnabled |-> feeEnabled, feeLimit |-> feeLimit]

ThreePolicies ==
  {Policy(TRUE, 4, FALSE, FALSE, 0), Policy(FALSE, 0, TRUE, TRUE, 2),
   Policy(TRUE, 3, TRUE, TRUE, 1)}

TwoPolicies == {p \in ThreePolicies : p.enabled}
=============================================================================
