--------------------------- MODULE MCAccountQuota ---------------------------
(***************************************************************************)
(* Instances of AccountQuota for TLC: caller profiles that between them    *)
(* reach every billing source.                                             *)
(***************************************************************************)
EXTENDS AccountQuota, TLC

RequestSymmetry == Permutations(Requests)

Caller(free, selfUse, playground, trust, pref) ==
  [free |-> free, selfUse |-> selfUse, playground |-> playground,
   trust |-> trust, pref |-> pref]

\* every way to pay
AllProfiles ==
  {Caller(TRUE, FALSE, FALSE, FALSE, "wallet_only"),
   Caller(FALSE, TRUE, FALSE, FALSE, "wallet_only"),
   Caller(FALSE, FALSE, TRUE, FALSE, "wallet_only"),
   Caller(FALSE, FALSE, FALSE, TRUE, "wallet_only"),
   Caller(FALSE, FALSE, FALSE, FALSE, "wallet_first"),
   Caller(FALSE, FALSE, FALSE, FALSE, "subscription_only"),
   Caller(FALSE, FALSE, FALSE, FALSE, "subscription_first")}

\* wallet or subscription
TwoProfiles ==
  {Caller(FALSE, FALSE, FALSE, FALSE, "wallet_only"),
   Caller(FALSE, FALSE, FALSE, FALSE, "subscription_first")}

SubscriptionProfile == {Caller(FALSE, FALSE, FALSE, FALSE, "subscription_only")}
=============================================================================
