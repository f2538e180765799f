---------------------------- MODULE Entitlements ----------------------------
(***************************************************************************)
(* What the publisher promises about purchases, without bridge, page,      *)
(* offers or tokens: a purchase has one valid grant; a grant belongs to    *)
(* the first who redeems it, for good, before anything is given for it,    *)
(* and gives credentials to nobody else; a publisher that forgets its      *)
(* grants gives nothing for them any more, and a purchase may then be      *)
(* granted anew.                                                           *)
(***************************************************************************)
EXTENDS Naturals, Sequences

CONSTANTS Purchases, Holders, Nobody

VARIABLES
  grants,        \* what has been granted, to whom, in order
  void,          \* grants up to this one are no longer valid
  credentials    \* who has been given what, for which grant

entitlementVars == <<grants, void, credentials>>

Valid == {g \in DOMAIN grants : g > void}

Init == grants = <<>> /\ void = 0 /\ credentials = {}

Grant(p) ==
  /\ \A g \in Valid : grants[g].purchase # p
  /\ grants' = Append(grants, [purchase |-> p, holder |-> Nobody])
  /\ UNCHANGED <<void, credentials>>

Redeem(g, h) ==
  /\ grants[g].holder \in {Nobody, h}
  /\ grants' = [grants EXCEPT ![g].holder = h]
  /\ UNCHANGED <<void, credentials>>

Give(g) ==
  /\ grants[g].holder # Nobody
  /\ credentials' = credentials \cup {[grant |-> g, purchase |-> grants[g].purchase,
                                       holder |-> grants[g].holder]}
  /\ UNCHANGED <<grants, void>>

Forget == void' = Len(grants) /\ UNCHANGED <<grants, credentials>>

Next ==
  \/ \E p \in Purchases : Grant(p)
  \/ \E g \in Valid : Give(g) \/ \E h \in Holders : Redeem(g, h)
  \/ Forget

Spec == Init /\ [][Next]_entitlementVars
=============================================================================
