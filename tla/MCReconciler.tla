---------------------------- MODULE MCReconciler ----------------------------
(* Instances of Reconciler for TLC. *)
EXTENDS Reconciler

CONSTANTS alice, mallory, shop, cafe, anchor, w1, w2, s1, s2

Payment(memo, muxed, from, to) ==
    [type |-> "payment", memo |-> memo, muxed |-> muxed, from |-> from, to |-> to]

\* One shop: a wallet payment (memo id), a harness payment (muxed destination)
\* by a payer the contract denies, and an operation that is no payment.
OneShop     == [w \in Watchers |-> shop]
OneShopOps  == {Payment(s1, None, alice, shop),
                Payment(None, s2, mallory, shop),
                [type |-> "create_account", memo |-> None, muxed |-> None,
                 from |-> None, to |-> shop]}

\* The shop also cashes out through an anchor that gave it a memo id.
CashOutOps  == {Payment(s1, None, alice, shop), Payment(s2, None, shop, anchor)}

\* Two merchants, one process each.
TwoShops    == [w \in Watchers |-> IF w = w1 THEN shop ELSE cafe]
TwoShopsOps == {Payment(s1, None, alice, shop), Payment(s2, None, alice, cafe)}

\* An operator may ask for "now", for the beginning or for the first operation.
SomeTargets == {Now, 0, 1}
NoTargets   == {}
=============================================================================
