------------------------------- MODULE Netting ------------------------------
(***************************************************************************)
(* What a payment channel promises its payee: claims are accepted in       *)
(* increasing order, and what is settled on chain is one of them, never a  *)
(* smaller one than before.                                                *)
(***************************************************************************)
EXTENDS Integers

CONSTANTS Signed,   \* the claims the payer signed: [nonce, amount]
          Deposit   \* what the channel escrows

VARIABLES accepted, \* claims the payee was told are accepted
          settled   \* the claim the contract was last checkpointed with

nvars == <<accepted, settled>>

NInit ==
    /\ accepted = {}
    /\ settled = [nonce |-> 0, amount |-> 0]

Accept(c) ==
    /\ c.amount <= Deposit
    /\ \A d \in accepted : d.nonce < c.nonce /\ d.amount < c.amount
    /\ accepted' = accepted \cup {c}
    /\ UNCHANGED settled

Settle(c) ==
    /\ settled.nonce < c.nonce
    /\ settled.amount < c.amount
    /\ settled' = c
    /\ UNCHANGED accepted

NNext == (\E c \in Signed : Accept(c)) \/ (\E c \in accepted : Settle(c))

NSpec == NInit /\ [][NNext]_nvars
=============================================================================
