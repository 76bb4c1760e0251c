----------------------------- MODULE MCChannel ------------------------------
(* Instances of Channel for TLC. *)
EXTENDS Channel

Claim(nonce, amount) == [nonce |-> nonce, amount |-> amount]

\* Two claims as an honest client signs them, one beyond the deposit (3), one
\* whose signature is wrong.
HonestSigned == {Claim(1, 1), Claim(2, 2), Claim(3, 4)}
HonestClaims == HonestSigned \cup {Claim(4, 3)}

\* A client that signs a lower amount under a higher nonce.
CrossedClaims == {Claim(1, 2), Claim(2, 1)}

OneClaim == {Claim(1, 1)}
=============================================================================
