------------------------------ MODULE MC_SendMany ------------------------------
(* Two operations over a wallet with two transparent addresses, one of     *)
(* them holding a coinbase output, and one Sapling and one Sprout address. *)
EXTENDS SendMany

CONSTANTS ta, tb, zs, zp, c1, c2, c3, n1, n2

MCOwner == (c1 :> ta) @@ (c2 :> ta) @@ (c3 :> tb) @@ (n1 :> zs) @@ (n2 :> zp)
MCVal   == (c1 :> 5) @@ (c2 :> 3) @@ (c3 :> 2) @@ (n1 :> 4) @@ (n2 :> 3)
MCPool  == (ta :> "t") @@ (tb :> "t") @@ (zs :> "sapling") @@ (zp :> "sprout")

\* Transparent amounts are at least the dust threshold, so a recipient
\* output is never dust.
MCRecipients ==
    { {[to |-> "sapling", amount |-> 3]},
      {[to |-> "sapling", amount |-> 7]},
      {[to |-> "t", amount |-> 2]},
      {[to |-> "t", amount |-> 2], [to |-> "sapling", amount |-> 5]},
      {[to |-> "sprout", amount |-> 2]} }

\* minDepth 0 and allowRevealedAmounts only matter to the constructor.
MCRequests ==
    {r \in [from : {ta, AnyTaddr, zs, zp}, recipients : MCRecipients, fee : {1},
            minDepth : {0, 1}, allowRevealed : BOOLEAN] :
        r.allowRevealed => r.minDepth = 1}
====
