----------------------------- MODULE MCPayouts -----------------------------
(* Four shares in one chain, or in two branches, of light and heavy shares   *)
(* by three addresses that donate nothing, half or all of their weight.       *)
EXTENDS Payouts

CONSTANTS a, b, d

From(links) == [h \in Hash |-> links[h]]
Forests == {From(<<0, 1, 2, 3>>), From(<<0, 1, 2, 2>>)}
Addresses == {a, b, d}

Of(address, attempts, donation) ==
    [address |-> address, attempts |-> attempts, donation |-> donation]
Shares == {From(<<Of(a, 1, 0), Of(d, 2, 1), Of(b, 3, 1), Of(a, 1, 2)>>)}
=============================================================================
