--------------------------- MODULE MCFillLedger ---------------------------
(* Instances of FillLedger for TLC.  Profits are multiples of ten, so the  *)
(* split of the profit is exact.                                           *)
EXTENDS FillLedger

Buy(q, p) == [side |-> "BUY", qty |-> q, price |-> p, fee |-> 1]
Sell(q, p) == [side |-> "SELL", qty |-> q, price |-> p, fee |-> 0]

(* Sold first in, first out, a coin of the first lot wins what one of the   *)
(* second loses.                                                            *)
Kinds == {Buy(1, 10), Buy(2, 30), Sell(1, 20)}
=============================================================================
