--------------------------- MODULE MCStage4Cycle ---------------------------
(* Instances of Stage4Cycle for TLC. *)
EXTENDS Stage4Cycle

CONSTANTS i1, i2, s1, s2

OneSymbol == [i \in Id |-> s1]
TwoSymbols == [i \in Id |-> IF i = i1 THEN s1 ELSE s2]

(* build_exchange_client_id: a hash of the internal id. *)
Hashed == [i \in Id |-> <<"b4", i>>]
(* One order is reported as the exchange of the repository's tests does, under the
   internal id, the other under its hash. *)
Mixed == [i \in Id |-> IF i = i1 THEN i ELSE <<"b4", i>>]
=============================================================================
