------------------------------ MODULE MCClaims ------------------------------
(* Claims with core and the bootstrap provider, which claim from each other, *)
(* and a third-party infrastructure provider that only core claims from.     *)
EXTENDS Claims

MCOrder == [w \in Workers |-> <<"core", "bootstrap">>]

\* Each export is named by its contract, but for the third-party one.
MCContractOf == [e \in Exports |-> IF e = "acme" THEN "infrastructure" ELSE e]

MCNamed == [e \in Exports |-> IF e = "bootstrap" THEN {"core"} ELSE {}]

MCWanted == [e \in Exports |-> IF e = "core" THEN {"bootstrap", "infrastructure"} ELSE {}]
=============================================================================
