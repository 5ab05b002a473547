------------------------------ MODULE MCMaint ------------------------------
(* Maint with three requests; images of zero to three blocks, of which two *)
(* fit the file.                                                           *)
EXTENDS Maint, TLC

CONSTANTS c1, c2, c3, good, newer, wrong, huge, empty

ThreeClients == {c1, c2, c3}
MCImages     == {good, newer, wrong, huge, empty}
MCSize       == good :> 2 @@ newer :> 1 @@ wrong :> 1 @@ huge :> 3 @@ empty :> 0
MCValid      == {good, newer}
=============================================================================
