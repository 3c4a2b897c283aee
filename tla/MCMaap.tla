------------------------------- MODULE MCMaap -------------------------------
EXTENDS Maap, TLC

CONSTANTS a, b

MacAB == a :> 1 @@ b :> 2

TwoAndOne == a :> 2 @@ b :> 1
=============================================================================
