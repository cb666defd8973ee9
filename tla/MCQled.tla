------------------------------- MODULE MCQled --------------------------------
(* LEDs that are lit by different levels, more of them than slots.             *)
EXTENDS Qled, TLC

CONSTANTS a, b, c

MCWired == a :> TRUE @@ b :> FALSE @@ c :> TRUE
MCPatterns == {<<1>>, <<0, 2>>}
MCBehind == [s \in MCPatterns |-> Len(s) + 1]
==============================================================================
