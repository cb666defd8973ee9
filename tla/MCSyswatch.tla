----------------------------- MODULE MCSyswatch ------------------------------
(* Two threads of one priority and one above them, with syswatch and the idle  *)
(* thread; and the two threads alone.                                          *)
EXTENDS Syswatch, TLC

CONSTANTS watch, high, a, b, idle

Twins == {watch, a, b, idle}
TwinPrio == watch :> 0 @@ a :> 20 @@ b :> 20 @@ idle :> 31

MCThreads == Twins \cup {high}
MCPrio == TwinPrio @@ high :> 5
=============================================================================
