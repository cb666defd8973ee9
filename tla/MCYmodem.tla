------------------------------ MODULE MCYmodem ------------------------------
(* Sessions of one or two short files for TLC.                             *)
EXTENDS YmodemRecv

CONSTANTS MaxFiles, MaxBlocks, Headers, Purges, Sized

RECURSIVE Total(_)
Total(s) == IF s = <<>> THEN 0 ELSE Head(s) + Total(Tail(s))

BlockLists == UNION {[1 .. n -> {1, LONG}] : n \in 0 .. MaxBlocks}
MCFiles == {[announced |-> IF z THEN Total(bs) ELSE 0, blocks |-> bs, header |-> h] :
            bs \in BlockLists, h \in Headers, z \in Sized}
MCSessions == {[files |-> fs, purges |-> p] :
               fs \in UNION {[1 .. n -> MCFiles] : n \in 1 .. MaxFiles}, p \in Purges}
=============================================================================
