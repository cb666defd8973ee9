----------------------------- MODULE MCPipeline -----------------------------
(* Packages as the packager makes them, in units: reads of 6, buffers and  *)
(* compressed blocks of 12, remainders of up to 2, AES blocks of 3.        *)
EXTENDS Pipeline

CONSTANTS NoneRaws, GzipRaws, Streams, LastLens, BlockSizes, MaxBlocks

AES == 3

\* FileStreamToByte: an encrypted body always gets at least one unit of filler.
Size(crypt, stream) == IF crypt THEN RoundUp(stream + 1, AES) ELSE stream

Plain == {[cmprs |-> "none", crypt |-> c, raw |-> r, stream |-> r,
           size |-> Size(c, r), blocks |-> <<>>] : c \in BOOLEAN, r \in NoneRaws}

Zipped == {[cmprs |-> "gzip", crypt |-> c, raw |-> r, stream |-> s,
            size |-> Size(c, s), blocks |-> <<>>] :
            c \in BOOLEAN, r \in GzipRaws, s \in Streams}

\* Blocks of BUF_SIZE units of code, the last one of "last" units, that were
\* compressed to the given sizes.
Start0[sizes \in Seq(BlockSizes), k \in Nat] ==
    IF k = 1 THEN 0 ELSE Start0[sizes, k - 1] + HDR_SIZE + sizes[k - 1]
Blocked(c, sizes, last) ==
    LET n == Len(sizes)
        stream == Start0[sizes, n + 1]
    IN [cmprs |-> "block", crypt |-> c, raw |-> BUF_SIZE * (n - 1) + last,
        stream |-> stream, size |-> Size(c, stream),
        blocks |-> [k \in 1 .. n |->
            [at |-> Start0[sizes, k], size |-> sizes[k], start |-> BUF_SIZE * (k - 1),
             len |-> IF k = n THEN last ELSE BUF_SIZE]]]
Blocks == {Blocked(c, sizes, last) : c \in BOOLEAN, last \in LastLens,
           sizes \in UNION {[1 .. n -> BlockSizes] : n \in 1 .. MaxBlocks}}

MCPackages == Plain \cup Zipped \cup Blocks

\* A second package only comes after and before packages of a few sizes.
CONSTANT Repeated
Small == {q \in Packages : q.raw \in Repeated /\ q.stream \in Repeated}
Startable ==
    IF jobs = 0 THEN Packages ELSE IF pkg \in Small THEN Small ELSE {}
MCNext == (\E q \in Startable, j \in {"crc", "release"} : Start(q, j)) \/ Work
MCSpec == Init /\ [][MCNext]_vars /\ WF_vars(Work)
=============================================================================
