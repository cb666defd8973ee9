------------------------------ MODULE Pipeline ------------------------------
(***************************************************************************)
(* How the body of a firmware package becomes code: the loops of           *)
(* qbt_fw_release (which writes the code to the destination) and of        *)
(* qbt_app_crc_check (which only computes its CRC), with the buffers that  *)
(* they and the decompressors share.                                       *)
(*                                                                         *)
(* A body is a row of units 0 .. size-1, the code a row of units           *)
(* 0 .. raw-1.  A unit is known by its position: that is all it takes to   *)
(* see whether the code arrives whole, in order and once.                  *)
(***************************************************************************)
EXTENDS Integers, Sequences

CONSTANTS
    READ_SIZE,      \* QBOOT_CMPRS_READ_SIZE
    BUF_SIZE,       \* QBOOT_BUF_SIZE: the size of crypt_buf
    REMAIN_SIZE,    \* GZIP_REMAIN_BUF_SIZE
    HDR_SIZE,       \* QBOOT_QUICKLZ_BLOCK_HDR_SIZE, QBOOT_FASTLZ_BLOCK_HDR_SIZE
    SECTOR,         \* the erase granule of the destination
    DstLen,         \* the units of the destination that are modelled
    Packages,       \* the packages that may be handled
    Faults,         \* what may fail: "read", "write", "memory",
                    \* "flush" and "init"
    MaxJobs         \* bound: how many packages are handled in one start

(* A package: cmprs is its compression ("block" is QuickLZ or FastLZ),     *)
(* crypt says whether it is AES encrypted, size and raw are pkg_size and   *)
(* raw_size.  The packager fills an encrypted body up, so the compressed   *)
(* stream is its first stream units.  Block k has its header at unit at,   *)
(* is size units long without it, and holds the len code units from start. *)
Block == [at : Nat, size : Nat \ {0}, start : Nat, len : Nat \ {0}]
Package == [cmprs : {"none", "gzip", "block"}, crypt : BOOLEAN, raw : Nat \ {0},
            stream : Nat \ {0}, size : Nat \ {0}, blocks : Seq(Block)]

\* The blocks of q follow each other without gaps, in the body and in the code.
\* (The last two conjuncts follow from the others.)
Tiled(q) ==
    LET n == Len(q.blocks)
        b == q.blocks
    IN
    /\ n > 0
    /\ b[1].at = 0 /\ b[1].start = 0
    /\ \A k \in 1 .. n - 1 : /\ b[k + 1].at = b[k].at + HDR_SIZE + b[k].size
                             /\ b[k + 1].start = b[k].start + b[k].len
    /\ b[n].at + HDR_SIZE + b[n].size = q.stream /\ b[n].start + b[n].len = q.raw
    /\ \A k \in 1 .. n : /\ b[k].at + HDR_SIZE + b[k].size <= q.stream
                         /\ b[k].start + b[k].len <= q.raw
    /\ \A j, k \in 1 .. n : j # k => b[j].at # b[k].at

ASSUME PipelineAssumption ==
    /\ Packages # {}
    /\ {READ_SIZE, BUF_SIZE, REMAIN_SIZE, HDR_SIZE, SECTOR, DstLen} \subseteq Nat \ {0}
    /\ REMAIN_SIZE < BUF_SIZE
    /\ SECTOR % READ_SIZE = 0 /\ SECTOR % REMAIN_SIZE = 0
    /\ MaxJobs \in Nat
    /\ Faults \subseteq {"read", "write", "memory", "flush", "init"}
    /\ \A q \in Packages :
        /\ q \in Package
        /\ q.stream <= q.size /\ q.raw + SECTOR <= DstLen
        /\ q.cmprs = "none" => q.stream = q.raw
        /\ q.cmprs = "block" => Tiled(q)

CMPRS_BUF_SIZE == BUF_SIZE + READ_SIZE

-----------------------------------------------------------------------------
(* What a unit of a buffer or of the destination can hold, besides the     *)
(* position of a unit of code (a natural number).                          *)
Erased == -1        \* all bits one
Filler == -2        \* what the packager fills an encrypted body up with
Garbage == -3       \* a unit that was decrypted out of step
Torn == -4          \* programmed twice
Old == -5           \* left from before the release

Units == Nat \cup {Erased, Filler, Garbage, Torn, Old}

\* The n consecutive positions from a.
Row(a, n) == [i \in 1 .. n |-> a + i - 1]
First(s, n) == SubSeq(s, 1, n)
From(s, n) == SubSeq(s, n + 1, Len(s))
Least(a, b) == IF a <= b THEN a ELSE b
RoundUp(n, unit) == ((n + unit - 1) \div unit) * unit

VARIABLES
    pc,         \* where the program is, see Pc
    job,        \* "crc": qbt_app_crc_check, "release": qbt_fw_release
    pkg,        \* fw_info: the package being handled
    jobs,       \* how many packages were handled
    fault,      \* what has failed in this job
    src,        \* src_read_pos, without the sizeof(fw_info_t)
    ivpos,      \* how many units qbt_aes_iv has been carried over
    cbuf,       \* the first cmprs_len units of cmprs_buf
    pos,        \* dst_write_pos or app_cal_pos
    wlen,       \* write_len of the call under way
    zlive,      \* did inflateInit2 succeed?
    zmax,       \* how many units of code the input of inflate amounts to
    zout,       \* how many units inflate has delivered
    remain,     \* gzip_remain_buf
    dst,        \* the destination
    crc         \* the units that went into crc32

vars == <<pc, job, pkg, jobs, fault, src, ivpos, cbuf, pos, wlen, zlive, zmax, zout, remain, dst, crc>>

\* "loop" is the head of the loop over the body; "none", "gzip" and "block"
\* are inside of qbt_dest_part_write or qbt_app_crc_cal.
Pc == {"idle", "loop", "none", "gzip", "block", "done", "failed"}

TypeOK ==
    /\ pc \in Pc
    /\ job \in {"crc", "release"}
    /\ pkg \in Packages
    /\ jobs \in 0 .. MaxJobs
    /\ fault \subseteq Faults
    /\ src \in Nat /\ ivpos \in Nat
    /\ cbuf \in Seq(Units)
    /\ pos \in Nat /\ wlen \in Nat
    /\ zlive \in BOOLEAN /\ zmax \in Nat /\ zout \in 0 .. zmax
    /\ remain \in Seq(Units) /\ Len(remain) < REMAIN_SIZE
    /\ dst \in [0 .. DstLen - 1 -> Units]
    /\ crc \in Seq(Units)

Init ==
    /\ pc = "idle" /\ job = "release" /\ pkg = (CHOOSE q \in Packages : TRUE)
    /\ jobs = 0 /\ fault = {}
    /\ src = 0 /\ ivpos = 0 /\ cbuf = <<>> /\ pos = 0 /\ wlen = 0
    /\ zlive = FALSE /\ zmax = 0 /\ zout = 0 /\ remain = <<>>
    /\ dst = [a \in 0 .. DstLen - 1 |-> Old]
    /\ crc = <<>>

-----------------------------------------------------------------------------
\* Programming units into the destination content d from address a on.
Written(d, a, units) ==
    [x \in DOMAIN d |->
        IF x \notin a .. a + Len(units) - 1 THEN d[x]
        ELSE LET new == units[x - a + 1] IN
             CASE d[x] = Erased -> new
               [] new = Erased -> d[x]
               [] OTHER -> Torn]

\* Code beyond max_cal_len does not go into the CRC.
Clamped(units) == First(units, Least(Len(units), pkg.raw - pos))

\* What one call has produced goes to the destination, or into the CRC.
Put(units) ==
    IF job = "release"
    THEN dst' = Written(dst, pos + wlen, units) /\ UNCHANGED crc
    ELSE crc' = crc \o Clamped(units) /\ UNCHANGED dst

\* How much of it write_len counts.
Counted(units) == IF job = "release" THEN Len(units) ELSE Len(Clamped(units))

\* The call of qbt_dest_part_write (qbt_app_crc_cal) returns write_len = w.
CallReturns(w) == pc' = "loop" /\ pos' = pos + w /\ wlen' = 0

\* A failing call ends the job.
Fail(what) ==
    /\ what \in Faults
    /\ pc' = "failed" /\ fault' = fault \cup {what}

-----------------------------------------------------------------------------
(* A job starts: the decryption and the decompression are initialised.     *)
(* Each of them only touches the state of the algorithm that it selects.   *)

\* (mutant: the chain of the previous package is carried on)
DecryptInitOnce(q) == UNCHANGED ivpos
DecryptInit(q) == ivpos' = IF q.crypt THEN 0 ELSE ivpos

\* (mutant: gzip_remain_len = 0 is missing)
DecompressInitStale(q) ==
    IF q.cmprs = "gzip"
    THEN zlive' = TRUE /\ zmax' = 0 /\ zout' = 0 /\ fault' = {} /\ UNCHANGED remain
    ELSE fault' = {} /\ UNCHANGED <<zlive, zmax, zout, remain>>
DecompressInit(q) ==
    IF q.cmprs = "gzip"
    THEN /\ fault' \in SUBSET (Faults \cap {"init"})
         /\ zlive' = (fault' = {})
         /\ zmax' = 0 /\ zout' = 0 /\ remain' = <<>>
    ELSE fault' = {} /\ UNCHANGED <<zlive, zmax, zout, remain>>

\* (mutant: the last sector, of which only a part is needed, is left out)
ErasedShort(q) ==
    [a \in DOMAIN dst |-> IF a < (q.raw \div SECTOR) * SECTOR THEN Erased ELSE dst[a]]
\* The release erases as much as the code needs, in whole sectors.
ErasedFor(q) ==
    [a \in DOMAIN dst |-> IF a < RoundUp(q.raw, SECTOR) THEN Erased ELSE dst[a]]

Start(q, j) ==
    /\ pc \in {"idle", "done", "failed"} /\ jobs < MaxJobs
    /\ job' = j /\ pkg' = q /\ jobs' = jobs + 1
    /\ DecryptInit(q) /\ DecompressInit(q)
    /\ src' = 0 /\ cbuf' = <<>> /\ pos' = 0 /\ wlen' = 0 /\ crc' = <<>>
    /\ dst' = IF j = "release" THEN ErasedFor(q) ELSE dst
    /\ pc' = "loop"

-----------------------------------------------------------------------------
(* One turn of the loop: read a stretch of the body behind what is left in *)
(* cmprs_buf, then call qbt_dest_part_write or qbt_app_crc_cal.            *)

ReadLen == Least(READ_SIZE, pkg.size - src)

\* Decryption is in step only if every unit before went through it.
qbt_fw_pkg_read ==
    [i \in 1 .. ReadLen |->
        IF pkg.crypt /\ ivpos # src THEN Garbage
        ELSE IF src + i - 1 < pkg.stream THEN src + i - 1 ELSE Filler]

\* What inflate can make of the input is up to the stream: all of the code,
\* once the stream is at its end.  Without a stream (Z_STREAM_ERROR, which
\* qbt_gzip_decompress does not tell from "no output") it makes nothing of it.
Inflatable(fed) ==
    IF ~zlive THEN {zmax}
    ELSE IF fed >= pkg.stream THEN {pkg.raw} ELSE zmax .. pkg.raw

ReadFails ==
    /\ pc = "loop" /\ pos < pkg.raw
    /\ Fail("read")
    /\ UNCHANGED <<job, pkg, jobs, src, ivpos, cbuf, pos, wlen, zlive, zmax, zout, remain, dst, crc>>

Read ==
    /\ pc = "loop" /\ pos < pkg.raw
    /\ src' = src + ReadLen
    /\ ivpos' = IF pkg.crypt THEN ivpos + ReadLen ELSE ivpos
    /\ cbuf' = cbuf \o qbt_fw_pkg_read
    /\ CASE pkg.cmprs = "none" -> pc' = "none" /\ UNCHANGED zmax
         [] pkg.cmprs = "block" -> pc' = "block" /\ UNCHANGED zmax
         [] pkg.cmprs = "gzip" -> pc' = "gzip" /\ zmax' \in Inflatable(src')
    /\ UNCHANGED <<job, pkg, jobs, fault, pos, wlen, zlive, zout, remain, dst, crc>>

\* The loop is left when raw_size is reached.  The CRC is compared then.
Leave ==
    /\ pc = "loop" /\ pos >= pkg.raw
    /\ pc' = IF job = "crc" /\ crc # Row(0, pkg.raw) THEN "failed" ELSE "done"
    /\ UNCHANGED <<job, pkg, jobs, fault, src, ivpos, cbuf, pos, wlen, zlive, zmax, zout, remain, dst, crc>>

\* No compression: what was read is the code.
CopyOut ==
    /\ pc = "none"
    /\ Put(cbuf)
    /\ CallReturns(Counted(cbuf))
    /\ cbuf' = <<>>
    /\ UNCHANGED <<job, pkg, jobs, fault, src, ivpos, zlive, zmax, zout, remain>>

-----------------------------------------------------------------------------
(* gzip: inflate may hand out any number of units.  Only multiples of      *)
(* REMAIN_SIZE are written; the rest waits in gzip_remain_buf, and is      *)
(* filled up and written once a short read shows that the body is at its   *)
(* end.                                                                    *)

\* How much fits into the buffer behind the remainder, and how much comes.
Space == BUF_SIZE - Len(remain)
Inflated == Least(Space, zmax - zout)
IsEnd == Inflated < Space

\* The remainder and what came behind it, cut at a multiple of REMAIN_SIZE.
Gathered == remain \o Row(zout, Inflated)
\* (mutant: a full remainder is kept back too)
WholeStrict == First(Gathered, ((Len(Gathered) - 1) \div REMAIN_SIZE) * REMAIN_SIZE)
\* (mutant: nothing is kept back)
WholeAll == Gathered
Whole == First(Gathered, Len(Gathered) - (Len(Gathered) % REMAIN_SIZE))
\* (mutant: the remainder is taken from the front)
RestStale == First(Gathered, Len(Gathered) - Len(Whole))
Rest == From(Gathered, Len(Whole))

\* (mutant: nothing is done when nothing was read)
FlushesSome == IsEnd /\ Len(cbuf) < READ_SIZE /\ Len(cbuf) > 0 /\ Len(Rest) > 0
\* Is this the end of the last read, with a remainder to flush?
Flushes == IsEnd /\ Len(cbuf) < READ_SIZE /\ Len(Rest) > 0

\* Units that were decrypted out of step make no stream.
Garbled == \E i \in DOMAIN cbuf : cbuf[i] = Garbage

FilledUp(units) == units \o [i \in 1 .. REMAIN_SIZE - Len(units) |-> Erased]

\* The flush as the release does it; whether the write succeeds is not asked.
Flushed(d, a) ==
    \/ dst' = Written(d, a, FilledUp(Rest)) /\ UNCHANGED fault
    \/ "flush" \in Faults /\ dst' = d /\ fault' = fault \cup {"flush"}

\* In the CRC pass the remainder that is flushed is clamped as well.
GzipRound ==
    LET whole == IF job = "release" THEN Whole ELSE Clamped(Whole)
        rest == IF job = "crc" /\ Flushes THEN Clamped(Rest) ELSE Rest
        flush == IF ~Flushes THEN 0 ELSE IF job = "release" THEN REMAIN_SIZE ELSE Len(rest)
        w == wlen + Len(whole) + flush
    IN
    /\ pc = "gzip" /\ ~Garbled
    /\ zout' = zout + Inflated /\ remain' = rest
    /\ IF job = "release"
       THEN /\ LET d == Written(dst, pos + wlen, whole)
              IN IF Flushes THEN Flushed(d, pos + wlen + Len(whole))
                 ELSE dst' = d /\ UNCHANGED fault
            /\ UNCHANGED crc
       ELSE /\ crc' = crc \o whole \o (IF Flushes THEN rest ELSE <<>>)
            /\ UNCHANGED <<dst, fault>>
    /\ IF IsEnd THEN CallReturns(w) /\ cbuf' = <<>>
       ELSE wlen' = w /\ UNCHANGED <<pc, pos, cbuf>>
    /\ UNCHANGED <<job, pkg, jobs, src, ivpos, zlive, zmax>>

\* inflate fails: no memory for its window, or no sense in its input.
GzipFails ==
    /\ pc = "gzip"
    /\ \/ Fail("memory")
       \/ Garbled /\ pc' = "failed" /\ UNCHANGED fault
    /\ cbuf' = <<>>
    /\ UNCHANGED <<job, pkg, jobs, src, ivpos, pos, wlen, zlive, zmax, zout, remain, dst, crc>>

-----------------------------------------------------------------------------
(* QuickLZ and FastLZ: whole blocks are taken from the front of cmprs_buf, *)
(* and the rest is moved up.                                               *)

\* (mutant: a block that fills the buffer exactly is not taken)
HeadBlocksLate ==
    {k \in DOMAIN pkg.blocks :
        /\ HDR_SIZE + pkg.blocks[k].size < Len(cbuf)
        /\ First(cbuf, HDR_SIZE + pkg.blocks[k].size)
              = Row(pkg.blocks[k].at, HDR_SIZE + pkg.blocks[k].size)}
\* The blocks whose header is at the front of cmprs_buf.  There is none when
\* the front is filler: the size it then shows is never reached.
HeadBlocks ==
    {k \in DOMAIN pkg.blocks :
        /\ HDR_SIZE + pkg.blocks[k].size <= Len(cbuf)
        /\ First(cbuf, HDR_SIZE + pkg.blocks[k].size)
              = Row(pkg.blocks[k].at, HDR_SIZE + pkg.blocks[k].size)}

BlockRound ==
    /\ pc = "block"
    /\ \E k \in HeadBlocks :
        LET b == pkg.blocks[k] IN
        /\ Put(Row(b.start, b.len))
        /\ wlen' = wlen + Counted(Row(b.start, b.len))
        /\ cbuf' = From(cbuf, HDR_SIZE + b.size)
    /\ UNCHANGED <<pc, job, pkg, jobs, fault, src, ivpos, pos, zlive, zmax, zout, remain>>

\* No whole block is left: the call returns and keeps what it has.
BlockEnd ==
    /\ pc = "block" /\ HeadBlocks = {}
    /\ CallReturns(wlen)
    /\ UNCHANGED <<job, pkg, jobs, fault, src, ivpos, cbuf, zlive, zmax, zout, remain, dst, crc>>

\* A write to the destination fails, in any of the three ways.  What inflate has
\* delivered is cut, and the new remainder kept, before the rest is written.
WriteFails ==
    /\ job = "release" /\ Fail("write")
    /\ \/ pc = "none" /\ UNCHANGED <<cbuf, zout, remain>>
       \/ pc = "block" /\ HeadBlocks # {} /\ cbuf' = <<>> /\ UNCHANGED <<zout, remain>>
       \/ pc = "gzip" /\ ~Garbled /\ Len(Whole) > 0
            /\ cbuf' = <<>> /\ zout' = zout + Inflated /\ remain' = Rest
    /\ UNCHANGED <<job, pkg, jobs, src, ivpos, pos, wlen, zlive, zmax, dst, crc>>

-----------------------------------------------------------------------------
Work == ReadFails \/ Read \/ Leave \/ CopyOut \/ GzipRound \/ GzipFails
        \/ BlockRound \/ BlockEnd \/ WriteFails

Next == (\E q \in Packages, j \in {"crc", "release"} : Start(q, j)) \/ Work

\* A job runs on one thread and goes on until it ends.
Spec == Init /\ [][Next]_vars /\ WF_vars(Work)

-----------------------------------------------------------------------------
(* Properties.                                                             *)

\* The write of the last remainder of a gzip stream is not checked: if it
\* fails, the last units of the code may be missing.
Lost(a) ==
    /\ "flush" \in fault /\ pkg.cmprs = "gzip" /\ dst[a] = Erased
    /\ pos >= pkg.raw /\ a >= pkg.raw - (pkg.raw % REMAIN_SIZE)

\* Whatever the sizes of reads, buffers and blocks, and whatever fails: at
\* every moment, and so when the release counts as done, the code up to the
\* write position is at its place, but for the remainder that an unchecked
\* write has lost, and the erased flash behind it is empty
\* (qbt_dest_part_write).
ReleasedInOrder ==
    (job = "release" /\ pc # "idle") =>
        /\ pc = "done" => pos >= pkg.raw
        /\ \A a \in 0 .. Least(pos + wlen, pkg.raw) - 1 : dst[a] = a \/ Lost(a)
        /\ \A a \in pos + wlen .. RoundUp(pkg.raw, SECTOR) - 1 : dst[a] \in {Erased, Torn}

\* The CRC pass never turns down an intact package, and the release never
\* gives one up, unless a call on the flash or for memory failed: nothing is
\* left over from the package that was handled before (qbt_app_crc_check).
NoFalseAlarm == pc = "failed" => fault \cap {"read", "write", "memory", "init"} # {}

\* No write of the release reaches flash that it has not erased, although it
\* writes the filler of the last read and of the last remainder beyond
\* raw_size (qbt_fw_release erases raw_size only).
WritesOnErased == \A a \in DOMAIN dst : dst[a] # Torn

\* cmprs_buf has room for what is kept of an incomplete block and one read
\* (QBOOT_CMPRS_BUF_SIZE).
BufferHolds == Len(cbuf) <= CMPRS_BUF_SIZE

\* The gzip path writes nothing but multiples of REMAIN_SIZE at multiples of
\* REMAIN_SIZE, as flash with wide words asks for.
AlignedWrites ==
    [][pc = "gzip" /\ dst' # dst =>
        (pos + wlen) % REMAIN_SIZE = 0 /\ (pos + wlen)' % REMAIN_SIZE = 0]_vars

\* Every job ends, with the body used up exactly: the loop does not go on
\* reading zero units for ever (the while loops of qbt_fw_release and
\* qbt_app_crc_check have no other way out), unless the stream of inflate
\* was never initialised.
Terminates == pc = "loop" ~> pc \in {"done", "failed"} \/ "init" \in fault

=============================================================================
