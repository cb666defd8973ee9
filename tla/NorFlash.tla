------------------------------ MODULE NorFlash ------------------------------
(***************************************************************************)
(* The flash partitions as the boot loader sees them through FAL.          *)
(*                                                                         *)
(* A partition is a row of cells.  A cell is a stretch of flash that the   *)
(* program always writes as a unit: one fw_info_t, one block of a firmware *)
(* package, one block of released code, one release-sign word, one padding *)
(* block of a transfer.  Cells lie in erase sectors (the 128 KB sectors    *)
(* of the on-chip flash, the 4 KB sectors of the SPI NOR flash).           *)
(***************************************************************************)
EXTENDS Integers

CONSTANTS
    Parts,      \* the names of the FAL partitions
    Len,        \* Len[p]: the cells of partition p (fal_partition.len)
    SectorOf,   \* SectorOf[p][c]: the erase sector, counted from 0, of cell c
    OnChip,     \* the partitions on the MCU's own flash (writes are read back)
    Pkgs,       \* the firmware packages that exist in the world
    NoPkg       \* "no package": the content of a cell that belongs to none

\* The cells of a partition.
Cells(p) == 0 .. Len[p] - 1

ASSUME FlashAssumption ==
    /\ Len \in [Parts -> Nat \ {0}]
    /\ OnChip \subseteq Parts
    /\ NoPkg \notin Pkgs
    /\ \A p \in Parts : SectorOf[p] \in [Cells(p) -> Nat]
    /\ \A p \in Parts : SectorOf[p][0] = 0
    /\ \A p \in Parts : \A c, d \in Cells(p) :
            c <= d => SectorOf[p][c] <= SectorOf[p][d]

-----------------------------------------------------------------------------
(* What a cell can hold.                                                   *)

Kinds == {"blank", "torn", "sign", "pad", "info", "pkg", "raw"}
Cell == [kind : Kinds, pkg : Pkgs \cup {NoPkg}, idx : Nat]

\* All bits one: what an erase leaves behind.
Blank == [kind |-> "blank", pkg |-> NoPkg, idx |-> 0]
\* Bits that are neither the old nor the new content.
Torn == [kind |-> "torn", pkg |-> NoPkg, idx |-> 0]
\* The release sign: a word of zeros.
Sign == [kind |-> "sign", pkg |-> NoPkg, idx |-> 0]
\* The filler (0x1A) after the last byte of a transferred file.
Pad == [kind |-> "pad", pkg |-> NoPkg, idx |-> 0]
\* The fw_info_t of package q: the head of the package and the tail of the
\* partition the package was released to.
Info(q) == [kind |-> "info", pkg |-> q, idx |-> 0]
\* Block i (from 1) of the body of package q.
PkgCell(q, i) == [kind |-> "pkg", pkg |-> q, idx |-> i]
\* Block i (from 0) of the code that package q contains.
RawCell(q, i) == [kind |-> "raw", pkg |-> q, idx |-> i]

-----------------------------------------------------------------------------
(* The two operations of a NOR flash, on the content f of a partition.     *)

\* Programming can only clear bits: it yields the new value on a blank cell,
\* zeros stay zeros, and anything else is the AND of two unrelated values.
Program(old, new) ==
    IF old = Blank \/ new = Sign \/ new = old THEN new ELSE Torn

\* The partition p after cell c was programmed with v.
Programmed(f, c, v) == [f EXCEPT ![c] = Program(f[c], v)]

\* The partition p after sector s was erased.
SectorErased(f, p, s) ==
    [c \in Cells(p) |-> IF SectorOf[p][c] = s THEN Blank ELSE f[c]]

\* An operation that was to turn partition content f into g and was cut short
\* has treated every cell in its own way.
Interrupted(f, g, how) ==
    [c \in DOMAIN f |-> IF f[c] = g[c] \/ how[c] = "old" THEN f[c]
                        ELSE IF how[c] = "new" THEN g[c] ELSE Torn]

\* The ways an operation from f to g can be cut short.
Ways(f, g) == [{c \in DOMAIN f : f[c] # g[c]} -> {"old", "new", "torn"}]

\* fal_partition_read/write/erase: is [addr, addr+size) inside the partition?
InBounds(p, addr, size) == addr + size <= Len[p]

=============================================================================
