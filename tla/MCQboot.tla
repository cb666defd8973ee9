------------------------------ MODULE MCQboot ------------------------------
(* Small devices and packages for TLC.                                     *)
EXTENDS Qboot

CONSTANTS A, B, C

MCParts == {"app", "download", "factory"}
MCLen == [p \in MCParts |-> 4]
MCSectorOf == [p \in MCParts |-> [c \in 0 .. 3 |-> c \div 2]]

Package(part, algo_ok, verify, flush, raw, size) ==
    [part_name |-> part, algo_ok |-> algo_ok, verify |-> verify, raw_crc_ok |-> TRUE,
     flush |-> flush, raw_size |-> raw, pkg_size |-> size]

\* Two packages for app: the code of A ends before the sector of the info,
\* that of B inside it; both leave the sign in their last sector.
FwA == Package("app", TRUE, "none", TRUE, 2, 2)
FwB == Package("app", TRUE, "crc", TRUE, 3, 2)

\* C uses a compression that is not compiled in.
MCFwAlgo == [q \in Pkgs |-> CASE q = A -> FwA [] q = B -> FwB
                              [] q = C -> Package("app", FALSE, "none", FALSE, 2, 2)]
\* C is for another partition on the NOR flash, whose writes are not read
\* back, and is so long that its sign would lie outside of the partition.
MCFwPart == [q \in Pkgs |-> CASE q = A -> FwA [] q = B -> FwB
                              [] q = C -> Package("factory", TRUE, "none", FALSE, 2, 3)]
\* B is for that partition too, and asks for the CRC of its code.
MCFwSelf == [MCFwPart EXCEPT ![B] = Package("factory", TRUE, "crc", FALSE, 2, 2)]
\* Packages that end exactly at a sector boundary: the sign is in the next one.
MCFwEdge == [q \in Pkgs |-> CASE q = A -> Package("app", TRUE, "none", FALSE, 2, 1)
                              [] q = B -> Package("app", TRUE, "none", FALSE, 3, 1)]
=============================================================================
