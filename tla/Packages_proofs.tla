-------------------------- MODULE Packages_proofs --------------------------
(***************************************************************************)
(* A proof that qboot never damages a package it may need again.  Nothing  *)
(* but the destination of the work under way is ever written, except that  *)
(* the release sign goes into the partition of the package itself: behind  *)
(* the package, as long as the package is still the one the sign is for.   *)
(***************************************************************************)
EXTENDS Qboot_proofs

\* The static fw_info, from which the place of the sign is computed, still
\* describes what lies in the source.
SourceOK == pc \in {"verify", "sign"} /\ src # dst => PkgIntact(src, fw)

PkgInv == Inv /\ SourceOK

-----------------------------------------------------------------------------
(* What a step writes.                                                     *)

\* Every step leaves the flash alone, completes the operation that is under
\* way, or cuts it short.
LEMMA WritesTarget ==
    ASSUME Next
    PROVE  \/ flash' = flash
           \/ flash' = [flash EXCEPT ![Target] = Goal]
           \/ CutShort
<1>1. CASE BootStep
  <2>1. CASE \/ Startup \/ KeyWatch \/ KeyReleased \/ EnterTimeout \/ LastShell
             \/ JumpLegit \/ JumpRefused \/ CheckFails \/ AlreadyReleased
             \/ Refused \/ StartRelease \/ ReleaseGarbled \/ Verify
    BY <2>1 DEF Startup, KeyWatch, KeyReleased, EnterTimeout, LastShell, JumpLegit,
       JumpRefused, CheckFails, AlreadyReleased, Refused, StartRelease, ReleaseGarbled, Verify
  <2>2. CASE ReleaseErase \/ ReleaseEraseTail \/ ReleaseWrite \/ ReleaseInfo
    BY <2>2 DEF ReleaseErase, ReleaseEraseTail, ReleaseWrite, ReleaseInfo, EraseSector,
       Target, Goal, ReleasePc
  <2>3. CASE WriteSign
    BY <2>3 DEF WriteSign, Target, Goal, ReleasePc, ClonePc, DlPc
  <2>4. CASE CloneErase \/ CloneWrite \/ DelErase
    BY <2>4 DEF CloneErase, CloneWrite, DelErase, EraseSector, Target, Goal, ClonePc
  <2> QED BY <1>1, <2>1, <2>2, <2>3, <2>4 DEF BootStep
<1>2. CASE User
  BY <1>2 DEF User, KeyHeld, EnterPressed, Reboot, Command, CmdProbe, CmdJump, CmdAsserts,
     CmdResume, CmdRelease, CmdVerify, CmdDel, CmdClone
<1>3. CASE Download
  <2>1. CASE DlErase \/ DlWrite \/ DlPad
    BY <2>1 DEF DlErase, DlWrite, DlPad, EraseSector, Target, Goal, DlPc
  <2>2. CASE (\E q \in Pkgs, p \in DlParts : DlBegin(q, p)) \/ DlAbort
    BY <2>2 DEF DlBegin, DlAbort
  <2> QED BY <1>3, <2>1, <2>2 DEF Download
<1>4. CASE Failure
  BY <1>4 DEF Failure, StartupFails, LastShellFails, PowerLoss, FlashFault, SyswatchRestarts
<1> QED BY <1>1, <1>2, <1>3, <1>4 DEF Next

\* Outside of the destination only the cell of the sign can change, and only in
\* the source, while the sign is written.
LEMMA WritesElsewhere ==
    ASSUME Inv, Next, NEW p \in Parts, p # dst
    PROVE  \/ flash'[p] = flash[p]
           \/ /\ pc = "sign" /\ p = src
              /\ \A c \in Cells(p) : c # SignCell(fw) => flash'[p][c] = flash[p][c]
<1>1. Target \in Parts /\ Goal \in [Cells(Target) -> Cell]
  BY GoalType
<1>2. /\ flash[Target] \in [Cells(Target) -> Cell] /\ flash[p] \in [Cells(p) -> Cell]
      /\ FlashOK
  BY <1>1 DEF Inv, FlashOK
<1>3. \/ flash' = flash
      \/ \E g : /\ flash' = [flash EXCEPT ![Target] = g]
                /\ g \in [Cells(Target) -> Cell]
                /\ \A c \in Cells(Target) : Goal[c] = flash[Target][c] => g[c] = flash[Target][c]
  <2>1. CASE CutShort
    <3>1. PICK how \in Ways(flash[Target], Goal) :
            flash' = [flash EXCEPT ![Target] = Interrupted(flash[Target], Goal, how)]
      BY <2>1 DEF CutShort
    <3>2. Interrupted(flash[Target], Goal, how) \in [Cells(Target) -> Cell]
      BY <1>1, <1>2, ImageTypes
    <3>3. \A c \in Cells(Target) : Goal[c] = flash[Target][c] =>
                Interrupted(flash[Target], Goal, how)[c] = flash[Target][c]
      BY <1>2 DEF Interrupted
    <3> QED BY <3>1, <3>2, <3>3
  <2>2. CASE flash' = [flash EXCEPT ![Target] = Goal]
    BY <1>1, <2>2
  <2> QED BY <2>1, <2>2, WritesTarget
<1>4. CASE p # Target \/ flash' = flash
  BY <1>1, <1>2, <1>3, <1>4, FlashUpdate
<1>5. CASE p = Target /\ flash' # flash
  <2>1. PICK g : /\ flash' = [flash EXCEPT ![Target] = g]
                 /\ g \in [Cells(Target) -> Cell]
                 /\ \A c \in Cells(Target) : Goal[c] = flash[Target][c] => g[c] = flash[Target][c]
    BY <1>3, <1>5
  <2>2. flash'[p] = g
    BY <1>1, <1>2, <1>5, <2>1, FlashUpdate
  <2>3. pc \notin ReleasePc \cup ClonePc \cup DlPc \cup {"del_erase"}
    BY <1>5 DEF Target
  <2>4. CASE pc = "sign"
    <3>1. p = src /\ Goal = SignImage(fw)
      BY <1>5, <2>3, <2>4 DEF Target, Goal
    <3>2. \A c \in Cells(p) : c # SignCell(fw) => Goal[c] = flash[p][c]
      BY <1>2, <3>1 DEF SignImage, Programmed
    <3> QED BY <1>5, <2>1, <2>2, <2>4, <3>1, <3>2
  <2>5. CASE pc # "sign"
    <3>1. Target = AppPart /\ Goal = flash[AppPart]
      BY <2>3, <2>5 DEF Target, Goal, ReleasePc, ClonePc, DlPc
    <3>2. \A c \in Cells(p) : g[c] = flash[p][c]
      BY <1>5, <2>1, <3>1
    <3>3. g = flash[p]
      BY <1>2, <1>5, <2>1, <3>2
    <3> QED BY <2>2, <3>3
  <2> QED BY <2>4, <2>5
<1> QED BY <1>4, <1>5

-----------------------------------------------------------------------------
(* The source of a release.                                                *)

\* The steps into the verification and to the sign keep the source; every other
\* step leaves them.
LEMMA SourceStep ==
    ASSUME PkgInv, Next PROVE SourceOK'
<1>1. CASE pc' \notin {"verify", "sign"}
  BY <1>1 DEF SourceOK
<1>2. CASE ReleaseInfo /\ pc' = "verify"
  <2>1. pc = "rel_info" /\ UNCHANGED <<src, dst, fw>>
    BY <1>2, Zenon DEF ReleaseInfo, work, Return, Lamp, GiveUp, Idle, Handle, Jump
  <2>2. src # dst => src \in Parts /\ PkgIntact(src, fw)
    BY <2>1 DEF PkgInv, Inv, ReleaseOK, WorkOK, ReleasePc
  <2>3. src # dst => flash'[src] = flash[src]
    BY <1>2, <2>1, <2>2, WritesElsewhere DEF PkgInv
  <2> QED BY <2>1, <2>2, <2>3 DEF SourceOK, PkgIntact, InBounds
<1>3. CASE Verify /\ pc' = "sign"
  <2>1. pc = "verify" /\ flash' = flash /\ UNCHANGED <<src, dst>> /\ qbt_dest_part_verify(dst)
    BY <1>3, Zenon DEF Verify, work, Return, Lamp, GiveUp, Idle, Handle, Jump
  <2>2. InfoAt(dst, Tail(dst)) # NoPkg
    BY <2>1 DEF qbt_dest_part_verify
  <2>3. flash[dst][Tail(dst)] = Info(fw)
    <3>1. flash[dst][Tail(dst)] # Torn
      BY <2>2 DEF InfoAt, Torn
    <3> QED BY <2>1, <3>1 DEF PkgInv, Inv, ReleaseOK, InfoOK
  <2>4. fw' = fw
    BY <1>3, <2>3 DEF Verify, InfoAt, Info
  <2> QED BY <2>1, <2>4 DEF PkgInv, SourceOK, PkgIntact, InBounds
<1>4. (ReleaseInfo /\ pc' = "verify") \/ (Verify /\ pc' = "sign") \/ pc' \notin {"verify", "sign"}
  <2> USE DEF Idle, Handle, Jump, GiveUp, Return
  <2>1. CASE BootStep
    <3>1. CASE \/ Startup \/ KeyWatch \/ KeyReleased \/ EnterTimeout \/ LastShell
               \/ JumpLegit \/ JumpRefused
      BY <3>1 DEF Startup, KeyWatch, KeyReleased, EnterTimeout, LastShell, JumpLegit,
         JumpRefused
    <3>2. CASE CheckFails \/ AlreadyReleased \/ Refused \/ StartRelease
      BY <3>2 DEF CheckFails, AlreadyReleased, Refused, StartRelease
    <3>3. CASE \/ ReleaseErase \/ ReleaseEraseTail \/ ReleaseWrite \/ ReleaseGarbled
               \/ ReleaseInfo \/ Verify \/ WriteSign
      BY <3>3 DEF ReleaseErase, ReleaseEraseTail, ReleaseWrite, ReleaseGarbled,
         ReleaseInfo, Verify, WriteSign, EraseSector
    <3>4. CASE CloneErase \/ CloneWrite \/ DelErase
      BY <3>4 DEF CloneErase, CloneWrite, DelErase, EraseSector
    <3> QED BY <2>1, <3>1, <3>2, <3>3, <3>4 DEF BootStep
  <2>2. CASE User
    BY <2>2 DEF User, KeyHeld, EnterPressed, Reboot, Restart, Command, CmdProbe, CmdJump,
       CmdAsserts, CmdResume, CmdRelease, CmdVerify, CmdDel, CmdClone
  <2>3. CASE Download
    <3>1. pc \in DlPc => ctx \in {"run", "shell"}
      BY DEF PkgInv, Inv, WorkOK
    <3> QED BY <2>3, <3>1 DEF Download, DlBegin, DlErase, DlWrite, DlPad, DlAbort,
            EraseSector, Restart, DlPc
  <2>4. CASE Failure
    <3>1. pc \in DlPc => ctx \in {"run", "shell"}
      BY DEF PkgInv, Inv, WorkOK
    <3> QED BY <2>4, <3>1 DEF Failure, StartupFails, LastShellFails, PowerLoss, FlashFault,
            SyswatchRestarts, Restart
  <2> QED BY <2>1, <2>2, <2>3, <2>4 DEF Next
<1> QED BY <1>1, <1>2, <1>3, <1>4

LEMMA PkgInvStep == PkgInv /\ [Next]_vars => PkgInv'
<1> SUFFICES ASSUME PkgInv, [Next]_vars PROVE SourceOK'
  BY NextInv DEF PkgInv
<1>1. CASE UNCHANGED vars
  BY <1>1 DEF vars, PkgInv, SourceOK, PkgIntact, InBounds
<1> QED BY <1>1, SourceStep

-----------------------------------------------------------------------------
\* Whatever qboot does, and whatever fails meanwhile: only the partition that a
\* package is released, copied or downloaded to, or that is deleted, can lose a
\* package.  In particular the release sign never hits a package: it is written
\* behind the one that was released, and fw_info still names it.
THEOREM KeepsPackages == Spec => PackageSurvivesBoot
<1>1. Init => PkgInv
  BY InitInv DEF PkgInv, SourceOK, Init
<1>2. PkgInv /\ [Next]_vars =>
        [\A p \in Parts \ {dst}, q \in Pkgs : PkgIntact(p, q) => PkgIntact(p, q)']_vars
  <2> SUFFICES ASSUME PkgInv, Next, NEW p \in Parts, p # dst, NEW q \in Pkgs, PkgIntact(p, q)
               PROVE  PkgIntact(p, q)'
    OBVIOUS
  <2>1. CASE flash'[p] = flash[p]
    BY <2>1 DEF PkgIntact, InBounds
  <2>2. CASE /\ pc = "sign" /\ p = src
             /\ \A c \in Cells(p) : c # SignCell(fw) => flash'[p][c] = flash[p][c]
    <3>1. PkgIntact(src, fw)
      BY <2>2 DEF PkgInv, SourceOK
    <3>2. q = fw
      BY <2>2, <3>1 DEF PkgIntact, Info
    <3>3. Fw[q].pkg_size \in Nat /\ Len[p] \in Nat /\ 1 + Fw[q].pkg_size <= Len[p]
      BY QbootAssumption, FlashAssumption DEF FwInfo, PkgIntact, InBounds
    <3>4. \A i \in 0 .. Fw[q].pkg_size : i \in Cells(p) /\ i # SignCell(fw)
      BY <3>2, <3>3 DEF Cells, SignCell
    <3>5. \A i \in 0 .. Fw[q].pkg_size : flash'[p][i] = flash[p][i]
      BY <2>2, <3>4
    <3> QED BY <3>3, <3>5 DEF PkgIntact, InBounds
  <2> QED BY <2>1, <2>2, WritesElsewhere DEF PkgInv
<1> QED BY <1>1, <1>2, PkgInvStep, PTL DEF Spec, PackageSurvivesBoot

=============================================================================
