---------------------------- MODULE Update_proofs ----------------------------
(***************************************************************************)
(* Proofs about an update as the owner of the device sees it, when nothing *)
(* fails but the power, nobody uses the shell or the factory key, and the  *)
(* code leaves the place of its info free: for every layout of the flash,  *)
(* every set of packages and any number of downloads and power failures,   *)
(* qboot starts complete applications only, and what it does implements    *)
(* AtomicUpdate.                                                           *)
(***************************************************************************)
EXTENDS Qboot_proofs

\* What the theorems assume of the device and its use.
OnlyPowerFails ==
    /\ MaxFaults = 0 /\ ~UseKey /\ ~UseShell
    /\ AppPart \notin DlParts
    /\ NoPkg \notin InitApp
    /\ \A q \in InitApp : Fw[q].raw_size <= Len[AppPart]
    /\ \A q \in Pkgs : Fw[q].part_name = AppPart => Fw[q].raw_size < Len[AppPart]

BootPc == {"start", "key", "key_held", "enter", "check"}

\* Where the program can be then, and for what.
WhereOK ==
    /\ pc \in BootPc \cup ReleasePc \cup DlPc \cup {"verify", "sign", "jump", "run", "hung"}
    /\ pc \in ReleasePc \cup {"check", "verify", "sign", "jump", "hung"} => ctx = "auto"
    /\ pc \in ReleasePc \cup {"check", "verify", "sign"} => src = DownloadPart
    /\ pc \in ReleasePc \cup {"verify"} => dst = Fw[fw].part_name
    /\ pc \in DlPc => dst # AppPart /\ ctx = "run"

\* The application is complete, or the package that makes it so still waits
\* in the download partition, complete and without a sign.
AppOK ==
    /\ pc \in DlPc \cup {"sign", "jump", "run", "hung"} => AppIntact
    /\ pc \in BootPc => AppIntact \/ \E q \in Pkgs : Pending(q)
    /\ pc \in ReleasePc \cup {"verify"} =>
            IF dst = AppPart THEN Pending(fw) ELSE AppIntact
    /\ pc \in {"rel_info", "verify"} /\ dst = AppPart => BodyIntact(AppPart, fw)

Safe == Inv /\ WhereOK /\ AppOK

-----------------------------------------------------------------------------
\* The partitions have different names.
LEMMA Names ==
    /\ AppPart \in Parts /\ DownloadPart \in Parts /\ AppPart # DownloadPart
    /\ 0 \in Cells(AppPart) /\ Tail(AppPart) \in Cells(AppPart)
    /\ 0 \in Cells(DownloadPart)
<1>1. AppPart \in Parts /\ DownloadPart \in Parts /\ AppPart # DownloadPart
  BY QbootAssumption DEF AppPart, DownloadPart
<1>2. Len[AppPart] \in Nat \ {0} /\ Len[DownloadPart] \in Nat \ {0}
  BY <1>1, FlashAssumption
<1> QED BY <1>1, <1>2 DEF Cells, Tail

\* What is not written stays what it was.
LEMMA AppKept ==
    ASSUME flash'[AppPart] = flash[AppPart]
    PROVE  /\ AppIntact' <=> AppIntact
           /\ \A q : BodyIntact(AppPart, q)' <=> BodyIntact(AppPart, q)
  BY DEF AppIntact, BodyIntact, InBounds

\* Nor does what waits.
LEMMA DownloadKept ==
    ASSUME flash'[DownloadPart] = flash[DownloadPart]
    PROVE  \A q : Pending(q)' <=> Pending(q)
  BY DEF Pending, InfoAt, qbt_fw_check, PkgIntact, qbt_release_sign_check, Releasable, InBounds

\* A package that waits is complete.
LEMMA PendingPackage ==
    ASSUME FlashOK, NEW q, Pending(q)
    PROVE  /\ q \in Pkgs /\ q = InfoAt(DownloadPart, 0) /\ PkgIntact(DownloadPart, q)
           /\ qbt_fw_check(DownloadPart) /\ ~qbt_release_sign_check(DownloadPart, q)
           /\ Fw[q].part_name = AppPart /\ Releasable(q)
  BY Names, CheckedPackage DEF Pending

\* Complete code begins with a vector table that is in range.
LEMMA IntactIsRaw ==
    ASSUME AppIntact PROVE flash[AppPart][0].kind = "raw"
<1>1. PICK q \in Pkgs : BodyIntact(AppPart, q)
  BY DEF AppIntact
<1>2. Fw[q].raw_size \in Nat \ {0}
  BY QbootAssumption DEF FwInfo
<1>3. flash[AppPart][0] = RawCell(q, 0)
  BY <1>1, <1>2 DEF BodyIntact
<1> QED BY <1>3 DEF RawCell

\* A power failure: only the partition being written may change.
LEMMA CutShortElsewhere ==
    ASSUME Inv, CutShort
    PROVE  /\ \A p \in Parts : p # Target => flash'[p] = flash[p]
           /\ Goal = flash[Target] => flash'[Target] = flash[Target]
<1>1. Target \in Parts /\ Goal \in [Cells(Target) -> Cell]
  BY GoalType
<1>2. PICK how \in Ways(flash[Target], Goal) :
        flash' = [flash EXCEPT ![Target] = Interrupted(flash[Target], Goal, how)]
  BY DEF CutShort
<1>3. Interrupted(flash[Target], Goal, how) \in [Cells(Target) -> Cell]
      /\ flash[Target] \in [Cells(Target) -> Cell]
  BY <1>1, ImageTypes DEF Inv, FlashOK
<1>4. /\ flash'[Target] = Interrupted(flash[Target], Goal, how)
      /\ \A p \in Parts : p # Target => flash'[p] = flash[p]
  BY <1>1, <1>2, <1>3, FlashUpdate DEF Inv
<1>5. Goal = flash[Target] => Interrupted(flash[Target], Goal, how) = flash[Target]
  BY <1>3 DEF Interrupted
<1> QED BY <1>4, <1>5

-----------------------------------------------------------------------------
\* Everything that decides without writing, before and after a release.
LEMMA DecisionSafe ==
    ASSUME OnlyPowerFails, Safe, Inv',
           \/ Startup \/ KeyWatch \/ KeyReleased \/ EnterTimeout
           \/ JumpLegit \/ JumpRefused \/ Reboot \/ SyswatchRestarts
    PROVE  Safe'
<1> USE DEF Safe
<1>1. flash' = flash
  BY DEF Startup, KeyWatch, KeyReleased, EnterTimeout, JumpLegit, JumpRefused, Reboot,
         SyswatchRestarts
<1>2. AppIntact' <=> AppIntact
  BY <1>1, AppKept
<1>3. \A q : Pending(q)' <=> Pending(q)
  BY <1>1, DownloadKept
<1>4. CASE Startup \/ KeyWatch \/ KeyReleased
  <2>1. pc \in BootPc /\ pc' \in BootPc \ {"check"}
    BY <1>4, Zenon DEF Startup, KeyWatch, KeyReleased, Idle, BootPc
  <2>2. WhereOK'
    BY <2>1 DEF WhereOK, BootPc, ReleasePc, DlPc
  <2>3. AppOK'
    BY <1>2, <1>3, <2>1 DEF AppOK, BootPc, ReleasePc, DlPc
  <2> QED BY <2>2, <2>3
<1>5. CASE EnterTimeout
  <2>1. pc \in BootPc /\ pc' = "check" /\ ctx' = "auto" /\ src' = DownloadPart
    BY <1>5 DEF EnterTimeout, Handle, BootPc
  <2>2. WhereOK'
    BY <2>1 DEF WhereOK, BootPc, ReleasePc, DlPc
  <2>3. AppOK'
    BY <1>2, <1>3, <2>1 DEF AppOK, BootPc, ReleasePc, DlPc
  <2> QED BY <2>2, <2>3
<1>6. CASE JumpLegit \/ JumpRefused
  <2>1. pc = "jump" /\ AppIntact
    BY <1>6 DEF JumpLegit, JumpRefused, AppOK
  <2>2. pc' = "run"
    BY <1>6, <2>1, IntactIsRaw DEF JumpLegit, JumpRefused, Idle
  <2> QED BY <1>2, <2>1, <2>2 DEF WhereOK, AppOK, BootPc, ReleasePc, DlPc
<1>7. CASE Reboot \/ SyswatchRestarts
  <2>1. pc \in {"run", "hung"} /\ (pc = "hung" => ctx = "auto")
    BY <1>7 DEF Reboot, SyswatchRestarts, WhereOK, BootPc, ReleasePc, DlPc
  <2>2. pc' = "start"
    <3>1. CASE Reboot
      BY <3>1 DEF Reboot, Restart, Idle
    <3>2. CASE SyswatchRestarts
      <4>1. ctx = "auto"
        BY <2>1, <3>2 DEF SyswatchRestarts
      <4>2. (CASE ctx \in BootCtx -> "start" [] ctx \in CmdCtx -> "shell"
              [] OTHER -> "shell_nofal") = "start"
        BY <4>1 DEF BootCtx, CmdCtx
      <4> QED BY <3>2, <4>2 DEF SyswatchRestarts, Idle
    <3> QED BY <1>7, <3>1, <3>2
  <2> QED BY <1>2, <2>1, <2>2 DEF WhereOK, AppOK, BootPc, ReleasePc, DlPc
<1> QED BY <1>4, <1>5, <1>6, <1>7

\* The automatic release always ends in a jump.
LEMMA ReturnJumps ==
    ASSUME NEW ok, ctx = "auto", Return(ok) PROVE pc' = "jump" /\ ctx' = "auto"
  BY DEF Return, Jump

\* Before a jump nothing but complete code is needed.
LEMMA JumpSafe ==
    ASSUME Inv', AppIntact', pc' = "jump", ctx' = "auto" PROVE Safe'
  BY DEF Safe, WhereOK, AppOK, BootPc, ReleasePc, DlPc

\* When the check does not lead to a release, nothing was waiting.
LEMMA NothingWaits ==
    ASSUME Safe, pc = "check", CheckFails \/ AlreadyReleased \/ Refused
    PROVE  ctx = "auto" /\ \A r : ~Pending(r)
<1>1. ctx = "auto" /\ src = DownloadPart
  BY DEF Safe, WhereOK
<1>2. \A r : Pending(r) => /\ r = InfoAt(src, 0) /\ qbt_fw_check(src)
                           /\ ~qbt_release_sign_check(src, r)
                           /\ Fw[r].part_name = AppPart /\ Releasable(r)
  BY <1>1, PendingPackage DEF Safe, Inv
<1> QED BY <1>1, <1>2, Names DEF CheckFails, AlreadyReleased, Refused, Acceptable, Releasing

\* The check of the package.
LEMMA CheckSafe ==
    ASSUME OnlyPowerFails, Safe, Inv', CheckFails \/ AlreadyReleased \/ Refused \/ StartRelease
    PROVE  Safe'
<1> USE DEF Safe
<1> DEFINE q == InfoAt(src, 0)
<1>1. pc = "check" /\ ctx = "auto" /\ src = DownloadPart /\ flash' = flash
  BY DEF CheckFails, AlreadyReleased, Refused, StartRelease, NeedsRelease, WhereOK
<1>2. AppIntact' <=> AppIntact
  BY <1>1, AppKept
<1>3. AppIntact \/ \E r \in Pkgs : Pending(r)
  BY <1>1 DEF AppOK, BootPc
<1>4. \A r : Pending(r) => /\ r = q /\ qbt_fw_check(src) /\ ~qbt_release_sign_check(src, q)
                           /\ Fw[q].part_name = AppPart /\ Releasable(q)
  BY <1>1, PendingPackage DEF Inv
<1>5. CASE CheckFails \/ AlreadyReleased \/ Refused
  <2>1. \A r : ~Pending(r)
    BY <1>1, <1>5, NothingWaits
  <2>2. AppIntact'
    BY <1>2, <1>3, <2>1
  <2>3. pc' = "jump" /\ ctx' = "auto"
    BY <1>1, <1>5, ReturnJumps DEF CheckFails, AlreadyReleased, Refused
  <2> QED BY <2>2, <2>3, JumpSafe
<1>6. CASE StartRelease
  <2>1. /\ pc' = "rel_erase" /\ fw' = q /\ dst' = Fw[q].part_name /\ UNCHANGED <<ctx, src>>
        /\ qbt_fw_check(src) /\ ~qbt_release_sign_check(src, q) /\ Releasable(q)
    BY <1>1, <1>6 DEF StartRelease, NeedsRelease
  <2>2. CASE Fw[q].part_name = AppPart
    <3>1. Pending(q)
      BY <1>1, <2>1, <2>2 DEF Pending
    <3>2. Pending(fw)'
      BY <1>1, <2>1, <3>1, DownloadKept
      DEF Pending, InfoAt, qbt_fw_check, PkgIntact, qbt_release_sign_check, Releasable, InBounds
    <3> QED BY <1>1, <2>1, <2>2, <3>2 DEF WhereOK, AppOK, BootPc, ReleasePc, DlPc
  <2>3. CASE Fw[q].part_name # AppPart
    <3>1. AppIntact'
      BY <1>2, <1>3, <1>4, <2>3
    <3> QED BY <1>1, <2>1, <2>3, <3>1 DEF WhereOK, AppOK, BootPc, ReleasePc, DlPc
  <2> QED BY <2>2, <2>3
<1> QED BY <1>5, <1>6

\* What a release relies on, and what its steps on the flash leave alone.
LEMMA ReleaseFacts ==
    ASSUME OnlyPowerFails, Safe, pc \in ReleasePc \cup {"verify"}
    PROVE  /\ ctx = "auto" /\ src = DownloadPart /\ dst \in Parts /\ fw \in Pkgs
           /\ dst = Fw[fw].part_name /\ pos \in Nat
           /\ flash[dst] \in [Cells(dst) -> Cell]
           /\ Fw[fw].raw_size \in Nat \ {0} /\ Len[dst] \in Nat \ {0}
           /\ 0 .. Fw[fw].raw_size - 1 \subseteq Cells(dst) /\ Tail(dst) \in Cells(dst)
           /\ dst = AppPart => /\ src # dst /\ Pending(fw) /\ PkgIntact(src, fw)
                               /\ Fw[fw].raw_size <= Tail(dst)
           /\ dst # AppPart => AppIntact
<1> USE DEF Safe
<1>1. /\ ctx = "auto" /\ src = DownloadPart /\ dst \in Parts /\ fw \in Pkgs
      /\ dst = Fw[fw].part_name /\ pos \in Nat /\ InBounds(dst, 0, Fw[fw].raw_size)
  BY DEF WhereOK, Inv, WorkOK, ControlOK
<1>2. flash[dst] \in [Cells(dst) -> Cell]
  BY <1>1 DEF Inv, FlashOK
<1>3. /\ Fw[fw].raw_size \in Nat \ {0} /\ Len[dst] \in Nat \ {0}
      /\ Fw[fw].raw_size <= Len[dst]
  BY <1>1, QbootAssumption, FlashAssumption DEF FwInfo, InBounds
<1>4. 0 .. Fw[fw].raw_size - 1 \subseteq Cells(dst) /\ Tail(dst) \in Cells(dst)
  BY <1>3 DEF Cells, Tail
<1>5. CASE dst = AppPart
  <2>1. Pending(fw)
    BY <1>5 DEF AppOK
  <2>2. PkgIntact(src, fw)
    BY <1>1, <2>1, PendingPackage DEF Inv
  <2>3. Fw[fw].raw_size <= Tail(dst)
    <3>1. Fw[fw].raw_size < Len[dst]
      BY <1>1, <1>5 DEF OnlyPowerFails
    <3> QED BY <1>3, <3>1 DEF Tail
  <2> QED BY <1>1, <1>2, <1>3, <1>4, <1>5, <2>1, <2>2, <2>3, Names
<1>6. CASE dst # AppPart
  BY <1>1, <1>2, <1>3, <1>4, <1>6 DEF AppOK
<1> QED BY <1>5, <1>6

\* A write to the destination keeps what the next start needs.
LEMMA DestinationOnly ==
    ASSUME OnlyPowerFails, Safe, pc \in ReleasePc \cup {"verify"},
           \A p \in Parts : p # dst => flash'[p] = flash[p]
    PROVE  /\ dst = AppPart => \A q : Pending(q)' <=> Pending(q)
           /\ dst # AppPart => AppIntact'
<1>1. CASE dst = AppPart
  BY <1>1, Names, DownloadKept
<1>2. CASE dst # AppPart
  BY <1>2, Names, ReleaseFacts, AppKept
<1> QED BY <1>1, <1>2

\* What is written to the application was erased before: nothing fails.
LEMMA NoWriteFails ==
    ASSUME OnlyPowerFails, Safe, dst = AppPart,
           ReleaseErase \/ ReleaseEraseTail \/ ReleaseWrite \/ ReleaseInfo
    PROVE  pc \in ReleasePc /\ pc' \in ReleasePc \cup {"verify"} /\ dst' = dst
<1>1. pc \in ReleasePc
  BY DEF ReleaseErase, ReleaseEraseTail, ReleaseWrite, ReleaseInfo, EraseSector, ReleasePc
<1>2. /\ src # dst /\ PkgIntact(src, fw) /\ Fw[fw].raw_size <= Tail(dst)
      /\ Fw[fw].raw_size \in Nat \ {0}
  BY <1>1, ReleaseFacts
<1>3. CASE ReleaseWrite
  <2>1. flash[dst][pos] = Blank
    BY <1>2, <1>3 DEF ReleaseWrite, Safe, Inv, ReleaseOK, ControlOK
  <2>2. ReadsBack(dst, pos, Code(pos))
    BY <2>1 DEF ReadsBack, Program
  <2> QED BY <1>1, <1>3, <2>2 DEF ReleaseWrite, ReleasePc
<1>4. CASE ReleaseInfo
  <2>1. flash[dst][Tail(dst)] = Blank
    BY <1>2, <1>4 DEF ReleaseInfo, Safe, Inv, ReleaseOK
  <2>2. ReadsBack(dst, Tail(dst), Info(fw))
    BY <2>1 DEF ReadsBack, Program
  <2> QED BY <1>1, <1>4, <2>2 DEF ReleaseInfo, work
<1>5. CASE ReleaseErase \/ ReleaseEraseTail
  BY <1>1, <1>5 DEF ReleaseErase, ReleaseEraseTail, EraseSector, ReleasePc, work
<1> QED BY <1>3, <1>4, <1>5

\* The steps of the release.
LEMMA ReleaseSafe ==
    ASSUME OnlyPowerFails, Safe, Inv',
           ReleaseErase \/ ReleaseEraseTail \/ ReleaseWrite \/ ReleaseInfo
    PROVE  Safe'
<1>1. pc \in ReleasePc /\ fw' = fw
  BY DEF ReleaseErase, ReleaseEraseTail, ReleaseWrite, ReleaseInfo, EraseSector, ReleasePc
<1>2. /\ Target = dst /\ Goal \in [Cells(dst) -> Cell]
  BY <1>1, GoalType DEF Target, Safe
<1>3. flash' = [flash EXCEPT ![dst] = Goal]
  BY DEF ReleaseErase, ReleaseEraseTail, ReleaseWrite, ReleaseInfo, EraseSector, Goal
<1>4. flash'[dst] = Goal /\ \A p \in Parts : p # dst => flash'[p] = flash[p]
  BY <1>1, <1>2, <1>3, ReleaseFacts, FlashUpdate DEF Safe, Inv
<1>5. /\ dst = AppPart => \A q : Pending(q)' <=> Pending(q)
      /\ dst # AppPart => AppIntact'
  BY <1>1, <1>4, DestinationOnly
<1>6. ctx = "auto" /\ src = DownloadPart /\ dst = Fw[fw].part_name
  BY <1>1, ReleaseFacts
<1>7. CASE Return(FALSE)
  <2>1. pc' = "jump" /\ ctx' = "auto"
    BY <1>6, <1>7, ReturnJumps
  <2>2. dst # AppPart
    BY <2>1, NoWriteFails DEF ReleasePc
  <2> QED BY <1>5, <2>1, <2>2, JumpSafe
<1>8. CASE /\ pc' \in ReleasePc \cup {"verify"} /\ UNCHANGED <<ctx, src, dst>>
           /\ pc' \in {"rel_info", "verify"} => ReleaseWrite \/ ReleaseInfo
  <2>1. ASSUME pc' \in {"rel_info", "verify"}, dst = AppPart
        PROVE  BodyIntact(AppPart, fw)'
    <3>1. /\ src # dst /\ PkgIntact(src, fw) /\ Fw[fw].raw_size <= Tail(dst) /\ pos \in Nat
          /\ Fw[fw].raw_size \in Nat \ {0} /\ 0 .. Fw[fw].raw_size - 1 \subseteq Cells(dst)
          /\ flash[dst] \in [Cells(dst) -> Cell] /\ Tail(dst) \in Cells(dst)
          /\ InBounds(dst, 0, Fw[fw].raw_size)
      BY <1>1, <2>1, ReleaseFacts DEF Safe, Inv, WorkOK
    <3>2. CASE ReleaseWrite
      <4>1. /\ pc = "rel_write" /\ pos < Fw[fw].raw_size
            /\ \A c \in 0 .. pos - 1 : flash[dst][c] = RawCell(fw, c)
            /\ flash[dst][pos] = Blank
        BY <3>1, <3>2 DEF ReleaseWrite, Safe, Inv, ReleaseOK
      <4>2. pos + 1 >= Fw[fw].raw_size
        <5>1. ~Return(FALSE)
          BY <1>6, <2>1, ReturnJumps
        <5>2. pc' = IF ReleaseComplete(pos + 1) THEN "rel_info" ELSE "rel_write"
          BY <3>2, <5>1 DEF ReleaseWrite
        <5> QED BY <2>1, <5>2 DEF ReleaseComplete
      <4>3. Goal = [flash[dst] EXCEPT ![pos] = RawCell(fw, pos)]
        BY <3>1, <4>1 DEF Goal, Programmed, Program, Code
      <4>4. \A c \in 0 .. Fw[fw].raw_size - 1 : Goal[c] = RawCell(fw, c)
        BY <3>1, <4>1, <4>2, <4>3
      <4> QED BY <1>1, <1>4, <2>1, <3>1, <4>4 DEF BodyIntact, InBounds
    <3>3. CASE ReleaseInfo
      <4>1. pc = "rel_info"
        BY <3>3 DEF ReleaseInfo
      <4>2. BodyIntact(AppPart, fw)
        BY <2>1, <4>1 DEF Safe, AppOK
      <4>3. Goal = Programmed(flash[dst], Tail(dst), Info(fw))
        BY <4>1 DEF Goal
      <4>4. \A c \in 0 .. Fw[fw].raw_size - 1 : Goal[c] = flash[dst][c]
        BY <3>1, <4>3 DEF Programmed, Tail
      <4> QED BY <1>1, <1>4, <2>1, <4>2, <4>4 DEF BodyIntact, InBounds
    <3> QED BY <1>8, <2>1, <3>2, <3>3
  <2>2. WhereOK'
    BY <1>1, <1>6, <1>8 DEF WhereOK, BootPc, ReleasePc, DlPc
  <2>3. IF dst' = AppPart THEN Pending(fw)' ELSE AppIntact'
    <3>1. CASE dst = AppPart
      <4>1. Pending(fw)
        BY <1>1, <3>1, ReleaseFacts
      <4>2. Pending(fw)'
        BY <1>1, <1>5, <3>1, <4>1 DEF Pending
      <4> QED BY <1>8, <3>1, <4>2
    <3>2. CASE dst # AppPart
      BY <1>5, <1>8, <3>2
    <3> QED BY <3>1, <3>2
  <2>4. AppOK'
    BY <1>1, <1>8, <2>1, <2>3 DEF AppOK, BootPc, ReleasePc, DlPc
  <2> QED BY <2>2, <2>4 DEF Safe
<1> QED
  BY <1>7, <1>8 DEF ReleaseErase, ReleaseEraseTail, ReleaseWrite, ReleaseInfo, EraseSector,
     ReleasePc, work

\* A package that erased itself was not for the application.
LEMMA GarbledSafe ==
    ASSUME OnlyPowerFails, Safe, Inv', ReleaseGarbled PROVE Safe'
<1>1. pc = "rel_write" /\ ~PkgIntact(src, fw) /\ flash' = flash
  BY DEF ReleaseGarbled
<1>2. ctx = "auto" /\ AppIntact
  BY <1>1, ReleaseFacts DEF ReleasePc
<1>3. AppIntact'
  BY <1>1, <1>2, AppKept
<1>4. CASE Return(FALSE)
  BY <1>2, <1>3, <1>4, ReturnJumps, JumpSafe
<1>5. CASE pc' = "hung" /\ UNCHANGED work
  BY <1>2, <1>3, <1>5 DEF Safe, WhereOK, AppOK, BootPc, ReleasePc, DlPc, work
<1> QED BY <1>4, <1>5 DEF ReleaseGarbled

\* Whatever the verification says, the code is there; so it is after the sign.
LEMMA VerifySafe ==
    ASSUME OnlyPowerFails, Safe, Inv', Verify \/ WriteSign PROVE Safe'
<1>1. CASE Verify
  <2>1. pc = "verify" /\ flash' = flash
    BY <1>1 DEF Verify
  <2>2. ctx = "auto" /\ src = DownloadPart
    BY <2>1, ReleaseFacts
  <2>3. AppIntact
    <3>1. CASE dst = AppPart
      <4>1. fw \in Pkgs /\ BodyIntact(AppPart, fw)
        BY <2>1, <3>1, ReleaseFacts DEF Safe, AppOK
      <4> QED BY <4>1 DEF AppIntact
    <3>2. CASE dst # AppPart
      BY <2>1, <3>2, ReleaseFacts
    <3> QED BY <3>1, <3>2
  <2>4. AppIntact'
    BY <2>1, <2>3, AppKept
  <2>5. CASE pc' = "sign" /\ UNCHANGED work
    BY <2>2, <2>4, <2>5 DEF Safe, WhereOK, AppOK, BootPc, ReleasePc, DlPc, work
  <2>6. CASE Return(TRUE) \/ Return(FALSE)
    BY <2>2, <2>4, <2>6, ReturnJumps, JumpSafe
  <2> QED BY <1>1, <2>5, <2>6 DEF Verify
<1>2. CASE WriteSign
  <2>1. /\ pc = "sign" /\ ctx = "auto" /\ src = DownloadPart /\ AppIntact
        /\ flash' = [flash EXCEPT ![src] = SignImage(fw)] /\ Return(TRUE)
    BY <1>2 DEF WriteSign, Safe, WhereOK, AppOK
  <2>2. flash'[AppPart] = flash[AppPart]
    BY <2>1, Names DEF Safe, Inv, FlashOK
  <2>3. AppIntact'
    BY <2>1, <2>2, AppKept
  <2> QED BY <2>1, <2>3, ReturnJumps, JumpSafe
<1> QED BY <1>1, <1>2

\* A download goes on in the application and leaves it alone.
LEMMA DownloadSafe ==
    ASSUME OnlyPowerFails, Safe, Inv', Download PROVE Safe'
<1>1. ASSUME NEW q \in Pkgs, NEW p \in DlParts, DlBegin(q, p) PROVE Safe'
  <2>1. pc = "run" /\ flash' = flash /\ p # AppPart
    BY <1>1 DEF DlBegin, OnlyPowerFails, Safe, WhereOK, BootPc, ReleasePc, DlPc
  <2>2. AppIntact'
    BY <2>1, AppKept DEF Safe, AppOK
  <2>3. pc' = "dl_erase" /\ ctx' = "run" /\ dst' = p
    BY <1>1, <2>1 DEF DlBegin
  <2> QED BY <2>1, <2>2, <2>3 DEF Safe, WhereOK, AppOK, BootPc, ReleasePc, DlPc
<1>2. CASE DlErase \/ DlWrite \/ DlPad \/ DlAbort
  <2>1. pc \in DlPc /\ dst # AppPart /\ ctx = "run" /\ AppIntact
    BY <1>2 DEF DlErase, DlWrite, DlPad, DlAbort, EraseSector, DlPc, Safe, WhereOK, AppOK
  <2>2. flash' = [flash EXCEPT ![dst] = Goal] \/ flash' = flash
    BY <1>2 DEF DlErase, DlWrite, DlPad, DlAbort, EraseSector, Goal
  <2>3. flash'[AppPart] = flash[AppPart]
    BY <2>1, <2>2, Names DEF Safe, Inv, FlashOK
  <2>4. AppIntact'
    BY <2>1, <2>3, AppKept
  <2>5. pc' \in {"run", "start"} \/ (pc' \in DlPc /\ UNCHANGED <<ctx, dst>>)
    BY <1>2, <2>1 DEF DlErase, DlWrite, DlPad, DlAbort, EraseSector, Restart, Idle, DlPc
  <2> QED BY <2>1, <2>4, <2>5 DEF Safe, WhereOK, AppOK, BootPc, ReleasePc, DlPc
<1> QED BY <1>1, <1>2 DEF Download

\* The power fails: the code stays, or the package that waits does.
LEMMA PowerLossSafe ==
    ASSUME OnlyPowerFails, Safe, Inv', PowerLoss PROVE Safe'
<1>1. pc' = "start" /\ CutShort
  BY DEF PowerLoss, Restart, Idle
<1>2. /\ \A p \in Parts : p # Target => flash'[p] = flash[p]
      /\ Goal = flash[Target] => flash'[Target] = flash[Target]
  BY <1>1, CutShortElsewhere DEF Safe
<1>3. AppIntact' \/ \E q \in Pkgs : Pending(q)'
  <2>1. CASE pc \in ReleasePc
    <3>1. Target = dst
      BY <2>1 DEF Target
    <3>2. /\ dst = AppPart => \A q : Pending(q)' <=> Pending(q)
          /\ dst # AppPart => AppIntact'
      BY <1>2, <2>1, <3>1, DestinationOnly
    <3>3. fw \in Pkgs /\ (dst = AppPart => Pending(fw))
      BY <2>1, ReleaseFacts
    <3> QED BY <3>2, <3>3
  <2>2. CASE pc \in DlPc \cup {"sign"}
    <3>1. Target # AppPart /\ AppIntact
      BY <2>2, Names DEF Target, Safe, WhereOK, AppOK, ReleasePc, ClonePc, DlPc
    <3> QED BY <1>2, <3>1, Names, AppKept
  <2>3. CASE pc \in BootPc \cup {"verify", "jump", "run", "hung"}
    <3>1. Target = AppPart /\ Goal = flash[AppPart]
      BY <2>3 DEF Target, Goal, BootPc, ReleasePc, ClonePc, DlPc
    <3>2. flash'[AppPart] = flash[AppPart] /\ flash'[DownloadPart] = flash[DownloadPart]
      BY <1>2, <3>1, Names
    <3>3. /\ AppIntact' <=> AppIntact
          /\ \A q : Pending(q)' <=> Pending(q)
      BY <3>2, AppKept, DownloadKept
    <3>4. AppIntact \/ \E q \in Pkgs : Pending(q)
      <4>1. CASE pc = "verify"
        BY <4>1, ReleaseFacts
      <4>2. CASE pc # "verify"
        BY <2>3, <4>2 DEF Safe, AppOK
      <4> QED BY <4>1, <4>2
    <3> QED BY <3>3, <3>4
  <2> QED BY <2>1, <2>2, <2>3 DEF Safe, WhereOK
<1> QED BY <1>1, <1>3 DEF Safe, WhereOK, AppOK, BootPc, ReleasePc, DlPc

-----------------------------------------------------------------------------
\* A device is delivered with complete code.
LEMMA InitSafe == ASSUME OnlyPowerFails, Init PROVE Safe
<1>1. PICK a \in InitApp, f \in InitFactory :
        flash = [p \in Parts |-> CASE p = AppPart -> CodeImage(p, a)
                                  [] p = FactoryPart -> PkgImage(p, f)
                                  [] OTHER -> PkgImage(p, NoPkg)]
  BY DEF Init
<1>2. a \in Pkgs /\ a # NoPkg /\ Fw[a].raw_size <= Len[AppPart]
  <2>1. a \in Pkgs \cup {NoPkg}
    BY <1>1, QbootAssumption
  <2>2. a # NoPkg /\ Fw[a].raw_size <= Len[AppPart]
    BY <1>1 DEF OnlyPowerFails
  <2> QED BY <2>1, <2>2
<1>3. flash[AppPart] = CodeImage(AppPart, a)
  BY <1>1, Names DEF AppPart, FactoryPart
<1>4. Fw[a].raw_size \in Nat \ {0} /\ Len[AppPart] \in Nat
  BY <1>2, Names, QbootAssumption, FlashAssumption DEF FwInfo
<1>5. \A i \in 0 .. Fw[a].raw_size - 1 : i \in Cells(AppPart) /\ i < Fw[a].raw_size
  BY <1>2, <1>4 DEF Cells
<1>6. BodyIntact(AppPart, a)
  BY <1>2, <1>3, <1>4, <1>5 DEF BodyIntact, CodeImage, InBounds
<1>7. AppIntact
  BY <1>2, <1>6 DEF AppIntact
<1>8. pc = "start"
  BY DEF Init
<1> QED BY <1>7, <1>8, InitInv DEF Safe, WhereOK, AppOK, BootPc, ReleasePc, DlPc

\* Every step keeps it safe.
LEMMA NextSafe == ASSUME OnlyPowerFails, Safe, [Next]_vars PROVE Safe'
<1>1. Inv'
  BY NextInv DEF Safe
<1>2. CASE UNCHANGED vars
  <2>1. UNCHANGED <<flash, pc, ctx, src, dst, fw>>
    BY <1>2 DEF vars
  <2>2. WhereOK'
    BY <2>1 DEF Safe, WhereOK
  <2>3. /\ AppIntact' <=> AppIntact
        /\ \A q : BodyIntact(AppPart, q)' <=> BodyIntact(AppPart, q)
        /\ \A q : Pending(q)' <=> Pending(q)
    BY <2>1, AppKept, DownloadKept
  <2>4. BodyIntact(AppPart, fw)' <=> BodyIntact(AppPart, fw)
    BY <2>1 DEF BodyIntact, InBounds
  <2>5. Pending(fw)' <=> Pending(fw)
    BY <2>1 DEF Pending, InfoAt, qbt_fw_check, PkgIntact, qbt_release_sign_check, Releasable,
                InBounds
  <2>6. AppOK'
    BY <2>1, <2>3, <2>4, <2>5 DEF Safe, AppOK
  <2> QED BY <1>1, <2>2, <2>6 DEF Safe
<1>3. faults \in Nat /\ ~(faults < MaxFaults)
  BY DEF Safe, Inv, RestOK, OnlyPowerFails
<1>4. pc \notin {"last_shell", "clone_erase", "clone_write", "del_erase"}
  BY DEF Safe, WhereOK, BootPc, ReleasePc, DlPc
<1>5. CASE BootStep
  BY <1>1, <1>4, <1>5, DecisionSafe, CheckSafe, ReleaseSafe, GarbledSafe, VerifySafe
  DEF BootStep, LastShell, CloneErase, CloneWrite, DelErase, EraseSector
<1>6. CASE User
  BY <1>1, <1>6, DecisionSafe DEF User, KeyHeld, EnterPressed, OnlyPowerFails
<1>7. CASE Download
  BY <1>1, <1>7, DownloadSafe
<1>8. CASE Failure
  BY <1>1, <1>3, <1>8, PowerLossSafe, DecisionSafe
  DEF Failure, StartupFails, LastShellFails, FlashFault
<1> QED BY <1>2, <1>5, <1>6, <1>7, <1>8 DEF Next

\* Power failures at any moment of any number of downloads and releases never
\* make qboot start an incomplete application (RunsOnlyIntact).
THEOREM StartsOnlyIntact == ASSUME OnlyPowerFails PROVE Spec => []RunsOnlyIntact
<1>1. Safe => RunsOnlyIntact
  BY DEF Safe, AppOK, RunsOnlyIntact
<1>2. Init => Safe
  BY InitSafe
<1>3. Safe /\ [Next]_vars => Safe'
  BY NextSafe
<1> QED BY <1>1, <1>2, <1>3, PTL DEF Spec

-----------------------------------------------------------------------------
(* The update as one atomic step.                                          *)

\* All the packages that can be released are for the application.
ForTheApp == \A q \in Pkgs : Fw[q].algo_ok => Fw[q].part_name = AppPart

\* What is known of the offer on the way from the release to the start.
Settled ==
    /\ pc # "hung"
    /\ pc \in ReleasePc \cup {"verify"} => dst = AppPart
    /\ pc = "sign" => fw \in Pkgs /\ Pending(fw) /\ BodyIntact(AppPart, fw)
    /\ pc = "jump" => \A q \in Pkgs : Pending(q) => BodyIntact(AppPart, q)

abs == <<Installed, Offered, Running>>

\* Two packages have no code in common.
LEMMA InstalledIs == \A q \in Pkgs : BodyIntact(AppPart, q) => Installed = q
<1>1. ASSUME NEW q \in Pkgs, BodyIntact(AppPart, q) PROVE flash[AppPart][0] = RawCell(q, 0)
  <2>1. Fw[q].raw_size \in Nat \ {0}
    BY QbootAssumption DEF FwInfo
  <2> QED BY <1>1, <2>1 DEF BodyIntact
<1>2. ASSUME NEW q \in Pkgs, NEW r \in Pkgs, BodyIntact(AppPart, q), BodyIntact(AppPart, r)
      PROVE  q = r
  <2>1. RawCell(q, 0) = RawCell(r, 0)
    BY <1>1, <1>2
  <2> QED BY <2>1 DEF RawCell
<1>3. AppIntact => \E q \in Pkgs : BodyIntact(AppPart, q) /\ Installed = q
  BY DEF AppIntact, Installed
<1> QED BY <1>2, <1>3 DEF AppIntact

\* What waits is what is offered.
LEMMA OfferedIs ==
    /\ \A q \in Pkgs : Pending(q) => Offered = q
    /\ (\A q \in Pkgs : ~Pending(q)) => Offered = NoPkg
    /\ ~AppIntact => Installed = Offered
    /\ Offered \in {InfoAt(DownloadPart, 0), NoPkg}
  BY DEF Offered, Pending, Installed

\* The same in the next state.
LEMMA NextOffer ==
    /\ \A q \in Pkgs : BodyIntact(AppPart, q)' => Installed' = q
    /\ \A q \in Pkgs : Pending(q)' => Offered' = q
    /\ (\A q \in Pkgs : ~Pending(q)') => Offered' = NoPkg
    /\ ~AppIntact' => Installed' = Offered'
    /\ Offered' \in {InfoAt(DownloadPart, 0)', NoPkg}
<1>1. (\A q \in Pkgs : BodyIntact(AppPart, q) => Installed = q)'
  BY InstalledIs, PTL
<1>2. (/\ \A q \in Pkgs : Pending(q) => Offered = q
       /\ (\A q \in Pkgs : ~Pending(q)) => Offered = NoPkg
       /\ ~AppIntact => Installed = Offered
       /\ Offered \in {InfoAt(DownloadPart, 0), NoPkg})'
  BY OfferedIs, PTL
<1> QED BY <1>1, <1>2

\* An offer is a package.
LEMMA OfferType ==
    ASSUME FlashOK' PROVE Offered' \in Pkgs \cup {NoPkg}
<1>1. InfoAt(DownloadPart, 0)' \in Pkgs \cup {NoPkg}
  <2>1. flash'[DownloadPart][0] \in Cell
    BY Names DEF FlashOK
  <2> QED BY <2>1 DEF InfoAt, Cell
<1> QED BY <1>1, NextOffer

\* What is not written does not change the update.
LEMMA OfferKept ==
    ASSUME flash'[DownloadPart] = flash[DownloadPart] PROVE Offered' = Offered
<1>1. \A q : Pending(q)' <=> Pending(q)
  BY DownloadKept
<1>2. CASE \E q \in Pkgs : Pending(q)
  BY <1>1, <1>2, OfferedIs, NextOffer
<1>3. CASE \A q \in Pkgs : ~Pending(q)
  BY <1>1, <1>3, OfferedIs, NextOffer
<1> QED BY <1>2, <1>3

\* Complete code that is not written stays what the device consists of.
LEMMA AppStays ==
    ASSUME flash'[AppPart] = flash[AppPart], AppIntact PROVE Installed' = Installed
<1>1. PICK q \in Pkgs : BodyIntact(AppPart, q)
  BY DEF AppIntact
<1>2. BodyIntact(AppPart, q)'
  BY <1>1, AppKept
<1> QED BY <1>1, <1>2, InstalledIs, NextOffer

\* A step that writes nothing changes neither.
LEMMA NothingWritten ==
    ASSUME UNCHANGED flash PROVE Installed' = Installed /\ Offered' = Offered
<1>1. Offered' = Offered
  BY OfferKept
<1>2. CASE AppIntact
  BY <1>1, <1>2, AppStays
<1>3. CASE ~AppIntact
  <2>1. ~AppIntact'
    BY <1>3, AppKept
  <2> QED BY <1>1, <1>3, <2>1, OfferedIs, NextOffer
<1> QED BY <1>2, <1>3

\* Whatever a step of the release does to the application, and wherever the
\* power fails: the device consists of the same firmware as before, or of the
\* new one, because a cell changes only to the new code or to none.
LEMMA ReleaseInstalls ==
    ASSUME OnlyPowerFails, Safe, Settled, pc \in ReleasePc,
           \A p \in Parts : p # dst => flash'[p] = flash[p],
           \A c \in Cells(dst) : flash'[dst][c] \in {flash[dst][c], Goal[c], Torn}
    PROVE  Offered' = Offered /\ Offered # NoPkg /\ Installed' \in {Installed, Offered}
<1>1. /\ dst = AppPart /\ fw \in Pkgs /\ Pending(fw) /\ PkgIntact(src, fw)
      /\ dst \in Parts /\ flash[dst] \in [Cells(dst) -> Cell] /\ pos \in Nat
  BY ReleaseFacts DEF Settled
<1>2. PICK new \in Pkgs : new = fw
  BY <1>1
<1>o. Offered = new /\ Offered' = new /\ new # NoPkg
  <2>1. Pending(new)
    BY <1>1, <1>2
  <2>2. flash'[DownloadPart] = flash[DownloadPart]
    BY <1>1, Names
  <2> QED BY <2>1, <2>2, OfferedIs, OfferKept, FlashAssumption
<1>3. \A c \in Cells(dst) :
        Goal[c] \in {flash[dst][c], Blank, Torn, RawCell(fw, pos), Info(fw)}
  <2>1. CASE pc \in {"rel_erase", "rel_tail"}
    BY <2>1 DEF Goal, SectorErased
  <2>2. CASE pc = "rel_write"
    BY <1>1, <2>2 DEF Goal, Programmed, Program, Code
  <2>3. CASE pc = "rel_info"
    BY <1>1, <2>3 DEF Goal, Programmed, Program
  <2> QED BY <2>1, <2>2, <2>3 DEF ReleasePc
<1>4. ASSUME NEW q \in Pkgs, q # new, BodyIntact(AppPart, q)' PROVE BodyIntact(AppPart, q)
  <2>1. InBounds(AppPart, 0, Fw[q].raw_size)
    BY <1>4 DEF BodyIntact, InBounds
  <2>2. Fw[q].raw_size \in Nat /\ Len[AppPart] \in Nat
    BY Names, QbootAssumption, FlashAssumption DEF FwInfo
  <2>3. ASSUME NEW i \in 0 .. Fw[q].raw_size - 1 PROVE flash[AppPart][i] = RawCell(q, i)
    <3>1. i \in Cells(AppPart)
      BY <2>1, <2>2 DEF InBounds, Cells
    <3>2. flash'[AppPart][i] = RawCell(q, i)
      BY <1>4 DEF BodyIntact
    <3>3. RawCell(q, i) \notin {Blank, Torn, RawCell(new, pos), Info(new)}
      BY <1>4 DEF RawCell, Blank, Torn, Info
    <3> QED BY <1>1, <1>2, <1>3, <3>1, <3>2, <3>3
  <2> QED BY <2>1, <2>3 DEF BodyIntact
<1>5. ASSUME NEW q \in Pkgs, q # new, BodyIntact(AppPart, q)' PROVE Installed' = Installed
  BY <1>4, <1>5, InstalledIs, NextOffer
<1>6. CASE BodyIntact(AppPart, new)'
  BY <1>o, <1>6, NextOffer
<1>7. CASE \A q \in Pkgs : ~BodyIntact(AppPart, q)'
  <2>1. ~AppIntact'
    BY <1>7 DEF AppIntact
  <2> QED BY <1>o, <2>1, NextOffer
<1> QED BY <1>o, <1>5, <1>6, <1>7

\* The sign ends the offer, or leaves it as it is.
LEMMA SignSettles ==
    ASSUME Safe, Settled, pc = "sign", NEW g \in [Cells(src) -> Cell],
           flash' = [flash EXCEPT ![src] = g], g[0] = flash[src][0]
    PROVE  /\ Installed = Offered /\ Installed' = Installed /\ Offered' \in {Offered, NoPkg}
           /\ \A q \in Pkgs : Pending(q)' => BodyIntact(AppPart, q)'
<1>1. src = DownloadPart /\ \E q \in Pkgs : q = fw /\ Pending(q) /\ BodyIntact(AppPart, q)
  BY DEF Safe, WhereOK, Settled
<1>2. PICK new \in Pkgs : Pending(new) /\ BodyIntact(AppPart, new)
  BY <1>1
<1>3. flash'[AppPart] = flash[AppPart] /\ flash'[DownloadPart] = g
  BY <1>1, Names DEF Safe, Inv, FlashOK
<1>4. BodyIntact(AppPart, new)'
  BY <1>2, <1>3, AppKept
<1>5. InfoAt(DownloadPart, 0)' = new
  BY <1>1, <1>2, <1>3 DEF InfoAt, Pending
<1>6. Offered = new /\ Installed = new /\ Installed' = new
  BY <1>2, <1>4, OfferedIs, InstalledIs, NextOffer
<1>7. Offered' \in {new, NoPkg}
  BY <1>5, NextOffer
<1>8. \A q \in Pkgs : Pending(q)' => q = new
  BY <1>5 DEF Pending
<1> QED BY <1>4, <1>6, <1>7, <1>8

\* The sign lies behind the package.
LEMMA SignLeavesInfo ==
    ASSUME FlashOK, src \in Parts, NEW q \in Pkgs
    PROVE  /\ SignImage(q) \in [Cells(src) -> Cell]
           /\ SignImage(q)[0] = flash[src][0]
<1>1. flash[src] \in [Cells(src) -> Cell]
  BY DEF FlashOK
<1>2. SignCell(q) # 0
  BY QbootAssumption DEF SignCell, FwInfo
<1>3. SignImage(q) \in [Cells(src) -> Cell]
  BY <1>1, CellTypes, ImageTypes DEF SignImage
<1>4. SignImage(q)[0] = flash[src][0]
  BY <1>1, <1>2 DEF SignImage, Programmed
<1> QED BY <1>3, <1>4

\* An offer ends by having been installed.
LEMMA SettleOrNothing ==
    ASSUME Installed = Offered, Installed' = Installed, Offered' \in {Offered, NoPkg},
           ~Running, ~Running'
    PROVE  [Atomic!Next]_abs
<1>1. Running' = Running
  BY DEF Running
<1>2. CASE Offered' = Offered
  BY <1>1, <1>2 DEF abs
<1>3. CASE Offered' = NoPkg
  BY <1>1, <1>3 DEF Atomic!Next, Atomic!Settle
<1> QED BY <1>2, <1>3

\* Deciding is invisible, except for the start of the application.
LEMMA DecisionRefines ==
    ASSUME Safe, Settled,
           \/ Startup \/ KeyWatch \/ KeyReleased \/ EnterTimeout
           \/ JumpLegit \/ JumpRefused \/ Reboot \/ SyswatchRestarts
    PROVE  Settled' /\ [Atomic!Next]_abs
<1>1. UNCHANGED flash
  BY DEF Startup, KeyWatch, KeyReleased, EnterTimeout, JumpLegit, JumpRefused, Reboot,
         SyswatchRestarts
<1>2. Installed' = Installed /\ Offered' = Offered
  BY <1>1, NothingWritten
<1>3. CASE Startup \/ KeyWatch \/ KeyReleased \/ EnterTimeout
  <2>1. pc \in BootPc /\ pc' \in BootPc
    BY <1>3, Zenon DEF Startup, KeyWatch, KeyReleased, EnterTimeout, Idle, Handle, BootPc
  <2>2. Running' = Running
    BY <2>1 DEF Running, BootPc, DlPc
  <2> QED BY <1>2, <2>1, <2>2 DEF Settled, abs, BootPc, ReleasePc
<1>4. CASE JumpLegit \/ JumpRefused
  <2>1. pc = "jump" /\ AppIntact
    BY <1>4 DEF JumpLegit, JumpRefused, Safe, AppOK
  <2>2. pc' = "run"
    BY <1>4, <2>1, IntactIsRaw DEF JumpLegit, JumpRefused, Idle
  <2>3. Offered = NoPkg \/ Installed = Offered
    <3>1. CASE \E q \in Pkgs : Pending(q)
      BY <2>1, <3>1, OfferedIs, InstalledIs DEF Settled
    <3>2. CASE \A q \in Pkgs : ~Pending(q)
      BY <3>2, OfferedIs
    <3> QED BY <3>1, <3>2
  <2>4. ~Running /\ Running'
    BY <2>1, <2>2 DEF Running, DlPc
  <2>5. Atomic!Start
    BY <1>2, <2>3, <2>4 DEF Atomic!Start, Running
  <2> QED BY <2>2, <2>5 DEF Settled, Atomic!Next, ReleasePc
<1>5. CASE Reboot \/ SyswatchRestarts
  <2>1. pc = "run" /\ pc' = "start"
    BY <1>5 DEF Reboot, SyswatchRestarts, Restart, Idle, Settled, Safe, WhereOK, BootPc,
                ReleasePc, DlPc
  <2>2. Offered \in Pkgs \cup {NoPkg}
    BY Names, CheckedPackage, OfferedIs DEF Safe, Inv
  <2>3. Atomic!AppRuns
    BY <1>2, <2>1, <2>2 DEF Atomic!AppRuns, Running, DlPc
  <2> QED BY <2>1, <2>3 DEF Settled, Atomic!Next, ReleasePc
<1> QED BY <1>3, <1>4, <1>5

\* A step between two points at which the application does not run and nothing
\* is written cannot be seen.
LEMMA Invisible ==
    ASSUME UNCHANGED flash, pc \notin DlPc \cup {"run"}, pc' \notin DlPc \cup {"run"}
    PROVE  UNCHANGED abs
  BY NothingWritten DEF abs, Running

\* The check: an offer that is not taken up was none.
LEMMA CheckRefines ==
    ASSUME ForTheApp, Safe, Settled, CheckFails \/ AlreadyReleased \/ Refused \/ StartRelease
    PROVE  Settled' /\ [Atomic!Next]_abs
<1>1. pc = "check" /\ UNCHANGED flash
  BY DEF CheckFails, AlreadyReleased, Refused, StartRelease, NeedsRelease
<1>2. CASE CheckFails \/ AlreadyReleased \/ Refused
  <2>1. ctx = "auto" /\ \A r : ~Pending(r)
    BY <1>1, <1>2, NothingWaits
  <2>2. \A r : ~Pending(r)'
    BY <1>1, <2>1, DownloadKept
  <2>3. pc' = "jump"
    BY <1>2, <2>1, ReturnJumps DEF CheckFails, AlreadyReleased, Refused
  <2> QED BY <1>1, <2>2, <2>3, Invisible DEF Settled, ReleasePc, DlPc
<1>3. CASE StartRelease
  <2>1. src \in Parts /\ qbt_fw_check(src) /\ Fw[InfoAt(src, 0)].algo_ok
    BY <1>1, <1>3 DEF StartRelease, NeedsRelease, Releasable, Safe, Inv, WorkOK
  <2>2. Fw[InfoAt(src, 0)].part_name = AppPart
    BY <2>1, CheckedPackage DEF ForTheApp, Safe, Inv
  <2>3. pc' = "rel_erase" /\ dst' = AppPart
    BY <1>3, <2>2 DEF StartRelease
  <2> QED BY <1>1, <2>3, Invisible DEF Settled, ReleasePc, DlPc
<1> QED BY <1>2, <1>3

\* A change of the application during a release is the installation of the
\* offer, or nothing.
LEMMA InstallOrNothing ==
    ASSUME Offered' = Offered, Offered # NoPkg, Installed' \in {Installed, Offered},
           ~Running, ~Running'
    PROVE  [Atomic!Next]_abs
<1>1. Running' = Running
  BY DEF Running
<1>2. CASE Installed' = Installed
  BY <1>1, <1>2 DEF abs
<1>3. CASE Installed' = Offered
  BY <1>1, <1>3 DEF Atomic!Next, Atomic!Install
<1> QED BY <1>2, <1>3

\* The steps of the release.
LEMMA ReleaseRefines ==
    ASSUME OnlyPowerFails, Safe, Settled,
           ReleaseErase \/ ReleaseEraseTail \/ ReleaseWrite \/ ReleaseInfo
    PROVE  Settled' /\ [Atomic!Next]_abs
<1>1. pc \in ReleasePc /\ dst = AppPart
  BY DEF ReleaseErase, ReleaseEraseTail, ReleaseWrite, ReleaseInfo, EraseSector, ReleasePc,
         Settled
<1>2. pc' \in ReleasePc \cup {"verify"} /\ dst' = dst
  BY <1>1, NoWriteFails
<1>3. Target = dst /\ Goal \in [Cells(dst) -> Cell]
  BY <1>1, GoalType DEF Target, Safe
<1>4. flash' = [flash EXCEPT ![dst] = Goal]
  BY DEF ReleaseErase, ReleaseEraseTail, ReleaseWrite, ReleaseInfo, EraseSector, Goal
<1>5. flash'[dst] = Goal /\ \A p \in Parts : p # dst => flash'[p] = flash[p]
  <2>1. dst \in Parts /\ FlashOK
    BY <1>1, ReleaseFacts DEF Safe, Inv
  <2> QED BY <1>3, <1>4, <2>1, FlashUpdate
<1>6. Offered' = Offered /\ Offered # NoPkg /\ Installed' \in {Installed, Offered}
  BY <1>1, <1>5, ReleaseInstalls
<1>7. ~Running /\ ~Running'
  BY <1>1, <1>2 DEF Running, ReleasePc, DlPc
<1>8. Settled'
  BY <1>1, <1>2 DEF Settled, ReleasePc
<1> QED BY <1>6, <1>7, <1>8, InstallOrNothing

\* The verification, and the sign that ends the offer.
LEMMA VerifyRefines ==
    ASSUME OnlyPowerFails, Safe, Settled, Verify \/ WriteSign
    PROVE  Settled' /\ [Atomic!Next]_abs
<1>1. CASE Verify
  <2>1. /\ pc = "verify" /\ UNCHANGED flash /\ dst = AppPart /\ ctx = "auto"
        /\ fw' = InfoAt(dst, Tail(dst))
    BY <1>1, ReleaseFacts DEF Verify, Settled
  <2>2. PICK new \in Pkgs : new = fw /\ Pending(new) /\ BodyIntact(AppPart, new)
    BY <2>1, ReleaseFacts DEF Safe, AppOK
  <2>3. Pending(new)' /\ BodyIntact(AppPart, new)'
    BY <2>1, <2>2, AppKept, DownloadKept
  <2>4. CASE pc' = "sign" /\ qbt_dest_part_verify(dst)
    <3>1. flash[dst][Tail(dst)] \in {Info(new), Torn}
      BY <2>1, <2>2 DEF Safe, Inv, ReleaseOK, InfoOK
    <3>2. fw' = new
      BY SMTT(30), <2>1, <2>4, <3>1 DEF qbt_dest_part_verify, InfoAt, Info, Torn
    <3>3. (fw \in Pkgs /\ Pending(fw) /\ BodyIntact(AppPart, fw))'
      BY <2>1, <2>2, <3>2, AppKept, DownloadKept
      DEF Pending, InfoAt, qbt_fw_check, PkgIntact, qbt_release_sign_check, Releasable,
          InBounds, BodyIntact
    <3> QED BY <2>1, <2>4, <3>3, Invisible DEF Settled, ReleasePc, DlPc
  <2>5. CASE Return(TRUE) \/ Return(FALSE)
    <3>1. pc' = "jump"
      BY <2>1, <2>5, ReturnJumps
    <3>2. \A q \in Pkgs : Pending(q)' => q = new
      BY <2>3 DEF Pending
    <3> QED BY <2>1, <2>3, <3>1, <3>2, Invisible DEF Settled, ReleasePc, DlPc
  <2> QED BY <1>1, <2>4, <2>5 DEF Verify
<1>2. CASE WriteSign
  <2>1. /\ pc = "sign" /\ ctx = "auto" /\ src = DownloadPart /\ fw \in Pkgs
        /\ flash' = [flash EXCEPT ![src] = SignImage(fw)] /\ Return(TRUE)
    BY <1>2 DEF WriteSign, Safe, WhereOK, Settled
  <2>2. pc' = "jump"
    BY <2>1, ReturnJumps
  <2>3. SignImage(fw) \in [Cells(src) -> Cell] /\ SignImage(fw)[0] = flash[src][0]
    BY <2>1, Names, SignLeavesInfo DEF Safe, Inv
  <2>4. /\ Installed = Offered /\ Installed' = Installed /\ Offered' \in {Offered, NoPkg}
        /\ \A q \in Pkgs : Pending(q)' => BodyIntact(AppPart, q)'
    BY <2>1, <2>3, SignSettles
  <2>5. ~Running /\ ~Running'
    BY <2>1, <2>2 DEF Running, DlPc
  <2> QED BY <2>2, <2>4, <2>5, SettleOrNothing DEF Settled, ReleasePc
<1> QED BY <1>1, <1>2

\* What the application does, a download above all, does not touch its code.
LEMMA DownloadRefines ==
    ASSUME OnlyPowerFails, Safe, Settled, Safe', Download
    PROVE  Settled' /\ [Atomic!Next]_abs
<1>1. pc \in DlPc \cup {"run"} /\ AppIntact
  BY DEF Download, DlBegin, DlErase, DlWrite, DlPad, DlAbort, EraseSector, DlPc, Safe, WhereOK,
         AppOK, BootPc, ReleasePc
<1>2. pc' \in DlPc \cup {"run", "start"}
  BY <1>1 DEF Download, DlBegin, DlErase, DlWrite, DlPad, DlAbort, EraseSector, DlPc, Idle,
         Restart, Safe, WhereOK, BootPc, ReleasePc
<1>3. flash'[AppPart] = flash[AppPart]
  <2>1. CASE UNCHANGED flash
    BY <2>1
  <2>2. CASE dst # AppPart /\ flash' = [flash EXCEPT ![dst] = Goal]
    BY <2>2, Names DEF Safe, Inv, FlashOK
  <2>3. CASE DlErase \/ DlWrite \/ DlPad
    <3>1. dst # AppPart
      BY <2>3 DEF DlErase, DlWrite, DlPad, EraseSector, DlPc, Safe, WhereOK
    <3>2. flash' = [flash EXCEPT ![dst] = Goal]
      BY <2>3 DEF DlErase, DlWrite, DlPad, EraseSector, Goal
    <3> QED BY <2>2, <3>1, <3>2
  <2> QED BY <2>1, <2>3 DEF Download, DlBegin, DlAbort
<1>4. Installed' = Installed
  BY <1>1, <1>3, AppStays
<1>5. Offered' \in Pkgs \cup {NoPkg}
  BY OfferType DEF Safe, Inv
<1>6. Atomic!AppRuns
  BY <1>1, <1>4, <1>5 DEF Atomic!AppRuns, Running
<1> QED BY <1>2, <1>6 DEF Settled, Atomic!Next, ReleasePc, DlPc

\* The power fails: whatever was under way was a part of the update, or of a
\* download, or changes nothing.
LEMMA PowerLossRefines ==
    ASSUME OnlyPowerFails, Safe, Settled, Safe', PowerLoss
    PROVE  Settled' /\ [Atomic!Next]_abs
<1>1. pc' = "start" /\ CutShort
  BY DEF PowerLoss, Restart, Idle
<1>2. Settled' /\ ~Running'
  BY <1>1 DEF Settled, Running, ReleasePc, DlPc
<1>3. Target \in Parts /\ Goal \in [Cells(Target) -> Cell] /\ FlashOK
  BY GoalType DEF Safe, Inv
<1>4. PICK how \in Ways(flash[Target], Goal) :
        flash' = [flash EXCEPT ![Target] = Interrupted(flash[Target], Goal, how)]
  BY <1>1 DEF CutShort
<1> DEFINE g == Interrupted(flash[Target], Goal, how)
<1>5. g \in [Cells(Target) -> Cell]
  BY <1>3, ImageTypes DEF FlashOK
<1>6. flash'[Target] = g /\ \A p \in Parts : p # Target => flash'[p] = flash[p]
  BY <1>3, <1>4, <1>5, FlashUpdate
<1>7. \A c \in Cells(Target) : /\ g[c] \in {flash[Target][c], Goal[c], Torn}
                               /\ Goal[c] = flash[Target][c] => g[c] = flash[Target][c]
  BY <1>3 DEF Interrupted, FlashOK
<1>8. CASE pc \in ReleasePc
  <2>1. Target = dst
    BY <1>8 DEF Target
  <2>2. Offered' = Offered /\ Offered # NoPkg /\ Installed' \in {Installed, Offered}
    BY <1>6, <1>7, <1>8, <2>1, ReleaseInstalls
  <2>3. ~Running
    BY <1>8 DEF Running, ReleasePc, DlPc
  <2> QED BY <1>2, <2>2, <2>3, InstallOrNothing
<1>9. CASE pc = "sign"
  <2>1. Target = src /\ Goal = SignImage(fw) /\ src \in Parts /\ fw \in Pkgs
    BY <1>9 DEF Target, Goal, ReleasePc, ClonePc, DlPc, Safe, Inv, WorkOK
  <2>2. 0 \in Cells(Target) /\ Goal[0] = flash[Target][0]
    BY <1>3, <1>9, <2>1, Names, SignLeavesInfo DEF Safe, WhereOK
  <2>3. g[0] = flash[src][0]
    BY <1>7, <2>1, <2>2
  <2>4. Installed = Offered /\ Installed' = Installed /\ Offered' \in {Offered, NoPkg}
    BY <1>4, <1>5, <1>9, <2>1, <2>3, SignSettles
  <2>5. ~Running
    BY <1>9 DEF Running, DlPc
  <2> QED BY <1>2, <2>4, <2>5, SettleOrNothing
<1>10. CASE pc \in DlPc \cup {"run"}
  <2>1. AppIntact /\ Running
    BY <1>10 DEF Safe, AppOK, Running
  <2>2. flash'[AppPart] = flash[AppPart]
    <3>1. CASE pc \in DlPc
      BY <1>6, <3>1, Names DEF Target, Safe, WhereOK
    <3>2. CASE pc = "run"
      <4>1. Target = AppPart /\ Goal = flash[AppPart]
        BY <3>2 DEF Target, Goal, ReleasePc, ClonePc, DlPc
      <4> QED BY <4>1, CutShortElsewhere, <1>1 DEF Safe
    <3> QED BY <1>10, <3>1, <3>2
  <2>3. Installed' = Installed
    BY <2>1, <2>2, AppStays
  <2>4. Offered' \in Pkgs \cup {NoPkg}
    BY OfferType DEF Safe, Inv
  <2>5. Atomic!AppRuns
    BY <1>2, <2>1, <2>3, <2>4 DEF Atomic!AppRuns, Running
  <2> QED BY <1>2, <2>5 DEF Atomic!Next
<1>11. CASE pc \in BootPc \cup {"verify", "jump"}
  <2>1. Target = AppPart /\ Goal = flash[AppPart]
    BY <1>11 DEF Target, Goal, BootPc, ReleasePc, ClonePc, DlPc
  <2>2. flash'[Target] = flash[Target]
    BY <1>1, <2>1, CutShortElsewhere DEF Safe
  <2>3. UNCHANGED flash
    BY <1>3, <1>4, <1>6, <2>2 DEF FlashOK
  <2>4. pc \notin DlPc \cup {"run"} /\ pc' \notin DlPc \cup {"run"}
    BY <1>1, <1>11 DEF BootPc, DlPc
  <2> QED BY <1>2, <2>3, <2>4, Invisible
<1> QED BY <1>8, <1>9, <1>10, <1>11 DEF Safe, WhereOK, Settled

\* Every step is one of AtomicUpdate, or cannot be seen.
LEMMA NextRefines ==
    ASSUME OnlyPowerFails, ForTheApp, Safe, Settled, Safe', [Next]_vars
    PROVE  Settled' /\ [Atomic!Next]_abs
<1>1. CASE UNCHANGED vars
  <2>1. UNCHANGED <<flash, pc, dst, fw>>
    BY <1>1 DEF vars
  <2>2. Settled'
    <3>1. \A q \in Pkgs : /\ Pending(q)' <=> Pending(q)
                          /\ BodyIntact(AppPart, q)' <=> BodyIntact(AppPart, q)
      BY <2>1, AppKept, DownloadKept
    <3>2. CASE pc = "sign"
      BY <2>1, <3>2 DEF Settled, ReleasePc, Pending, InfoAt, qbt_fw_check, PkgIntact,
                        qbt_release_sign_check, Releasable, InBounds, BodyIntact
    <3>3. CASE pc # "sign"
      BY <2>1, <3>1, <3>3 DEF Settled
    <3> QED BY <3>2, <3>3
  <2>3. Installed' = Installed /\ Offered' = Offered
    BY <2>1, NothingWritten
  <2>4. Running' = Running
    BY <2>1 DEF Running
  <2> QED BY <2>2, <2>3, <2>4 DEF abs
<1>2. ~(faults < MaxFaults)
  BY DEF Safe, Inv, RestOK, OnlyPowerFails
<1>3. pc \notin {"last_shell", "clone_erase", "clone_write", "del_erase"}
  BY DEF Safe, WhereOK, BootPc, ReleasePc, DlPc
<1>4. ~ReleaseGarbled
  BY ReleaseFacts DEF ReleaseGarbled, Settled, ReleasePc
<1>5. CASE BootStep
  BY <1>3, <1>4, <1>5, DecisionRefines, CheckRefines, ReleaseRefines, VerifyRefines
  DEF BootStep, LastShell, CloneErase, CloneWrite, DelErase, EraseSector
<1>6. CASE User
  BY <1>6, DecisionRefines DEF User, KeyHeld, EnterPressed, OnlyPowerFails
<1>7. CASE Download
  BY <1>7, DownloadRefines
<1>8. CASE Failure
  BY <1>2, <1>8, PowerLossRefines, DecisionRefines
  DEF Failure, StartupFails, LastShellFails, FlashFault
<1> QED BY <1>1, <1>5, <1>6, <1>7, <1>8 DEF Next

\* A delivered device has complete code and nothing to install.
LEMMA InitRefines ==
    ASSUME OnlyPowerFails, Init PROVE Settled /\ Atomic!Init
<1>1. pc = "start" /\ Safe
  BY InitSafe DEF Init
<1>2. PICK a \in InitApp, f \in InitFactory :
        flash = [p \in Parts |-> CASE p = AppPart -> CodeImage(p, a)
                                  [] p = FactoryPart -> PkgImage(p, f)
                                  [] OTHER -> PkgImage(p, NoPkg)]
  BY DEF Init
<1>3. flash[DownloadPart] = PkgImage(DownloadPart, NoPkg)
  BY <1>2, Names DEF AppPart, DownloadPart, FactoryPart
<1>4. flash[DownloadPart][0] = Blank
  BY <1>3, Names DEF PkgImage
<1>5. InfoAt(DownloadPart, 0) = NoPkg
  BY <1>4 DEF InfoAt, Blank
<1>6. Offered = NoPkg
  BY <1>5, OfferedIs
<1>7. Installed \in Pkgs
  <2>1. PICK q \in Pkgs : BodyIntact(AppPart, q)
    <3>1. AppIntact
      <4>1. \A q \in Pkgs : ~Pending(q)
        BY <1>5, FlashAssumption DEF Pending
      <4> QED BY <1>1, <4>1 DEF Safe, AppOK, BootPc
    <3> QED BY <3>1 DEF AppIntact
  <2> QED BY <2>1, InstalledIs
<1>8. Running = FALSE
  BY <1>1 DEF Running, DlPc
<1> QED BY <1>1, <1>6, <1>7, <1>8 DEF Settled, Atomic!Init, ReleasePc

\* Seen from outside the update is one atomic step, for every layout and every
\* set of packages: no power failure shows a mixture, and a package that waits
\* is installed before anything is started (UpdateIsAtomic).
THEOREM UpdateRefinesAtomic ==
    ASSUME OnlyPowerFails, ForTheApp PROVE Spec => UpdateIsAtomic
<1>1. Init => Safe /\ Settled /\ Atomic!Init
  BY InitSafe, InitRefines
<1>2. Safe /\ Settled /\ [Next]_vars => Safe' /\ Settled' /\ [Atomic!Next]_abs
  BY NextSafe, NextRefines
<1> QED BY <1>1, <1>2, PTL DEF Spec, UpdateIsAtomic, Atomic!Spec, abs

=============================================================================
