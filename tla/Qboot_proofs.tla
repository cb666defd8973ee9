---------------------------- MODULE Qboot_proofs ----------------------------
(***************************************************************************)
(* Proofs about the boot loader: its types, and that the release sign is   *)
(* written only for a complete release, for every layout of the flash,     *)
(* every set of packages and every bound.                                  *)
(***************************************************************************)
EXTENDS Qboot, TLAPS

FlashOK ==
    /\ flash = [p \in Parts |-> flash[p]]
    /\ \A p \in Parts : flash[p] \in [Cells(p) -> Cell]

\* The types of everything but the flash and the control.
RestOK ==
    /\ fw \in Pkgs \cup {NoPkg} /\ rx \in Pkgs \cup {NoPkg}
    /\ led \in {1, 2, 4, 10}
    /\ losses \in 0 .. MaxLosses /\ faults \in 0 .. MaxFaults
    /\ downloads \in 0 .. MaxDownloads

ControlOK ==
    /\ pc \in Pc
    /\ ctx \in BootCtx \cup CmdCtx \cup OtherCtx \cup {"none"}
    /\ src \in Parts \cup {"none"} /\ dst \in Parts \cup {"none"}
    /\ pos \in Nat

\* What the work under way relies on.
WorkOK ==
    /\ pc \in {"check", "verify", "sign"} \cup ReleasePc =>
            src \in Parts /\ ctx \in BootCtx \cup CmdCtx
    /\ pc \in {"verify", "sign"} \cup ReleasePc =>
            dst \in Parts /\ fw \in Pkgs /\ InBounds(dst, 0, Fw[fw].raw_size)
    /\ pc \in ClonePc => /\ src \in Parts /\ dst \in Parts /\ fw \in Pkgs
                         /\ InBounds(src, 0, 1 + Fw[fw].pkg_size)
                         /\ InBounds(dst, 0, 1 + Fw[fw].pkg_size)
    /\ pc = "del_erase" => dst \in Parts /\ fw \in Pkgs
    /\ pc \in DlPc => /\ dst \in Parts /\ rx \in Pkgs /\ ctx \in {"run", "shell"}
                      /\ InBounds(dst, 0, 1 + Fw[rx].pkg_size)
    /\ pc = "clone_write" => pos <= Fw[fw].pkg_size
    /\ pc = "dl_write" => pos <= Fw[rx].pkg_size
    /\ pc = "dl_pad" => pos < Len[dst]
    /\ pc = "jump" => ctx \in BootCtx \cup {"cmd_jump", "nofal_jump"}

\* The info is complete only if the code before it is.
InfoOK ==
    /\ flash[dst][Tail(dst)] \in {Info(fw), Torn}
    /\ src # dst /\ flash[dst][Tail(dst)] = Info(fw) => Delivered(dst, fw)

\* The head of a package that was sent to the partition it lies in is erased, and
\* nothing that the release makes of the rest looks like it.
Beheaded == flash[dst][0] \in {Blank, Torn}

\* How far the release has come: what is erased, what is written.  A package
\* that is released to the partition it lies in has its last conjuncts to itself.
ReleaseOK ==
    /\ pc \in ReleasePc /\ src # dst => PkgIntact(src, fw)
    /\ pc = "rel_erase" =>
            \A c \in Cells(dst) : SectorOf[dst][c] < pos => flash[dst][c] = Blank
    /\ pc = "rel_tail" =>
            pos = 0 /\ \A c \in 0 .. Fw[fw].raw_size - 1 : flash[dst][c] = Blank
    /\ pc = "rel_write" =>
            /\ pos < Fw[fw].raw_size
            /\ (src # dst => \A c \in 0 .. pos - 1 : flash[dst][c] = RawCell(fw, c))
            /\ \A c \in pos .. Fw[fw].raw_size - 1 : flash[dst][c] = Blank
    /\ pc \in {"rel_write", "rel_info"} /\ Fw[fw].raw_size <= Tail(dst) =>
            flash[dst][Tail(dst)] = Blank
    /\ pc = "rel_info" /\ src # dst => Delivered(dst, fw)
    /\ pc = "verify" => InfoOK
    /\ pc = "sign" /\ src # dst => Confirmed(dst, fw)
    /\ pc \in {"verify", "sign"} \cup ReleasePc /\ src = dst => Tail(dst) # 0
    /\ pc \in {"rel_tail", "rel_write", "rel_info", "verify", "sign"} /\ src = dst => Beheaded
    /\ pc = "sign" /\ src = dst => ErasedItself(dst, fw)

Inv == FlashOK /\ RestOK /\ ControlOK /\ WorkOK /\ ReleaseOK

-----------------------------------------------------------------------------
(* The flash operations.                                                   *)

\* Every constant cell is a cell.
LEMMA CellTypes ==
    /\ Blank \in Cell /\ Torn \in Cell /\ Sign \in Cell /\ Pad \in Cell
    /\ \A q \in Pkgs, i \in Nat :
            Info(q) \in Cell /\ PkgCell(q, i) \in Cell /\ RawCell(q, i) \in Cell
  BY DEF Blank, Torn, Sign, Pad, Info, PkgCell, RawCell, Cell, Kinds

\* Programming, erasing and an operation cut short yield cells.
LEMMA ImageTypes ==
    ASSUME NEW p \in Parts, NEW f \in [Cells(p) -> Cell]
    PROVE  /\ \A s : SectorErased(f, p, s) \in [Cells(p) -> Cell]
           /\ \A c : \A v \in Cell : Programmed(f, c, v) \in [Cells(p) -> Cell]
           /\ \A g \in [Cells(p) -> Cell] : \A how :
                    Interrupted(f, g, how) \in [Cells(p) -> Cell]
<1>1. \A s : SectorErased(f, p, s) \in [Cells(p) -> Cell]
  BY CellTypes DEF SectorErased
<1>2. ASSUME NEW c, NEW v \in Cell
      PROVE  Programmed(f, c, v) \in [Cells(p) -> Cell]
  BY CellTypes DEF Programmed, Program
<1>3. ASSUME NEW g \in [Cells(p) -> Cell], NEW how
      PROVE  Interrupted(f, g, how) \in [Cells(p) -> Cell]
  BY CellTypes DEF Interrupted
<1> QED BY <1>1, <1>2, <1>3

\* Changing one partition.
LEMMA FlashUpdate ==
    ASSUME FlashOK, NEW d \in Parts, NEW g \in [Cells(d) -> Cell],
           flash' = [flash EXCEPT ![d] = g]
    PROVE  FlashOK' /\ flash'[d] = g /\ \A p \in Parts : p # d => flash'[p] = flash[p]
  BY DEF FlashOK

-----------------------------------------------------------------------------
(* Control.                                                                *)

\* The next state is outside of every loop that writes.
Quiet ==
    /\ pc \in IdlePc \cup {"jump", "check"}
    /\ ctx \in BootCtx \cup CmdCtx \cup OtherCtx \cup {"none"}
    /\ src \in Parts \cup {"none"} /\ dst \in Parts \cup {"none"}
    /\ pos \in Nat
    /\ pc = "check" => src \in Parts /\ ctx \in BootCtx \cup CmdCtx
    /\ pc = "jump" => ctx \in BootCtx \cup {"cmd_jump", "nofal_jump"}

\* Where nothing is written, nothing but types is to be shown.
LEMMA QuietInv == FlashOK' /\ RestOK' /\ Quiet' => Inv'
  BY DEF Inv, Quiet, ControlOK, WorkOK, ReleaseOK, Pc, IdlePc, ReleasePc, ClonePc, DlPc

LEMMA IdleQuiet ==
    ASSUME NEW to \in IdlePc, Idle(to) PROVE Quiet'
  BY DEF Idle, Quiet, IdlePc

LEMMA GiveUpQuiet ==
    ASSUME NEW c, GiveUp(c) PROVE Quiet'
  BY QbootAssumption DEF GiveUp, Idle, Handle, Quiet, IdlePc, BootCtx

\* A finished release leads to a jump, to the next stage or to the shell.
LEMMA ReturnQuiet ==
    ASSUME NEW ok, ctx \in BootCtx \cup CmdCtx, Return(ok) PROVE Quiet'
<1>1. CASE GiveUp(ctx)
  BY <1>1, GiveUpQuiet
<1>2. CASE Jump(ctx) /\ ctx \in BootCtx
  BY <1>2 DEF Jump, Quiet
<1> QED BY <1>1, <1>2 DEF Return, BootCtx

\* The result of a flash check is the package whose header was read.
LEMMA CheckedPackage ==
    ASSUME FlashOK, NEW p \in Parts
    PROVE  /\ \A c \in Cells(p) : InfoAt(p, c) \in Pkgs \cup {NoPkg}
           /\ InfoAt(p, 0) \in Pkgs \cup {NoPkg}
           /\ InfoAt(p, Tail(p)) \in Pkgs \cup {NoPkg}
           /\ qbt_fw_check(p) => InfoAt(p, 0) \in Pkgs /\ PkgIntact(p, InfoAt(p, 0))
<1>1. \A c \in Cells(p) : InfoAt(p, c) \in Pkgs \cup {NoPkg}
  BY DEF FlashOK, InfoAt, Cell
<1>2. 0 \in Cells(p) /\ Tail(p) \in Cells(p)
  BY FlashAssumption DEF Cells, Tail
<1> QED BY <1>1, <1>2 DEF qbt_fw_check

\* The package survives what is done to another partition.
LEMMA SourceKept ==
    ASSUME src \in Parts, src # dst, PkgIntact(src, fw), UNCHANGED <<src, fw>>,
           \A p \in Parts : p # dst => flash'[p] = flash[p]
    PROVE  PkgIntact(src, fw)'
  BY DEF PkgIntact, InBounds

\* An operation cut short leaves cells in every partition.
LEMMA CutShortFlash ==
    ASSUME FlashOK, Target \in Parts, Goal \in [Cells(Target) -> Cell], CutShort
    PROVE  FlashOK'
<1>1. PICK how \in Ways(flash[Target], Goal) :
        flash' = [flash EXCEPT ![Target] = Interrupted(flash[Target], Goal, how)]
  BY DEF CutShort
<1>2. Interrupted(flash[Target], Goal, how) \in [Cells(Target) -> Cell]
  BY ImageTypes DEF FlashOK
<1> QED BY <1>1, <1>2, FlashUpdate

\* What the operation under way aims at.
LEMMA GoalType ==
    ASSUME Inv PROVE Target \in Parts /\ Goal \in [Cells(Target) -> Cell]
<1> DEFINE Writing == ReleasePc \cup ClonePc \cup DlPc \cup {"del_erase"}
<1>1. CASE pc \in Writing
  <2>1. Target = dst /\ dst \in Parts /\ flash[dst] \in [Cells(dst) -> Cell]
    BY <1>1 DEF Inv, FlashOK, WorkOK, Target
  <2>2. CASE pc \in {"rel_erase", "clone_erase", "dl_erase", "del_erase", "rel_tail"}
    BY <2>1, <2>2, ImageTypes DEF Goal
  <2>3. CASE pc = "rel_write"
    <3>1. Code(pos) \in Cell
      BY <2>3, CellTypes DEF Inv, ControlOK, WorkOK, ReleasePc, Code
    <3> QED BY <2>1, <2>3, <3>1, ImageTypes DEF Goal
  <2>4. CASE pc = "rel_info"
    <3>1. Info(fw) \in Cell
      BY <2>4, CellTypes DEF Inv, WorkOK, ReleasePc
    <3> QED BY <2>1, <2>4, <3>1, ImageTypes DEF Goal
  <2>5. CASE pc = "clone_write"
    <3>1. /\ src \in Parts /\ fw \in Pkgs /\ pos \in Nat /\ pos <= Fw[fw].pkg_size
          /\ 0 + (1 + Fw[fw].pkg_size) <= Len[src]
      BY <2>5 DEF Inv, ControlOK, WorkOK, ClonePc, InBounds
    <3>2. Fw[fw].pkg_size \in Nat /\ Len[src] \in Nat
      BY <3>1, QbootAssumption, FlashAssumption DEF FwInfo
    <3>3. flash[src][pos] \in Cell
      BY <3>1, <3>2 DEF Inv, FlashOK, Cells
    <3> QED BY <2>1, <2>5, <3>3, ImageTypes DEF Goal
  <2>6. CASE pc = "dl_write"
    <3>1. FileCell(rx, pos) \in Cell
      BY <2>6, CellTypes DEF Inv, ControlOK, WorkOK, DlPc, FileCell
    <3> QED BY <2>1, <2>6, <3>1, ImageTypes DEF Goal
  <2>7. CASE pc = "dl_pad"
    BY <2>1, <2>7, CellTypes, ImageTypes DEF Goal
  <2> QED BY <1>1, <2>2, <2>3, <2>4, <2>5, <2>6, <2>7 DEF ReleasePc, ClonePc, DlPc
<1>2. CASE pc = "sign"
  <2>1. Target = src /\ src \in Parts /\ flash[src] \in [Cells(src) -> Cell]
    BY <1>2 DEF Inv, FlashOK, WorkOK, Target, ReleasePc, ClonePc, DlPc
  <2>2. SignImage(fw) \in [Cells(src) -> Cell]
    BY <2>1, CellTypes, ImageTypes DEF SignImage
  <2> QED BY <1>2, <2>1, <2>2 DEF Goal
<1>3. CASE pc \notin Writing \cup {"sign"}
  <2>1. Target = AppPart /\ AppPart \in Parts /\ Goal = flash[AppPart]
    BY <1>3, QbootAssumption DEF Target, Goal, ReleasePc, ClonePc, DlPc
  <2> QED BY <2>1 DEF Inv, FlashOK
<1> QED BY <1>1, <1>2, <1>3

-----------------------------------------------------------------------------
(* One lemma per group of actions.                                         *)

\* Steps of the boot thread that read, wait and decide.
LEMMA DecisionStep ==
    ASSUME Inv,
           \/ Startup \/ StartupFails \/ KeyWatch \/ KeyHeld \/ KeyReleased
           \/ EnterPressed \/ EnterTimeout \/ LastShell \/ LastShellFails
           \/ JumpLegit \/ JumpRefused \/ ReleaseGarbled
    PROVE  Inv'
<1> USE DEF Inv, bounds, work
<1>1. CASE Startup \/ StartupFails \/ KeyWatch
  <2>1. Quiet' BY <1>1 DEF Startup, StartupFails, KeyWatch, Quiet, ControlOK, IdlePc
  <2>2. FlashOK' BY <1>1 DEF Startup, StartupFails, KeyWatch, FlashOK
  <2>3. RestOK' BY <1>1, QbootAssumption DEF Startup, StartupFails, KeyWatch, RestOK
  <2> QED BY <2>1, <2>2, <2>3, QuietInv
<1>2. CASE KeyHeld \/ KeyReleased \/ EnterPressed \/ EnterTimeout
  <2>1. Quiet' BY <1>2, IdleQuiet, QbootAssumption
        DEF KeyHeld, KeyReleased, EnterPressed, EnterTimeout, Handle, Quiet, IdlePc, BootCtx
  <2>2. FlashOK' BY <1>2 DEF KeyHeld, KeyReleased, EnterPressed, EnterTimeout, FlashOK
  <2>3. RestOK' BY <1>2 DEF KeyHeld, KeyReleased, EnterPressed, EnterTimeout, RestOK
  <2> QED BY <2>1, <2>2, <2>3, QuietInv
<1>3. CASE LastShell \/ LastShellFails
  <2>1. Quiet' BY <1>3, IdleQuiet DEF LastShell, LastShellFails, IdlePc
  <2>2. FlashOK' BY <1>3 DEF LastShell, LastShellFails, FlashOK
  <2>3. RestOK' BY <1>3, QbootAssumption DEF LastShell, LastShellFails, RestOK
  <2> QED BY <2>1, <2>2, <2>3, QuietInv
<1>4. CASE JumpLegit \/ JumpRefused
  <2>1. Quiet' BY <1>4, IdleQuiet, GiveUpQuiet DEF JumpLegit, JumpRefused, IdlePc
  <2>2. FlashOK' BY <1>4 DEF JumpLegit, JumpRefused, FlashOK
  <2>3. RestOK' BY <1>4 DEF JumpLegit, JumpRefused, RestOK
  <2> QED BY <2>1, <2>2, <2>3, QuietInv
<1>5. CASE ReleaseGarbled
  <2>1. Quiet' BY <1>5, ReturnQuiet
        DEF ReleaseGarbled, Quiet, ControlOK, WorkOK, ReleasePc, IdlePc
  <2>2. FlashOK' BY <1>5 DEF ReleaseGarbled, FlashOK
  <2>3. RestOK' BY <1>5 DEF ReleaseGarbled, Lamp, RestOK
  <2> QED BY <2>1, <2>2, <2>3, QuietInv
<1> QED BY <1>1, <1>2, <1>3, <1>4, <1>5

\* The firmware check and what follows from it.
LEMMA CheckStep ==
    ASSUME Inv, CheckFails \/ AlreadyReleased \/ Refused \/ StartRelease
    PROVE  Inv'
<1> USE DEF Inv, bounds
<1>1. pc = "check" /\ src \in Parts /\ ctx \in BootCtx \cup CmdCtx
  BY DEF CheckFails, AlreadyReleased, Refused, StartRelease, NeedsRelease, WorkOK
<1>2. FlashOK'
  BY DEF CheckFails, AlreadyReleased, Refused, StartRelease, FlashOK
<1>3. RestOK'
  BY <1>1, CheckedPackage
  DEF CheckFails, AlreadyReleased, Refused, StartRelease, Lamp, RestOK
<1>4. CASE CheckFails \/ AlreadyReleased \/ Refused
  <2>1. Quiet' BY <1>1, <1>4, ReturnQuiet DEF CheckFails, AlreadyReleased, Refused
  <2> QED BY <1>2, <1>3, <2>1, QuietInv
<1>5. CASE StartRelease
  <2> DEFINE q == InfoAt(src, 0)
  <2>1. q \in Pkgs /\ qbt_fw_check(src)
    BY <1>1, <1>5, CheckedPackage DEF StartRelease, NeedsRelease
  <2>2. Fw[q].part_name \in Parts /\ InBounds(Fw[q].part_name, 0, Fw[q].raw_size)
    BY <1>5, QbootAssumption DEF StartRelease, Acceptable, Releasable
  <2>3. pc' = "rel_erase" /\ pos' = 0 /\ dst' = Fw[q].part_name /\ fw' = q
        /\ src' = src /\ ctx' = ctx
    BY <1>5 DEF StartRelease
  <2>4. ControlOK'
    BY <1>1, <2>2, <2>3 DEF ControlOK, Pc, ReleasePc
  <2>5. WorkOK'
    BY <1>1, <2>1, <2>2, <2>3 DEF WorkOK, ReleasePc, ClonePc, DlPc, InBounds
  <2>6. PkgIntact(src, q)
    BY <1>1, <2>1, CheckedPackage
  <2>7. PkgIntact(src, fw)'
    BY <1>5, <2>3, <2>6 DEF StartRelease, PkgIntact
  <2>self. src = Fw[q].part_name => Tail(src) # 0
    BY <1>1, <2>1, <2>6, FlashAssumption, QbootAssumption DEF PkgIntact, InBounds, Tail, FwInfo
  <2>8. ReleaseOK'
    BY <2>2, <2>3, <2>7, <2>self, FlashAssumption DEF ReleaseOK, Tail
  <2> QED BY <1>2, <1>3, <2>4, <2>5, <2>8
<1> QED BY <1>4, <1>5

\* The release loops: erase, write the code, write the info.
LEMMA ReleaseStep ==
    ASSUME Inv, ReleaseErase \/ ReleaseEraseTail \/ ReleaseWrite \/ ReleaseInfo
    PROVE  Inv'
<1> USE DEF Inv, bounds
<1>1. /\ pc \in ReleasePc /\ src \in Parts /\ dst \in Parts /\ fw \in Pkgs
      /\ ctx \in BootCtx \cup CmdCtx
      /\ flash[dst] \in [Cells(dst) -> Cell] /\ pos \in Nat
  BY DEF ReleaseErase, ReleaseEraseTail, ReleaseWrite, ReleaseInfo, EraseSector,
         ReleasePc, WorkOK, FlashOK, ControlOK
<1>2. /\ Fw[fw].raw_size \in Nat \ {0} /\ Len[dst] \in Nat \ {0}
      /\ Fw[fw].raw_size <= Len[dst]
  BY <1>1, FlashAssumption, QbootAssumption DEF FwInfo, WorkOK, InBounds
<1>3. Tail(dst) \in Cells(dst) /\ 0 .. Fw[fw].raw_size - 1 \subseteq Cells(dst)
  BY <1>2 DEF Tail, Cells
<1>tail. 0 \in Cells(dst) /\ (src = dst => Tail(dst) # 0)
  BY <1>1, <1>2 DEF Cells, ReleaseOK
<1>4. RestOK'
  <2>1. UNCHANGED <<fw, rx, losses, faults, downloads>>
    BY DEF ReleaseErase, ReleaseEraseTail, ReleaseWrite, ReleaseInfo
  <2>2. led' \in {1, 2, led}
    BY DEF ReleaseErase, ReleaseEraseTail, ReleaseWrite, ReleaseInfo, Lamp
  <2> QED BY <2>1, <2>2 DEF RestOK
<1>source. ASSUME UNCHANGED <<src, dst, fw>>, NEW g \in [Cells(dst) -> Cell],
                  flash' = [flash EXCEPT ![dst] = g]
           PROVE  (src # dst => PkgIntact(src, fw))'
  <2>1. src # dst => PkgIntact(src, fw)
    BY <1>1 DEF ReleaseOK
  <2> QED BY <1>1, <1>source, <2>1, FlashUpdate, SourceKept
<1>5. CASE ReleaseErase
  <2>1. flash' = [flash EXCEPT ![dst] = SectorErased(flash[dst], dst, pos)]
    BY <1>5 DEF ReleaseErase, EraseSector
  <2>2. FlashOK' /\ flash'[dst] = SectorErased(flash[dst], dst, pos)
    BY <1>1, <2>1, ImageTypes, FlashUpdate
  <2>src. (src # dst => PkgIntact(src, fw))'
    BY <1>1, <1>5, <2>1, <1>source, ImageTypes DEF ReleaseErase
  <2>3. pc = "rel_erase" /\ src' = src /\ dst' = dst /\ fw' = fw /\ ctx' = ctx
    BY <1>5 DEF ReleaseErase, EraseSector
  <2>4. \A c \in Cells(dst) : SectorOf[dst][c] < pos => flash[dst][c] = Blank
    BY <2>3 DEF ReleaseOK
  <2>5. \A c \in Cells(dst) : SectorOf[dst][c] < pos + 1 => flash'[dst][c] = Blank
    <3> TAKE c \in Cells(dst)
    <3>1. SectorOf[dst][c] \in Nat
      BY <1>1, FlashAssumption
    <3>2. flash'[dst][c] = IF SectorOf[dst][c] = pos THEN Blank ELSE flash[dst][c]
      BY <2>2 DEF SectorErased
    <3> QED BY <1>1, <2>4, <3>1, <3>2
  <2>6. CASE pc' = "rel_erase" /\ pos' = pos + 1
    <3>1. ControlOK' BY <1>1, <2>3, <2>6 DEF ControlOK
    <3>2. WorkOK' BY <1>1, <2>3, <2>6 DEF WorkOK, ReleasePc, ClonePc, DlPc, InBounds
    <3>3. ReleaseOK' BY <1>tail, <2>3, <2>5, <2>6, <2>src DEF ReleaseOK, Tail
    <3> QED BY <1>4, <2>2, <3>1, <3>2, <3>3
  <2>7. CASE /\ pc' = "rel_tail" /\ pos' = 0
             /\ ~ (pos < SectorOf[dst][Fw[fw].raw_size - 1])
    <3>1. ControlOK' BY <1>1, <2>3, <2>7 DEF ControlOK, Pc, ReleasePc
    <3>2. WorkOK' BY <1>1, <2>3, <2>7 DEF WorkOK, ReleasePc, ClonePc, DlPc, InBounds
    <3>3. \A c \in 0 .. Fw[fw].raw_size - 1 :
            c \in Cells(dst) /\ SectorOf[dst][c] < pos + 1
      <4> TAKE c \in 0 .. Fw[fw].raw_size - 1
      <4>1. c \in Cells(dst) /\ Fw[fw].raw_size - 1 \in Cells(dst)
            /\ c <= Fw[fw].raw_size - 1
        BY <1>2, <1>3
      <4>2. SectorOf[dst][c] <= SectorOf[dst][Fw[fw].raw_size - 1]
        BY <1>1, <4>1, FlashAssumption
      <4>3. SectorOf[dst][c] \in Nat /\ SectorOf[dst][Fw[fw].raw_size - 1] \in Nat
        BY <1>1, <4>1, FlashAssumption
      <4> QED BY <1>1, <2>7, <4>1, <4>2, <4>3
    <3>head. flash'[dst][0] = Blank
      BY <1>2, <2>5, <3>3
    <3>4. ReleaseOK' BY <1>tail, <2>3, <2>5, <2>7, <2>src, <3>3, <3>head DEF ReleaseOK, Beheaded, Tail
    <3> QED BY <1>4, <2>2, <3>1, <3>2, <3>4
  <2> QED BY <1>5, <2>6, <2>7 DEF ReleaseErase, EraseSector
<1>6. CASE ReleaseEraseTail
  <2> DEFINE t == SectorOf[dst][Tail(dst)]
  <2>1. flash' = [flash EXCEPT ![dst] = SectorErased(flash[dst], dst, t)]
    BY <1>6 DEF ReleaseEraseTail
  <2>2. FlashOK' /\ flash'[dst] = SectorErased(flash[dst], dst, t)
    BY <1>1, <2>1, ImageTypes, FlashUpdate
  <2>src. (src # dst => PkgIntact(src, fw))'
    BY <1>1, <1>6, <2>1, <1>source, ImageTypes DEF ReleaseEraseTail, work
  <2>3. /\ pc = "rel_tail" /\ pc' = "rel_write"
        /\ src' = src /\ dst' = dst /\ fw' = fw /\ ctx' = ctx /\ pos' = pos
    BY <1>6 DEF ReleaseEraseTail, work
  <2>4. pos = 0 /\ \A c \in 0 .. Fw[fw].raw_size - 1 : flash[dst][c] = Blank
    BY <2>3 DEF ReleaseOK
  <2>5. \A c \in 0 .. Fw[fw].raw_size - 1 : flash'[dst][c] = Blank
    BY <1>3, <2>2, <2>4 DEF SectorErased
  <2>6. flash'[dst][Tail(dst)] = Blank
    BY <1>3, <2>2 DEF SectorErased
  <2>7. ControlOK' BY <1>1, <2>3 DEF ControlOK, Pc, ReleasePc
  <2>8. WorkOK' BY <1>1, <2>3 DEF WorkOK, ReleasePc, ClonePc, DlPc, InBounds
  <2>head. flash'[dst][0] = Blank
    BY <1>2, <2>5
  <2>9. ReleaseOK' BY <1>2, <1>tail, <2>3, <2>4, <2>5, <2>6, <2>src, <2>head
        DEF ReleaseOK, Beheaded, Tail
  <2> QED BY <1>4, <2>2, <2>7, <2>8, <2>9
<1>7. CASE ReleaseWrite
  <2> DEFINE v == Code(pos)
  <2>1. flash' = [flash EXCEPT ![dst] = Programmed(flash[dst], pos, v)]
    BY <1>7 DEF ReleaseWrite
  <2>2. v \in Cell
    BY <1>1, CellTypes DEF Code
  <2>3. FlashOK' /\ flash'[dst] = Programmed(flash[dst], pos, v)
    BY <1>1, <2>1, <2>2, ImageTypes, FlashUpdate
  <2>4. CASE Return(FALSE)
    BY <1>1, <1>4, <2>3, <2>4, ReturnQuiet, QuietInv
  <2>5. CASE /\ pos' = pos + 1
             /\ pc' = IF ReleaseComplete(pos + 1) THEN "rel_info" ELSE "rel_write"
             /\ UNCHANGED <<ctx, src, dst, fw>>
    <3>src. (src # dst => PkgIntact(src, fw))'
      BY <1>1, <2>1, <2>2, <2>5, <1>source, ImageTypes
    <3>0. src # dst => v = RawCell(fw, pos)
      BY <1>1 DEF ReleaseOK, Code
    <3>1. /\ pc = "rel_write" /\ pos < Fw[fw].raw_size
          /\ src # dst => \A c \in 0 .. pos - 1 : flash[dst][c] = RawCell(fw, c)
          /\ \A c \in pos .. Fw[fw].raw_size - 1 : flash[dst][c] = Blank
          /\ Fw[fw].raw_size <= Tail(dst) => flash[dst][Tail(dst)] = Blank
      BY <1>7 DEF ReleaseWrite, ReleaseOK
    <3>2. /\ \A c \in Cells(dst) : c # pos => flash'[dst][c] = flash[dst][c]
          /\ flash'[dst][pos] = v
      BY <1>1, <1>2, <1>3, <2>3, <3>1 DEF Programmed, Program
    <3>head. src = dst => flash'[dst][0] \in {Blank, Torn}
      <4> SUFFICES ASSUME src = dst PROVE flash'[dst][0] \in {Blank, Torn}
        OBVIOUS
      <4>1. flash[dst][0] \in {Blank, Torn}
        BY <3>1 DEF ReleaseOK, Beheaded
      <4>2. ~ PkgIntact(src, fw)
        BY <4>1 DEF PkgIntact, Blank, Torn, Info
      <4>3. v = Torn
        BY <4>2 DEF Code
      <4> QED BY <1>tail, <3>2, <4>1, <4>3
    <3>3. src # dst => \A c \in 0 .. pos : flash'[dst][c] = RawCell(fw, c)
      BY <1>1, <1>2, <1>3, <3>0, <3>1, <3>2
    <3>4. \A c \in pos + 1 .. Fw[fw].raw_size - 1 : flash'[dst][c] = Blank
      BY <1>1, <1>2, <1>3, <3>1, <3>2
    <3>5. Fw[fw].raw_size <= Tail(dst) => flash'[dst][Tail(dst)] = Blank
      BY <1>1, <1>2, <1>3, <3>1, <3>2 DEF Tail
    <3>6. ControlOK' BY <1>1, <2>5 DEF ControlOK, Pc, ReleasePc
    <3>7. WorkOK' BY <1>1, <2>5 DEF WorkOK, ReleasePc, ClonePc, DlPc, InBounds
    <3>a. ReleaseComplete(pos + 1) <=> ~ (pos + 1 < Fw[fw].raw_size)
      BY <1>1, <1>2 DEF ReleaseComplete
    <3>8. CASE pos + 1 < Fw[fw].raw_size
      <4>1. pos' - 1 = pos BY <1>1, <2>5
      <4>2. ReleaseOK'
        BY <1>tail, <2>5, <3>3, <3>4, <3>5, <3>8, <3>a, <3>head, <3>src, <4>1
        DEF ReleaseOK, Beheaded, Tail
      <4> QED BY <1>4, <2>3, <3>6, <3>7, <4>2
    <3>9. CASE ~ (pos + 1 < Fw[fw].raw_size)
      <4>1. src # dst => Delivered(dst, fw)'
        BY <1>1, <1>2, <2>5, <3>1, <3>3, <3>9 DEF Delivered, InBounds, WorkOK
      <4>2. ReleaseOK'
        BY <1>tail, <2>5, <3>5, <3>9, <3>a, <3>head, <3>src, <4>1
        DEF ReleaseOK, Beheaded, Tail
      <4> QED BY <1>4, <2>3, <3>6, <3>7, <4>2
    <3> QED BY <3>8, <3>9
  <2> QED BY <1>7, <2>4, <2>5 DEF ReleaseWrite
<1>8. CASE ReleaseInfo
  <2>1. flash' = [flash EXCEPT ![dst] = Programmed(flash[dst], Tail(dst), Info(fw))]
    BY <1>8 DEF ReleaseInfo
  <2>2. FlashOK' /\ flash'[dst] = Programmed(flash[dst], Tail(dst), Info(fw))
    BY <1>1, <2>1, CellTypes, ImageTypes, FlashUpdate
  <2>3. CASE Return(FALSE)
    BY <1>1, <1>4, <2>2, <2>3, ReturnQuiet, QuietInv
  <2>4. CASE pc' = "verify" /\ UNCHANGED work /\ fw' = fw
    <3>1. pc = "rel_info" /\ (src # dst => Delivered(dst, fw))
      BY <1>8 DEF ReleaseInfo, ReleaseOK
    <3>2. /\ \A c \in Cells(dst) : c # Tail(dst) => flash'[dst][c] = flash[dst][c]
          /\ flash'[dst][Tail(dst)] = Program(flash[dst][Tail(dst)], Info(fw))
      BY <1>1, <1>3, <2>2 DEF Programmed
    <3>3. flash'[dst][Tail(dst)] \in {Info(fw), Torn}
      BY <3>2 DEF Program, Info, Sign
    <3>4. ASSUME src # dst, flash'[dst][Tail(dst)] = Info(fw)
          PROVE  Delivered(dst, fw)'
      <4>1. ASSUME NEW i \in 0 .. Fw[fw].raw_size - 1, ~ (Fw[fw].flush /\ i = Fw[fw].raw_size - 1)
            PROVE  flash'[dst][i] = RawCell(fw, i)
        <5>1. flash[dst][i] = RawCell(fw, i)
          BY <3>1, <3>4, <4>1 DEF Delivered
        <5>2. CASE i = Tail(dst)
          <6>1. flash'[dst][i] = Torn
            BY <3>2, <5>1, <5>2 DEF Program, RawCell, Info, Blank, Sign
          <6> QED BY <3>4, <5>2, <6>1 DEF Torn, Info
        <5> QED BY <1>3, <3>2, <5>1, <5>2
      <4> QED BY <2>4, <3>1, <3>4, <4>1 DEF Delivered, work
    <3>head. src = dst => flash'[dst][0] \in {Blank, Torn}
      BY <1>tail, <3>1, <3>2 DEF ReleaseOK, Beheaded
    <3>5. ReleaseOK' BY <1>tail, <2>4, <3>3, <3>4, <3>head
          DEF ReleaseOK, InfoOK, Beheaded, Tail, ReleasePc, work
    <3>6. ControlOK' BY <1>1, <2>4 DEF ControlOK, Pc, work
    <3>7. WorkOK' BY <1>1, <2>4 DEF WorkOK, ReleasePc, ClonePc, DlPc, InBounds, work
    <3> QED BY <1>4, <2>2, <3>5, <3>6, <3>7
  <2> QED BY <1>8, <2>3, <2>4 DEF ReleaseInfo
<1> QED BY <1>5, <1>6, <1>7, <1>8

\* qbt_dest_part_verify and the release sign.
LEMMA VerifyStep ==
    ASSUME Inv, Verify \/ WriteSign
    PROVE  Inv'
<1> USE DEF Inv, bounds
<1>1. /\ pc \in {"verify", "sign"} /\ src \in Parts /\ dst \in Parts /\ fw \in Pkgs
      /\ ctx \in BootCtx \cup CmdCtx
  BY DEF Verify, WriteSign, WorkOK
<1>2. CASE Verify
  <2>1. FlashOK' BY <1>2 DEF Verify, FlashOK
  <2>2. RestOK' BY <1>1, <1>2, CheckedPackage DEF Verify, RestOK, Lamp
  <2>3. CASE Return(TRUE) \/ Return(FALSE)
    BY <1>1, <2>1, <2>2, <2>3, ReturnQuiet, QuietInv
  <2>4. CASE /\ qbt_dest_part_verify(dst) /\ pc' = "sign" /\ UNCHANGED work
    <3>1. InfoAt(dst, Tail(dst)) # NoPkg
      BY <2>4 DEF qbt_dest_part_verify
    <3>2. flash[dst][Tail(dst)] # Torn
      BY <3>1 DEF InfoAt, Torn
    <3>3. /\ flash[dst][Tail(dst)] = Info(fw)
          /\ src # dst => Delivered(dst, fw)
      BY <1>2, <3>2 DEF Verify, ReleaseOK, InfoOK
    <3>4. fw' = fw
      BY <1>2, <3>3 DEF Verify, InfoAt, Info
    <3>a. ASSUME src # dst, ~ (Fw[fw].flush /\ Fw[fw].verify = "none")
          PROVE  BodyIntact(dst, fw)
      <4>1. CASE ~ Fw[fw].flush
        BY <3>3, <3>a, <4>1 DEF Delivered, BodyIntact
      <4>2. CASE Fw[fw].verify # "none"
        <5>1. Fw[fw].verify = "crc"
          BY <1>1, <4>2, QbootAssumption DEF FwInfo
        <5>2. InfoAt(dst, Tail(dst)) = fw
          BY <3>3 DEF InfoAt, Info
        <5> QED BY <2>4, <5>1, <5>2 DEF qbt_dest_part_verify
      <4> QED BY <3>a, <4>1, <4>2
    <3>5. (src # dst => Confirmed(dst, fw))'
      BY <1>2, <2>4, <3>3, <3>4, <3>a
      DEF Verify, Confirmed, Delivered, BodyIntact, Tail, work
    <3>b. ASSUME src = dst
          PROVE  Tail(dst) # 0 /\ flash[dst][0] \in {Blank, Torn}
      BY <1>2, <3>b DEF Verify, ReleaseOK, Beheaded
    <3>c. ASSUME src = dst
          PROVE  ErasedItself(dst, fw)
      <4>1. flash[dst][0] # Info(fw) /\ flash[dst][0] # RawCell(fw, 0)
        BY <3>b, <3>c DEF Blank, Torn, Info, RawCell
      <4>2. ~ PkgIntact(dst, fw)
        BY <4>1 DEF PkgIntact
      <4>3. ~ BodyIntact(dst, fw)
        BY <1>1, <4>1, QbootAssumption DEF BodyIntact, FwInfo
      <4>4. InfoAt(dst, Tail(dst)) = fw
        BY <3>3 DEF InfoAt, Info
      <4>5. Fw[fw].verify = "none"
        BY <1>1, <2>4, <4>3, <4>4, QbootAssumption DEF qbt_dest_part_verify, FwInfo
      <4> QED BY <3>3, <4>2, <4>5 DEF ErasedItself
    <3>d. (src = dst => Tail(dst) # 0 /\ Beheaded /\ ErasedItself(dst, fw))'
      BY <1>2, <2>4, <3>4, <3>b, <3>c
      DEF Verify, Beheaded, ErasedItself, PkgIntact, Tail, work
    <3>6. ControlOK' BY <1>1, <2>4 DEF ControlOK, Pc, work
    <3>7. WorkOK' BY <1>1, <2>4, <3>4 DEF WorkOK, ReleasePc, ClonePc, DlPc, InBounds, work
    <3>8. ReleaseOK' BY <2>4, <3>5, <3>d DEF ReleaseOK, ReleasePc
    <3> QED BY <2>1, <2>2, <3>6, <3>7, <3>8
  <2> QED BY <1>2, <2>3, <2>4 DEF Verify
<1>3. CASE WriteSign
  <2>1. SignImage(fw) \in [Cells(src) -> Cell]
    BY <1>1, CellTypes, ImageTypes DEF SignImage, FlashOK
  <2>2. FlashOK' BY <1>1, <1>3, <2>1, FlashUpdate DEF WriteSign
  <2>3. RestOK' BY <1>3 DEF WriteSign, RestOK
  <2>4. Quiet' BY <1>1, <1>3, ReturnQuiet DEF WriteSign
  <2> QED BY <2>2, <2>3, <2>4, QuietInv
<1> QED BY <1>2, <1>3

\* The shell commands that only start something.
LEMMA CommandStep ==
    ASSUME Inv, Command PROVE Inv'
<1> USE DEF Inv, bounds, work
<1>1. CASE CmdProbe \/ CmdJump \/ CmdAsserts
  <2>1. FlashOK' BY <1>1 DEF CmdProbe, CmdJump, CmdAsserts, FlashOK
  <2>2. RestOK'
    <3>1. InfoAt(FactoryPart, 0) \in Pkgs \cup {NoPkg}
      BY CheckedPackage, QbootAssumption
    <3>2. fw' \in {fw, InfoAt(FactoryPart, 0)} /\ UNCHANGED <<rx, led, bounds>>
      BY <1>1 DEF CmdProbe, CmdJump, CmdAsserts
    <3> QED BY <3>1, <3>2 DEF RestOK
  <2>3. Quiet' BY <1>1 DEF CmdProbe, CmdJump, CmdAsserts, Jump, Quiet, ControlOK,
                            IdlePc, OtherCtx
  <2> QED BY <2>1, <2>2, <2>3, QuietInv
<1>2. ASSUME NEW p \in Parts, CmdResume(p) \/ CmdRelease(p) \/ CmdVerify(p)
      PROVE  Inv'
  <2>1. FlashOK' BY <1>2 DEF CmdResume, CmdRelease, CmdVerify, FlashOK
  <2>2. RestOK' BY <1>2, CheckedPackage DEF CmdResume, CmdRelease, CmdVerify, RestOK
  <2>3. Quiet' BY <1>2
        DEF CmdResume, CmdRelease, CmdVerify, Handle, Quiet, ControlOK, IdlePc, CmdCtx
  <2> QED BY <2>1, <2>2, <2>3, QuietInv
<1>3. ASSUME NEW p \in Parts, CmdDel(p)
      PROVE  Inv'
  <2>1. FlashOK' BY <1>3 DEF CmdDel, FlashOK
  <2>2. RestOK' BY <1>3, CheckedPackage DEF CmdDel, RestOK
  <2>3. CASE UNCHANGED <<pc, work>>
    <3>1. Quiet' BY <1>3, <2>3 DEF CmdDel, Quiet, ControlOK, IdlePc
    <3> QED BY <2>1, <2>2, <3>1, QuietInv
  <2>4. CASE /\ qbt_fw_check(p)
             /\ pc' = "del_erase" /\ ctx' = "cmd_del" /\ src' = "none" /\ dst' = p /\ pos' = 0
    <3>1. fw' \in Pkgs BY <1>3, <2>4, CheckedPackage DEF CmdDel
    <3>2. ControlOK' BY <2>4 DEF ControlOK, Pc, OtherCtx
    <3>3. WorkOK' BY <2>4, <3>1 DEF WorkOK, ReleasePc, ClonePc, DlPc
    <3>4. ReleaseOK' BY <2>4 DEF ReleaseOK, ReleasePc
    <3> QED BY <2>1, <2>2, <3>2, <3>3, <3>4
  <2> QED BY <1>3, <2>3, <2>4 DEF CmdDel
<1>4. ASSUME NEW p \in Parts, NEW d \in Parts, CmdClone(p, d)
      PROVE  Inv'
  <2> DEFINE q == InfoAt(p, 0)
  <2>1. FlashOK' BY <1>4 DEF CmdClone, FlashOK
  <2>2. RestOK' BY <1>4, CheckedPackage DEF CmdClone, RestOK
  <2>3. CASE UNCHANGED <<pc, work>>
    <3>1. Quiet' BY <1>4, <2>3 DEF CmdClone, Quiet, ControlOK, IdlePc
    <3> QED BY <2>1, <2>2, <3>1, QuietInv
  <2>4. CASE /\ qbt_fw_check(p) /\ InBounds(d, 0, 1 + Fw[q].pkg_size)
             /\ pc' = "clone_erase" /\ ctx' = "cmd_clone" /\ src' = p /\ dst' = d /\ pos' = 0
    <3>1. fw' = q /\ q \in Pkgs /\ InBounds(p, 0, 1 + Fw[q].pkg_size)
      BY <1>4, <2>4, CheckedPackage DEF CmdClone, PkgIntact
    <3>2. ControlOK' BY <2>4 DEF ControlOK, Pc, ClonePc, OtherCtx
    <3>3. WorkOK' BY <2>4, <3>1 DEF WorkOK, ReleasePc, ClonePc, DlPc, InBounds
    <3>4. ReleaseOK' BY <2>4 DEF ReleaseOK, ReleasePc
    <3> QED BY <2>1, <2>2, <3>2, <3>3, <3>4
  <2> QED BY <1>4, <2>3, <2>4 DEF CmdClone
<1> QED BY <1>1, <1>2, <1>3, <1>4 DEF Command

\* The loops of clone and del.
LEMMA CopyStep ==
    ASSUME Inv, CloneErase \/ CloneWrite \/ DelErase PROVE Inv'
<1> USE DEF Inv, bounds
<1>1. Target = dst /\ dst \in Parts /\ Goal \in [Cells(dst) -> Cell]
  BY GoalType DEF CloneErase, CloneWrite, DelErase, EraseSector, Target,
                  ReleasePc, ClonePc, DlPc
<1>2. flash' = [flash EXCEPT ![dst] = Goal]
  BY DEF CloneErase, CloneWrite, DelErase, EraseSector, Goal
<1>3. FlashOK' BY <1>1, <1>2, FlashUpdate
<1>4. RestOK' BY DEF CloneErase, CloneWrite, DelErase, EraseSector, RestOK
<1>5. CASE Idle("shell")
  <2>1. Quiet' BY <1>5, IdleQuiet DEF IdlePc
  <2> QED BY <1>3, <1>4, <2>1, QuietInv
<1>6. CASE CloneErase
  <2>1. ControlOK' BY <1>6 DEF CloneErase, EraseSector, ControlOK, Pc, ClonePc
  <2>2. WorkOK' BY <1>6, QbootAssumption
        DEF CloneErase, EraseSector, WorkOK, ReleasePc, ClonePc, DlPc, InBounds, FwInfo
  <2>3. ReleaseOK' BY <1>6 DEF CloneErase, EraseSector, ReleaseOK, ReleasePc
  <2> QED BY <1>3, <1>4, <2>1, <2>2, <2>3
<1>7. CASE CloneWrite /\ ~ Idle("shell")
  <2>1. ControlOK' BY <1>7 DEF CloneWrite, ControlOK
  <2>2. WorkOK' BY <1>7, QbootAssumption
        DEF CloneWrite, ControlOK, WorkOK, ReleasePc, ClonePc, DlPc, InBounds, FwInfo
  <2>3. ReleaseOK' BY <1>7 DEF CloneWrite, ReleaseOK, ReleasePc
  <2> QED BY <1>3, <1>4, <2>1, <2>2, <2>3
<1>8. CASE DelErase /\ ~ Idle("shell")
  <2>1. ControlOK' BY <1>8 DEF DelErase, ControlOK
  <2>2. WorkOK' BY <1>8 DEF DelErase, WorkOK, ReleasePc, ClonePc, DlPc
  <2>3. ReleaseOK' BY <1>8 DEF DelErase, ReleaseOK, ReleasePc
  <2> QED BY <1>3, <1>4, <2>1, <2>2, <2>3
<1> QED BY <1>5, <1>6, <1>7, <1>8

\* The download.
LEMMA DownloadStep ==
    ASSUME Inv, Download PROVE Inv'
<1> USE DEF Inv, bounds
<1>1. ASSUME NEW q \in Pkgs, NEW p \in DlParts, DlBegin(q, p)
      PROVE  Inv'
  <2>1. p \in Parts BY QbootAssumption
  <2>2. FlashOK' BY <1>1 DEF DlBegin, FlashOK
  <2>3. RestOK' BY <1>1, QbootAssumption DEF DlBegin, RestOK
  <2>4. ControlOK' BY <1>1, <2>1 DEF DlBegin, ControlOK, Pc, DlPc, OtherCtx
  <2>5. WorkOK' BY <1>1, <2>1 DEF DlBegin, WorkOK, ReleasePc, ClonePc, DlPc, InBounds
  <2>6. ReleaseOK' BY <1>1 DEF DlBegin, ReleaseOK, ReleasePc
  <2> QED BY <2>2, <2>3, <2>4, <2>5, <2>6
<1>2. CASE DlAbort
  <2>1. ctx \in IdlePc BY <1>2 DEF DlAbort, WorkOK, IdlePc
  <2>2. Quiet' BY <1>2, <2>1, IdleQuiet DEF DlAbort
  <2>3. FlashOK' /\ RestOK' BY <1>2 DEF DlAbort, FlashOK, RestOK
  <2> QED BY <2>2, <2>3, QuietInv
<1>3. CASE DlErase \/ DlWrite \/ DlPad
  <2>1. /\ pc \in DlPc /\ dst \in Parts /\ rx \in Pkgs /\ ctx \in {"run", "shell"}
        /\ InBounds(dst, 0, 1 + Fw[rx].pkg_size)
    BY <1>3 DEF DlErase, DlWrite, DlPad, EraseSector, DlPc, WorkOK
  <2>2. Target = dst /\ Goal \in [Cells(dst) -> Cell]
    BY <2>1, GoalType DEF Target
  <2>3. flash' = [flash EXCEPT ![dst] = Goal]
    BY <1>3 DEF DlErase, DlWrite, DlPad, EraseSector, Goal
  <2>4. FlashOK' BY <2>1, <2>2, <2>3, FlashUpdate
  <2>5. RestOK' BY <1>3 DEF DlErase, DlWrite, DlPad, EraseSector, Restart, RestOK
  <2>6. CASE Idle(ctx) \/ Idle("start")
    <3>1. Quiet' BY <2>1, <2>6, IdleQuiet DEF IdlePc
    <3> QED BY <2>4, <2>5, <3>1, QuietInv
  <2>7. CASE DlErase
    <3>1. pos' \in Nat /\ pc' \in {"dl_erase", "dl_write"} /\ (pc' = "dl_write" => pos' = 0)
          /\ UNCHANGED <<ctx, src, dst, fw, rx>>
      BY <2>7 DEF DlErase, EraseSector, ControlOK
    <3>2. Fw[rx].pkg_size \in Nat BY <2>1, QbootAssumption DEF FwInfo
    <3>3. ControlOK' BY <3>1 DEF ControlOK, Pc, DlPc
    <3>4. WorkOK' BY <2>1, <3>1, <3>2 DEF WorkOK, ReleasePc, ClonePc, DlPc, InBounds
    <3>5. ReleaseOK' BY <3>1 DEF ReleaseOK, ReleasePc
    <3> QED BY <2>4, <2>5, <3>3, <3>4, <3>5
  <2>8. CASE DlWrite /\ pc' = "dl_write"
             /\ pos < Fw[rx].pkg_size /\ pos' = pos + 1 /\ UNCHANGED <<ctx, src, dst, rx, fw>>
    <3>1. pos \in Nat /\ Fw[rx].pkg_size \in Nat
      BY <2>1, QbootAssumption DEF FwInfo, ControlOK
    <3>2. ControlOK' BY <2>8, <3>1 DEF ControlOK, Pc, DlPc
    <3>3. WorkOK' BY <2>1, <2>8, <3>1 DEF WorkOK, ReleasePc, ClonePc, DlPc, InBounds
    <3>4. ReleaseOK' BY <2>8 DEF ReleaseOK, ReleasePc
    <3> QED BY <2>4, <2>5, <3>2, <3>3, <3>4
  <2>9. CASE DlWrite /\ pc' = "dl_pad" /\ pos' = pos + 1 /\ InBounds(dst, pos + 1, 1)
             /\ UNCHANGED <<ctx, src, dst, rx, fw>>
    <3>1. pos \in Nat /\ Len[dst] \in Nat
      BY <2>1, FlashAssumption DEF ControlOK
    <3>2. ControlOK' BY <2>9, <3>1 DEF ControlOK, Pc, DlPc
    <3>3. WorkOK' BY <2>1, <2>9, <3>1 DEF WorkOK, ReleasePc, ClonePc, DlPc, InBounds
    <3>4. ReleaseOK' BY <2>9 DEF ReleaseOK, ReleasePc
    <3> QED BY <2>4, <2>5, <3>2, <3>3, <3>4
  <2> QED
    BY <1>3, <2>6, <2>7, <2>8, <2>9 DEF DlWrite, DlPad, Restart
<1> QED BY <1>1, <1>2, <1>3 DEF Download

\* A failing write of the remainder: the release goes on as if it was written.
LEMMA IgnoredFault ==
    ASSUME Inv, FlashOK', FlashFault, Unchecked PROVE Inv'
<1> USE DEF Inv, bounds
<1>1. /\ pc = "rel_write" /\ pos + 1 >= Fw[fw].raw_size /\ Fw[fw].flush
      /\ src \in Parts /\ dst \in Parts /\ fw \in Pkgs
      /\ ctx \in BootCtx \cup CmdCtx /\ pos \in Nat
      /\ flash[dst] \in [Cells(dst) -> Cell]
      /\ InBounds(dst, 0, Fw[fw].raw_size)
  BY DEF Unchecked, ReleaseComplete, ReleasePc, WorkOK, ControlOK, FlashOK
<1>2. /\ Fw[fw].raw_size \in Nat \ {0} /\ Len[dst] \in Nat \ {0}
      /\ Fw[fw].raw_size <= Len[dst]
  BY <1>1, FlashAssumption, QbootAssumption DEF FwInfo, InBounds
<1>3. /\ pos < Fw[fw].raw_size
      /\ src # dst => PkgIntact(src, fw)
      /\ src # dst => \A c \in 0 .. pos - 1 : flash[dst][c] = RawCell(fw, c)
      /\ Fw[fw].raw_size <= Tail(dst) => flash[dst][Tail(dst)] = Blank
  BY <1>1 DEF ReleaseOK, ReleasePc
<1>4. /\ pc' = "rel_info" /\ pos' = pos + 1
      /\ UNCHANGED <<ctx, src, dst, fw, rx, led, losses, downloads>>
      /\ faults' = faults + 1 /\ faults < MaxFaults
      /\ CutShort
  <2>1. pc' = "rel_info" /\ pos' = pos + 1 /\ UNCHANGED <<ctx, src, dst, rx, led>>
    BY <1>1, Zenon DEF FlashFault, DlPc
  <2> QED BY <2>1 DEF FlashFault
<1>5. Target = dst /\ Goal = Programmed(flash[dst], pos, Code(pos))
  BY <1>1 DEF Target, Goal, ReleasePc, ClonePc, DlPc
<1>6. PICK how \in Ways(flash[dst], Goal) :
        flash' = [flash EXCEPT ![dst] = Interrupted(flash[dst], Goal, how)]
  BY <1>4, <1>5 DEF CutShort
<1>7. Interrupted(flash[dst], Goal, how) \in [Cells(dst) -> Cell]
  BY <1>1, <1>5, GoalType, ImageTypes
<1>8. /\ flash'[dst] = Interrupted(flash[dst], Goal, how)
      /\ \A p \in Parts : p # dst => flash'[p] = flash[p]
  BY <1>1, <1>6, <1>7, FlashUpdate
<1>9. \A c \in Cells(dst) : c # pos => flash'[dst][c] = flash[dst][c]
  <2>1. \A c \in Cells(dst) : c # pos => Goal[c] = flash[dst][c]
    BY <1>1, <1>5 DEF Programmed
  <2> QED BY <1>1, <1>8, <2>1 DEF Interrupted
<1>10. \A c \in 0 .. Fw[fw].raw_size - 1 : c \in Cells(dst)
  BY <1>2 DEF Cells
<1>11. src # dst => Delivered(dst, fw)'
  BY <1>1, <1>2, <1>3, <1>4, <1>9, <1>10 DEF Delivered, InBounds
<1>12. Fw[fw].raw_size <= Tail(dst) => flash'[dst][Tail(dst)] = Blank
  BY <1>1, <1>2, <1>3, <1>9 DEF Tail, Cells
<1>13. (src # dst => PkgIntact(src, fw))'
  BY <1>1, <1>3, <1>4, <1>8, SourceKept
<1>tail. src = dst => Tail(dst) # 0
  BY <1>1 DEF ReleaseOK, ReleasePc
<1>head. src = dst => flash'[dst][0] \in {Blank, Torn}
  <2> SUFFICES ASSUME src = dst PROVE flash'[dst][0] \in {Blank, Torn}
    OBVIOUS
  <2>1. flash[dst][0] \in {Blank, Torn} /\ 0 \in Cells(dst)
    BY <1>1, <1>2 DEF ReleaseOK, Beheaded, Cells
  <2>2. ~ PkgIntact(src, fw)
    BY <2>1 DEF PkgIntact, Blank, Torn, Info
  <2>3. Goal[0] \in {Blank, Torn}
    BY <1>1, <1>5, <2>1, <2>2 DEF Code, Programmed, Program
  <2> QED BY <1>1, <1>8, <2>1, <2>3 DEF Interrupted
<1>14. RestOK' BY <1>4, QbootAssumption DEF RestOK
<1>15. ControlOK' BY <1>1, <1>4 DEF ControlOK, Pc, ReleasePc
<1>16. WorkOK' BY <1>1, <1>4 DEF WorkOK, ReleasePc, ClonePc, DlPc, InBounds
<1>17. ReleaseOK'
  BY <1>4, <1>11, <1>12, <1>13, <1>tail, <1>head DEF ReleaseOK, Beheaded, Tail
<1> QED BY <1>14, <1>15, <1>16, <1>17

\* Power failures, reboots, failing flash operations and killed threads.
LEMMA FailureStep ==
    ASSUME Inv, PowerLoss \/ Reboot \/ FlashFault \/ SyswatchRestarts PROVE Inv'
<1> USE DEF Inv, bounds
<1>1. CASE PowerLoss
  <2>1. FlashOK' BY <1>1, GoalType, CutShortFlash DEF PowerLoss
  <2>2. RestOK' BY <1>1, QbootAssumption DEF PowerLoss, Restart, RestOK
  <2>3. Quiet' BY <1>1, IdleQuiet DEF PowerLoss, Restart, IdlePc
  <2> QED BY <2>1, <2>2, <2>3, QuietInv
<1>2. CASE Reboot
  <2>1. FlashOK' BY <1>2 DEF Reboot, FlashOK
  <2>2. RestOK' BY <1>2 DEF Reboot, Restart, RestOK
  <2>3. Quiet' BY <1>2, IdleQuiet DEF Reboot, Restart, IdlePc
  <2> QED BY <2>1, <2>2, <2>3, QuietInv
<1>3. CASE FlashFault
  <2>1. FlashOK' BY <1>3, GoalType, CutShortFlash DEF FlashFault
  <2>unchecked. CASE Unchecked
    BY <1>3, <2>1, <2>unchecked, IgnoredFault
  <2> SUFFICES ASSUME ~ Unchecked PROVE Inv'
    BY <2>unchecked
  <2>2. \/ pc \in ReleasePc /\ Return(FALSE) /\ Lamp(2) /\ UNCHANGED rx
        \/ pc = "sign" /\ Return(TRUE) /\ UNCHANGED <<rx, led>>
        \/ pc \in DlPc /\ Idle(ctx) /\ rx' = NoPkg /\ UNCHANGED led
        \/ Idle("shell") /\ UNCHANGED <<rx, led>>
    BY <1>3 DEF FlashFault, ReleasePc, ClonePc, DlPc
  <2>3. led' \in {1, 2, led} /\ rx' \in {rx, NoPkg}
    BY <2>2 DEF Lamp
  <2>4. RestOK' BY <1>3, <2>3, QbootAssumption DEF FlashFault, RestOK
  <2>5. Quiet'
    BY <2>2, ReturnQuiet, IdleQuiet DEF WorkOK, IdlePc
  <2> QED BY <2>1, <2>4, <2>5, QuietInv
<1>4. CASE SyswatchRestarts
  <2>1. FlashOK' BY <1>4 DEF SyswatchRestarts, FlashOK
  <2>2. RestOK' BY <1>4 DEF SyswatchRestarts, RestOK
  <2>3. Quiet' BY <1>4, IdleQuiet DEF SyswatchRestarts, IdlePc
  <2> QED BY <2>1, <2>2, <2>3, QuietInv
<1> QED BY <1>1, <1>2, <1>3, <1>4

-----------------------------------------------------------------------------
(* The theorems.                                                           *)

\* A device as it is delivered satisfies the invariant.
LEMMA InitInv == Init => Inv
<1> SUFFICES ASSUME Init PROVE Inv
  OBVIOUS
<1>1. PICK a \in InitApp, f \in InitFactory :
        flash = [p \in Parts |-> CASE p = AppPart -> CodeImage(p, a)
                                  [] p = FactoryPart -> PkgImage(p, f)
                                  [] OTHER -> PkgImage(p, NoPkg)]
  BY DEF Init
<1>2. a \in Pkgs \cup {NoPkg} /\ f \in Pkgs \cup {NoPkg}
  BY QbootAssumption
<1>3. \A p \in Parts : CodeImage(p, a) \in [Cells(p) -> Cell]
  <2> TAKE p \in Parts
  <2>1. \A c \in Cells(p) : a # NoPkg => RawCell(a, c) \in Cell
    BY <1>2, CellTypes, FlashAssumption DEF Cells
  <2> QED BY <2>1, CellTypes DEF CodeImage
<1>4. \A p \in Parts, q \in Pkgs \cup {NoPkg} : PkgImage(p, q) \in [Cells(p) -> Cell]
  BY CellTypes, FlashAssumption DEF PkgImage, FileCell, Cells
<1>5. FlashOK
  BY <1>1, <1>2, <1>3, <1>4 DEF FlashOK
<1>6. RestOK /\ ControlOK /\ WorkOK /\ ReleaseOK
  BY QbootAssumption DEF Init, RestOK, ControlOK, WorkOK, ReleaseOK,
     Pc, IdlePc, ReleasePc, ClonePc, DlPc
<1> QED BY <1>5, <1>6 DEF Inv

\* Every step preserves the invariant.
LEMMA NextInv == Inv /\ [Next]_vars => Inv'
<1> SUFFICES ASSUME Inv, [Next]_vars PROVE Inv'
  OBVIOUS
<1>1. CASE UNCHANGED vars
  <2>1. UNCHANGED <<flash, pc, ctx, src, dst, fw, pos, rx, led, losses, faults, downloads>>
    BY <1>1 DEF vars
  <2>2. (FlashOK /\ RestOK /\ ControlOK)'
    BY <2>1 DEF Inv, FlashOK, RestOK, ControlOK
  <2>3. WorkOK'
    BY <2>1 DEF Inv, WorkOK, InBounds
  <2>4. ReleaseOK'
    BY <2>1 DEF Inv, ReleaseOK, Confirmed, Delivered, BodyIntact, Tail, InfoOK,
           PkgIntact, InBounds, Beheaded, ErasedItself
  <2> QED BY <2>2, <2>3, <2>4 DEF Inv
<1>2. CASE BootStep
  BY <1>2, DecisionStep, CheckStep, ReleaseStep, VerifyStep, CopyStep DEF BootStep
<1>3. CASE User
  BY <1>3, DecisionStep, CommandStep, FailureStep DEF User
<1>4. CASE Download
  BY <1>4, DownloadStep
<1>5. CASE Failure
  BY <1>5, DecisionStep, FailureStep DEF Failure
<1> QED BY <1>1, <1>2, <1>3, <1>4, <1>5 DEF Next

\* The variables keep their types, and every operation under way stays inside
\* of the partition it works on.
THEOREM TypeCorrect == Spec => []TypeOK
<1>1. Inv => TypeOK
  BY DEF Inv, TypeOK, FlashOK, RestOK, ControlOK
<1> QED BY InitInv, NextInv, <1>1, PTL DEF Spec

\* However the flash is laid out, whatever packages there are, and however
\* often power and flash fail: when qboot is about to write the release sign,
\* the destination holds the info and the code of the package, all of it unless
\* the package asks for no verification and is a gzip stream whose remainder
\* was lost; or the package asks for no verification, was sent to the partition
\* it lies in, and is not there any more.
THEOREM SignedOnlyWhenReleased == Spec => []SignAfterRelease
<1>1. Inv => SignAfterRelease
  BY DEF Inv, ReleaseOK, SignAfterRelease
<1> QED BY InitInv, NextInv, <1>1, PTL DEF Spec

=============================================================================
