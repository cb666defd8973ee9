------------------------------- MODULE Qboot -------------------------------
(***************************************************************************)
(* The boot loader qboot (packages/qboot-latest/src/qboot.c): the boot     *)
(* thread, the release of a firmware package to a partition, the release   *)
(* sign, the shell commands, and the download that brings a package in.    *)
(*                                                                         *)
(* Every erase of a sector and every write of a cell is a step of its own, *)
(* because the power can fail, and the flash can report an error, in the   *)
(* middle of any of them.  What only reads is one step with the decision   *)
(* it leads to: there is a single thread that touches the flash.           *)
(***************************************************************************)
EXTENDS NorFlash

CONSTANTS
    Fw,             \* Fw[q]: the fields of q's fw_info_t that qboot acts on
    UseKey,         \* may somebody hold the factory key?
    UseShell,       \* may somebody use the shell?
    InitApp,        \* the code the app partition may be delivered with
    InitFactory,    \* the packages the factory partition may be delivered with
    DlParts,        \* the partitions a download may be directed to
    MaxLosses,      \* bound: how often the power fails
    MaxFaults,      \* bound: how often a flash or device operation fails
    MaxDownloads    \* bound: how many downloads are started

\* The partitions of fal_cfg.h that qboot names.
AppPart == "app"
DownloadPart == "download"
FactoryPart == "factory"

\* part_name:  where the package wants to be released to
\* algo_ok:    encryption and compression types are compiled in
\* verify:     algo2 & QBOOT_ALGO2_VERIFY_MASK
\* raw_crc_ok: raw_crc is the CRC of the code the body decompresses to
\* flush:      the body is a gzip stream whose code ends with a remainder: the
\*             last cell of the code, the write of which is not checked
\* raw_size, pkg_size: code and body, in cells
FwInfo == [part_name : STRING, algo_ok : BOOLEAN, verify : {"none", "crc"},
           raw_crc_ok : BOOLEAN, flush : BOOLEAN, raw_size : Nat \ {0}, pkg_size : Nat \ {0}]

ASSUME QbootAssumption ==
    /\ {AppPart, DownloadPart, FactoryPart} \subseteq Parts
    /\ "none" \notin Parts
    /\ DlParts \subseteq Parts
    /\ InitApp \subseteq Pkgs \cup {NoPkg} /\ InitFactory \subseteq Pkgs \cup {NoPkg}
    /\ Fw \in [Pkgs -> FwInfo]
    /\ UseKey \in BOOLEAN /\ UseShell \in BOOLEAN
    /\ MaxLosses \in Nat /\ MaxFaults \in Nat /\ MaxDownloads \in Nat

VARIABLES
    flash,      \* flash[p][c]: the content of the partitions
    pc,         \* where the program is
    ctx,        \* why a package is being handled: who gets the result
    src,        \* the partition the package is taken from
    dst,        \* the partition that is being written
    fw,         \* the static fw_info: a package, or NoPkg for garbage
    pos,        \* the next sector or cell of the loop that is running
    rx,         \* the file that a download is receiving
    led,        \* blink frequency of the status LED in Hz
    losses, faults, downloads   \* how much of the bounds is used up

work == <<ctx, src, dst, pos>>
bounds == <<losses, faults, downloads>>
vars == <<flash, pc, ctx, src, dst, fw, pos, rx, led, losses, faults, downloads>>

BootCtx == {"key", "auto", "try_download", "try_factory"}
CmdCtx == {"cmd_resume", "cmd_release"}
\* who gets the result of a jump or of a download
OtherCtx == {"cmd_jump", "nofal_jump", "cmd_clone", "cmd_del", "run", "shell"}

ReleasePc == {"rel_erase", "rel_tail", "rel_write", "rel_info"}
ClonePc == {"clone_erase", "clone_write"}
DlPc == {"dl_erase", "dl_write", "dl_pad"}
IdlePc == {"start", "key", "key_held", "enter", "last_shell",
           "shell", "shell_nofal", "hung", "run"}
Pc == IdlePc \cup ReleasePc \cup ClonePc \cup DlPc
        \cup {"check", "verify", "sign", "jump", "del_erase"}

-----------------------------------------------------------------------------
(* What is on the flash.                                                   *)

\* The last cell of a partition: where the info of released code is kept.
Tail(p) == Len[p] - 1
\* (mutant: the rounding up to the next cell is lost)
SignCellShort(q) == Fw[q].pkg_size
\* The cell of the release sign: the first one after the package.
SignCell(q) == Fw[q].pkg_size + 1

\* Is package q complete in partition p?
PkgIntact(p, q) ==
    /\ InBounds(p, 0, 1 + Fw[q].pkg_size)
    /\ flash[p][0] = Info(q)
    /\ \A i \in 1 .. Fw[q].pkg_size : flash[p][i] = PkgCell(q, i)
\* Is the code of package q complete in partition p?
BodyIntact(p, q) ==
    /\ InBounds(p, 0, Fw[q].raw_size)
    /\ \A i \in 0 .. Fw[q].raw_size - 1 : flash[p][i] = RawCell(q, i)
\* The same as far as the release has checked its writes.
Delivered(p, q) ==
    /\ InBounds(p, 0, Fw[q].raw_size)
    /\ \A i \in 0 .. Fw[q].raw_size - 1 :
            flash[p][i] = RawCell(q, i) \/ (Fw[q].flush /\ i = Fw[q].raw_size - 1)
\* The code is complete and has its info at the tail.
Released(p, q) == BodyIntact(p, q) /\ flash[p][Tail(p)] = Info(q)

\* The same as far as the release and the verification can tell.
Confirmed(p, q) ==
    /\ flash[p][Tail(p)] = Info(q)
    /\ IF Fw[q].flush /\ Fw[q].verify = "none" THEN Delivered(p, q) ELSE BodyIntact(p, q)
\* What a release of package q to the partition p it lies in comes to when it
\* counts as done: the info at the tail says "released", nobody looked at the
\* code before it, and the package itself is gone.
ErasedItself(p, q) ==
    /\ flash[p][Tail(p)] = Info(q)
    /\ Fw[q].verify = "none"
    /\ ~ PkgIntact(p, q)

\* qbt_fw_info_read followed by qbt_fw_info_check.
InfoAt(p, c) == IF flash[p][c].kind = "info" THEN flash[p][c].pkg ELSE NoPkg

\* (mutant: the CRC of the body is not compared)
CheckHeaderOnly(p) == p \in Parts /\ InfoAt(p, 0) # NoPkg
\* qbt_fw_check: header, CRC of the body, and for packages that ask for it
\* the CRC of the code the body decompresses to.
qbt_fw_check(p) ==
    LET q == InfoAt(p, 0) IN
    /\ p \in Parts
    /\ q # NoPkg
    /\ PkgIntact(p, q)
    /\ Fw[q].verify = "crc" => Fw[q].algo_ok /\ Fw[q].raw_crc_ok

\* qbt_release_sign_check: a read out of bounds counts as "not released".
qbt_release_sign_check(p, q) ==
    InBounds(p, SignCell(q), 1) /\ flash[p][SignCell(q)] = Sign

\* (mutant: the code is never looked at)
VerifyInfoOnly(p) == InfoAt(p, Tail(p)) # NoPkg
\* qbt_dest_part_verify: the code itself is only looked at if the package
\* says so.
qbt_dest_part_verify(p) ==
    LET q == InfoAt(p, Tail(p)) IN
    /\ q # NoPkg
    /\ Fw[q].verify = "crc" => BodyIntact(p, q) /\ Fw[q].raw_crc_ok

-----------------------------------------------------------------------------
(* Control: where the program goes when a piece of work is done.           *)

\* Leave for an idle point: the locals of the work are gone.
Idle(to) ==
    /\ pc' = to
    /\ ctx' = "none" /\ src' = "none" /\ dst' = "none" /\ pos' = 0

\* Handle the package in partition p on behalf of c.
Handle(c, p) ==
    /\ pc' = "check"
    /\ ctx' = c /\ src' = p /\ dst' = "none" /\ pos' = 0

\* The next stage of qbt_thread_entry when stage c did not start the app.
GiveUp(c) ==
    CASE c = "key" -> Idle("enter")
      [] c = "auto" -> Handle("try_download", DownloadPart)
      [] c = "try_download" -> Handle("try_factory", FactoryPart)
      [] c = "try_factory" -> Idle("last_shell")
      [] OTHER -> Idle("shell")

\* qbt_jump_to_app is called next, on behalf of c.
Jump(c) == pc' = "jump" /\ ctx' = c /\ src' = "none" /\ dst' = "none" /\ pos' = 0

\* A release or resume is over: the boot thread tries the app, whatever the
\* result was after the automatic release; a command returns to the shell.
Return(ok) ==
    IF ctx = "auto" \/ (ok /\ ctx \in BootCtx) THEN Jump(ctx) ELSE GiveUp(ctx)

\* Frequency l is set when the release is over; "qboot resume" ends with 1 Hz.
Lamp(l) == led' = IF ctx = "cmd_resume" THEN 1 ELSE l

Releasing == ctx \in {"auto", "cmd_release"}

-----------------------------------------------------------------------------
(* qbt_thread_entry.                                                       *)

\* close_sys_shell, status_led_init, fal_init succeeds.
Startup ==
    /\ pc = "start"
    /\ pc' = "key" /\ led' = 2
    /\ UNCHANGED <<flash, work, fw, rx, bounds>>

\* fal_init fails: the shell without partitions, or a reboot if the shell
\* cannot be opened either.
StartupFails ==
    /\ pc = "start" /\ faults < MaxFaults
    /\ faults' = faults + 1
    /\ \/ pc' = "shell_nofal" /\ led' = 1
       \/ pc' = "start" /\ led' = 2
    /\ UNCHANGED <<flash, work, fw, rx, losses, downloads>>

\* (mutant: a wrong blink period)
KeyWatchLed ==
    /\ pc = "key" /\ pc' = "key_held" /\ led' = 5
    /\ UNCHANGED <<flash, work, fw, rx, bounds>>
\* qbt_factory_key_check: 4 Hz while the key is watched.
KeyWatch ==
    /\ pc = "key"
    /\ pc' = "key_held" /\ led' = 4
    /\ UNCHANGED <<flash, work, fw, rx, bounds>>

KeyHeld ==
    /\ pc = "key_held" /\ UseKey
    /\ Handle("key", FactoryPart) /\ led' = 2
    /\ UNCHANGED <<flash, fw, rx, bounds>>

KeyReleased ==
    /\ pc = "key_held"
    /\ Idle("enter") /\ led' = 2
    /\ UNCHANGED <<flash, fw, rx, bounds>>

\* qbt_startup_shell(true): Enter within the time limit opens the shell and
\* ends the boot thread.
EnterPressed ==
    /\ pc = "enter" /\ UseShell
    /\ Idle("shell") /\ led' = 1
    /\ UNCHANGED <<flash, fw, rx, bounds>>

\* (mutant: the wrong partition)
EnterTimeoutFactory ==
    /\ pc = "enter" /\ Handle("auto", FactoryPart)
    /\ UNCHANGED <<flash, fw, rx, led, bounds>>
EnterTimeout ==
    /\ pc = "enter"
    /\ Handle("auto", DownloadPart)
    /\ UNCHANGED <<flash, fw, rx, led, bounds>>

\* (mutant: reboot instead of the shell)
LastShellReboots ==
    /\ pc = "last_shell" /\ Idle("start") /\ fw' = NoPkg
    /\ UNCHANGED <<flash, rx, led, bounds>>
\* qbt_startup_shell(false): nothing could be started.
LastShell ==
    /\ pc = "last_shell"
    /\ Idle("shell") /\ led' = 1
    /\ UNCHANGED <<flash, fw, rx, bounds>>

LastShellFails ==
    /\ pc = "last_shell" /\ faults < MaxFaults
    /\ faults' = faults + 1
    /\ Idle("start") /\ fw' = NoPkg
    /\ UNCHANGED <<flash, rx, led, losses, downloads>>

\* qbt_jump_to_app looks at the first two words of the app partition only:
\* the vectors of released code are in range, those of anything else are not,
\* and a torn cell may look either way.
JumpLegit ==
    /\ pc = "jump"
    /\ flash[AppPart][0].kind \in {"raw", "torn"}
    /\ Idle("run") /\ fw' = NoPkg
    /\ UNCHANGED <<flash, rx, led, bounds>>

JumpRefused ==
    /\ pc = "jump"
    /\ flash[AppPart][0].kind # "raw"
    /\ IF ctx = "nofal_jump" THEN Idle("shell_nofal") ELSE GiveUp(ctx)
    /\ UNCHANGED <<flash, fw, rx, led, bounds>>

-----------------------------------------------------------------------------
(* qbt_release_from_part, qbt_app_resume_from, qbt_fw_update.              *)

\* The package in src is good and may be released to where it wants to go:
\* resume insists on the app partition, release needs the partition to exist.
Acceptable(q) ==
    IF Releasing THEN Fw[q].part_name \in Parts ELSE Fw[q].part_name = AppPart

\* The checks at the start of qbt_fw_release: the algorithm is supported and
\* the first erase stays inside the partition.
Releasable(q) == Fw[q].algo_ok /\ InBounds(Fw[q].part_name, 0, Fw[q].raw_size)

CheckFails ==
    /\ pc = "check"
    /\ ~ qbt_fw_check(src)
    /\ fw' = InfoAt(src, 0)
    /\ Return(FALSE) /\ Lamp(led)
    /\ UNCHANGED <<flash, rx, bounds>>

\* The automatic release finds the release sign: nothing to do.
AlreadyReleased ==
    /\ pc = "check" /\ ctx = "auto"
    /\ qbt_fw_check(src)
    /\ fw' = InfoAt(src, 0)
    /\ qbt_release_sign_check(src, InfoAt(src, 0))
    /\ Return(TRUE)
    /\ UNCHANGED <<flash, rx, led, bounds>>

NeedsRelease ==
    /\ pc = "check"
    /\ qbt_fw_check(src)
    /\ ctx = "auto" => ~ qbt_release_sign_check(src, InfoAt(src, 0))

Refused ==
    LET q == InfoAt(src, 0) IN
    /\ NeedsRelease
    /\ fw' = q
    /\ ~ (Acceptable(q) /\ Releasable(q))
    /\ Return(FALSE)
    /\ Lamp(IF Acceptable(q) THEN 2 ELSE led)
    /\ UNCHANGED <<flash, rx, bounds>>

\* (mutant: the package is signed before it is released)
StartReleaseSigned ==
    LET q == InfoAt(src, 0) IN
    /\ NeedsRelease /\ Acceptable(q) /\ Releasable(q)
    /\ fw' = q /\ dst' = Fw[q].part_name
    /\ pc' = "rel_erase" /\ pos' = 0 /\ led' = 10
    /\ flash' = [flash EXCEPT ![src] = Programmed(@, SignCell(q), Sign)]
    /\ UNCHANGED <<ctx, src, rx, bounds>>
StartRelease ==
    LET q == InfoAt(src, 0) IN
    /\ NeedsRelease
    /\ Acceptable(q) /\ Releasable(q)
    /\ fw' = q /\ dst' = Fw[q].part_name
    /\ pc' = "rel_erase" /\ pos' = 0 /\ led' = 10
    /\ UNCHANGED <<flash, ctx, src, rx, bounds>>

-----------------------------------------------------------------------------
(* qbt_fw_release: erase, write the code, write the info last.             *)

\* One sector of the region that ends with cell last of the partition dst.
EraseSector(label, last, next) ==
    /\ pc = label
    /\ flash' = [flash EXCEPT ![dst] = SectorErased(@, dst, pos)]
    /\ IF pos < SectorOf[dst][last]
       THEN pos' = pos + 1 /\ pc' = label
       ELSE pos' = 0 /\ pc' = next

\* fal_partition_erase(dst_part, 0, raw_size)
ReleaseErase ==
    /\ EraseSector("rel_erase", Fw[fw].raw_size - 1, "rel_tail")
    /\ UNCHANGED <<ctx, src, dst, fw, rx, led, bounds>>

\* fal_partition_erase of the sector that holds the info
ReleaseEraseTail ==
    /\ pc = "rel_tail"
    /\ flash' = [flash EXCEPT ![dst] = SectorErased(@, dst, SectorOf[dst][Tail(dst)])]
    /\ pc' = "rel_write"
    /\ UNCHANGED <<work, fw, rx, led, bounds>>

\* A write to the on-chip flash is read back and compared.
ReadsBack(p, c, v) == p \in OnChip => Program(flash[p][c], v) = v

\* Block i of what the package in src decompresses to: its code if it is
\* still complete, and something else if it is not.
Code(i) == IF PkgIntact(src, fw) THEN RawCell(fw, i) ELSE Torn

\* (mutant: off by one)
ReleaseCompleteEarly(written) == written + 1 >= Fw[fw].raw_size
ReleaseComplete(written) == written >= Fw[fw].raw_size

\* qbt_dest_part_write does not ask whether the remainder was written.
Unchecked == pc = "rel_write" /\ Fw[fw].flush /\ ReleaseComplete(pos + 1)

\* One turn of the release loop: the next block of code is read from the
\* package, decrypted, decompressed and written at dst_write_pos.
ReleaseWrite ==
    /\ pc = "rel_write"
    /\ flash' = [flash EXCEPT ![dst] = Programmed(@, pos, Code(pos))]
    /\ IF ReadsBack(dst, pos, Code(pos)) \/ Unchecked
       THEN /\ pos' = pos + 1
            /\ pc' = IF ReleaseComplete(pos + 1) THEN "rel_info" ELSE "rel_write"
            /\ UNCHANGED <<ctx, src, dst, led>>
       ELSE Return(FALSE) /\ Lamp(2)
    /\ UNCHANGED <<fw, rx, bounds>>

\* A package that was sent to the partition it lies in has erased itself: the
\* decompressor reports an error, or yields nothing and the loop never ends.
ReleaseGarbled ==
    /\ pc = "rel_write" /\ ~ PkgIntact(src, fw)
    /\ \/ Return(FALSE) /\ Lamp(2)
       \/ pc' = "hung" /\ UNCHANGED <<work, led>>
    /\ UNCHANGED <<flash, fw, rx, bounds>>

\* qbt_fw_info_write(dst_part_name, fw_info, true)
ReleaseInfo ==
    /\ pc = "rel_info"
    /\ flash' = [flash EXCEPT ![dst] = Programmed(@, Tail(dst), Info(fw))]
    /\ IF ReadsBack(dst, Tail(dst), Info(fw))
       THEN pc' = "verify" /\ led' = 2 /\ UNCHANGED work
       ELSE Return(FALSE) /\ Lamp(2)
    /\ UNCHANGED <<fw, rx, bounds>>

\* qbt_dest_part_verify reads the tail of dst into the same static fw_info.
Verify ==
    /\ pc = "verify"
    /\ fw' = InfoAt(dst, Tail(dst))
    /\ IF qbt_dest_part_verify(dst)
       THEN IF Releasing THEN pc' = "sign" /\ UNCHANGED <<work, led>>
                         ELSE Return(TRUE) /\ Lamp(led)
       ELSE Return(FALSE) /\ Lamp(led)
    /\ UNCHANGED <<flash, rx, bounds>>

\* qbt_release_sign_check and qbt_release_sign_write: a sign out of the
\* partition's bounds is not written, and nobody looks at the result.
SignImage(q) ==
    IF InBounds(src, SignCell(q), 1)
    THEN Programmed(flash[src], SignCell(q), Sign) ELSE flash[src]

WriteSign ==
    /\ pc = "sign"
    /\ flash' = [flash EXCEPT ![src] = SignImage(fw)]
    /\ Return(TRUE)
    /\ UNCHANGED <<fw, rx, led, bounds>>

-----------------------------------------------------------------------------
(* qbt_shell_cmd: the commands that change state ("help" only prints).     *)

\* probe: qbt_fw_check of the download and then of the factory partition.
CmdProbe ==
    /\ pc = "shell"
    /\ fw' = InfoAt(FactoryPart, 0)
    /\ UNCHANGED <<flash, pc, work, rx, led, bounds>>

CmdResume(p) ==
    /\ pc = "shell"
    /\ Handle("cmd_resume", p)
    /\ UNCHANGED <<flash, fw, rx, led, bounds>>

CmdRelease(p) ==
    /\ pc = "shell"
    /\ Handle("cmd_release", p)
    /\ UNCHANGED <<flash, fw, rx, led, bounds>>

\* clone copies header and body; its first erase fails if dst is too small.
CmdClone(p, d) ==
    LET q == InfoAt(p, 0) IN
    /\ pc = "shell"
    /\ fw' = q
    /\ IF qbt_fw_check(p) /\ InBounds(d, 0, 1 + Fw[q].pkg_size)
       THEN pc' = "clone_erase" /\ ctx' = "cmd_clone" /\ src' = p /\ dst' = d /\ pos' = 0
       ELSE UNCHANGED <<pc, work>>
    /\ UNCHANGED <<flash, rx, led, bounds>>

CloneErase ==
    /\ EraseSector("clone_erase", Fw[fw].pkg_size, "clone_write")
    /\ UNCHANGED <<ctx, src, dst, fw, rx, led, bounds>>

CloneWrite ==
    /\ pc = "clone_write"
    /\ flash' = [flash EXCEPT ![dst] = Programmed(@, pos, flash[src][pos])]
    /\ IF ReadsBack(dst, pos, flash[src][pos]) /\ pos < Fw[fw].pkg_size
       THEN pos' = pos + 1 /\ UNCHANGED <<pc, ctx, src, dst>>
       ELSE Idle("shell")
    /\ UNCHANGED <<fw, rx, led, bounds>>

CmdVerify(p) ==
    /\ pc = "shell"
    /\ fw' = InfoAt(p, Tail(p))
    /\ UNCHANGED <<flash, pc, work, rx, led, bounds>>

\* del erases pkg_size from the start of the partition.
CmdDel(p) ==
    /\ pc = "shell"
    /\ fw' = InfoAt(p, 0)
    /\ IF qbt_fw_check(p)
       THEN pc' = "del_erase" /\ ctx' = "cmd_del" /\ src' = "none" /\ dst' = p /\ pos' = 0
       ELSE UNCHANGED <<pc, work>>
    /\ UNCHANGED <<flash, rx, led, bounds>>

DelErase ==
    /\ pc = "del_erase"
    /\ flash' = [flash EXCEPT ![dst] = SectorErased(@, dst, pos)]
    /\ IF pos < SectorOf[dst][Fw[fw].pkg_size - 1]
       THEN pos' = pos + 1 /\ UNCHANGED <<pc, ctx, src, dst>>
       ELSE Idle("shell")
    /\ UNCHANGED <<fw, rx, led, bounds>>

CmdJump ==
    /\ pc \in {"shell", "shell_nofal"}
    /\ Jump(IF pc = "shell" THEN "cmd_jump" ELSE "nofal_jump")
    /\ UNCHANGED <<flash, fw, rx, led, bounds>>

\* Without FAL every other command runs into assert(init_ok), an endless loop.
CmdAsserts ==
    /\ pc = "shell_nofal"
    /\ pc' = "hung"
    /\ UNCHANGED <<flash, work, fw, rx, led, bounds>>

Command ==
    \/ CmdProbe \/ CmdJump \/ CmdAsserts
    \/ \E p \in Parts : CmdResume(p) \/ CmdRelease(p) \/ CmdVerify(p) \/ CmdDel(p)
    \/ \E p, d \in Parts : CmdClone(p, d)

-----------------------------------------------------------------------------
(* ymodem_ota, in the shell of the boot loader and in the application: the *)
(* callbacks' effect on the flash.  The transfer itself may end anywhere.  *)

\* ymodem_on_begin: the file fits into the partition.
DlBegin(q, p) ==
    /\ pc = "run" \/ (pc = "shell" /\ UseShell)
    /\ downloads < MaxDownloads /\ downloads' = downloads + 1
    /\ InBounds(p, 0, 1 + Fw[q].pkg_size)
    /\ rx' = q /\ dst' = p
    /\ pc' = "dl_erase" /\ ctx' = pc /\ src' = "none" /\ pos' = 0
    /\ UNCHANGED <<flash, fw, led, losses, faults>>

DlErase ==
    /\ EraseSector("dl_erase", Fw[rx].pkg_size, "dl_write")
    /\ UNCHANGED <<ctx, src, dst, fw, rx, led, bounds>>

\* The content of the file: header, then body.
FileCell(q, i) == IF i = 0 THEN Info(q) ELSE PkgCell(q, i)

\* The system restarts by itself after a complete download.
Restart == Idle("start") /\ fw' = NoPkg /\ rx' = NoPkg

\* ymodem_on_data: one block of the file.
DlWrite ==
    /\ pc = "dl_write"
    /\ flash' = [flash EXCEPT ![dst] = Programmed(@, pos, FileCell(rx, pos))]
    /\ IF ~ ReadsBack(dst, pos, FileCell(rx, pos)) THEN Idle(ctx) /\ rx' = NoPkg /\ UNCHANGED fw
       ELSE IF pos < Fw[rx].pkg_size
            THEN pos' = pos + 1 /\ UNCHANGED <<pc, ctx, src, dst, rx, fw>>
       ELSE \/ Restart
            \/ /\ InBounds(dst, pos + 1, 1) /\ SectorOf[dst][pos + 1] = SectorOf[dst][pos]
               /\ pc' = "dl_pad" /\ pos' = pos + 1 /\ UNCHANGED <<ctx, src, dst, rx, fw>>
    /\ UNCHANGED <<led, bounds>>

\* The last packet is longer than the rest of the file: its filler is
\* written too, and never reaches the next sector.
DlPad ==
    /\ pc = "dl_pad"
    /\ flash' = [flash EXCEPT ![dst] = Programmed(@, pos, Pad)]
    /\ Restart
    /\ UNCHANGED <<led, bounds>>

\* The sender gives up, a packet is damaged, a timeout: the receiver stops.
DlAbort ==
    /\ pc \in DlPc
    /\ Idle(ctx) /\ rx' = NoPkg
    /\ UNCHANGED <<flash, fw, led, bounds>>

-----------------------------------------------------------------------------
(* Failures.                                                               *)

\* The partition that the operation under way is changing, and what it would
\* make of it.
Target ==
    IF pc \in ReleasePc \cup ClonePc \cup DlPc \cup {"del_erase"} THEN dst
    ELSE IF pc = "sign" THEN src ELSE AppPart

Goal ==
    CASE pc \in {"rel_erase", "clone_erase", "dl_erase", "del_erase"} ->
                SectorErased(flash[dst], dst, pos)
      [] pc = "rel_tail" -> SectorErased(flash[dst], dst, SectorOf[dst][Tail(dst)])
      [] pc = "rel_write" -> Programmed(flash[dst], pos, Code(pos))
      [] pc = "rel_info" -> Programmed(flash[dst], Tail(dst), Info(fw))
      [] pc = "clone_write" -> Programmed(flash[dst], pos, flash[src][pos])
      [] pc = "dl_write" -> Programmed(flash[dst], pos, FileCell(rx, pos))
      [] pc = "dl_pad" -> Programmed(flash[dst], pos, Pad)
      [] pc = "sign" -> SignImage(fw)
      [] OTHER -> flash[AppPart]

CutShort ==
    \E how \in Ways(flash[Target], Goal) :
        flash' = [flash EXCEPT ![Target] = Interrupted(@, Goal, how)]

\* The power fails: an operation under way is cut short, the RAM is lost.
PowerLoss ==
    /\ losses < MaxLosses /\ losses' = losses + 1
    /\ CutShort
    /\ Restart /\ led' = 2
    /\ UNCHANGED <<faults, downloads>>

\* Somebody resets the board while nothing is written.
Reboot ==
    /\ pc \in {"run", "shell", "shell_nofal", "hung"}
    /\ Restart /\ led' = 2
    /\ UNCHANGED <<flash, bounds>>

\* A thread that keeps the CPU for good is killed by syswatch and created anew:
\* the boot thread, or the shell.  The statics are what they were.  (It may have
\* been killed with the lock of the NOR flash: then nothing goes on.)
SyswatchRestarts ==
    /\ pc = "hung"
    /\ Idle(CASE ctx \in BootCtx -> "start" [] ctx \in CmdCtx -> "shell"
              [] OTHER -> "shell_nofal")
    /\ UNCHANGED <<flash, fw, rx, led, bounds>>

\* A flash operation reports an error.  It is ignored when the sign or the
\* remainder is written.
FlashFault ==
    /\ pc \in ReleasePc \cup ClonePc \cup DlPc \cup {"del_erase", "sign"}
    /\ faults < MaxFaults /\ faults' = faults + 1
    /\ CutShort
    /\ CASE Unchecked -> /\ pc' = "rel_info" /\ pos' = pos + 1
                         /\ UNCHANGED <<ctx, src, dst, rx, led>>
         [] pc \in ReleasePc /\ ~Unchecked -> Return(FALSE) /\ Lamp(2) /\ UNCHANGED rx
         [] pc = "sign" -> Return(TRUE) /\ UNCHANGED <<rx, led>>
         [] pc \in DlPc -> Idle(ctx) /\ rx' = NoPkg /\ UNCHANGED led
         [] OTHER -> Idle("shell") /\ UNCHANGED <<rx, led>>
    /\ UNCHANGED <<fw, losses, downloads>>

-----------------------------------------------------------------------------
\* The steps the boot loader takes by itself.
BootStep ==
    \/ Startup \/ KeyWatch \/ KeyReleased \/ EnterTimeout \/ LastShell
    \/ JumpLegit \/ JumpRefused
    \/ CheckFails \/ AlreadyReleased \/ Refused \/ StartRelease
    \/ ReleaseErase \/ ReleaseEraseTail \/ ReleaseWrite \/ ReleaseGarbled
    \/ ReleaseInfo \/ Verify \/ WriteSign
    \/ CloneErase \/ CloneWrite \/ DelErase

User == KeyHeld \/ EnterPressed \/ (UseShell /\ Command) \/ Reboot

Download ==
    \/ \E q \in Pkgs, p \in DlParts : DlBegin(q, p)
    \/ DlErase \/ DlWrite \/ DlPad \/ DlAbort

Failure == StartupFails \/ LastShellFails \/ PowerLoss \/ FlashFault \/ SyswatchRestarts

Next == BootStep \/ User \/ Download \/ Failure

\* A partition with the bare code of q (as a debugger writes it), and one with
\* the package q.
CodeImage(p, q) ==
    [c \in Cells(p) |-> IF q # NoPkg /\ c < Fw[q].raw_size THEN RawCell(q, c) ELSE Blank]
PkgImage(p, q) ==
    [c \in Cells(p) |-> IF q # NoPkg /\ c <= Fw[q].pkg_size THEN FileCell(q, c) ELSE Blank]

\* A device is delivered with code in app, a package in factory, or without.
Init ==
    /\ \E a \in InitApp, f \in InitFactory :
        flash = [p \in Parts |-> CASE p = AppPart -> CodeImage(p, a)
                                  [] p = FactoryPart -> PkgImage(p, f)
                                  [] OTHER -> PkgImage(p, NoPkg)]
    /\ pc = "start" /\ ctx = "none" /\ src = "none" /\ dst = "none" /\ pos = 0
    /\ fw = NoPkg /\ rx = NoPkg /\ led = 2
    /\ losses = 0 /\ faults = 0 /\ downloads = 0

Spec == Init /\ [][Next]_vars

\* The boot thread is the only runnable thread of its priority and never
\* waits for anything but time: as long as the power stays on it goes on.
Fairness == WF_vars(BootStep)
FairSpec == Spec /\ Fairness

-----------------------------------------------------------------------------
TypeOK ==
    /\ flash = [p \in Parts |-> flash[p]]
    /\ \A p \in Parts : flash[p] \in [Cells(p) -> Cell]
    /\ pc \in Pc
    /\ ctx \in BootCtx \cup CmdCtx \cup OtherCtx \cup {"none"}
    /\ src \in Parts \cup {"none"} /\ dst \in Parts \cup {"none"}
    /\ fw \in Pkgs \cup {NoPkg} /\ rx \in Pkgs \cup {NoPkg}
    /\ pos \in Nat
    /\ led \in {1, 2, 4, 10}
    /\ losses \in 0 .. MaxLosses /\ faults \in 0 .. MaxFaults
    /\ downloads \in 0 .. MaxDownloads

\* The release sign never hides a release that is still to be done, whatever
\* failed before it.  The partition a package was released to holds its info and
\* the complete code, with two exceptions that the code has, both of packages
\* that ask for no verification: the last cell of a gzip stream, the write of
\* which nobody checks; and a package that was sent to the partition it lies in
\* (qbt_release_from_part does not compare the two), of which neither code nor
\* package is left.  Such a package is signed like any other, but the sign then
\* stands beside nothing that could be released again.  One that asks for
\* verification is never signed after it has erased itself.
SignAfterRelease ==
    pc = "sign" => IF src = dst THEN ErasedItself(dst, fw) ELSE Confirmed(dst, fw)

\* Some code is complete in the app partition.
AppIntact == \E q \in Pkgs : BodyIntact(AppPart, q)

\* The package that the automatic release of the next start will release.
Pending(q) ==
    /\ InfoAt(DownloadPart, 0) = q /\ qbt_fw_check(DownloadPart)
    /\ ~ qbt_release_sign_check(DownloadPart, q)
    /\ Fw[q].part_name = AppPart /\ Releasable(q)

\* Power failures alone, at any moment of a download or of an automatic
\* release, never make qboot start an incomplete application.
RunsOnlyIntact == pc = "run" => AppIntact

\* Whatever qboot does to boot - check, release, resume, sign, fail half way,
\* lose power in between - the packages it may need again stay complete: only
\* the partition a package is released or downloaded to can lose one.
PackageSurvivesBoot ==
    [][\A p \in Parts \ {dst}, q \in Pkgs : PkgIntact(p, q) => PkgIntact(p, q)']_vars

\* Every start ends: in the application, or in a shell.
BootEnds == pc = "start" ~> pc \in {"run", "shell", "shell_nofal"}

\* A package that waits at a start is what runs in the end, even if the power
\* fails on the way.
UpdateCompletes ==
    \A q \in Pkgs :
        (pc = "start" /\ Pending(q)) ~> (pc = "run" /\ Released(AppPart, q))

\* The update as the owner of the device sees it.
Offered == IF \E q \in Pkgs : Pending(q) THEN InfoAt(DownloadPart, 0) ELSE NoPkg
Installed == IF AppIntact THEN CHOOSE q \in Pkgs : BodyIntact(AppPart, q) ELSE Offered
Running == pc = "run" \/ pc \in DlPc
Atomic == INSTANCE AtomicUpdate
            WITH installed <- Installed, offered <- Offered, running <- Running

\* Seen from outside the update is one atomic step: no power failure shows a
\* mixture, and a waiting package is installed before anything is started.
UpdateIsAtomic == Atomic!Spec

\* A download that was completed and restarted the system starts the new
\* firmware.
RestartStartsNew ==
    \A q \in Pkgs :
        (pc = "start" /\ PkgIntact(DownloadPart, q)) ~> (pc = "run" /\ BodyIntact(AppPart, q))

=============================================================================
