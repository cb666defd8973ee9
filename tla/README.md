# TLA+ specifications of the rt_thread_ota boot loader

The repository demonstrates over-the-air updates on an STM32F407 with RT-Thread:
a boot loader built around **qboot** (`src/bootLoader/packages/qboot-latest`), two demo
applications, and a Windows tool that packs firmware into `.rbl` packages. This
directory holds TLA+ models of the parts that decide which firmware a device runs,
TLC configurations that check them on small devices, and TLAPS proofs of the facts
that hold for devices of every size. It also has models of the two packages that run
beside the boot thread: the watchdog of hanging threads, **syswatch**, and the blinking LEDs,
**quick_led**.

## The system

| component | state | operations | hard behaviour |
|---|---|---|---|
| **qboot boot thread** (`qboot.c`, `qboot_stm32.c`) | static `fw_info`, the partitions `app`, `download`, `factory`, the status LED | the stages of `qbt_thread_entry`: factory key, Enter key, automatic release, jump, resume from download, resume from factory, last shell | power fails between any two flash operations; flash operations fail; a stage fails and the next one starts from what it left |
| **release** (`qbt_fw_release`, `qbt_dest_part_write`) | read and write positions, decompression buffers | erase, erase the tail, read, decrypt, decompress, write, write the info | loops whose progress depends on the content of a package; remainders that are flushed late |
| **shell commands** (`qbt_shell_cmd`) | the same | probe, resume, clone, release, verify, del, jump | any sequence, on any partition, source and destination alike |
| **partitions** (FAL, `drv_flash_f4.c`, `fal_flash_sfud_port.c`) | the flash | read, write, erase | NOR flash: programming clears bits only, erasing is by sector, bounds are 32-bit sums |
| **ymodem_ota** | receive position, partition | `ymodem_on_begin`, `ymodem_on_data`, restart | the transfer may stop anywhere after the erase |
| **Ymodem receiver** (`ymodem.c`) | stage, packet buffer | handshake, data packets, end of session | lost, repeated, garbled packets; timeouts |
| **syswatch** | `op_step`, `sec_cnt`, `lowest_thread`, list of killed threads | scheduler hook, state machine each second: detect, confirm, kill, resume | the hook runs inside of every switch; a visit of the idle thread at any moment of the search; threads that end, are freed or wake meanwhile |
| **scheduler** (RT-Thread) | ready queues, states of the threads, the current thread, closed threads | switch, time slice, start, block, end, delete, free | every call may switch; a thread is deleted while it is queued |
| **quick_led** | table of LEDs | add, remove, set on, off, blink, special; the qled thread's pass over the table | the qled thread preempts a caller in the middle of a call; a callback changes the table during the pass |
| **packager** (C#) | none | pack a file | what it can and cannot produce (no verification mode) |

They interact through shared flash: a downloader (in the boot loader's shell or in the
application) writes a package into `download` and resets the board; the boot thread
checks it, releases it to the partition the package names, verifies it, marks the package
with the *release sign* (a word of zeros in the first 32-byte slot after it) and jumps to
the application. The sign is what keeps a package from being released at every start.
Syswatch has the highest priority and is called by the scheduler on every switch; it kills
and creates the threads of the others, the boot thread among them. The boot thread and the
shell set the status LED, which the qled thread shows.

What makes the parts correct:

- the application that is started is a complete firmware, whatever failed before;
- a package that waits is installed, even if the power fails while it is installed;
- a package is marked as released only when it is;
- installing never destroys a package that may be needed to repair the installation;
- every start ends in the application or in a shell;
- a thread is killed only after the idle thread was out of reach for the whole time, only a
  low one, and comes back;
- an LED shows what the last call asked for, whatever passes came between its steps.

## Modules

| module | content |
|---|---|
| `NorFlash` | the partitions as rows of cells in erase sectors; programming, erasing, operations cut short |
| `Qboot` | the boot thread, the release, the sign, the shell commands, the download, failures |
| `AtomicUpdate` | what the owner of a device sees: the firmware is replaced in one step |
| `Pipeline` | the loops that turn the body of a package into code: read, decrypt, decompress, write or CRC |
| `YmodemRecv` | one session of `ymodem_ota`: receiver, callbacks, line, sender |
| `Scheduler` | the part of the kernel that syswatch relies on: queues, switches, states of threads |
| `Syswatch` | the hook, the state machine and the list of killed threads, on `Scheduler` |
| `Qled` | the table of LEDs, the calls step by step, the pass of the qled thread |
| `MCQboot` | small devices and packages for TLC |
| `MCPipeline` | packages as the packager makes them, in small units |
| `MCYmodem` | sessions of one or two short files |
| `MCSyswatch` | two threads of one priority, one above them, syswatch and idle |
| `MCQled` | three pins, two slots, one caller |
| `Qboot_proofs` | the inductive invariant of `Qboot`: types and the release sign |
| `Packages_proofs` | that no package is lost that may be needed again: `PackageSurvivesBoot` |
| `Update_proofs` | the update as the owner of the device sees it: `RunsOnlyIntact`, and that `Qboot` implements `AtomicUpdate` |
| `Pipeline_proofs` | the inductive invariant of `Pipeline`, for all sizes |
| `Syswatch_proofs` | the inductive invariant of `Scheduler` and `Syswatch` together |
| `Silence_proofs` | the bound of the silence, from that invariant and an account of every second |
| `YmodemRecv_proofs` | the inductive invariant of a session: where receiver, line, sender and partition are |
| `Qled_proofs` | the table and the light of every LED, step by step, for any table, times and sequences |

### NorFlash

A *cell* is a stretch of flash that the program writes as a unit: an `fw_info_t`, a block
of a package, a block of code, the word of the sign, a filler block. `Program(old, new)`
is the NOR rule: the new value on a blank cell, zeros on anything (the sign is a word
of zeros), the same value again, and otherwise *torn*: the AND of two unrelated values.
`SectorErased` blanks every cell of one sector. `Interrupted` is an operation that was cut
short: each cell it would have changed is old, new or torn.

### Qboot

`pc` names the place in the code, `ctx` the caller that gets the result. One action is one
operation on the flash, or one decision together with everything that was read for it:
there is only one thread that touches the flash, so reads can be taken together, but
every erase of a sector and every write of a cell is a step, because the power may
fail inside each of them (`PowerLoss`) and each may report an error after having done
part of its work (`FlashFault`).

| code | actions |
|---|---|
| `qbt_thread_entry` up to the keys | `Startup`, `StartupFails`, `KeyWatch`, `KeyHeld`, `KeyReleased`, `EnterPressed`, `EnterTimeout` |
| `qbt_release_from_part`, `qbt_app_resume_from` | `CheckFails`, `AlreadyReleased`, `Refused`, `StartRelease` |
| `qbt_fw_release` | `ReleaseErase`, `ReleaseEraseTail`, `ReleaseWrite`, `ReleaseGarbled`, `ReleaseInfo` |
| `qbt_dest_part_verify`, the sign | `Verify`, `WriteSign` |
| `qbt_jump_to_app` | `JumpLegit`, `JumpRefused` |
| the last `qbt_startup_shell` | `LastShell`, `LastShellFails` |
| `qbt_shell_cmd` | `CmdProbe`, `CmdResume`, `CmdRelease`, `CmdClone` (`CloneErase`, `CloneWrite`), `CmdVerify`, `CmdDel` (`DelErase`), `CmdJump`, `CmdAsserts` |
| `ymodem_on_begin`, `ymodem_on_data`, `ymodem_ota` | `DlBegin`, `DlErase`, `DlWrite`, `DlPad`, `DlAbort` |

`Return` is the control after a release: the boot thread jumps after the automatic release
whatever its result was, but after a resume only when it succeeded; `GiveUp` is the next
stage. The static `fw_info` is the variable `fw`: `Verify` overwrites it with what the
destination's tail holds, and `WriteSign` uses what is there then.

The release does not ask whether the write of the last remainder of a gzip package
succeeded (qboot.c:376). `flush` is the field of a package that says whether its last cell
of code is written that way: `ReleaseWrite` and `FlashFault` go on after such a write
failed. `Unchecked` is that cell, `Delivered` the code without it, and `Confirmed` says what
a sign can vouch for: the code has arrived, but for an unchecked cell if no CRC of the code
was asked for.

A package that is released to the partition it lies in erases itself: `qbt_release_from_part`
does not compare source and destination. `Code` and `ReleaseGarbled` then let the loop write
anything, fail, or never end. What happens when the loop ends depends on the package. If it
asks for a CRC of its code, the verification finds no code and nothing is signed. If it asks
for none, the release counts as done, is reported as a success and signed, although neither
the code nor the package is left. `ErasedItself` is this case. It is part of
`SignAfterRelease`, which so has two exceptions, the unchecked cell and this one, both of
packages without verification: one that asks for it is never signed incomplete. Nothing can be released again from a partition in that state, so the sign hides no
release that could still be done.

`AtomicUpdate` is implemented by `Qboot` under the mapping `Installed`, `Offered`,
`Running`: while the application partition is incomplete, `Installed` is already the package
that is being installed, so the release as a whole is the single step `Install`.

### Pipeline

`Qboot` writes code cell by cell; `Pipeline` looks inside: how the loops of `qbt_fw_release`
and `qbt_app_crc_check` and the decompressors they call share `cmprs_buf`, `crypt_buf` and
`gzip_remain_buf`. A unit of the body or of the code is known by its position, which is all
it takes to see whether the code arrives whole, in order and once. Any number of jobs (a CRC
check or a release, of any package) may follow each other: the buffers and the positions
are static.

| code | definitions |
|---|---|
| `qbt_fw_decrypt_init`, `qbt_fw_decompress_init`, the erase of `raw_size` | `Start` with `DecryptInit`, `DecompressInit`, `ErasedFor` |
| the two `while` loops | `Read`, `ReadFails`, `Leave` (with the comparison of the CRC) |
| `qbt_fw_pkg_read` | `qbt_fw_pkg_read`: the length of the read, decryption in or out of step |
| `qbt_dest_part_write`, `qbt_app_crc_cal`, no compression | `CopyOut`, `Put`, `Counted`, `Clamped` |
| the same, gzip | `GzipRound`, `GzipFails`; `Space`, `Inflated`, `IsEnd` for `qbt_gzip_decompress`, `Whole` and `Rest` for the cut at 32 bytes, `Flushes`, `FilledUp`, `Flushed` for the end |
| the same, QuickLZ and FastLZ | `BlockRound`, `BlockEnd`, `HeadBlocks` |
| a failing write | `WriteFails` |

zlib is external: `Inflatable` lets it turn any part of its input into any amount of code,
as long as the whole stream yields the whole code. The units a job has put into the CRC
are a sequence, so two CRCs are equal only if the code is.

### YmodemRecv

`Qboot` lets a download write any prefix of a package; `YmodemRecv` is the protocol that
decides what arrives. `rp` is the place in `ymodem.c`, `line` and `back` are the two
directions of the serial line, and `dl`, `cur` are the partition and
`update_file_cur_size`. The sender is not part of the repository: it is an ordinary
stop-and-wait Ymodem program, with the freedom that such programs have (to drop what came
before it started or not, to announce a size or not, to send the header of a file in an SOH
or an STX packet, to be slow or hasty).

| code | actions |
|---|---|
| `_rym_do_handshake` | `Hello`, `HelloFails`, `HelloTimeout`, `HelloCode`, `Header`, `HeaderFails` |
| `_rym_read_code`, `_rym_read_data` | `Codes`, `Need`, `Read`, `Left`; `Timeout` |
| `ymodem_on_begin` | `Begin`, `BeginFails`, `BeginCur`, `ErasedUpTo` |
| `_rym_do_trans`, `_rym_trans_data` | `Code`, `Ignore` (a repeated packet 0), `DataFails` |
| `ymodem_on_data` and its answer | `Data`, `DataRefused`, `Advance` |
| `_rym_do_fin` | `SecondEot`, `NextCode`, `NextBad`, `NextFile`, `Finished` |
| `rt_hw_serial_isr`: 64 bytes of buffer, the oldest are dropped | `Overrun` |
| (external) | `SenderStarts`, `SenderHears`, `SenderTimeout`, `LineFault` |

A token of the line is one byte (`Char`, `Noise`), a unit of a packet (`Unit`, or `Bad` once
it was garbled), or the rest of a unit of which some bytes were taken for something else
(`Junk`). Once the receiver is out of step it finds any code in such bytes, but a body
starts with the number of its packet, and the number 0 is no code. A CRC is taken to tell
any change. `Faults` names what may go wrong: a token for the receiver is lost (`lose`), a token
for the sender is lost (`mute`), a unit of a body changes (`garble`), a head or a code
turns into any byte (`noise`), the sender pauses (`stall`), repeats a packet too early
(`hasty`), the serial buffer overruns (`overrun`), the flash fails (`erase`, `write`).

### Scheduler and Syswatch

`Scheduler` has the ready queues, the states of the threads and `rt_schedule` as operators on
them (`Stays`, `To`, `SwitchTo`); `Syswatch` turns each call of `rt_schedule` into an action, with
the hook at the place where `scheduler.c` has it: before the old thread goes back to its
queue, so that the hook can see whether that thread still wants the CPU. A step of a thread
is what it does between two such calls. What threads do otherwise does not matter here:
they block, end, use up their time slice, hang, or are woken at any moment.

| code | actions |
|---|---|
| `rt_thread_resume`, timeouts | `Wake` |
| `rt_thread_suspend`, the end of a thread, the tick, the idle thread | `Block`, `Exit`, `Slice`, `IdleFrees` |
| (the environment) | `Hang`, and `Second`: `rt_thread_delay` of syswatch is over |
| `syswatch_thread_switch_hook` | `Hook` with `IdleReached`, `Lowest` |
| `syswatch_thread_entry`, `syswatch_check_timeout` | `Count`, `TimedOut` |
| step 0, 1, 2 | `Suspect`; `Resolve` (`Kill`); `Resume` (one turn of the loop), `ResumeEnds` |

The model is of mode 2, which `rtconfig.h` selects (60 s to detect, 15 s to confirm, 15 s
until the resume); syswatch has priority 0. `silence`, `hogs`, `fresh` and `lost` are history: the
seconds since the idle thread was last switched to, the threads that were running when one of
them ended, the threads that were woken in the current second, and those there was no memory
for. `ComesBack` excuses a thread only if it is itself in `lost`: the failure of one creation
must not keep the others from coming back. `Overload` allows a thread
that is well to be running at the end of a second; then it may be killed like one that hangs,
which is why `KillsAfterSilence` and `SparesHigher` do not ask whether the victim hangs.

Things one would not expect, and that the model shows: a thread that has ended but was not
freed yet may be the lowest thread, and is then "resumed", that is created anew; after a
failed allocation the thread is killed but never comes back. The early return of
`syswatch_thread_except_resolve` (no lowest thread, or syswatch itself) is never taken: that
is part of `NoDangling`.

In `Qboot` syswatch appears as `SyswatchRestarts`: the one loop of qboot that may never
end (`ReleaseGarbled`) is killed and the boot thread, or the shell, starts from its beginning
with the statics as they were. A kill elsewhere in a release is not an action of `Qboot`:
the operations of a release stay far below 75 seconds without idle, and those on the NOR
flash yield.

### Qled

The qled thread has a higher priority than its callers, so it runs between any two of their
steps that are not in one critical section; `call` holds where each caller is. A pass over the
table with its callbacks is one step (`Tick`). `asked` and `age` are history: what the last call
that was completed asked for, and how many passes ago. `ShouldBeLit` says what that means
for the LED without looking at the table, and `ShowsWhatWasAsked` compares.

| code | actions |
|---|---|
| `qled_add` | `AddBegin`, `AddInit`, `AddOff`, `AddStore` |
| `qled_remove` | `RemoveBegin`, `RemoveDeinit`, `RemoveClear` |
| `qled_set_on`, `qled_set_off` | `SetBegin`, `SetMode`, `SetSwitch` |
| `qled_set_blink`, `qled_set_special` | `RunBegin`, `SetRun` |
| `qled_run`, `qled_run_blink`, `qled_run_special`, callbacks | `Tick` with `RunSlot`, `RunBlink`, `RunSpecial`, `Callback` |

Fields that nothing reads in a mode have a fixed value in it (`Still`, `plan`). At the end of a
sequence without callback qled.c:153 reads the time behind the end of the array into `cnt`
(`Stopped`). What lies there is the constant `Behind`: the theorems hold for any value, and in
the run it is a time that would show if it were used.
An LED that was just added keeps the mode that its slot had before, so nothing is promised
until the first call that sets one.

## Runs

| run | configuration | shows |
|---|---|---|
| `auto` | no keys, two power failures, two downloads; packages with and without CRC of the code and one with an unsupported algorithm | `RunsOnlyIntact`, `UpdateCompletes`, `UpdateIsAtomic` (refinement) |
| `boot` | factory key, one power failure, one failing operation, one download; a package for a NOR partition whose sign lies outside of the partition | `SignAfterRelease`, `BootEnds`, `PackageSurvivesBoot` |
| `shell` | any sequence of shell commands and a download from the shell, one failing operation; packages for the factory partition, with and without a CRC of the code, that can be cloned there and released onto themselves | `SignAfterRelease` |
| `edge` | *violated*: `RestartStartsNew` | an old sign behind a package that ends at a sector boundary |
| `pipeline` | one job, and for some sizes two in a row; every size of code, stream and block at and around the multiples of the buffers; reads, writes, allocations, the unchecked flush and the set-up of zlib may fail | the code arrives in order (`ReleasedInOrder`), on erased flash (`WritesOnErased`), in aligned writes (`AlignedWrites`), `cmprs_buf` is large enough (`BufferHolds`), nothing of one job is left over in the next (`NoFalseAlarm`), every job ends (`Terminates`) |
| `incompressible` | *violated*: `BufferHolds` | a QuickLZ or FastLZ block that does not compress is larger than the buffer allows for |
| `ymodem` | a token lost, garbled or turned into a code anywhere, a slow sender, an overrun of the serial buffer, a failing flash | what is in the partition is the beginning of the file (`ReceivedPrefix`), success means all of it (`SuccessIsWhole`), the sender is not told so wrongly (`SenderKnows`), every session ends (`Ends`) |
| `ymodem_clean` | nothing goes wrong; the sender may answer every late C with another packet 0 | sessions succeed (`Completes`) and never fail (`FailsForAReason`), also when the number of a packet wraps to 0 |
| `ymodem_repeat` | *violated*: `SuccessIsWhole` | after a lost ACK a repeated packet is written twice, and the session succeeds |
| `syswatch` | two threads of one priority and one above them, any of which may hang; one of them may end; overload; one failed allocation | the queues stay consistent (`SchedulerOK`), the list agrees with the step (`ListMatchesStep`), the saved pointer is used only while its object exists (`NoDangling`), kills come late and spare higher threads (`KillsAfterSilence`, `SparesHigher`), the silence ends (`SilenceBounded`), every killed thread comes back, but the one there was no memory for (`ComesBack`) |
| `twin` | *violated*: `KillsOnlyHung` | a thread that shares its priority with the one that hangs is killed in its place |
| `qled` | three LEDs in two slots, callbacks of both kinds, sequences of one and two times, one caller | the table and the pins agree (`TableOK`), the LEDs show what was asked for (`ShowsWhatWasAsked`) |

Bounds. Partitions have four cells in two sectors: enough for a header, a body of two
blocks and the sign in one partition, for code that shares the sector of the info and code
that does not, and for a sign in a sector of its own. Packages have bodies of one to
three cells. Two power failures reach a failure during the repair of the first one. The
bounds `MaxLosses`, `MaxFaults` and `MaxDownloads` only count environment events; the
boot thread itself is not bounded.

`Pipeline` is checked in units with READ : BUF : REMAIN : HDR : SECTOR : AES =
6 : 12 : 3 : 1 : 6 : 3 for 1024 : 4096 : 32 : 4 : sector : 16 bytes. The ratios keep what the
loops depend on: a buffer is a whole number of reads, a read a whole number of remainders
and of AES blocks, a header shorter than any of them. The sizes lie at, just below and just
above each multiple, so that the last read is empty, partial or full, the remainder empty or
not, and a block ends inside of a read or with it. In `pipeline` blocks are at most
`BUF_SIZE` units without the header, so that a block with its header can take more than two
reads; `incompressible` adds one unit.

`Syswatch` is checked with two seconds for each of the three times: enough for a second that does
not count yet and one that does, and for a visit of the idle thread in each of them. Two
threads of one priority show the rule for equal priorities, the one above them what is
spared, and the one that may end the object that is freed during a search. In `Qled` times are 0
and 1 units, since a time of 0 lasts as long as one of 1; two slots for three LEDs make
slots change owners. `Qled` counts `idx` modulo 256 as the code does. `Careful` keeps callers away from
an LED whose callback is going to remove it, and there is one caller: with
`Careful = FALSE`, or with two callers, `TableOK` fails, because the code has no lock over the
table. The boot loader has one LED, set by one thread at a time.

`YmodemRecv` is checked with SOH and STX packets of one and two units, up to three packets
of a file and numbers modulo 3 (2 in `ymodem_clean`), so that a data packet with the number
of packet 0 occurs in both. One fault may happen. With two lost or garbled tokens, TLC finds a session
that ends with success in the middle of a file: the head of packet 256 is lost or read as
EOT, bytes that follow pass for the second one, and the packet, when it comes again, has
number 0 and a good CRC, which is all that `_rym_do_fin` asks of the last packet. Two more
ways to fail are certain, not rare, and have no run of their own: with `Sized = {FALSE}` (a
sender that does not announce the size) nothing is erased and `SuccessIsWhole` fails; with
`Headers = {1, 2}` and two files the header of the second one may be an STX packet, which
`_rym_do_fin` reads as an SOH packet, and `FailsForAReason` fails. The same holds of a packet 0 that
is repeated during the erase: it overruns the 64 bytes of the serial driver (`Overrun`) and ends a
session that should have ignored it; and, in `Qboot`, of `qboot verify` and the release of a
package without verification mode, which do not look at the code.

Fairness. Liveness assumes `WF_vars(BootStep)`: the boot thread is the only runnable
thread of its priority and waits for nothing but time. Nothing is assumed of users,
senders, the power or the flash; `MaxLosses` ends the failures, so that "eventually"
means "once the power stays on". `Terminates` assumes `WF_vars(Work)`, for the same reason:
a job is a loop on one thread that waits for nobody. It makes an exception for jobs after
the fault "init": `qbt_gzip_init` does not look at the result of `inflateInit2`, and when that
had no memory the loop reads on for ever at the end of the body. (In `Qboot` such a loop is
what `SyswatchRestarts` ends.) `Ends` assumes `WF_vars(Receiver)`: every wait of a session has
a timeout (`RYM_WAIT_PKG_TICK`, `RYM_WAIT_CHR_TICK`, `RYM_CHD_INTV_TICK`), and the number of C
is limited. It holds whatever the sender does. `Completes` also assumes `WF_vars(Sender)`, a
sender that takes part. `SilenceBounded` counts seconds and needs no fairness, `ComesBack`
assumes `WF_vars(Second)` and `WF_vars(Fsm)`: the tick interrupt never stops, and syswatch has
the highest priority, so its steps are never kept waiting. Nothing is assumed of any other
thread.

## Proofs

`Qboot_proofs` proves, for every layout of the flash, every set of packages (any size, any
destination, any algorithm) and every bound:

- `TypeCorrect`: `Spec => []TypeOK`, with an invariant that also says that every operation
  under way stays inside its partition;
- `SignedOnlyWhenReleased`: `Spec => []SignAfterRelease`.

`SignAfterRelease` is not inductive: that the code is complete when the sign is about to be
written follows from how far the release has come in every earlier stage. `ReleaseOK` says
it: which cells are blank while sectors are erased, which hold the code while blocks are
written, that the place of the info is blank unless the code reaches into it, and after the
info was written, that it is legible only if the code before it is complete. A package that is sent to
the partition it lies in loses its head first (`Beheaded`); from then on no verification succeeds there. `WorkOK` adds
what each stage relies on (the partitions exist, the code fits), and `Quiet` collects the
states in which nothing is being written, where the invariant reduces to types. There is
one lemma for each group of actions; `Idle`, `GiveUp` and `Return`, through which most of
the actions end, have lemmas of their own.

`FlashFault` has a lemma for the one failure that the code does not notice, `IgnoredFault`:
the release then goes on as if the cell had been written, and the invariant has to be
stated with `Confirmed` instead of "the code is there".

The assumptions are `FlashAssumption` (sectors are numbered from 0 in the order of the
cells) and `QbootAssumption` (the partitions qboot names exist; types of the constants).

`Packages_proofs` proves `KeepsPackages`: `Spec => PackageSurvivesBoot`, from no further
assumptions. A write of the boot thread hits the destination of the release under way, or the cell of
the sign in the source of it. For the second case the invariant needs one more part, `SourceOK`:
at the stages "verify" and "sign" `fw_info`, which `qbt_dest_part_verify` has overwritten meanwhile,
still has the size of the package that lies in the source, so the cell of the sign is the one
behind the package.

`Update_proofs` proves what the owner of the device sees:

- `StartsOnlyIntact`: `Spec => []RunsOnlyIntact`;
- `UpdateRefinesAtomic`: `Spec => UpdateIsAtomic`, the refinement of `AtomicUpdate`.

Neither holds without assumptions about the use of the device, and the theorems name them.
`OnlyPowerFails`: no operation of the flash fails, nobody uses the keys or the shell, downloads
do not go into the application partition, the device is delivered with code that fits, and the
code of every package leaves the place of the info free (code that reaches it is torn when the
info is written, and qboot may still jump into it). `ForTheApp`, for the refinement only: every
package with supported algorithms is for the application. The run `auto` satisfies both. The
power may fail at any moment, inside of an erase or a write too, and as often as it likes. The
invariant is `Safe`: when the application is not complete, a package for it lies unsigned in
`download` (`AppOK`), and each stage of the release is in step with what has been written
(`WhereOK`). The refinement then goes step by step: `Install` happens with the first sector that
is erased, everything up to the sign keeps `Installed`, and no step in between can produce a
third firmware, since every cell that it changes becomes the new code or is torn.

`Syswatch_proofs` proves, for any number of threads with any priorities below that of syswatch
and for any three times, `Typing`, `Scheduling` (`SchedulerOK`), `ListFits` (`ListMatchesStep`),
`NoDanglingThread` (`NoDangling`), `KillsLate` (`KillsAfterSilence`) and `KillsNoHigher`
(`SparesHigher`). Lemmas about queues (what adding and removing a thread keeps) and about the hook
come first, then one lemma for each action. The invariant adds to the properties: that the
list has no thread twice, is empty while nothing is searched, and has someone to resume until the
delay ends (`ListOK`); that the thread that was noticed may be killed and is not yet in the list
(`LowOK`); that the seconds counted, with the one that has ended and was not counted yet, are no more
than the silence (`CountOK`); and that the noticed thread has at most the priority of the
current one while syswatch sleeps, hence of a hog when the second ends (`HogsOK`). The
assumptions are `ThreadsAssumption` (idle is the lowest thread) and `SyswatchAssumption`
(syswatch is the highest one, the times are positive); neither says how many threads there are.

`Silence_proofs` proves `SilenceHasAnEnd` (`SilenceBounded`) for every finite set of threads. Its
invariant adds `Within` to the one above: the silence is at most what the earlier steps of the
state machine took (`Spent`) and the seconds of the present one (`Waited`). A resume delay
starts with the idle thread, so that one of them counts, then comes one detection, and each
confirmation that ends leaves one more thread in `Dead`: threads of which none can be noticed
again, because only running threads are noticed and only the end of a resume delay revives
one. The noticed thread is not in `Dead`, which leaves room for the confirmation that runs.

`Pipeline_proofs` proves the safety of the loops for all sizes of reads, buffers, remainders,
headers, sectors, bodies and code, and for all sequences of jobs and faults: `PipelineTypes`,
`ReleasesInOrder`, `WritesErasedOnly`, `FailsForAFault`, `WritesAligned`, and `BufferSuffices`
for packages whose blocks take at most `BUF_SIZE + 1` units with their header (`BlocksFit`). The
assumptions are `PipelineAssumption`: sectors are whole numbers of reads and of remainders, a
remainder fits into `crypt_buf`, the code leaves one sector of its partition free, the body is at least as
long as the stream, and the blocks of a QuickLZ or FastLZ body follow each other without gaps,
which is how the packager writes them. The invariant says for each compression what the
write position means:

- `StreamOK`: the buffer holds the last units that were read, in order, and the chain of the
  decryption is as long as what was read;
- `NoneOK`: reads of an uncompressed body start at multiples of `READ_SIZE`, so that the filler
  behind the last one stays within the sectors that are erased (`ReadWithinSectors`);
- `GzipOK`: what inflate has delivered is written, in multiples of `REMAIN_SIZE`, or waits in
  `gzip_remain_buf`; a flush comes only when all of the code was delivered;
- `BlockOK`: the front of the buffer is the front of a block, and the code before that block is
  written. `HeadIsNext` is the lemma that no other block can be taken for it;
- `ReleaseOK`, `CrcOK`: the destination, or the CRC, has the code up to the write position.

`YmodemRecv_proofs` proves the session for any number of files, of any length, in packets of any
two sizes, for any number of tries, retries and faults. `YmodemTypes` (`TypeOK`) needs no
assumption about the faults. The others follow from the invariant `Sync` (theorem `InStep`),
which lists the stages of a session and says for each where both ends are, what is on the line,
what is in the partition and which answers are on the way:

- up to packet 1 the sender may have sent any number of copies of packet 0 (one for every late
  C of the handshake), whole or garbled, and behind them packet 1 or the EOT: `OnlyCopies`, `ThenData`,
  `ThenEot`. The receiver ignores the copies, one after the other;
- from packet 1 on exactly one thing is on the way: a packet, its answer, or an EOT
  (`Transmitting`, `Finishing`), so every acknowledgement is for the packet that waits for it;
- `Stored`: the write position is the length of the packets taken, the partition has them in order,
  and the rest of the announced size is blank, which is why writing a packet yields that packet;
- without a fault nothing is missing and nothing is garbled: `Excused` collects what is allowed
  otherwise, and gives `FailsForAReason`.

`PrefixReceived`, `SuccessWhole` and `SenderTold` state `ReceivedPrefix`, `SuccessIsWhole` and
`SenderKnows` under `Dependable`: every file announces at least its size (otherwise the tail is
written on flash that was not erased, see Bounds), and of the faults there are `mute`, `garble`,
`stall`, `erase` and `write`, as many as one likes. The other faults cannot be allowed without a
limit. Heads and codes have no check sum: once one was lost or made up, the receiver
acknowledges what it has not got, and TLC finds a session with three of `lose` and `noise` that
ends with success after the header of a file of two packets. `hasty` breaks `SuccessIsWhole`
at once (`ymodem_repeat`). `FailureExcused` (`FailsForAReason`) also needs `Plain`: packet 1 is not taken
for packet 0, and the header of a file after the first is an SOH packet. The sequences that are flattened
into a file are the recursive function of `SequencesExt`; `FlatExists` proves, by induction over a
set of numbers, that it exists for every length, and `BodiesFacts` what one more packet adds.

`Qled_proofs` proves the three properties of `Qled` for any number of slots and LEDs, any times, and
sequences of 1 to 255 times: `total` and `idx` have 8 bits, and a longer sequence, whose number
`qled_set_special` would cut off when it stores it, is no input of the model. `QledTypes` (`TypeOK`) holds for any number of callers and any
`Behind`; its invariant `SlotFits` says that a slot that blinks or plays a sequence has the times of
its mode and is at one of them: the one time behind the end that is read when a sequence
without callback stops is the only one. `TableKept` (`TableOK`) and `LedsShow` (`ShowsWhatWasAsked`)
assume `Alone`: `Careful`, and one caller at a time, without which they fail (see Bounds). Their
invariant is `InStep`:

- no pin has two slots (`Distinct`), and every slot knows the level of its pin (`Levels`). The pass
  over the table is a recursive function; with `Distinct` it comes apart into one `After` for each slot
  and one `PortAfter` for each pin (`RunSlotIs`, and `PassRuns` by induction over a set of numbers). `Distinct`
  is needed here: a callback looks for the first slot of a pin, not for the slot that it was called for;
- an LED that its callback will remove has a slot and no call under way (`Removals`), so that a pass
  between two steps of a call keeps the slot which the call has found (`CallsFit`);
- `Good`, for the pins nobody is busy with: the pin and its slot are there, the slot is where it should
  be in its times (`Follows`), and the light is right. `BlinkAt` and `SpecialAt` tie `idx` and `cnt` to the
  passes since the call: what is left in `cnt` and what has passed of the present time add up to that time.
  `FollowsNext` is the step: a pass moves the slot on (`After`) exactly as `Older` moves the age, and
  lights it as `ShouldBeLit` says, also at the end of a period, of a sequence, and for times of 0.

Only model-checked:

- liveness (`BootEnds`, `UpdateCompletes`, `Terminates`, `Ends`, `Completes`, `ComesBack`);
- in `YmodemRecv`, the properties under the faults `lose`, `noise` and `overrun` (one of them), and
  `FailsForAReason` under no assumption about packet numbers.

## What is left

- The sums of addresses in FAL and in the flash driver, modulo 2^32. With the partitions of
  `fal_cfg.h` and sizes from a package header they are checked before use.
- Mutexes in `Scheduler`: a thread that is killed while it holds one.
- `Qboot` and `Syswatch` in one model: now `Qboot` has the one restart that can happen.

## Not modelled

- Bytes: cells and units stand for blocks, a CRC is taken to tell any change.
- The 32-bit arithmetic of addresses in FAL and the flash driver: partitions are far smaller.
- In the kernel: mutexes and priority inheritance (a thread may be killed while it holds the
  lock of the NOR flash or of the heap), timers and interprocess communication, threads in static
  memory. Of syswatch: the modes 0 and 1, which are not selected, and the hardware watchdog, which
  every step feeds.
- The sending half of `ymodem.c`, which the boot loader does not call; the shell that takes
  the console back when a session has failed.
- That `qboot release` in the shell leaves the LED at 2 Hz, unlike `qboot resume`, can be seen
  in the variable `led` of `Qboot`; no property is about it.
- `http_ota.c` (not built: `PKG_USING_HTTP_OTA` is not defined), the other MCUs' jump
  functions, the product code check (`QBOOT_USING_PRODUCT_CODE` is commented out). The CRC of
  the code is checked: `qboot.h` defines `QBOOT_USING_APP_CHECK`.
- The packager: it runs once over a file and keeps no state. What it can produce is what
  `Qboot`, `Pipeline` and their `MC` modules take for packages.
- Vendored code: the rest of RT-Thread, the HAL, SFUD, zlib, tinycrypt, quicklz, fastlz. The
  repository holds three copies of it (for the boot loader and two applications) and its device
  headers, and nearly all of its lines are there; the program's own code is small.
