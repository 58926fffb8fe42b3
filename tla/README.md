# Verification of the OTA framework

TLA+ models of the over-the-air update framework of open-vela: the boot slot
manager `bootctl`, the package generator `gen_ota_zip.py` with the script
`ota.sh` it generates, the upgrade screen `otaUI` with its configuration and its
progress widget, and the package verifier `zip_verify`. The models are checked
with TLC on small instances. Every safety property that a passing run checks, of
the slot manager, of the generated script and the device that runs it, of the
screen, its pages and its widget and of the verifier, and the refinement between
the two models of the slot manager, are also proved with TLAPS for every value of
the constants.

## The system

An update goes through these parts, most of which never call each other and
meet only in properties (KVDB) and in partitions:

```
   build host                         device
 avb_sign.sh        zip_verify    ota.sh  ---- ota.progress.* ---->  otaUI
 gen_ota_zip.py --> (package) --> |  avb_verify, ddelta_apply, dd     |
                                  v                                   v
                             partitions                        reboot on failure
                                  ^
 boot loader entry <-- persist.boot.* --> bootctl success / update / done
```

| Component | State it keeps | Operations | What is hard |
|---|---|---|---|
| `bootctl` commands (`bootctl/bootctl.c`) | seven boolean properties `persist.boot.*`, a magic | `update`, `done`, `success`, `active`, bare call | flags of two slots changed by three actors in several boots; a reset may come anywhere |
| boot loader entry (`bootctl_boot`) | the same properties | choose a slot, count a trial, fall back | must end in a working image after every history of flags |
| KVDB under `bootctl` | live and committed properties | read, set, commit | seven sets are not atomic; sets fail; two processes overlap; `KVDB_DIRECT` |
| package generator (`tools/gen_ota_zip.py`) | none | select and order images, compute progress nodes, write `ota.sh` | order of checks and writes, rounding, a list changed while it is walked |
| `ota.sh` | partitions, `ota.progress.current`, `ota.progress.next`, `persist.ota.precheck.finished` | check, apply, write, report | `set +e`; failures half way; power cuts in a patch |
| `otaUI` loop (`ui/ui_ota.c`) | percentage, two nodes, three counters | synchronise, compute, draw, end | reads two properties one by one while `ota.sh` writes them; stale values; counter overflow |
| pages (`ui/ui_display.c`) | which page is visible | show, set progress, exist | missing pages and widgets |
| UI configuration (`ui/ui_config_parse.c`) | pages, image tables | parse JSON | errors in the middle of a page or a table |
| upgrade widget (`ui/extra/lv_upgrade.c`) | value, image table, image descriptor | set size, data, progress; lay out and draw; animate | index at the ends of the table; a descriptor shared by three modes |
| `zip_verify` (`verify/zip_verify.c`) | none | verify a package's signature and digest | what each failing call makes of the result |
| `avb_verify` (`verify/avb_main.c`) | none | options, verify, info | exit codes `ota.sh` relies on |
| `avb_sign.sh` (`tools/avb_sign.sh`) | files of the build | sign images, make vbmeta | argument checks |

What makes them correct:

* slot manager: one slot at most is active; a slot is trusted only after its
  present image reported success; a half-written slot is never started; the
  running slot is never written; a trial costs one boot; the device always
  comes back to a working image; a finished update is tried;
* package and `ota.sh`: nothing is written before everything that is checked
  passed; the end of the script means everything is installed; a failure is
  reported and has a reason, power cuts included; progress is announced and
  ascends;
* screen: no success that is not real, no bar beyond what the script announced,
  no reboot under a running script, the right page in the end;
* parser and widget: all pages or none; what is drawn is what was set; every
  index is in the table; every image is freed;
* `zip_verify`: it accepts what was signed, only that, and only after reading all
  of it, whatever fails.

## The modules

| Module | Models | Extends / instantiates |
|---|---|---|
| `BootConfig` | the flags, and each command and the loader entry as a function of them | - |
| `AbBoot` | the abstract device: every command atomic and durable | `BootConfig` |
| `BootDevice` | the device with `bootctl` property by property over KVDB | `BootConfig`; `Atomic == INSTANCE AbBoot` |
| `MCBootDevice` | the builds TLC enumerates | `BootDevice` |
| `BootConfig_proofs`, `AbBoot_proofs` | lemmas about the functions; the theorems | `BootConfig`, `AbBoot`, `TLAPS` |
| `BootDevice_proofs` | the theorems about the device over KVDB, and the step simulation behind `Refines` | `BootDevice`, `BootConfig_proofs` |
| `OtaPackage` | the generator, as functions from a call of the tool to a script | - |
| `AvbVerify` | `avb_verify`, from its command line to its exit code | - |
| `OtaInstall` | a device that runs the script | `OtaPackage`; `Avb == INSTANCE AvbVerify` |
| `MCOtaInstall` | the packages TLC enumerates | `OtaInstall` |
| `OtaInstall_proofs` | what every generated script is like, and the theorems about a device that runs one | `OtaInstall`, `TLAPS` |
| `OtaUi` | `otaUI`, with the two progress properties left to somebody else | - |
| `OtaScreen` | `ota.sh` and `otaUI` as two processes | `OtaInstall`; `Ui == INSTANCE OtaUi` |
| `MCOtaScreen` | the packages and configuration files TLC enumerates | `OtaScreen`; `Parser == INSTANCE UiParse` |
| `OtaScreen_proofs` | the theorems about the screen beside the script | `OtaScreen`, `OtaInstall_proofs` |
| `LvUpgrade` | the progress widget, as functions on its record | - |
| `UiParse` | the parser, as functions from a file to the pages | `LvUpgrade` |
| `UiPages` | the pages from their creation to their removal | `UiParse` |
| `MCUiPages` | the configuration files TLC enumerates | `UiPages` |
| `Folding` | what a fold computes, for any operator | - |
| `UiPages_proofs` | what the parser and the widget return, and the theorems about the pages | `UiPages`, `TLAPS`; `Folding` once for each of its folds |
| `SigningBlock` | the signing block as the signer writes it and as `zip_verify` parses it | - |
| `ZipVerify` | `zip_verify`, call by call | `SigningBlock` |
| `ZipVerify_proofs` | the theorems about both | `ZipVerify`, `TLAPS` |
| `MCZipVerify` | the packages TLC enumerates | `ZipVerify` |

### BootConfig

A configuration is the *set of the properties that are TRUE*: an absent property
reads as false, so `memset` is `{}`, setting a flag adds its key and clearing it
removes the key. `UpdateCfg`, `DoneCfg`, `SuccessCfg`, `Boot` map the
configuration a command has read to the one it writes, branch by branch. The
magic property is written once on a fresh device (`bootctl.c:58-105`); a missing
magic reads as no flag set, which `{}` already is.

### AbBoot

Four actors: the loader, the init script that runs `bootctl`, the OTA task, the
environment. `image` says what a slot holds: `good`, `bad` (complete, never
reports success) or `torn` (half written). `proven` and `armed` are history
variables. `OtaWaits` says that the OTA task does not start a second update
between `done` and the reboot, which README.md orders but no code enforces.

### BootDevice

Every command is a process with a program counter: seven reads, the
computation, seven sets in the code's order, the commit. The processes share
KVDB's live view `kv`; `nvs` is what a restart reads back. `build` says which of
four devices this is: with `direct` (`CONFIG_KVDB_DIRECT`) every set is durable
at once, with `bare` the init script runs plain `bootctl`. A set or a commit of a
process in `Failing` may fail: `bootctl_write_config` returns at once, the
loader goes on, `main` drops the result of the bare call, and the other commands
return it and are run again by their callers.

The code has five mishaps it does not notice. The history variable `slips`
records which have happened, and each property names the ones that break it, as
few as TLC accepts:

| Slip | Happens when |
|---|---|
| `flags` | the loader starts an image although the flags it chose by could not be written (`bootctl.c:277`) |
| `report` | the report of init fails and nobody learns of it (`bootctl.c:292`) |
| `redo` | `done` is run again after it failed half way (`bootctl.c:157`) |
| `fallback` | the power fails inside the loader's fallback to slot b, direct store (`bootctl.c:226`) |
| `done` | the power fails between the two active flags of `done`, direct store (`bootctl.c:169`) |

### OtaPackage and OtaInstall

A file is a number in alphabetic order; what its name shows (`vela_*.bin`,
`ota*`) is given by sets. A *job* is one call of the tool. `Script(job)` is the
sequence of commands of `ota.sh`, or `<<>>` where the tool refuses. Nodes are
computed with integers and rounded down; the tool uses floating point, where a
node that is exactly an integer may come out one lower. The user's begin and end
scripts are single commands without effect on the partitions. `Kept` and
`Sorted` are the list comprehensions and the `sort()` of the tool, by what they
return. `JobsAssumption` says what a call can be: lists of files, sizes and times
above 0, a share of the end script from 0 to 100.

`avb_verify` is called through `Avb!Exit` with the options and the operand
that the generator writes into the script; the step passes when the exit code is
0, as the shell sees it (eight bits). libavb, which decides whether an image is
genuine, is a parameter: it gives 0 for the images that are not `unsound`.

`OtaInstall` interprets the script. Writing takes two steps, with the partition
`torn` in between. `unsound` images fail their check. A patch passes its
precheck only against the old contents, which is why the script skips the
prechecks once `persist.ota.precheck.finished` is set; `ddelta_apply` itself
continues a patch it began. These two facts, and the recovery system that starts
the script again after a power cut and sets `$ddelta_precheck`, are assumptions
about external programs. Nothing in the repository clears that property: with
`stale` (constant `Marks`) it is left from the update before, the prechecks are
skipped, and `UnsoundIsUntouched` excepts differential packages then. A
`setprop` that fails is not modelled: the script does not look at it.

### OtaUi and OtaScreen

A turn of the loop is one step, except that the two reads of
`ota_sync_upgrade_progress` are steps of their own: `ota.sh` writes the two
properties in between. `config` is what the configuration file defines: whether it
can be read at all (if not, `main` returns at once), which pages exist and whether the first object of the upgrading page holds the widget,
where `ui_refresh_page_progress` looks for it. The tick time, the synchronisation
time, the overflow of `count_tick_ms` and the slow count of 100 turns are
constants. The signed overflow is undefined in C; it is modelled as wrapping,
the one outcome of a 32-bit addition, and the comparison is unsigned. The bar
starts at any number: `-p` is not checked (`StartAssumption`).
`OtaScreen` interleaves the two processes; a power cut ends and restarts both.

### LvUpgrade, UiParse and UiPages

`LvUpgrade` has one operator per function of the widget. A widget is a record of
the fields that matter: type, table of images, digits, value, the union of
`anim_fps` and `arc_radius`, the source of its image descriptor, the frame of the
animation, the width of its object, a count of its image buffers, and what the
last draw event laid out and painted. An image is its key; its width is the
constant function `Width`, of which `WidthAssumption` says that it is not negative
for an image of the files (`Images`); `None` and `PercentSign` are two constants
beside the keys, which are integers (`WidgetAssumption`): what is not there, and
the sign's image. Heights, colours and the position on the screen are
left out, and so is LVGL itself: when it sends a draw event, and `lv_draw_image`,
which paints nothing without a source. `LaidOut` is where the areas of the images
lie; `Unsafe` says when an animation cannot run (no image, a rate of 0).

A configuration file is what cJSON gives the parser: `UiObject`, `UiPage` and
`UiFile` are the fields it looks at, any strings and integers in them, lists of any
length (`FilesAssumption`). `UiParse` folds the parser over a file: `AddPage` over its pages, `AddObject`
over the objects of a page, `SetImageData` over the images of a widget, each with
the errors of the code and what it does about them. A failing page cleans the
whole screen. An image whose file cannot be read leaves its place in the table
empty (`unread`). `SetPageProgress` is `ui_set_progress` with every value from 0 to
100, in any order, and `TimerHandler` a turn of LVGL's timers, which moves an
animation to its next frame. Where the C code reads outside the table or divides by zero,
the program crashes or goes on, by choice. `OtaUi` uses of all this only which pages exist and whether the widget is where it
is looked for: `ConfigOf`. The configurations of `ota_screen` are the `ConfigOf` of
files, so the parser, the loop of `otaUI` and `ota.sh` are checked together; that of
a file with an error has no pages.

### ZipVerify

Every call that can fail is a step with two outcomes, or three where the code
goes on without looking at the result. `res` is the value that `goto error`
returns at that point, which is the subject of the module. A package is three
lengths, a signing block and four facts (format, magic, signature, unchanged
contents). `SignedChunks` and `SignedEocd` are what the signer hashed, defined
from the format; `AppBlock`, `HashRead` and `HashChunk` are what the code finds
and hashes. In `SigningBlock`, `Words` are the numbers a signer writes into the
nested blocks, at their offsets, and `get_signature_info` walks over them as the
code does. An error in an offset or a chunk shows as a genuine package that is
rejected.

Assumed: hashes do not collide; memory that was allocated and not read does not
hold a valid signing block; descriptors 0 to 2 are in use; the signer writes its
pair first, as `signapk.jar` does (`parse_kv_block` takes the first pair without
looking at its id).

## The runs

| Run | Question | Bounds |
|---|---|---|
| `ab_boot` | Are atomic, durable commands enough for the slot manager's safety, and for coming back into service? | 3 power cuts; any image in slot b; any number of updates, failed writes, resets |
| `ab_boot_stale_try` | Is a finished update always tried (README.md:33)? Violated. | no cut |
| `device_staged` | Does the code, over a store that commits as a whole, implement `AbBoot`, fairness included? | 2 cuts at any of the steps |
| `device_faults` | Which promises of the flags survive failing sets and commits, retries and power cuts, on each build? | 4 builds, 1 error in any process, 2 cuts at any step |
| `direct_fallback` | Does it always come back (README.md:82)? Violated. | 1 cut |
| `ota_install` | Is every generated script safe to run, to fail and to restart? | 1080 packages of up to 5 files, every set of unsound images, with and without a stale mark, 1 failed write, 1 cut |
| `ota_install_stray` | Are only files with the documented name installed (README.md:145)? Violated. | one package |
| `ota_screen` | Does the screen tell the truth, and end, beside a running script? | 3 packages, 6 configuration files, 1 failed write, 1 cut |
| `ui_pages` | Does the screen lay out what the file and the value say, and return its memory? | 101 files, all values; the limit of 256 images scaled to 16 |
| `ui_number_blank` | Is the value displayed in number mode (ui_common.h:91)? Violated. | the list of the sample configuration |
| `zip_verify` | Is the result right, and everything returned, whatever fails? | 128 packages with 4 signing blocks, 2 failing calls, chunks of 32 and reads of up to 20 bytes |
| `zip_verify_zero` | Does exit code 0 mean verified (README.md:241)? Violated. | 1 failing call |

Why the bounds are enough: one power cut reaches every state a cut can leave;
the second falls into the recovery from the first, the third into the trial
after it. The proofs cover every number of cuts for `AbBoot`. In
`device_faults` one error and two cuts make every slip happen, and each exception
of its properties is needed; a third cut or a second error breaks
`SuccessfulIsWorking` in no other way. Two slots are all
there are. Three images with sizes of 1 and 997 put nodes next to each other and
far apart; the file `vela_ota*` and the file of another name take the branches
that skip them. `ota_screen` scales time: a tick of 10, synchronisation every 20,
and a counter that wraps at 25 give what 10000, 40000 and 2^32 give, values
behind the overflow that miss the multiples of the synchronisation time, after a
lap of three turns instead of 429497; a percent beyond the last node takes 4
turns instead of 101. The bar starts at 60, between the nodes of the packages,
or at 100, where the cap of 99 applies.

`ui_pages` needs no bound on the number of values: a state holds the last one
only. Its lists have lengths around 0, 1, 2, 10 and the limit of the table, and
keys that ascend, descend, or end below, at or above 100. `zip_verify` has
regions one below, at and one above a multiple of the chunk size, with and
without a comment; two failures make every pair of error paths, and the proofs
cover every number.

Deadlock is checked in the boot runs. It is not in the others: a finished or
failed script, an ended screen and a verifier that has returned stop for good.

### What holds

* `OnlyOneActive`, `SuccessfulIsProven`, `NeverRunsTorn`,
  `RecoversInTwoBoots`, `NeverFlashesRunning`: the slot manager's safety.
* `DoneIsTriedWhenClear`: the update is tried when no stale try flag is left.
* `BackInService`: the device always runs a proven image again.
* `Refines`: seven reads and sets and a commit act as one atomic step.
* `DurableIsConsistent`, `SuccessfulIsWorking`, `BootableIsWhole`,
  `RecoversInTwoBoots`, `DoneSelects`, `BackUnlessSlipped`: on every build, half of
  a command, left by an error or a power cut, does no harm and is repaired by the
  retry, except through the slips that each property names.
* `UnsoundIsUntouched`: one image that fails its check keeps all of them out,
  unless a stale mark makes a differential package skip its checks.
* `FailsForAReason`: a cut during a patch does not end in a failed precheck.
* `SuccessMeansInstalled`: the end script and the 100 come after the last image.
* `NodesAscend`, `StepIsAnnounced`: every piece of work is announced in ascending
  order, if the end script leaves room above 30.
* `SuccessIsReal`, `BarWithinScript`, `BarNeverBack`, `NoRebootMidUpdate`,
  `FailureReboots`, `SuccessIsShown`: the screen; the last for packages whose
  script reaches 100, `BarWithinScript` for those whose end script leaves room
  above 30.
* `AllPagesOrNone`, `NothingLeaks`: an error in a file never leaves half a screen
  or an image behind.
* `NumberReads`, `BarIsClosest`, `CrashesOnUnfitListOnly`: the widget lays out the
  value, digit by digit in an object of the right width, and paints the right bar;
  it crashes for a list that does not fit only.
* `AcceptedIsGenuine`, `UnreadIsNotAccepted`, `GenuineIsAccepted`,
  `NothingIsLeft`: the verifier, with its exceptions in the properties. A genuine
  package is accepted whatever the lengths in its signing block, and whatever
  further digests, signatures, signers and pairs it holds.

### What does not hold

1. `ab_boot_stale_try` (`bootctl.c:238`): the try flag of a failed trial is never
   cleared when the device falls back to a slot already marked successful. Every
   later update is then rolled back at its first boot without being tried.
2. `direct_fallback` (`bootctl.c:226`): a cut in the loader's fallback to slot b
   leaves no slot active; the loader takes that for a fresh device and starts
   slot a, which failed, for ever.
3. `ota_install_stray` (`gen_ota_zip.py:204`): removing from the list that is
   walked keeps every second file of another name, which `ota.sh` then writes.
4. `zip_verify_zero` (`zip_verify.c:410`): when the key cannot be opened after
   its `stat`, the result is the 0 of the `stat`, and nothing was verified.
5. `ui_number_blank` (`lv_upgrade.c:218`): only the bar sets the source of the
   image descriptor; in number mode the digits and the sign are laid out and
   nothing is painted. The frames of an animation (`:284`) are drawn the same way.

Other scenarios the models reproduce with other constants or packages, not kept
as runs:

* With `KVDB_DIRECT`, a cut in `done` under slot b leaves both slots active
  (README.md:75 says one is); the loader keeps starting b, and `success` marks a.
* With an unwritten choice of the loader (`flags`), `success` marks the slot that
  the stored flags name, which may never have run; the bare call drops its error
  (`report`), and the update that follows may erase the only bootable slot.
* A `done` that is retried after it failed half way (`redo`) takes the new slot for
  the running one, switches back and returns 0.
* A read of the end record that finds nothing also makes `zip_verify` return 0
  (`zip_verify.c:349`).
* "progress bar display less than 100% when current progress is not 100%"
  (`lv_upgrade.c:202`) is what the code does only for a list that ascends to
  100: with the keys 0, 100, 50 the image of 100 is shown from 26 on
  except at 50, and a list that ends at 99 shows the image before at 100.
* A number list that is out of order at some place is accepted, and the digits
  behind it have no image (`ui_config_parse.c:349`): `NumberReads` excepts values
  that need one, of which 90 may be laid out as 0.
* The digits lie one pixel to the left and above their object: the area of the
  first begins where the object begins, less one (`lv_upgrade.c:122-147`).
* An animation with `animation_fps` and `animation_radius` runs at the radius:
  the two share a union (`lv_upgrade.h:71`).
* The names of the pages, the text of the file and its parsed tree are never
  freed (`ui_config_parse.c:450`, `:520`); `NothingLeaks` counts images.
* `bootctl_active` returns the active slot, which after `done` is not "the
  partition currently running" (README.md:40); with `OtaWaits = FALSE` a second
  `update` then clears the marks of the slot the system runs from
  (`NeverFlashesRunning`).
* With `Serial = FALSE` a late report of init and a running `update` or `done`
  overwrite each other's flags, and most properties fail. README.md orders the
  report before the update; `Refines` shows that this order is enough.
* A differential package with `--user_end_script_progress` above 70 has nodes
  that descend from 30, and the bar then stands beyond the node that was announced
  last; only full packages check the option.
* A package with `--user_end_script_progress` but no end script never reaches
  100, so the screen does not end.
* Between the last generated image and the first new partition no next node is
  announced (`gen_ota_zip.py:146`); `StepIsAnnounced` excepts that step.
* The end command is not run after a success (`ui_ota.c:190`), although
  Kconfig:24 introduces it without that restriction. `UI_TICK_MS` is 10000 with the
  comment "10ms" (`ui_common.h:36`), so a synchronisation time "in milliseconds"
  (Kconfig:16) of 40000 is four turns.

## Fairness

* `AbBoot`, `BootDevice`: the loader runs whenever the device is off, init runs
  `bootctl` in every boot of a working image, and a hung image is reset by the
  watchdog. Nothing is assumed of the OTA task, nor that a set which may fail
  succeeds; errors and power cuts are bounded.
* `OtaInstall`, `UiPages`, `ZipVerify`: safety only, without fairness.
* `OtaScreen`: the recovery system starts the script and the shell goes on, where
  a write may fail or succeed; the loop of `otaUI` goes on: it is an endless loop
  with sleeps, so only the scheduler could stop it.

## Proofs

`AbBoot_proofs` proves, under the assumption `OtaWaits` and for every `MaxCuts`:

| Theorem | Says |
|---|---|
| `Inductive` | `Spec => []IInv` |
| `TypeCorrect`, `Exclusive`, `TrustIsEarned`, `NoTornBoot` | `[]TypeOK`, `[]OnlyOneActive`, `[]SuccessfulIsProven`, `[]NeverRunsTorn` |
| `Recovery` | `[]RecoversInTwoBoots` |
| `RunningKept`, `TrialHappens` | the action properties `NeverFlashesRunning`, `DoneIsTriedWhenClear` |
| `BootTwice` (in `BootConfig_proofs`) | from every consistent configuration with an active and a successful slot, one boot or two start a successful slot |

None of the safety properties is inductive. That no torn slot is started needs
that a torn slot carries no mark (`TornIsUnmarked`); keeping that while the slot
is written needs that the slot `Target(cfg)` is not the running one, hence that
the running slot is the active one except after `done` (`RunningIsActive`) and
that the other slot stays unmarked from `update` to `done` (`OtherIsUnmarked`);
and both need that the OTA task is busy only in a boot that was reported and
whose slot is marked (`BusyIsReported`, `ReportedIsProven`). `FallbackKept` and
`FactoryKept` say that there is always something to fall back to. `IInv` is
their conjunction; `ab_boot` checks it, and the proof has one lemma per action
(`LoaderBootKeeps`, `SuccessKeeps`, `UpdateKeeps`, ...) over the lemmas of
`BootConfig_proofs` about `SuccessSlot` and `Boot`. The assumption `OtaWaits` is
needed: without it a second `update` clears the running slot.

`BootDevice_proofs` proves, under the assumption `Serial` (the init script's
report comes before the OTA task, README.md's order), for every set of builds, every
set of processes that may fail and every number of errors and cuts:

| Theorem | Says |
|---|---|
| `DeviceTypeCorrect` | `[]TypeOK` |
| `DoneSelectsTarget` | `[]DoneSelects` |
| `BootableImageIsWhole` | `[]BootableIsWhole` |
| `DurableStaysConsistent` | `[]DurableIsConsistent` |
| `SuccessfulSlotWorks` | `[]SuccessfulIsWorking` |
| `RecoversWithinTwoBoots` | `[]RecoversInTwoBoots` |

All rest on `Base`: which process runs which command in which mode, and what a
command has read or written at each of its seven properties. What a step of a
command, a start, an end, a restart does is stated once (`ReadStep`, `WriteStep`,
...), so that each invariant has one lemma per step. The invariants are:

* `DoneFollows`: the slot noted by the OTA task stays the one `done` computes
  until `done` has written; retried behind half of itself it is not (`redo`).
* `MarkedIsWhole`: a torn slot carries no mark in the live flags, the stored flags
  and the copy of any command, and a torn slot a leaves slot b active and
  successful. Half-written flags keep this because each property written is
  either the old or the new one, and both configurations have it.
* `StaysConsistent`: the stored flags are consistent. The live flags are not,
  behind a failed set; the invariant says what each command needs of them instead,
  so that what it commits is consistent.
* `MarkedWorks`: for every build a slot marked in any of these copies works. With
  a direct store the loader may read half of a `done` or of a fallback; the flags
  are `Sound` when that cannot make it start a slot which a report then marks
  wrongly.
* `StaysRecoverable`: while slot b alone works, b is marked and some slot is
  active, so that two boots reach it (`Returns`). `LateSlips` shows that two of the
  slips need a direct store.

The last part of `BootDevice_proofs` proves `CommandsAreAtomic`: with a store that commits as a whole
and no failing sets (`Staged`), `Spec` implies `Atomic!Spec`, the specification of
`AbBoot` without its fairness. `Intact` says that a command computes from what was
durable when it began and that what it rests on does not change meanwhile; then the
commit is the step of `AbBoot` and every other step of a command a stutter. What
`AbBoot` sees of a command between its commit and its return is in `AtomicMode` and
`AtomicOta`. The fairness that `Refines` also states is left to `device_staged`.

The first part of `OtaInstall_proofs` proves `ScriptIsWellMade`: for every call of the tool that is not
refused, of any number of images and new partitions in any order with any sizes,
the script checks every image before it writes one (`ChecksFirst`), records the
prechecks between (`MarkBetween`), writes every image before it claims success
(`WritesAll`), has nodes that do not descend (`NodesInOrder`) and announces the
node of each write but the one behind the generated images (`StepsAnnounced`);
`ScriptHeralds` adds what the screen needs. The argument has four parts. What the
recursive functions of the model return: `LeastNumber` gives a least element of
every set of numbers, from the well-founded order of finite sets, `Induction`
follows, and `Recursion` that a function defined step by step has the value its
steps say. How blocks of commands concatenate: `Layout` says at which line each
check, write and node is. What is in the blocks: `Built`. How the nodes rise:
`NodesFit`, from integer division (`DivAscends`, `ShareIsInside`) and the partial
sums of times (`SumsAscend`); it needs that no time is 0, which
`JobsAssumption` says.

Its second part proves, for every such script and any number of failed writes
and cuts, `InstallTypeCorrect` (`TypeOK`), `FailsOnlyForAReason`
(`FailsForAReason`), `UnsoundStaysOut` (`UnsoundIsUntouched`), `SuccessIsInstalled`
(`SuccessMeansInstalled`), `ProgressRises` (`NodesAscend`) and `StepsAreAnnounced`
(`StepIsAnnounced`). Each relates the program counter to what the script has at
and before it: `Recorded` (a partition that a differential package has changed was
changed behind the mark, so prechecks do not meet their own writes), `Guarded` (the
script is not past the check of an unsound image, and in a differential package not
at the mark that would let a restart skip it), `Written` and `Claimed` (what this
run has passed is in place; nothing is left to write behind the end or the last
node), `Ahead` (no node ahead is below the present one), `Said` (the next node is
the last one announced). `AvbParses` and `AvbSees` run `avb_verify` on the
options the script gives it.

`OtaScreen_proofs` proves `ShownSuccessIsReal` (`SuccessIsReal`), `RebootsOnlyFailed`
(`NoRebootMidUpdate`), `BarOnlyAdvances` (`BarNeverBack`) and `BarIsAnnounced`
(`BarWithinScript`), for every package, configuration, start value, tick,
synchronisation time, wrap and slow count. A step of both is a step of the device
or leaves it alone (`AlsoInstall`), so the theorems above hold here. `Honest`: a
value of 100 that was read, a full bar and the success page all mean that
the script is behind its last write, which only a cut undoes, and a cut restarts
the screen. `Minded`: only a failure reads as less than 0. `Ending`: a full bar ends the
loop, so the bar cannot fall from 100 to the cap. `Known` and `Within`: what the
screen has read, however old, is at most what the script has announced or reached;
that needs the order of the nodes in the script, hence the exception.

`UiPages_proofs` proves, for every set of files with any number of pages, objects and
images, for images of any widths, every limit of the table and either setting of
`LV_USE_ARC`:

| Theorem | Says |
|---|---|
| `Invariant` | `[]IInv` |
| `TypeCorrect` | `[]TypeOK` |
| `WholeScreen` | `[]AllPagesOrNone` |
| `AllIsFreed` | `[]NothingLeaks` |
| `CrashesExplained` | `[]CrashesOnUnfitListOnly` |
| `BarShowsClosest` | `[]BarIsClosest` |
| `NumberReadsAsValue` | `[]NumberReads` |

`IInv` says that all pages of the file are on the screen or none, that each widget
is `Good`, and that the live buffers are those which deleting the pages frees
(`Loaded`). `Good` has two halves. `Filed` is what the parser makes of an object and
no later call changes: the table holds the first keys of the list in their order and
nothing behind them, all of them outside number mode, and there are as many buffers
as the destructor frees. `Viewed` is what the screen owes the last value: the digits,
the width of the object, the one image a bar has painted. `SetProgressIs` and
`TimerIs` keep both halves (`WidgetStep`); the rest of the screen stays as it is
(`ScreenStays`). The properties follow from these two: `UnsafeIs` for the crashes,
`ClosestIsShown` for a bar, `NumberIsRead` for a number.

Under them are the lemmas about what the functions return. `FoldLeft` walks over sets
of positions; `Folding` shows that a fold is a function from 0 on whose next value is
the operator applied to the one before (`FoldIs`), and `UiPages_proofs` uses it for
each of the seven folds (`SumsFold`, `DigitsFold`, `ImagesFold`, ...). `Induction`,
which needs no operator, then proves what holds of all values: that a table fills
from the front (`TableStep`, `WithImagesIs`), that areas abut and add up to the width
of the object (`LaidOutIs`), that a page or a file is taken whole or not at all
(`ParsedIs`, `BuiltIs`). `ValueIsRead` is the arithmetic of three digits, `ClosestIs`
the search for the closest key and its index in eight bits, and `TableIsBalanced`
that each buffer read has a place in the table, since an image whose place is outside
the table is not read. No assumption about the lists is made: not that they
ascend, nor that their keys are percentages, differ or fit the table.

`ZipVerify_proofs` proves, for every set of packages, chunk and buffer size and
number of failing calls:

| Theorem | Says |
|---|---|
| `ZipTypeCorrect` | `[]TypeOK` |
| `NothingElseIsAccepted` | `[]AcceptedIsGenuine` |
| `UnreadIsNeverAccepted` | `[]UnreadIsNotAccepted` |
| `GenuineIsAlwaysAccepted` | `[]GenuineIsAccepted` |
| `EverythingIsReturned` | `[]NothingIsLeft` |
| `InfoIsFound` | for every signing block, the parser finds the signed data, the first digest and signature and their ids where the signer wrote them |

`AcceptedIsGenuine` needs at each call what the calls before it have established
(`FormatChecked`, `MagicChecked`, `IdsChecked`, `SignatureChecked`); in particular
that a signature which was found valid is one of a signing block that was read,
because only then the algorithm ids compared are those of the package, which
`InfoIsFound` gives: the numbers of a block lie at different offsets whatever the
lengths (`WordIsFound`), so each step of the parser reads the one meant for it.
`NothingIsLeft` needs what is open and allocated at each call (`OpenAt`, `HeapAt`).
The other three need `Hashed`: at every read, the chunks hashed so far are the first
ones of those the signer hashed, and one is missing for good when a read has
failed. `SignedChunksAre` says which chunks those are, for all lengths; so
a gap is found when the digests are compared (`WhatIsRead`), and a genuine
package of which every call succeeds passes every check (`NothingWrong`). All take
one step per call. They rest on the assumptions of `ZipVerify` above and on
`SizeAssumption` and `PackagesAssumption`: sizes are positive, lengths are not negative.

The constants' assumptions are all that a proof takes for granted besides `Serial`,
`Staged` and `OtaWaits`; each run evaluates those of the modules it extends.

Only model-checked:

* liveness (`BackInService`, `BackUnlessSlipped`, `FailureReboots`,
  `SuccessIsShown`) and the fairness in `Refines`: temporal formulas with
  fairness and `ENABLED` are beyond the prover;
* the properties of the runs that expect a violation.

`SelectSeq`, `SortSeq` and the library's theorems with an operator for a parameter are
out of the provers' reach. `OtaPackage` therefore says what a selection and a sort
return (`Kept`, `Sorted`), and the inductions are carried out on sets of numbers.
Nothing can be cited from a module instantiated with parameters, so `Folding` has its
operator as a constant and is instantiated once for each. It extends nothing, which
keeps the seven copies small; that is why the induction it rests on is a hypothesis of
`FoldIs`, which `NumbersInduct` discharges at every use, and why `LeastNumber` and
`Induction` stand in two modules.

## Not modelled, and why

* libavb, KVDB, LVGL, minizip, `ddelta_apply` and the recovery system are not in
  the repository: each is modelled from its use, or a parameter.
* `avb_sign.sh`: a build-time script around `avbtool`, which is not in the
  repository.
* The LVGL image converter (third party), keys, `signapk.jar`, build files.
* Of the modelled parts: logging, the `-t` test option of `otaUI`,
  `ui_page_hide`, which nothing calls, jar signing, `--user_file`, the prompts, the
  syntax of the speed file, heights, alignment and colours of the screen, and the
  memory of a screen other than its images.

## Plan

1. (done) `BootConfig`, `AbBoot` and their proofs; `BootDevice` and the
   refinement.
2. (done) `OtaPackage`, `OtaInstall`; `OtaUi`, `OtaScreen`.
3. (done) `ZipVerify` and its proofs.
4. (done) `LvUpgrade`, `UiPages`, with layout, drawing and animation.
5. (done) the fault model of `BootDevice` for all builds with the mishaps named;
   stale marks and packages without an end in `OtaInstall` and `OtaScreen`;
   `AvbVerify`; `SigningBlock` and its proof; `UiParse` under `OtaScreen`.
6. (done) Proofs: the safety of `BootDevice`, the step simulation behind `Refines`,
   every script of `OtaPackage`, the safety of `OtaInstall` and `OtaScreen`, the
   chunks of `ZipVerify`.
7. (done) Proofs: the parser, the widget and the pages, for every file. Every
   invariant and every action property of a passing run is now a theorem; what is
   left to TLC is liveness.
