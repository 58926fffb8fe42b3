----------------------------- MODULE BootDevice -----------------------------
(***************************************************************************)
(* The same device with bootctl as it is written: a command reads seven    *)
(* properties one by one, computes on its own copy, writes the seven       *)
(* properties one by one and commits.  Between any two of these steps      *)
(* another bootctl process may run, a property may refuse to be set, or    *)
(* the power may fail.                                                     *)
(*                                                                         *)
(* KVDB itself is external.  It keeps a live view, which every process     *)
(* reads and writes, and a durable copy, which a restart reads back.  With *)
(* KVDB_DIRECT every set is durable at once; otherwise property_commit     *)
(* makes the live view durable as a whole.                                 *)
(***************************************************************************)
EXTENDS BootConfig, Naturals, Sequences

CONSTANTS
  Builds,      \* the devices that occur, see Build
  Serial,      \* the OTA task starts after init has reported the boot
  Failing,     \* the processes whose property sets may fail
  MaxErrors,   \* bound: failed sets and commits in a behaviour
  MaxCuts      \* bound: power cuts in a behaviour

(* The bootctl processes: the loader entry, the one that init starts in    *)
(* every boot, and the one the OTA task starts.                            *)
Procs == {"loader", "init", "ota"}

(* direct: CONFIG_KVDB_DIRECT, a set is durable without the commit.        *)
(* bare: init runs plain `bootctl`, not `bootctl success`.                 *)
Build == [direct : BOOLEAN, bare : BOOLEAN]

ASSUME BuildAssumption == Builds \subseteq Build /\ Serial \in BOOLEAN
ASSUME BoundAssumption == MaxErrors \in Nat /\ MaxCuts \in Nat
ASSUME FailingAssumption == Failing \subseteq Procs

VARIABLES
  build,     \* the device
  kv,        \* KVDB's live view: the properties that read TRUE
  nvs,       \* KVDB's durable copy
  call,      \* per process, the bootctl command it is executing
  mode,      \* "off" until the loader jumps, then "ap"
  running,   \* the slot the loader chose last
  image,     \* what each slot holds
  reported,  \* init's `bootctl` has taken effect in this boot
  ota,       \* how far the OTA task is
  target,    \* the slot the OTA task writes, or wrote last
  working,   \* history: slots whose present image has reached init
  proven,    \* history: slots whose present image has reported success
  armed,     \* history: the slot `done` selected, until the next boot
  slips,     \* history: mishaps the code does not notice, see Slips
  errors, cuts

device == <<mode, running, image>>
task == <<reported, ota, target>>
history == <<working, proven, armed, slips>>
bounds == <<errors, cuts>>
vars == <<build, kv, nvs, call, device, task, history, bounds>>

Images == {"good", "bad", "torn"}
OtaStates == {"idle", "updated", "flashing", "flashed", "done"}
(* "flags": the loader started an image although the slot flags it chose   *)
(* by were not written; "report": an update began in a boot whose report   *)
(* was lost; "redo": `done` failed half way and was run again; and, with a *)
(* direct store, the power failed inside the loader's fallback to slot b   *)
(* ("fallback") or inside `done` while both slots were active ("done").    *)
Slips == {"flags", "report", "redo", "fallback", "done"}

Ops == {"none", "boot", "success", "update", "done"}

(* One command: `pc` is the part of it that runs, `n` the properties that  *)
(* part has handled, `boot` the struct bootctl_s on its stack, `slot` the  *)
(* loader's info.path, `ok` whether bootctl_write_config returned 0.       *)
Calls == [op : Ops, pc : {"idle", "read", "write", "commit", "return"},
          n : 0 .. Len(KeyOrder), boot : SUBSET Keys, slot : Slots, ok : BOOLEAN]

NoCall == [op |-> "none", pc |-> "idle", n |-> 0, boot |-> {},
           slot |-> "a", ok |-> TRUE]

TypeOK ==
  /\ build \in Builds /\ slips \subseteq Slips
  /\ kv \in SUBSET Keys /\ nvs \in SUBSET Keys
  /\ call \in [Procs -> Calls]
  /\ mode \in {"off", "ap"} /\ running \in Slots
  /\ image \in [Slots -> Images]
  /\ reported \in BOOLEAN /\ ota \in OtaStates /\ target \in Slots
  /\ working \in SUBSET Slots /\ proven \in SUBSET Slots /\ armed \in SUBSET Slots
  /\ errors \in 0 .. MaxErrors /\ cuts \in 0 .. MaxCuts

Init ==
  /\ build \in Builds /\ slips = {}
  /\ kv = {} /\ nvs = {}
  /\ call = [p \in Procs |-> NoCall]
  /\ mode = "off" /\ running = "a"
  /\ image \in [Slots -> Images] /\ image["a"] = "good"
  /\ reported = FALSE /\ ota = "idle" /\ target = "b"
  /\ working = {} /\ proven = {} /\ armed = {}
  /\ errors = 0 /\ cuts = 0

-----------------------------------------------------------------------------
(* A bootctl command, property by property. *)

Idle(p) == call[p].pc = "idle"

Enter(p, op) ==
  call' = [call EXCEPT ![p] = [NoCall EXCEPT !.op = op, !.pc = "read"]]

(* What the command does with the configuration it has read.               *)
Compute(op, c) ==
  CASE op = "boot"    -> Boot(c).cfg
    [] op = "success" -> SuccessCfg(c)
    [] op = "update"  -> UpdateCfg(c)
    [] op = "done"    -> DoneCfg(c)

(* `success` alone may return without writing. *)
Writes(op, c) == op = "success" => SuccessWrites(c)

(* bootctl_read_config: one property; after the last the command computes. *)
ReadKey(p) ==
  LET m == call[p]
      k == KeyOrder[m.n + 1]
      c == m.boot \cup ({k} \cap kv)
  IN  /\ m.pc = "read"
      /\ call' = [call EXCEPT ![p] =
           IF m.n + 1 < Len(KeyOrder) THEN [m EXCEPT !.n = @ + 1, !.boot = c]
           ELSE [m EXCEPT !.n = 0,
                          !.boot = Compute(m.op, c),
                          !.slot = IF m.op = "boot" THEN Boot(c).slot ELSE @,
                          !.pc = IF Writes(m.op, c) THEN "write" ELSE "return"]]
      /\ UNCHANGED <<kv, nvs, device, task, history, bounds>>

Put(store, k, c) == (store \ {k}) \cup ({k} \cap c)

(* Mutant of WriteKey: the last property, try, is never written.           *)
WriteKeyNoTry(p) ==
  LET m == call[p]
      k == KeyOrder[m.n + 1]
  IN  /\ m.pc = "write"
      /\ kv' = Put(kv, k, m.boot)
      /\ nvs' = IF build.direct THEN Put(nvs, k, m.boot) ELSE nvs
      /\ call' = [call EXCEPT ![p] =
           IF m.n + 2 < Len(KeyOrder) THEN [m EXCEPT !.n = @ + 1]
           ELSE [m EXCEPT !.n = 0, !.pc = "commit"]]
      /\ UNCHANGED <<device, task, history, bounds>>

(* bootctl_write_config: one property_set_bool. *)
WriteKey(p) ==
  LET m == call[p]
      k == KeyOrder[m.n + 1]
  IN  /\ m.pc = "write"
      /\ kv' = Put(kv, k, m.boot)
      /\ nvs' = IF build.direct THEN Put(nvs, k, m.boot) ELSE nvs
      /\ call' = [call EXCEPT ![p] =
           IF m.n + 1 < Len(KeyOrder) THEN [m EXCEPT !.n = @ + 1]
           ELSE [m EXCEPT !.n = 0, !.pc = "commit"]]
      /\ UNCHANGED <<device, task, history, bounds>>

(* bootctl_write_config: property_commit.  It is the point at which the    *)
(* loader has chosen, a report counts and `done` has selected a slot.      *)
Commit(p) ==
  LET m == call[p]
  IN  /\ m.pc = "commit"
      /\ nvs' = kv
      /\ call' = [call EXCEPT ![p].pc = "return"]
      /\ armed' = CASE m.op = "boot" -> {}
                    [] m.op = "done" -> {target}
                    [] OTHER -> armed
      /\ reported' = (m.op # "boot" /\ (m.op = "success" \/ reported))
      /\ running' = IF m.op = "boot" THEN m.slot ELSE running
      /\ proven' = IF m.op = "success" THEN proven \cup {running} ELSE proven
      /\ UNCHANGED <<kv, mode, image, ota, target, working, slips, bounds>>

(* Mutant of WriteFails: bootctl_write_config goes on to return 0.         *)
WriteFailsUnnoticed(p) ==
  /\ p \in Failing /\ errors < MaxErrors
  /\ call[p].pc \in {"write", "commit"}
  /\ call' = [call EXCEPT ![p].pc = "return"]
  /\ errors' = errors + 1
  /\ UNCHANGED <<kv, nvs, device, task, history, cuts>>

(* A set or the commit fails and bootctl_write_config returns at once,     *)
(* leaving the properties before it written.  The loader does not look; a  *)
(* `done` that left some properties written is run again on them.          *)
WriteFails(p) ==
  /\ p \in Failing /\ errors < MaxErrors
  /\ call[p].pc \in {"write", "commit"}
  /\ call' = [call EXCEPT ![p].pc = "return", ![p].ok = FALSE]
  /\ slips' = slips
       \cup (IF p = "loader" /\ kv \ {Try} # call[p].boot \ {Try} THEN {"flags"} ELSE {})
       \cup (IF call[p].op = "done" /\ <<call[p].pc, call[p].n>> # <<"write", 0>>
             THEN {"redo"} ELSE {})
  /\ errors' = errors + 1
  /\ UNCHANGED <<kv, nvs, device, task, working, proven, armed, cuts>>

Step(p) == ReadKey(p) \/ WriteKey(p) \/ Commit(p)

Leave(p) == call[p].pc = "return" /\ call' = [call EXCEPT ![p] = NoCall]

-----------------------------------------------------------------------------
(* The loader.  It ignores what bootctl_write_config returns.              *)
LoaderStart ==
  /\ mode = "off" /\ Idle("loader")
  /\ Enter("loader", "boot")
  /\ UNCHANGED <<kv, nvs, device, task, history, bounds>>

LoaderJump ==
  /\ Leave("loader")
  /\ mode' = "ap"
  /\ running' = call["loader"].slot
  /\ reported' = FALSE
  /\ armed' = {}
  /\ UNCHANGED <<kv, nvs, image, ota, target, working, proven, slips, bounds>>

(* The init script of a working image reports the boot.  `bootctl success` *)
(* returns the result of the write, and init runs it again when it fails;  *)
(* plain `bootctl` drops the result and always returns 0.                  *)
InitStart ==
  /\ mode = "ap" /\ ~reported /\ Idle("init")
  /\ image[running] = "good"
  /\ Enter("init", "success")
  /\ working' = working \cup {running}
  /\ UNCHANGED <<kv, nvs, device, task, proven, armed, slips, bounds>>

InitEnd ==
  /\ Leave("init")
  /\ reported' = (call["init"].ok \/ build.bare)
  /\ proven' = IF call["init"].ok THEN proven \cup {running} ELSE proven
  /\ UNCHANGED <<kv, nvs, device, ota, target, working, armed, slips, bounds>>

-----------------------------------------------------------------------------
(* The OTA task.  A command that fails is run again. *)
MayWork == mode = "ap" /\ image[running] = "good" /\ Idle("ota")
              /\ (Serial => reported /\ Idle("init"))

UpdateStart ==
  /\ MayWork /\ ota = "idle"
  /\ Enter("ota", "update")
  /\ slips' = IF Successful(running) \in kv THEN slips ELSE slips \cup {"report"}
  /\ UNCHANGED <<kv, nvs, device, task, working, proven, armed, bounds>>

UpdateEnd ==
  /\ Leave("ota") /\ call["ota"].op = "update"
  /\ ota' = IF call["ota"].ok THEN "updated" ELSE "idle"
  /\ UNCHANGED <<kv, nvs, device, reported, target, history, bounds>>

FlashBegin ==
  /\ MayWork /\ ota = "updated"
  /\ target' = Target(kv)
  /\ image' = [image EXCEPT ![target'] = "torn"]
  /\ proven' = proven \ {target'}
  /\ working' = working \ {target'}
  /\ ota' = "flashing"
  /\ UNCHANGED <<kv, nvs, call, mode, running, reported, armed, slips, bounds>>

FlashEnd ==
  /\ mode = "ap" /\ ota = "flashing"
  /\ \E q \in {"good", "bad"} : image' = [image EXCEPT ![target] = q]
  /\ ota' = "flashed"
  /\ UNCHANGED <<kv, nvs, call, mode, running, reported, target, history, bounds>>

FlashFail ==
  /\ mode = "ap" /\ ota = "flashing"
  /\ ota' = "idle"
  /\ UNCHANGED <<kv, nvs, call, device, reported, target, history, bounds>>

DoneStart ==
  /\ MayWork /\ ota = "flashed"
  /\ Enter("ota", "done")
  /\ UNCHANGED <<kv, nvs, device, task, history, bounds>>

DoneEnd ==
  /\ Leave("ota") /\ call["ota"].op = "done"
  /\ ota' = IF call["ota"].ok THEN "done" ELSE "flashed"
  /\ UNCHANGED <<kv, nvs, device, reported, target, history, bounds>>

-----------------------------------------------------------------------------
(* With a direct store every moment of a write is durable.  The loader      *)
(* falling back to slot b has cleared a's active flag and not yet set b's  *)
(* while it is between the first and the fourth property.                  *)
FallingBackToB ==
  LET m == call["loader"]
  IN  m.pc = "write" /\ m.slot = "b" /\ m.n \in 1 .. 3

(* A restart kills every process and KVDB reads its durable copy back.     *)
Restart ==
  /\ kv' = nvs
  /\ call' = [p \in Procs |-> NoCall]
  /\ mode' = "off"
  /\ ota' = "idle"
  /\ UNCHANGED <<nvs, running, image, reported, target, working, proven, armed, errors>>

Reboot ==
  /\ mode = "ap" /\ ota = "done"
  /\ Restart
  /\ UNCHANGED <<slips, cuts>>

PowerCut ==
  /\ cuts < MaxCuts
  /\ Restart
  /\ cuts' = cuts + 1
  /\ slips' = slips
       \cup (IF build.direct /\ FallingBackToB THEN {"fallback"} ELSE {})
       \cup (IF ~OneActive(nvs) THEN {"done"} ELSE {})

Watchdog ==
  /\ mode = "ap" /\ image[running] # "good"
  /\ Restart
  /\ UNCHANGED <<slips, cuts>>

LoaderNext == (LoaderStart \/ Step("loader") \/ LoaderJump) /\ UNCHANGED build
InitNext == (InitStart \/ Step("init") \/ InitEnd) /\ UNCHANGED build
OtaNext == /\ \/ UpdateStart \/ FlashBegin \/ FlashEnd \/ FlashFail \/ DoneStart
              \/ Step("ota") \/ UpdateEnd \/ DoneEnd
           /\ UNCHANGED build
Reset == Watchdog /\ UNCHANGED build

Next ==
  \/ LoaderNext
  \/ InitNext
  \/ OtaNext
  \/ (\E p \in Procs : WriteFails(p)) /\ UNCHANGED build
  \/ Reboot /\ UNCHANGED build
  \/ PowerCut /\ UNCHANGED build
  \/ Reset

Spec == Init /\ [][Next]_vars

(* The loader and init keep running, a hung image is reset.  A step that   *)
(* may fail is not assumed to succeed: the errors are bounded instead.     *)
Fairness == WF_vars(LoaderNext) /\ WF_vars(InitNext) /\ WF_vars(Reset)

FairSpec == Spec /\ Fairness
-----------------------------------------------------------------------------
(* What the device is worth at one moment, in terms of its durable flags.  *)

NoSlip(S) == slips \cap S = {}

(* The durable flags stay consistent at every moment, mid-command too, if  *)
(* the store commits as a whole and the loader's choice was written.       *)
DurableIsConsistent ==
  ~build.direct /\ NoSlip({"flags"}) => OneActive(nvs) /\ Nested(nvs)

(* The loader boots a successful slot without a trial, so a slot may be    *)
(* marked only when its present image got as far as reporting.  `success`  *)
(* marks the active slot, which is the running one unless a mishap came    *)
(* between the loader's choice and its flags.                              *)
SuccessfulIsWorking ==
  NoSlip({"flags", "fallback", "done"}) =>
      \A s \in Slots : Successful(s) \in nvs => s \in working

(* If the power failed now, would one boot or two reach a working slot?    *)
Recovers(c) == LET first == Boot(c)
                   second == Boot(first.cfg)
               IN  first.slot \in working \/ second.slot \in working

(* Once an image has reported, two boots reach a working slot from every   *)
(* moment at which the power may fail; with a direct store that leaves out *)
(* the loader's fallback to slot b.                                        *)
RecoversInTwoBoots ==
  proven # {} /\ NoSlip(IF build.direct THEN Slips \ {"report"} ELSE {"flags"}) =>
      Recovers(nvs) \/ (build.direct /\ FallingBackToB)

(* README.md:72: a slot marked bootable holds "a system that may be        *)
(* bootable", so not a half-written one: `update` unmarks it before the    *)
(* first byte is written, whatever fails, and is run in a reported boot.   *)
BootableIsWhole ==
  NoSlip({"flags", "report"}) =>
      \A s \in Slots : Bootable(s) \in nvs => image[s] # "torn"

InService == mode = "ap" /\ running \in working

(* README.md:82: a failed start makes the next one try the other slot, so  *)
(* the device comes back to a working image.                               *)
BackInService == []<>InService

(* The same with the mishaps that break it named: failing sets, power cuts *)
(* at any step and hanging images alone do not keep the device away from a *)
(* working image.                                                          *)
BackUnlessSlipped ==
  []<>(InService \/ ~NoSlip(IF build.direct THEN Slips ELSE {"flags", "report"}))

(* README.md:33: after `bootctl done` the reboot starts the new slot, so a *)
(* `done` that returned 0 has left that slot active, unless it had failed  *)
(* half way before: it is no longer the other slot that it selects then.   *)
DoneSelects == ota = "done" /\ NoSlip({"redo"}) => Active(target) \in kv

-----------------------------------------------------------------------------
(* With a store that commits as a whole and commands that do not overlap,  *)
(* the commands are atomic: each takes effect at its commit, or where it   *)
(* returns without writing.  The loader's choice counts from its commit,   *)
(* although the image starts one step later.  So the device implements     *)
(* AbBoot.                                                                 *)
Chosen == call["loader"].pc = "return"

Finished(op) == /\ call["ota"].op = op
                /\ call["ota"].pc = "return"

Atomic == INSTANCE AbBoot WITH
  OtaWaits <- TRUE,
  cfg <- nvs,
  mode <- IF Chosen THEN "ap" ELSE mode,
  ota <- IF Finished("update") THEN "updated"
         ELSE IF Finished("done") THEN "done" ELSE ota

Refines == Atomic!FairSpec
=============================================================================
