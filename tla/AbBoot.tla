------------------------------- MODULE AbBoot -------------------------------
(***************************************************************************)
(* An A/B device under bootctl, with every bootctl command one atomic and  *)
(* durable step: what the slot manager promises when its store behaves.    *)
(*                                                                         *)
(* Four actors share the configuration.  The boot loader entry (bootctl    *)
(* built with UTILS_BOOTCTL_ENTRY) picks a slot, the init script of the    *)
(* started image runs `bootctl` to report success, the OTA task runs       *)
(* `bootctl update`, writes the other slot, runs `bootctl done` and        *)
(* reboots, and the environment cuts the power or, under an image that     *)
(* does not work, resets the machine.                                      *)
(***************************************************************************)
EXTENDS BootConfig, Naturals

CONSTANTS
  MaxCuts,     \* bound: power cuts in a behaviour
  OtaWaits     \* the OTA task starts no second update before the reboot

ASSUME MaxCutsAssumption == MaxCuts \in Nat
ASSUME OtaWaitsAssumption == OtaWaits \in BOOLEAN

VARIABLES
  cfg,       \* the boot properties that are TRUE in KVDB
  mode,      \* "off": the loader runs next; "ap": an image runs
  running,   \* the slot of the image that runs, or ran last
  image,     \* what each slot holds
  reported,  \* init has run `bootctl` since the last boot
  ota,       \* how far the OTA task is
  proven,    \* history: slots whose present image has reported success
  armed,     \* history: the slot `done` selected, until the next boot
  cuts       \* power cuts so far

vars == <<cfg, mode, running, image, reported, ota, proven, armed, cuts>>

(* "torn" is a slot that is being written, or was when the power failed;   *)
(* "bad" is a complete image that never gets as far as reporting success.  *)
Images == {"good", "bad", "torn"}

OtaStates == {"idle", "updated", "flashing", "flashed", "done"}

TypeOK ==
  /\ cfg \in SUBSET Keys
  /\ mode \in {"off", "ap"}
  /\ running \in Slots
  /\ image \in [Slots -> Images]
  /\ reported \in BOOLEAN
  /\ ota \in OtaStates
  /\ proven \in SUBSET Slots
  /\ armed \in SUBSET Slots
  /\ cuts \in 0 .. MaxCuts

(* A factory-fresh device: no property is set, slot a holds a working      *)
(* image and slot b anything, or nothing.                                  *)
Init ==
  /\ cfg = {}
  /\ mode = "off"
  /\ running = "a"
  /\ image \in [Slots -> Images] /\ image["a"] = "good"
  /\ reported = FALSE
  /\ ota = "idle"
  /\ proven = {}
  /\ armed = {}
  /\ cuts = 0

-----------------------------------------------------------------------------
(* The loader entry: bootctl_boot, from reading the configuration to       *)
(* starting the image.                                                     *)
LoaderBoot ==
  /\ mode = "off"
  /\ cfg' = Boot(cfg).cfg
  /\ running' = Boot(cfg).slot
  /\ mode' = "ap"
  /\ reported' = FALSE
  /\ armed' = {}
  /\ UNCHANGED <<image, ota, proven, cuts>>

(* The init script of a working image runs `bootctl`, once in every boot.  *)
Success ==
  /\ mode = "ap"
  /\ ~reported
  /\ image[running] = "good"
  /\ cfg' = SuccessCfg(cfg)
  /\ reported' = TRUE
  /\ proven' = proven \cup {running}
  /\ UNCHANGED <<mode, running, image, ota, armed, cuts>>

-----------------------------------------------------------------------------
(* The OTA task.  It starts when the boot has been reported, as README     *)
(* orders the commands, and writes the slot that is not the one            *)
(* bootctl_active names.                                                   *)
MayStart == ota = "idle" \/ (ota = "done" /\ ~OtaWaits)

Update ==
  /\ mode = "ap"
  /\ reported
  /\ MayStart
  /\ cfg' = UpdateCfg(cfg)
  /\ ota' = "updated"
  /\ UNCHANGED <<mode, running, image, reported, proven, armed, cuts>>

FlashBegin ==
  /\ mode = "ap"
  /\ ota = "updated"
  /\ image' = [image EXCEPT ![Target(cfg)] = "torn"]
  /\ proven' = proven \ {Target(cfg)}
  /\ ota' = "flashing"
  /\ UNCHANGED <<cfg, mode, running, reported, armed, cuts>>

(* The new image is complete; whether it works is not known yet.           *)
FlashEnd ==
  /\ mode = "ap"
  /\ ota = "flashing"
  /\ \E q \in {"good", "bad"} : image' = [image EXCEPT ![Target(cfg)] = q]
  /\ ota' = "flashed"
  /\ UNCHANGED <<cfg, mode, running, reported, proven, armed, cuts>>

(* Writing fails and the script exits: the OTA task may start again later. *)
FlashFail ==
  /\ mode = "ap"
  /\ ota = "flashing"
  /\ ota' = "idle"
  /\ UNCHANGED <<cfg, mode, running, image, reported, proven, armed, cuts>>

Done ==
  /\ mode = "ap"
  /\ ota = "flashed"
  /\ cfg' = DoneCfg(cfg)
  /\ armed' = {Target(cfg)}
  /\ ota' = "done"
  /\ UNCHANGED <<mode, running, image, reported, proven, cuts>>

Reboot ==
  /\ mode = "ap"
  /\ ota = "done"
  /\ mode' = "off"
  /\ ota' = "idle"
  /\ UNCHANGED <<cfg, running, image, reported, proven, armed, cuts>>

-----------------------------------------------------------------------------
(* The environment. *)
PowerCut ==
  /\ cuts < MaxCuts
  /\ cuts' = cuts + 1
  /\ mode' = "off"
  /\ ota' = "idle"
  /\ UNCHANGED <<cfg, running, image, reported, proven, armed>>

(* An image that does not work ends in a reset.                            *)
Watchdog ==
  /\ mode = "ap"
  /\ image[running] # "good"
  /\ mode' = "off"
  /\ ota' = "idle"
  /\ UNCHANGED <<cfg, running, image, reported, proven, armed, cuts>>

Next ==
  \/ LoaderBoot
  \/ Success
  \/ Update
  \/ FlashBegin
  \/ FlashEnd
  \/ FlashFail
  \/ Done
  \/ Reboot
  \/ PowerCut
  \/ Watchdog

Spec == Init /\ [][Next]_vars

(* The loader runs whenever the device is off, a working image reaches its *)
(* init script and an image that hangs is reset.  Nothing is assumed of    *)
(* the OTA task, and the power is cut only MaxCuts times.                  *)
Fairness == WF_vars(LoaderBoot) /\ WF_vars(Success) /\ WF_vars(Watchdog)

FairSpec == Spec /\ Fairness

-----------------------------------------------------------------------------
(* README.md:75, "Only one of slot a and slot b is active": no sequence of *)
(* commands, trials, fallbacks and cuts leaves both slots active.          *)
OnlyOneActive == OneActive(cfg)

(* The loader trusts `successful` without a trial, so it may be set only   *)
(* for a slot whose present image did report success: neither a rewritten  *)
(* slot nor the slot that was not running may carry it.                    *)
SuccessfulIsProven == \A s \in Slots : Successful(s) \in cfg => s \in proven

(* The loader's success_slot path restores `bootable` for slot b only      *)
(* (bootctl.c:261-269).  That is enough because the flags stay nested: a   *)
(* slot that is active or successful is bootable already.                  *)
FlagsNested == Nested(cfg)

(* No half-written slot is ever started, whatever step the power failed at *)
NeverRunsTorn == mode = "ap" => image[running] # "torn"

(* Cut the power at any moment of a device that has had a working image:   *)
(* the first or the second boot starts a proven slot.                      *)
RecoversInTwoBoots ==
  proven # {} => LET first == Boot(cfg)
                     second == Boot(first.cfg)
                 IN  first.slot \in proven \/ second.slot \in proven

(* The update never writes the slot the system is running from: the slot   *)
(* the OTA task derives from the flags is the other one.                   *)
NeverFlashesRunning ==
  [][mode = "ap" => image'[running] = image[running]]_vars

(* When the try flag is clear at `done`, the next boot starts the new slot *)
DoneIsTriedWhenClear ==
  [][\A s \in armed : (mode = "off" /\ mode' = "ap" /\ Try \notin cfg)
                         => running' = s]_vars

InService == mode = "ap" /\ running \in proven

(* Whatever is installed, the device always comes back to a proven image   *)
BackInService == []<>InService

-----------------------------------------------------------------------------
(* The inductive invariant behind the safety properties, in named parts.   *)

(* A slot that lost its image lost its place in `proven` as well.          *)
ProvenIsGood == \A s \in proven : image[s] = "good"

(* A half-written slot carries no mark that could make the loader take it. *)
TornIsUnmarked ==
  \A s \in Slots : image[s] = "torn" => cfg \cap SlotKeys(s) = {}

(* Until a slot is proven, slot a still holds the factory image.           *)
FactoryKept == proven = {} => image["a"] = "good"

(* From then on some slot is marked successful and some slot is active.    *)
FallbackKept ==
  proven # {} => /\ \E s \in Slots : Successful(s) \in cfg
                 /\ \E s \in Slots : Active(s) \in cfg

(* The OTA task is busy only in a boot that was reported.                  *)
BusyIsReported == ota # "idle" => mode = "ap" /\ reported

ReportedIsProven ==
  mode = "ap" /\ reported => running \in proven /\ Successful(running) \in cfg

(* Except between `done` and the reboot the running slot is the active one *)
RunningIsActive == mode = "ap" /\ ota # "done" => Active(running) \in cfg

(* From `update` to `done` the other slot is unmarked, and it is whole     *)
(* when `done` may be called.                                              *)
OtherIsUnmarked ==
  ota \in {"updated", "flashing", "flashed"} =>
      cfg \cap SlotKeys(Other(running)) = {}

FlashedIsWhole == ota = "flashed" => image[Other(running)] # "torn"

(* What was written is on no account proven yet.                           *)
FlashedIsNew == ota \in {"flashing", "flashed"} => Other(running) \notin proven

(* The slot `done` selected stays on trial until the next boot.            *)
ArmedIsPending ==
  \A s \in armed : Pending(cfg, s) /\ (mode = "ap" => ota = "done")

IInv ==
  /\ TypeOK
  /\ OnlyOneActive /\ FlagsNested /\ SuccessfulIsProven
  /\ ProvenIsGood /\ TornIsUnmarked /\ FactoryKept /\ FallbackKept
  /\ BusyIsReported /\ ReportedIsProven /\ RunningIsActive
  /\ OtherIsUnmarked /\ FlashedIsWhole /\ FlashedIsNew
  /\ ArmedIsPending /\ NeverRunsTorn

-----------------------------------------------------------------------------
(* What README.md says of the commands, to be compared with the code.      *)

(* README.md:33: after `done` the device "will then start from the newly   *)
(* upgraded partition upon reboot".                                        *)
DoneIsTried ==
  [][\A s \in armed : (mode = "off" /\ mode' = "ap") => running' = s]_vars

(* README.md:40: bootctl_active returns "the name of the partition         *)
(* currently running".                                                     *)
ActiveIsRunning == mode = "ap" => ActiveName(cfg) = running

(* README.md:33: `update` marks "the other partition", so the slot the     *)
(* system runs from keeps its marks.                                       *)
UpdateSparesRunning ==
  [][(mode = "ap" /\ Successful(running) \in cfg)
        => (mode' = "ap" => Successful(running) \in cfg')]_vars
=============================================================================
