---------------------------- MODULE AbBoot_proofs ----------------------------
(***************************************************************************)
(* AbBoot is safe for every bound on the power cuts: IInv is inductive,    *)
(* and the safety properties follow from it.                               *)
(***************************************************************************)
EXTENDS AbBoot, BootConfig_proofs

LEMMA InitEstablishes == Init => IInv
<1> SUFFICES ASSUME Init PROVE IInv
  OBVIOUS
<1>1. TypeOK
  <2>1. cuts \in 0 .. MaxCuts
    BY MaxCutsAssumption DEF Init
  <2>2. /\ running \in Slots
        /\ image \in [Slots -> Images]
        /\ ota \in OtaStates
    BY DEF Init, Slots, OtaStates
  <2> QED BY <2>1, <2>2 DEF Init, TypeOK
<1> QED
  BY <1>1 DEF Init, IInv, OnlyOneActive, OneActive, FlagsNested, Nested,
     SuccessfulIsProven, ProvenIsGood, TornIsUnmarked, FactoryKept,
     FallbackKept, BusyIsReported, ReportedIsProven, RunningIsActive,
     OtherIsUnmarked, FlashedIsWhole, FlashedIsNew, ArmedIsPending,
     NeverRunsTorn, Slots

(* The loader: BootKeeps says what becomes of the flags. *)
LEMMA LoaderBootKeeps ==
  ASSUME IInv, LoaderBoot
  PROVE  IInv'
<1> DEFINE b == Boot(cfg)
<1>0. /\ TypeOK /\ OnlyOneActive /\ FlagsNested /\ SuccessfulIsProven
      /\ ProvenIsGood /\ TornIsUnmarked /\ FactoryKept /\ FallbackKept
      /\ BusyIsReported
  BY DEF IInv
<1>1. /\ mode = "off" /\ mode' = "ap"
      /\ cfg' = b.cfg /\ running' = b.slot
      /\ reported' = FALSE /\ armed' = {}
      /\ image' = image /\ ota' = ota /\ proven' = proven /\ cuts' = cuts
  BY DEF LoaderBoot
<1>2. /\ b.slot \in Slots
      /\ b.cfg \in SUBSET Keys
      /\ OneActive(b.cfg)
      /\ Nested(b.cfg)
      /\ Active(b.slot) \in b.cfg
      /\ b.cfg \cap SlotKeys(Other(b.slot)) \subseteq cfg
      /\ \A s \in Slots : Successful(s) \in b.cfg => Successful(s) \in cfg
      /\ \A s \in Slots :
           (\E t \in Slots : Active(t) \in cfg) =>
              (Successful(s) \in cfg => Successful(s) \in b.cfg)
      /\ \/ cfg \cap SlotKeys(b.slot) # {}
         \/ b.slot = "a" /\ \A s \in Slots : Successful(s) \notin b.cfg
  BY <1>0, BootKeeps DEF TypeOK, OnlyOneActive, FlagsNested
<1>3. TypeOK'
  BY <1>0, <1>1, <1>2 DEF TypeOK
<1>4. OnlyOneActive' /\ FlagsNested'
  BY <1>1, <1>2 DEF OnlyOneActive, FlagsNested
<1>5. SuccessfulIsProven'
  BY <1>0, <1>1, <1>2 DEF SuccessfulIsProven
<1>6. FallbackKept'
  BY <1>0, <1>1, <1>2 DEF FallbackKept
<1>7. NeverRunsTorn'
  <2>1. CASE cfg \cap SlotKeys(b.slot) # {}
    BY <2>1, <1>0, <1>1, <1>2 DEF NeverRunsTorn, TornIsUnmarked
  <2>2. CASE b.slot = "a" /\ \A s \in Slots : Successful(s) \notin b.cfg
    BY <2>2, <1>0, <1>1, <1>2 DEF NeverRunsTorn, FallbackKept, FactoryKept
  <2> QED BY <2>1, <2>2, <1>2
<1>8. TornIsUnmarked'
  <2>1. ASSUME NEW s \in Slots, image[s] = "torn"
        PROVE  b.cfg \cap SlotKeys(s) = {}
    <3>1. s = Other(b.slot)
      BY <2>1, <1>1, <1>2, <1>7 DEF NeverRunsTorn, Other, Slots
    <3> QED BY <2>1, <3>1, <1>0, <1>2 DEF TornIsUnmarked
  <2> QED BY <2>1, <1>1 DEF TornIsUnmarked
<1>9. /\ ProvenIsGood' /\ FactoryKept' /\ BusyIsReported'
      /\ ReportedIsProven' /\ RunningIsActive' /\ OtherIsUnmarked'
      /\ FlashedIsWhole' /\ FlashedIsNew' /\ ArmedIsPending'
  BY <1>0, <1>1, <1>2 DEF ProvenIsGood, FactoryKept, BusyIsReported,
     ReportedIsProven, RunningIsActive, OtherIsUnmarked, FlashedIsWhole,
     FlashedIsNew, ArmedIsPending
<1> QED
  BY <1>3, <1>4, <1>5, <1>6, <1>7, <1>8, <1>9 DEF IInv

(* In a boot that works the running slot is the active one, so `success`   *)
(* marks the slot that reports.                                            *)
LEMMA SuccessKeeps ==
  ASSUME IInv, Success
  PROVE  IInv'
<1>0. IInv /\ ota = "idle"
  BY DEF IInv, Success, BusyIsReported
<1>1. ActiveSlot(cfg) = running
  BY <1>0 DEF Success, IInv, TypeOK, OnlyOneActive, OneActive,
     RunningIsActive, ActiveSlot, Slots
<1>2. /\ cfg' \in SUBSET Keys
      /\ cfg' \subseteq cfg \cup {Successful(running)}
      /\ Successful(running) \in cfg'
      /\ \A k \in cfg : k # Try => k \in cfg'
  BY <1>0, <1>1 DEF Success, SuccessCfg, SuccessWrites, IInv, TypeOK,
     Keys, SlotKeys, Slots
<1>3. \A s \in Slots : /\ Active(s) \in cfg' <=> Active(s) \in cfg
                       /\ Bootable(s) \in cfg' <=> Bootable(s) \in cfg
                       /\ Successful(s) \in cfg' <=>
                             Successful(s) \in cfg \/ s = running
  BY <1>2 DEF Active, Bootable, Successful, Try, Slots
<1>4. TypeOK'
  BY <1>0, <1>2 DEF IInv, TypeOK, Success
<1>5. OnlyOneActive' /\ FlagsNested'
  BY <1>0, <1>3 DEF IInv, OnlyOneActive, OneActive, FlagsNested, Nested,
     RunningIsActive, Success
<1>6. SuccessfulIsProven' /\ FallbackKept' /\ ReportedIsProven' /\ RunningIsActive'
  BY <1>0, <1>3 DEF IInv, TypeOK, SuccessfulIsProven, FallbackKept,
     ReportedIsProven, RunningIsActive, Success
<1>7. TornIsUnmarked'
  BY <1>0, <1>3 DEF IInv, TornIsUnmarked, Success, SlotKeys
<1> QED
  BY <1>0, <1>4, <1>5, <1>6, <1>7 DEF IInv, ProvenIsGood, FactoryKept,
     BusyIsReported, OtherIsUnmarked, FlashedIsWhole, FlashedIsNew,
     ArmedIsPending, NeverRunsTorn, Success

(* The OTA task runs with the running slot active, so its target is the    *)
(* other slot.  Stated once for the three steps that use it.               *)
LEMMA TargetIsOther ==
  ASSUME IInv, ota \in {"idle", "updated", "flashing", "flashed"}, mode = "ap"
  PROVE  ActiveSlot(cfg) = running /\ Target(cfg) = Other(running)
  BY DEF IInv, TypeOK, OnlyOneActive, OneActive, RunningIsActive,
     ActiveSlot, Target, Slots

(* `update` unmarks the other slot and nothing else. *)
LEMMA UpdateKeeps ==
  ASSUME IInv, Update, OtaWaits
  PROVE  IInv'
<1>0. ota = "idle" /\ mode = "ap" /\ reported /\ running \in Slots
  BY DEF IInv, TypeOK, Update, MayStart
<1>1. ActiveSlot(cfg) = running /\ Target(cfg) = Other(running)
  BY <1>0, TargetIsOther
<1>2. cfg' = cfg \ SlotKeys(Other(running))
  BY <1>1 DEF Update, UpdateCfg
<1>3. /\ Successful(running) \in cfg' /\ Active(running) \in cfg'
      /\ running \in proven
  BY <1>0, <1>2 DEF IInv, ReportedIsProven, RunningIsActive, SlotKeys,
     Other, Slots, Active, Bootable, Successful
<1>4. TypeOK'
  BY <1>2 DEF IInv, TypeOK, Update, OtaStates
<1>5. OnlyOneActive'
  BY <1>2 DEF IInv, OnlyOneActive, OneActive
<1>6. FlagsNested'
  BY <1>0, <1>2 DEF IInv, FlagsNested, Nested, SlotKeys, Other, Slots,
     Active, Bootable, Successful
<1>7. SuccessfulIsProven' /\ TornIsUnmarked' /\ OtherIsUnmarked'
  BY <1>2 DEF IInv, SuccessfulIsProven, TornIsUnmarked, OtherIsUnmarked, Update
<1>8. FallbackKept' /\ ReportedIsProven' /\ RunningIsActive'
  BY <1>0, <1>3 DEF FallbackKept, ReportedIsProven, RunningIsActive, Update
<1>9. /\ ProvenIsGood' /\ FactoryKept' /\ BusyIsReported'
      /\ FlashedIsWhole' /\ FlashedIsNew' /\ NeverRunsTorn'
  BY <1>0 DEF IInv, ProvenIsGood, FactoryKept, BusyIsReported,
     FlashedIsWhole, FlashedIsNew, NeverRunsTorn, Update
<1>10. ArmedIsPending'
  BY <1>0 DEF IInv, ArmedIsPending, Update
<1> QED
  BY <1>4, <1>5, <1>6, <1>7, <1>8, <1>9, <1>10 DEF IInv

(* Writing starts: the other slot loses its image, and with it its proof.  *)
LEMMA FlashBeginKeeps ==
  ASSUME IInv, FlashBegin
  PROVE  IInv'
<1>0. /\ ota = "updated" /\ mode = "ap" /\ reported /\ running \in Slots
      /\ Other(running) \in Slots /\ Other(running) # running
  BY DEF IInv, TypeOK, FlashBegin, BusyIsReported, Other, Slots
<1>1. Target(cfg) = Other(running)
  BY <1>0, TargetIsOther
<1>2. /\ image' = [image EXCEPT ![Other(running)] = "torn"]
      /\ proven' = proven \ {Other(running)}
      /\ ota' = "flashing"
      /\ UNCHANGED <<cfg, mode, running, reported, armed, cuts>>
  BY <1>1 DEF FlashBegin
<1>3. image \in [Slots -> Images] /\ cfg \cap SlotKeys(Other(running)) = {}
  BY <1>0 DEF IInv, TypeOK, OtherIsUnmarked
<1>4. TypeOK'
  BY <1>0, <1>2 DEF IInv, TypeOK, OtaStates, Images
<1>5. OnlyOneActive' /\ FlagsNested'
  BY <1>2 DEF IInv, OnlyOneActive, FlagsNested
<1>6. SuccessfulIsProven'
  BY <1>0, <1>2, <1>3 DEF IInv, SuccessfulIsProven, SlotKeys
<1>7. ProvenIsGood' /\ TornIsUnmarked' /\ NeverRunsTorn'
  BY <1>0, <1>2, <1>3 DEF IInv, TypeOK, ProvenIsGood, TornIsUnmarked, NeverRunsTorn
<1>8. running \in proven'
  BY <1>0, <1>2 DEF IInv, ReportedIsProven
<1>9. FactoryKept' /\ FallbackKept' /\ ReportedIsProven' /\ RunningIsActive'
  BY <1>0, <1>2, <1>8 DEF IInv, FactoryKept, FallbackKept, ReportedIsProven,
     RunningIsActive
<1>10. /\ BusyIsReported' /\ OtherIsUnmarked' /\ FlashedIsWhole'
       /\ FlashedIsNew' /\ ArmedIsPending'
  BY <1>0, <1>2, <1>3 DEF IInv, BusyIsReported, OtherIsUnmarked, FlashedIsWhole,
     FlashedIsNew, ArmedIsPending
<1> QED
  BY <1>4, <1>5, <1>6, <1>7, <1>9, <1>10 DEF IInv

(* Writing ends with a whole image that is not proven. *)
LEMMA FlashEndKeeps ==
  ASSUME IInv, FlashEnd
  PROVE  IInv'
<1>0. /\ ota = "flashing" /\ mode = "ap" /\ reported /\ running \in Slots
      /\ Other(running) \in Slots /\ Other(running) # running
      /\ Other(running) \notin proven /\ running \in proven
  BY DEF IInv, TypeOK, FlashEnd, BusyIsReported, FlashedIsNew,
     ReportedIsProven, Other, Slots
<1>1. Target(cfg) = Other(running)
  BY <1>0, TargetIsOther
<1>2. PICK q \in {"good", "bad"} : image' = [image EXCEPT ![Other(running)] = q]
  BY <1>1 DEF FlashEnd
<1>3. /\ ota' = "flashed"
      /\ UNCHANGED <<cfg, mode, running, reported, proven, armed, cuts>>
  BY DEF FlashEnd
<1>4. image \in [Slots -> Images] /\ cfg \cap SlotKeys(Other(running)) = {}
  BY <1>0 DEF IInv, TypeOK, OtherIsUnmarked
<1>5. TypeOK'
  BY <1>0, <1>2, <1>3 DEF IInv, TypeOK, OtaStates, Images
<1>6. ProvenIsGood' /\ TornIsUnmarked' /\ NeverRunsTorn' /\ FactoryKept'
  BY <1>0, <1>2, <1>3, <1>4 DEF IInv, ProvenIsGood, TornIsUnmarked,
     NeverRunsTorn, FactoryKept
<1>7. FlashedIsWhole' /\ FlashedIsNew' /\ OtherIsUnmarked' /\ BusyIsReported'
  BY <1>0, <1>2, <1>3, <1>4 DEF FlashedIsWhole, FlashedIsNew, OtherIsUnmarked,
     BusyIsReported
<1>8. /\ OnlyOneActive' /\ FlagsNested' /\ SuccessfulIsProven' /\ FallbackKept'
      /\ ReportedIsProven' /\ RunningIsActive' /\ ArmedIsPending'
  BY <1>0, <1>3 DEF IInv, OnlyOneActive, FlagsNested, SuccessfulIsProven,
     FallbackKept, ReportedIsProven, RunningIsActive, ArmedIsPending
<1> QED
  BY <1>5, <1>6, <1>7, <1>8 DEF IInv

(* `done` moves the active mark to the other slot, which is whole.         *)
LEMMA DoneKeeps ==
  ASSUME IInv, Done
  PROVE  IInv'
<1>0. /\ ota = "flashed" /\ mode = "ap" /\ reported /\ running \in Slots
      /\ Other(running) \in Slots /\ Other(running) # running
      /\ image[Other(running)] # "torn"
  BY DEF IInv, TypeOK, Done, BusyIsReported, FlashedIsWhole, Other, Slots
<1>1. ActiveSlot(cfg) = running /\ Target(cfg) = Other(running)
  BY <1>0, TargetIsOther
<1> DEFINE new == Other(running)
<1>2. /\ cfg' = (cfg \cup {Active(new), Bootable(new)}) \ {Active(running)}
      /\ armed' = {new}
      /\ ota' = "done"
      /\ UNCHANGED <<mode, running, image, reported, proven, cuts>>
  BY <1>1 DEF Done, DoneCfg
<1>3. /\ cfg \cap SlotKeys(new) = {}
      /\ cfg \in SUBSET Keys
      /\ Successful(running) \in cfg /\ running \in proven
      /\ Slots = {running, new}
  BY <1>0 DEF IInv, TypeOK, OtherIsUnmarked, ReportedIsProven, Other, Slots
<1>4. /\ Active(new) \in cfg' /\ Bootable(new) \in cfg' /\ Successful(new) \notin cfg'
      /\ Active(running) \notin cfg' /\ Successful(running) \in cfg'
      /\ Bootable(running) \in cfg
      /\ Bootable(running) \in cfg'
  BY <1>0, <1>2, <1>3 DEF IInv, FlagsNested, Nested, SlotKeys,
     Active, Bootable, Successful
<1>5. TypeOK'
  BY <1>0, <1>2, <1>3 DEF IInv, TypeOK, OtaStates, Keys, SlotKeys, Slots
<1>6. OnlyOneActive' /\ FlagsNested'
  BY <1>3, <1>4 DEF OnlyOneActive, OneActive, FlagsNested, Nested
<1>7. SuccessfulIsProven' /\ FallbackKept' /\ ReportedIsProven'
  BY <1>0, <1>2, <1>3, <1>4 DEF SuccessfulIsProven, FallbackKept, ReportedIsProven
<1>8. TornIsUnmarked'
  BY <1>0, <1>2, <1>3 DEF IInv, TornIsUnmarked, ProvenIsGood
<1>9. ArmedIsPending'
  BY <1>2, <1>4 DEF ArmedIsPending, Pending
<1>10. /\ ProvenIsGood' /\ FactoryKept' /\ BusyIsReported' /\ RunningIsActive'
       /\ OtherIsUnmarked' /\ FlashedIsWhole' /\ FlashedIsNew' /\ NeverRunsTorn'
  BY <1>0, <1>2 DEF IInv, ProvenIsGood, FactoryKept, BusyIsReported,
     RunningIsActive, OtherIsUnmarked, FlashedIsWhole, FlashedIsNew, NeverRunsTorn
<1> QED
  BY <1>5, <1>6, <1>7, <1>8, <1>9, <1>10 DEF IInv

(* The steps that leave the flags and the images alone and end the OTA     *)
(* task: a failed write, the reboot, a power cut and a reset.              *)
LEMMA StopKeeps ==
  ASSUME IInv, FlashFail \/ Reboot \/ PowerCut \/ Watchdog
  PROVE  IInv'
<1>1. /\ UNCHANGED <<cfg, running, image, reported, proven, armed>>
      /\ ota' = "idle"
      /\ (mode' = mode /\ ota = "flashing") \/ mode' = "off"
      /\ cuts' \in 0 .. MaxCuts
  BY MaxCutsAssumption
     DEF IInv, TypeOK, FlashFail, Reboot, PowerCut, Watchdog
<1>2. TypeOK'
  BY <1>1 DEF IInv, TypeOK, OtaStates
<1>3. RunningIsActive' /\ ReportedIsProven' /\ NeverRunsTorn'
  BY <1>1 DEF IInv, RunningIsActive, ReportedIsProven, NeverRunsTorn
<1>4. ArmedIsPending'
  BY <1>1 DEF IInv, ArmedIsPending
<1> QED
  BY <1>1, <1>2, <1>3, <1>4 DEF IInv, OnlyOneActive, FlagsNested,
     SuccessfulIsProven, ProvenIsGood, TornIsUnmarked, FactoryKept,
     FallbackKept, BusyIsReported, OtherIsUnmarked, FlashedIsWhole, FlashedIsNew

LEMMA StepKeeps ==
  ASSUME IInv, [Next]_vars, OtaWaits
  PROVE  IInv'
<1>1. CASE UNCHANGED vars
  BY <1>1 DEF vars, IInv, TypeOK, OnlyOneActive, FlagsNested,
     SuccessfulIsProven, ProvenIsGood, TornIsUnmarked, FactoryKept,
     FallbackKept, BusyIsReported, ReportedIsProven, RunningIsActive,
     OtherIsUnmarked, FlashedIsWhole, FlashedIsNew, ArmedIsPending,
     NeverRunsTorn
<1> QED
  BY <1>1, LoaderBootKeeps, SuccessKeeps, UpdateKeeps, FlashBeginKeeps,
     FlashEndKeeps, DoneKeeps, StopKeeps DEF Next

-----------------------------------------------------------------------------
(* The inductive invariant holds in every behaviour, whatever the number   *)
(* of power cuts, when the OTA task waits for the reboot after `done`.     *)
THEOREM Inductive == ASSUME OtaWaits PROVE Spec => []IInv
<1>1. Init => IInv
  BY InitEstablishes
<1>2. IInv /\ [Next]_vars => IInv'
  BY StepKeeps
<1> QED BY <1>1, <1>2, PTL DEF Spec

(* Type correctness. *)
THEOREM TypeCorrect == ASSUME OtaWaits PROVE Spec => []TypeOK
<1>1. IInv => TypeOK
  BY DEF IInv
<1> QED BY <1>1, Inductive, PTL

(* At most one slot is active, whatever commands, trials and power cuts    *)
(* came before (README.md:75).                                             *)
THEOREM Exclusive == ASSUME OtaWaits PROVE Spec => []OnlyOneActive
<1>1. IInv => OnlyOneActive
  BY DEF IInv
<1> QED BY <1>1, Inductive, PTL

(* A slot marked successful holds an image that has reported success.      *)
THEOREM TrustIsEarned == ASSUME OtaWaits PROVE Spec => []SuccessfulIsProven
<1>1. IInv => SuccessfulIsProven
  BY DEF IInv
<1> QED BY <1>1, Inductive, PTL

(* The loader never starts a half-written slot. *)
THEOREM NoTornBoot == ASSUME OtaWaits PROVE Spec => []NeverRunsTorn
<1>1. IInv => NeverRunsTorn
  BY DEF IInv
<1> QED BY <1>1, Inductive, PTL

(* Once some image has reported success, two boots reach a proven image    *)
(* from every state, whatever the power cut interrupts.                    *)
THEOREM Recovery == ASSUME OtaWaits PROVE Spec => []RecoversInTwoBoots
<1>1. IInv => RecoversInTwoBoots
  <2> SUFFICES ASSUME IInv, proven # {}
               PROVE  \/ Boot(cfg).slot \in proven
                      \/ Boot(Boot(cfg).cfg).slot \in proven
    BY DEF RecoversInTwoBoots
  <2>1. /\ cfg \in SUBSET Keys /\ OneActive(cfg) /\ Nested(cfg)
        /\ \E s \in Slots : Active(s) \in cfg
        /\ \E s \in Slots : Successful(s) \in cfg
        /\ \A s \in Slots : Successful(s) \in cfg => s \in proven
    BY DEF IInv, TypeOK, OnlyOneActive, FlagsNested, FallbackKept,
       SuccessfulIsProven
  <2>2. /\ Boot(cfg).slot \in Slots
        /\ Boot(cfg).cfg \in SUBSET Keys
        /\ OneActive(Boot(cfg).cfg) /\ Nested(Boot(cfg).cfg)
    BY <2>1, BootKeeps
  <2>3. Boot(Boot(cfg).cfg).slot \in Slots
    BY <2>2, BootKeeps
  <2> QED BY <2>1, <2>2, <2>3, BootTwice
<1> QED BY <1>1, Inductive, PTL

(* The OTA task never writes the slot the system runs from. *)
THEOREM RunningKept == ASSUME OtaWaits PROVE Spec => NeverFlashesRunning
<1>1. ASSUME IInv, [Next]_vars, mode = "ap"
      PROVE  image'[running] = image[running]
  <2>1. CASE FlashBegin \/ FlashEnd
    <3>1. ota \in {"updated", "flashing"} /\ running \in Slots
      BY <1>1, <2>1 DEF FlashBegin, FlashEnd, IInv, TypeOK
    <3>2. Target(cfg) # running
      BY <1>1, <3>1, TargetIsOther DEF Other, Slots
    <3> QED BY <1>1, <2>1, <3>2 DEF FlashBegin, FlashEnd, IInv, TypeOK
  <2>2. CASE ~ (FlashBegin \/ FlashEnd)
    BY <1>1, <2>2 DEF Next, vars, LoaderBoot, Success, Update, FlashFail,
       Done, Reboot, PowerCut, Watchdog
  <2> QED BY <2>1, <2>2
<1> QED BY <1>1, Inductive, PTL DEF Spec, NeverFlashesRunning

(* Unless the try flag is left over, the boot after `done` starts the new  *)
(* slot: the loader cannot miss the slot that `done` selected.             *)
THEOREM TrialHappens == ASSUME OtaWaits PROVE Spec => DoneIsTriedWhenClear
<1>1. ASSUME IInv, [Next]_vars, NEW s \in armed,
             mode = "off", mode' = "ap", Try \notin cfg
      PROVE  running' = s
  <2>1. LoaderBoot
    BY <1>1 DEF Next, vars, Success, Update, FlashBegin, FlashEnd, FlashFail,
       Done, Reboot, PowerCut, Watchdog
  <2>2. s \in Slots /\ Pending(cfg, s) /\ OneActive(cfg)
    BY <1>1 DEF IInv, TypeOK, ArmedIsPending, OnlyOneActive
  <2>3. Boot(cfg).slot = s
    BY <1>1, <2>2 DEF Boot, TrySlot, Pending, OneActive, Slots
  <2> QED BY <2>1, <2>3 DEF LoaderBoot
<1>2. IInv /\ [Next]_vars =>
        \A s \in armed : (mode = "off" /\ mode' = "ap" /\ Try \notin cfg)
                            => running' = s
  BY <1>1
<1> QED BY <1>2, Inductive, PTL DEF Spec, DoneIsTriedWhenClear
=============================================================================
