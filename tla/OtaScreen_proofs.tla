-------------------------- MODULE OtaScreen_proofs --------------------------
(***************************************************************************)
(* The screen beside the script of any package, however their steps fall   *)
(* between each other, for every tick, synchronisation time and wrap of    *)
(* the counter, any configuration and any value the bar starts at.         *)
(*                                                                         *)
(* A step of both is a step of the device or leaves it alone (AlsoInstall),*)
(* so what OtaInstall_proofs shows of the device holds here too; Honest,   *)
(* Minded and Ending relate the screen to it.                              *)
(***************************************************************************)
EXTENDS OtaScreen, OtaInstall_proofs

-----------------------------------------------------------------------------
(* Both processes.                                                         *)

(* What the screen does not do, the device does.                           *)
LEMMA AlsoInstall ==
  ASSUME [ScreenNext]_allVars
  PROVE  /\ [Next]_vars
         /\ \/ UNCHANGED screen /\ ~PowerCut
            \/ Draw
            \/ Restart
<1>1. CASE Install
  <2>1. Start \/ ScriptNext \/ WriteFails
    BY <1>1 DEF Install
  <2>2. phase' # "off" \/ phase = "off"
    BY <2>1 DEF Start, ScriptNext, SetProp, Check, CheckFails, WriteBegin, WriteEnd, UserScript, Finish,
       WriteFails, GiveUp
  <2>3. ~PowerCut
    BY <2>2 DEF PowerCut
  <2> QED BY <1>1, <2>1, <2>3 DEF Install, Next
<1>2. CASE Draw
  BY <1>2 DEF Draw
<1>3. CASE Restart
  BY <1>3 DEF Restart, Next
<1>4. CASE UNCHANGED allVars
  <2>1. UNCHANGED vars /\ UNCHANGED screen
    BY <1>4 DEF allVars
  <2>2. ~PowerCut
    BY <2>1 DEF PowerCut, vars, shell
  <2> QED BY <2>1, <2>2
<1> QED BY <1>1, <1>2, <1>3, <1>4 DEF ScreenNext

-----------------------------------------------------------------------------
(* Truth.                                                                  *)

(* Every image is in place, and the script, if it still runs, will not     *)
(* write any more before it is started again.                              *)
Settled ==
  /\ Complete /\ phase # "off"
  /\ phase = "running" => \A q \in 1 .. Len(script) : script[q].op \in Writes => q < pc

(* What the screen has read is what the script wrote at some time.         *)
Heard == shown \in Int /\ prev \in -1 .. 100 /\ ahead \in 0 .. 100

(* A last node of 100, a full bar and the success page all come after the  *)
(* last image.                                                             *)
Honest ==
  \/ prev >= 100
  \/ visible = "success"
  \/ visible = "upgrading" /\ shown >= 100
  => Settled

(* Once settled, only a power cut, which the screen does not survive,      *)
(* starts the script again.                                                *)
LEMMA StaysSettled ==
  ASSUME Shape, Settled, [Next]_vars, ~PowerCut
  PROVE  Settled'
<1>0. /\ Len(script) \in Nat /\ pc \in 1 .. Len(script) + 1
      /\ writing => At(Writes)
  BY Commanded DEF Shape
<1>1. ~WriteBegin /\ ~WriteEnd /\ ~WriteFails
  <2>1. ~At(Writes)
    BY <1>0 DEF Settled, At
  <2>2. ~writing
    BY <2>1, <1>0
  <2> QED BY <2>1, <2>2 DEF WriteBegin, WriteEnd, WriteFails, Writes
<1>2. part' = part /\ job' = job /\ script' = script
  BY <1>1 DEF Next, Start, ScriptNext, SetProp, Check, CheckFails, UserScript, Finish, PowerCut,
     package, vars
<1>3. Complete'
  BY <1>2 DEF Complete, Settled, Payload
<1>4. CASE SetProp \/ Check \/ UserScript
  <2>1. phase' = "running" /\ phase = "running" /\ pc' = pc + 1
    BY <1>4 DEF SetProp, Check, UserScript, At
  <2> QED BY <2>1, <1>0, <1>2, <1>3 DEF Settled
<1>5. CASE CheckFails \/ Finish
  <2>1. phase' \in {"failed", "done"}
    BY <1>5 DEF CheckFails, Finish, GiveUp
  <2> QED BY <2>1, <1>2, <1>3 DEF Settled
<1>6. CASE UNCHANGED vars
  <2>1. phase' = phase /\ pc' = pc
    BY <1>6 DEF vars, shell
  <2> QED BY <2>1, <1>2, <1>3 DEF Settled
<1>7. ~Start
  BY DEF Start, Settled
<1> QED BY <1>1, <1>4, <1>5, <1>6, <1>7 DEF Next, ScriptNext

(* The values that are read.                                               *)
LEMMA HeardStep ==
  ASSUME Shape, Heard, [ScreenNext]_allVars
  PROVE  Heard'
<1>0. /\ current \in -1 .. 100 /\ next \in 0 .. 100
  BY DEF Shape
<1>1. CASE UNCHANGED screen
  BY <1>1 DEF screen, Heard
<1>2. CASE Restart
  <2>1. shown' \in StartAt /\ prev' = 0 /\ ahead' = 0
    BY <1>2 DEF Restart, Ui!Restart
  <2> QED BY <2>1, StartAssumption DEF Heard
<1>3. CASE Draw
  <2>1. CASE Ui!SyncCurrent
    BY <1>0, <2>1 DEF Ui!SyncCurrent, Heard
  <2>2. CASE Ui!SyncNext
    BY <1>0, <2>2 DEF Ui!SyncNext, Heard
  <2>3. CASE Ui!DrawPage
    BY <2>3 DEF Ui!DrawPage, Heard
  <2>4. CASE Ui!DrawProgress
    BY <2>4 DEF Ui!DrawProgress, Ui!Calc, Ui!Moved, Heard
  <2>5. CASE Ui!Close
    BY <1>0, <2>5 DEF Ui!Close, Heard
  <2> QED BY <1>3, <2>1, <2>2, <2>3, <2>4, <2>5 DEF Draw, Ui!Next
<1> QED BY <1>1, <1>2, <1>3, AlsoInstall

(* A bar that moves to 100 has seen a last node of 100.                    *)
LEMMA FullOnlyAtHundred ==
  ASSUME Heard, Ui!Calc >= 100
  PROVE  prev >= 100
BY DEF Heard, Ui!Calc, Ui!Moved

(* Honest, across every step.                                              *)
LEMMA HonestStep ==
  ASSUME Shape, Claimed, Heard, Honest, [ScreenNext]_allVars
  PROVE  Honest'
<1>1. [Next]_vars
  BY AlsoInstall
<1>2. CASE UNCHANGED screen /\ ~PowerCut
  <2>1. prev' = prev /\ visible' = visible /\ shown' = shown
    BY <1>2 DEF screen
  <2>2. Settled => Settled'
    BY <1>1, <1>2, StaysSettled
  <2> QED BY <2>1, <2>2 DEF Honest
<1>3. CASE Restart
  BY <1>3 DEF Restart, Ui!Restart, Honest
<1>4. CASE Draw
  <2>1. UNCHANGED vars
    BY <1>4 DEF Draw
  <2>2. Settled' <=> Settled
    BY <2>1 DEF Settled, Complete, Payload, vars, package, shell
  <2>3. current >= 100 => Settled
    <3>1. current \in -1 .. 100 /\ (phase = "off" => current = 0)
      BY DEF Shape
    <3> QED BY <3>1 DEF Claimed, Settled
  <2>4. CASE Ui!SyncCurrent \/ Ui!Close
    <3>1. prev' = current /\ visible' = visible /\ shown' = shown
      BY <2>4 DEF Ui!SyncCurrent, Ui!Close
    <3> QED BY <3>1, <2>2, <2>3 DEF Honest
  <2>5. CASE Ui!SyncNext
    BY <2>2, <2>5 DEF Ui!SyncNext, Honest
  <2>6. CASE Ui!DrawPage
    <3>1. prev' = prev /\ shown' = shown /\ visible' \in {visible, "logo", "fail"}
      BY <2>6 DEF Ui!DrawPage, Ui!Show
    <3> QED BY <2>2, <3>1 DEF Honest
  <2>7. CASE Ui!DrawProgress
    <3>1. prev' = prev /\ shown' = Ui!Calc
      BY <2>7 DEF Ui!DrawProgress
    <3>2. visible' = "success" => visible = "success" \/ Ui!Calc >= 100
      BY <2>7 DEF Ui!DrawProgress, Ui!Show
    <3>3. Ui!Calc >= 100 => prev >= 100
      BY FullOnlyAtHundred
    <3> QED BY <2>2, <3>1, <3>2, <3>3 DEF Honest
  <2> QED BY <1>4, <2>4, <2>5, <2>6, <2>7 DEF Draw, Ui!Next
<1> QED BY <1>2, <1>3, <1>4, AlsoInstall

(* Success is shown only when every image is in place, for every package,  *)
(* configuration and timing, and whatever is cut off.                      *)
THEOREM ShownSuccessIsReal == ScreenSpec => []SuccessIsReal
<1> DEFINE IInv == Shape /\ Written /\ Claimed /\ Heard /\ Honest
<1>1. ScreenInit => IInv
  <2>1. ScreenInit => Heard /\ Honest
    BY StartAssumption DEF ScreenInit, Ui!Init, Heard, Honest
  <2> QED BY <2>1, ShapeInit, WrittenInit DEF ScreenInit
<1>2. IInv /\ [ScreenNext]_allVars => IInv'
  BY AlsoInstall, ShapeStep, WrittenStep, ClaimedStep, HeardStep, HonestStep
<1>3. IInv => SuccessIsReal
  BY DEF Honest, Settled, SuccessIsReal
<1> QED BY <1>1, <1>2, <1>3, PTL DEF ScreenSpec

-----------------------------------------------------------------------------
(* The reboot.                                                             *)

(* Only a failure reads as less than 0, and only one reboots; the script   *)
(* does nothing behind it.                                                 *)
Minded == (current < 0 => phase = "failed") /\ (rebooted => phase = "failed")

(* A script that failed stays so.                                          *)
LEMMA FailureStays ==
  ASSUME Shape, phase = "failed", [Next]_vars
  PROVE  phase' = "failed"
<1>1. ~writing
  BY DEF Shape, At
<1> QED
  BY <1>1 DEF Next, Start, ScriptNext, SetProp, Check, CheckFails, WriteBegin, WriteEnd, UserScript,
     Finish, WriteFails, PowerCut, At, vars, shell

(* Minded, across every step.                                              *)
LEMMA MindedStep ==
  ASSUME Shape, Heard, Minded, [ScreenNext]_allVars
  PROVE  Minded'
<1>0. current \in -1 .. 100
  BY DEF Shape
<1>1. [Next]_vars
  BY AlsoInstall
<1>2. phase = "failed" => phase' = "failed"
  BY <1>1, FailureStays
<1>3. current' < 0 => phase' = "failed"
  <2>1. CASE SetProp
    <3>1. current' \in 0 .. 100 \/ current' = current
      <4>1. pc \in 1 .. Len(script) /\ (script[pc].op = "current" => script[pc].arg \in 0 .. 100)
        <5>1. pc \in 1 .. Len(script)
          BY <2>1, Commanded DEF SetProp, At
        <5> QED BY <5>1, ScriptLines DEF Shape
      <4>2. current' = IF script[pc].op = "current" THEN script[pc].arg ELSE current
        BY <2>1 DEF SetProp, Arg
      <4> QED BY <4>1, <4>2
    <3> QED BY <3>1, <1>0, <1>2 DEF Minded
  <2>2. CASE CheckFails \/ WriteFails
    BY <2>2 DEF CheckFails, WriteFails, GiveUp
  <2>3. CASE PowerCut
    BY <2>3 DEF PowerCut
  <2>4. CASE Start \/ Check \/ WriteBegin \/ WriteEnd \/ UserScript \/ Finish \/ UNCHANGED vars
    <3>1. current' = current
      BY <2>4 DEF Start, Check, WriteBegin, WriteEnd, UserScript, Finish, vars, progress
    <3> QED BY <3>1, <1>2 DEF Minded
  <2> QED BY <1>1, <2>1, <2>2, <2>3, <2>4 DEF Next, ScriptNext
<1>4. rebooted' => phase' = "failed"
  <2>1. CASE UNCHANGED screen
    BY <1>2, <2>1 DEF screen, Minded
  <2>2. CASE Restart
    BY <2>2 DEF Restart, Ui!Restart
  <2>3. CASE Draw
    <3>1. rebooted' => rebooted \/ current < 0
      <4>1. CASE Ui!Close
        <5>1. rebooted' => current < 0 \/ current > 100
          BY <4>1, Zenon DEF Ui!Close
        <5> QED BY <1>0, <5>1
      <4>2. CASE Ui!SyncCurrent \/ Ui!SyncNext \/ Ui!DrawPage \/ Ui!DrawProgress
        BY <4>2, Zenon DEF Ui!SyncCurrent, Ui!SyncNext, Ui!DrawPage, Ui!DrawProgress
      <4> QED BY <2>3, <4>1, <4>2 DEF Draw, Ui!Next
    <3> QED BY <1>2, <3>1 DEF Minded
  <2> QED BY <2>1, <2>2, <2>3, AlsoInstall
<1> QED BY <1>3, <1>4 DEF Minded

(* The device is never rebooted under a running script.                    *)
THEOREM RebootsOnlyFailed == ScreenSpec => []NoRebootMidUpdate
<1> DEFINE IInv == Shape /\ Heard /\ Minded
<1>1. ScreenInit => IInv
  <2>1. ScreenInit => Heard
    BY StartAssumption DEF ScreenInit, Ui!Init, Heard
  <2>2. ScreenInit => Minded
    BY DEF ScreenInit, Init, Ui!Init, Minded
  <2> QED BY <2>1, <2>2, ShapeInit DEF ScreenInit
<1>2. IInv /\ [ScreenNext]_allVars => IInv'
  BY AlsoInstall, ShapeStep, HeardStep, MindedStep
<1>3. IInv => NoRebootMidUpdate
  BY DEF Minded, NoRebootMidUpdate
<1> QED BY <1>1, <1>2, <1>3, PTL DEF ScreenSpec

-----------------------------------------------------------------------------
(* The bar.                                                                *)

(* A full bar ends the loop.                                               *)
Ending == visible = "upgrading" /\ shown >= 100 => at \in {"closing", "ended"}

(* Ending, across every step.                                              *)
LEMMA EndingStep ==
  ASSUME Heard, Ending, [ScreenNext]_allVars
  PROVE  Ending'
<1>1. CASE UNCHANGED screen
  BY <1>1 DEF screen, Ending
<1>2. CASE Restart
  BY <1>2 DEF Restart, Ui!Restart, Ending
<1>3. CASE Draw
  <2>1. CASE Ui!SyncCurrent \/ Ui!SyncNext \/ Ui!Close
    BY <2>1 DEF Ui!SyncCurrent, Ui!SyncNext, Ui!Close, Ending
  <2>2. CASE Ui!DrawPage
    BY <2>2 DEF Ui!DrawPage, Ui!Turn, Ui!Show, Ending
  <2>3. CASE Ui!DrawProgress
    <3>1. shown' = Ui!Calc /\ at' \in {"sync", "closing"} /\ (Ui!Calc >= 100 => at' = "closing")
      BY <2>3 DEF Ui!DrawProgress, Ui!EndTurn, Ui!Over
    <3> QED BY <3>1 DEF Ending
  <2> QED BY <1>3, <2>1, <2>2, <2>3 DEF Draw, Ui!Next
<1> QED BY <1>1, <1>2, <1>3, AlsoInstall

(* The bar does not go back, between any two reads of the screen.          *)
THEOREM BarOnlyAdvances == ScreenSpec => BarNeverBack
<1> DEFINE IInv == Shape /\ Heard /\ Ending
<1>1. ScreenInit => IInv
  <2>1. ScreenInit => Heard /\ Ending
    BY StartAssumption DEF ScreenInit, Ui!Init, Heard, Ending
  <2> QED BY <2>1, ShapeInit DEF ScreenInit
<1>2. IInv /\ [ScreenNext]_allVars => IInv'
  BY AlsoInstall, ShapeStep, HeardStep, EndingStep
<1>3. IInv /\ [ScreenNext]_allVars =>
        [visible = "upgrading" /\ visible' \in {"upgrading", "success"} => shown' >= shown]_allVars
  <2> SUFFICES ASSUME IInv, [ScreenNext]_allVars, visible = "upgrading",
                      visible' \in {"upgrading", "success"}
               PROVE  shown' >= shown
    OBVIOUS
  <2>0. shown \in Int
    BY DEF Heard
  <2>1. CASE UNCHANGED screen
    BY <2>0, <2>1 DEF screen
  <2>2. CASE Restart
    BY <2>2 DEF Restart, Ui!Restart
  <2>3. CASE Ui!DrawProgress
    <3>1. shown' = Ui!Calc /\ shown < 100
      BY <2>0, <2>3 DEF Ui!DrawProgress, Ui!Turn, Ending
    <3> QED BY <2>0, <3>1 DEF Ui!Calc, Ui!Moved
  <2>4. CASE Ui!SyncCurrent \/ Ui!SyncNext \/ Ui!DrawPage \/ Ui!Close
    BY <2>0, <2>4 DEF Ui!SyncCurrent, Ui!SyncNext, Ui!DrawPage, Ui!Close
  <2> QED BY <2>1, <2>2, <2>3, <2>4, AlsoInstall DEF Draw, Ui!Next
<1> QED BY <1>1, <1>2, <1>3, PTL DEF ScreenSpec, BarNeverBack

-----------------------------------------------------------------------------
(* The bar and the script.                                                 *)

(* What the script has announced, while it runs, in nodes that ascend.     *)
Known ==
  EndNode(job) >= 30 =>
    /\ phase = "off" => next = 0
    /\ phase = "running" =>
         /\ \/ current = 0
            \/ \E q \in 1 .. pc - 1 : script[q].op = "current" /\ script[q].arg = current
         /\ \A q \in 1 .. pc - 1 : script[q].op = "next" => script[q].arg <= next
         /\ \A q \in pc .. Len(script) : script[q].op = "next" => next <= script[q].arg

(* What the screen has read, the script has not gone back behind.          *)
Within ==
  EndNode(job) >= 30 => ahead <= next /\ (prev <= current \/ prev <= next)

(* The script of the package, for the screen.                              *)
LEMMA Heralded ==
  ASSUME Shape
  PROVE  /\ Len(script) \in Nat /\ pc \in 1 .. Len(script) + 1
         /\ NextsInOrder(job, script) /\ NodesCovered(job, script)
         /\ \A p \in 1 .. Len(script) :
              script[p].op \in {"current", "next"} => script[p].arg \in 0 .. 100
         /\ current \in -1 .. 100 /\ next \in 0 .. 100
<1>1. Packaged
  BY DEF Shape
<1>2. IsJob(job)
  BY <1>1, JobsAreJobs DEF Packaged
<1>3. NextsInOrder(job, script) /\ NodesCovered(job, script)
  BY <1>1, <1>2, ScriptHeralds DEF Packaged
<1> QED BY <1>1, <1>3, ScriptLines DEF Shape

(* Known, across every step of the device.                                 *)
LEMMA KnownStep ==
  ASSUME Shape, Known, [Next]_vars
  PROVE  Known'
<1>0. /\ Len(script) \in Nat /\ pc \in 1 .. Len(script) + 1 /\ next \in 0 .. 100
      /\ NextsInOrder(job, script)
      /\ \A p \in 1 .. Len(script) :
           script[p].op \in {"current", "next"} => script[p].arg \in 0 .. 100
  BY Heralded
<1>1. job' = job /\ script' = script
  BY DEF Next, Start, ScriptNext, SetProp, Check, CheckFails, WriteBegin, WriteEnd, UserScript,
     Finish, WriteFails, PowerCut, package, vars
<1> SUFFICES ASSUME EndNode(job) >= 30, EndNode(job)' = EndNode(job)
             PROVE  Known'
  BY <1>1 DEF Known, EndNode
<1>2. CASE Start
  <2>1. phase' = "running" /\ pc' = 1 /\ current' = current /\ next' = next
        /\ current = 0 /\ next = 0
    BY <1>2 DEF Start, progress, Known, Shape
  <2>2. \A q \in 1 .. 1 - 1 : FALSE
    OBVIOUS
  <2>3. \A q \in 1 .. Len(script) : script[q].op = "next" => script[q].arg \in 0 .. 100
    BY <1>0
  <2>4. \A v \in 0 .. 100 : 0 <= v
    OBVIOUS
  <2> QED BY <1>1, <2>1, <2>2, <2>3, <2>4 DEF Known
<1>3. CASE SetProp
  <2>1. /\ phase = "running" /\ phase' = "running" /\ pc' = pc + 1 /\ pc \in 1 .. Len(script)
        /\ current' = IF script[pc].op = "current" THEN script[pc].arg ELSE current
        /\ next' = IF script[pc].op = "next" THEN script[pc].arg ELSE next
    BY <1>0, <1>3 DEF SetProp, At, Arg
  <2>2. \A q \in 1 .. pc + 1 - 1 : q \in 1 .. pc - 1 \/ q = pc
    BY <1>0
  <2>3. \/ current' = 0
        \/ \E q \in 1 .. pc + 1 - 1 : script[q].op = "current" /\ script[q].arg = current'
    <3>1. pc \in 1 .. pc + 1 - 1 /\ \A q \in 1 .. pc - 1 : q \in 1 .. pc + 1 - 1
      BY <1>0
    <3> QED BY <2>1, <3>1 DEF Known
  <2>4. ASSUME NEW q \in 1 .. pc + 1 - 1, script[q].op = "next"
        PROVE  script[q].arg <= next'
    <3>1. CASE script[pc].op = "next"
      <4>1. next' = script[pc].arg /\ script[pc].arg \in 0 .. 100
        BY <1>0, <2>1, <3>1
      <4>2. CASE q = pc
        BY <4>1, <4>2
      <4>3. CASE q \in 1 .. pc - 1
        <5>1. q \in 1 .. Len(script) /\ q < pc
          BY <1>0, <4>3
        <5> QED BY <1>0, <2>1, <2>4, <3>1, <4>1, <5>1 DEF NextsInOrder
      <4> QED BY <2>2, <4>2, <4>3
    <3>2. CASE script[pc].op # "next"
      <4>1. next' = next /\ q # pc
        BY <2>1, <2>4, <3>2
      <4> QED BY <2>1, <2>2, <2>4, <4>1 DEF Known
    <3> QED BY <3>1, <3>2
  <2>5. ASSUME NEW q \in pc + 1 .. Len(script), script[q].op = "next"
        PROVE  next' <= script[q].arg
    <3>1. q \in pc .. Len(script) /\ q \in 1 .. Len(script) /\ pc < q
      BY <1>0
    <3>2. CASE script[pc].op = "next"
      <4>1. next' = script[pc].arg
        BY <2>1, <3>2
      <4> QED BY <1>0, <2>1, <2>5, <3>1, <3>2, <4>1 DEF NextsInOrder
    <3>3. CASE script[pc].op # "next"
      BY <2>1, <2>5, <3>1, <3>3 DEF Known
    <3> QED BY <3>2, <3>3
  <2> QED BY <1>1, <2>1, <2>3, <2>4, <2>5 DEF Known
<1>4. CASE Check \/ WriteEnd \/ UserScript
  <2>1. /\ phase = "running" /\ phase' = "running" /\ pc' = pc + 1 /\ pc \in 1 .. Len(script)
        /\ current' = current /\ next' = next /\ script[pc].op # "next"
    <3>1. CASE Check \/ UserScript
      BY <1>0, <3>1 DEF Check, UserScript, At, progress
    <3>2. CASE WriteEnd
      <4>1. At(Writes)
        BY <3>2 DEF WriteEnd, Shape
      <4> QED BY <1>0, <3>2, <4>1 DEF WriteEnd, At, Writes, progress
    <3> QED BY <1>4, <3>1, <3>2
  <2>2. /\ \A q \in 1 .. pc + 1 - 1 : q \in 1 .. pc - 1 \/ q = pc
        /\ \A q \in 1 .. pc - 1 : q \in 1 .. pc + 1 - 1
        /\ \A q \in pc + 1 .. Len(script) : q \in pc .. Len(script)
    BY <1>0
  <2>3. /\ \/ current = 0
           \/ \E q \in 1 .. pc - 1 : script[q].op = "current" /\ script[q].arg = current
        /\ \A q \in 1 .. pc - 1 : script[q].op = "next" => script[q].arg <= next
        /\ \A q \in pc .. Len(script) : script[q].op = "next" => next <= script[q].arg
    BY <2>1 DEF Known
  <2>4. \/ current = 0
        \/ \E q \in 1 .. pc + 1 - 1 : script[q].op = "current" /\ script[q].arg = current
    BY <2>2, <2>3
  <2>5. \A q \in 1 .. pc + 1 - 1 : script[q].op = "next" => script[q].arg <= next
    BY <2>1, <2>2, <2>3
  <2>6. \A q \in pc + 1 .. Len(script) : script[q].op = "next" => next <= script[q].arg
    BY <2>2, <2>3
  <2> QED BY <1>1, <2>1, <2>4, <2>5, <2>6 DEF Known
<1>5. CASE WriteBegin \/ UNCHANGED vars
  <2>1. phase' = phase /\ pc' = pc /\ current' = current /\ next' = next
    BY <1>5 DEF WriteBegin, progress, vars, shell
  <2> QED BY <1>1, <2>1 DEF Known
<1>6. CASE CheckFails \/ WriteFails \/ Finish
  <2>1. phase' \in {"failed", "done"}
    BY <1>6 DEF CheckFails, WriteFails, Finish, GiveUp
  <2> QED BY <2>1 DEF Known
<1>7. CASE PowerCut
  BY <1>7 DEF PowerCut, Known
<1> QED BY <1>2, <1>3, <1>4, <1>5, <1>6, <1>7 DEF Next, ScriptNext

(* The script does not go back behind what it announced or reached, unless *)
(* the power fails.                                                        *)
LEMMA NeverBehind ==
  ASSUME Shape, Ahead, Known, [Next]_vars, ~PowerCut, EndNode(job) >= 30
  PROVE  next <= next' /\ (current <= current' \/ current <= next')
<1>0. /\ Len(script) \in Nat /\ pc \in 1 .. Len(script) + 1
      /\ current \in -1 .. 100 /\ next \in 0 .. 100
      /\ NodesCovered(job, script)
      /\ \A p \in 1 .. Len(script) :
           script[p].op \in {"current", "next"} => script[p].arg \in 0 .. 100
  BY Heralded
<1>1. CASE SetProp
  <2>1. /\ phase = "running" /\ pc \in 1 .. Len(script) /\ pc \in pc .. Len(script)
        /\ current' = IF script[pc].op = "current" THEN script[pc].arg ELSE current
        /\ next' = IF script[pc].op = "next" THEN script[pc].arg ELSE next
    BY <1>0, <1>1 DEF SetProp, At, Arg
  <2>2. script[pc].op = "next" => next <= script[pc].arg
    BY <2>1 DEF Known
  <2>3. script[pc].op = "current" => current <= script[pc].arg
    BY <2>1 DEF Ahead
  <2> QED BY <1>0, <2>1, <2>2, <2>3
<1>2. CASE CheckFails \/ WriteFails
  <2>1. next' = next /\ phase = "running" /\ pc \in 1 .. Len(script)
        /\ script[pc].op \in Checks \cup Writes
    <3>1. CASE CheckFails
      BY <1>0, <3>1 DEF CheckFails, At, Checks
    <3>2. CASE WriteFails
      <4>1. At(Writes)
        BY <3>2 DEF WriteFails, Shape
      <4> QED BY <1>0, <3>2, <4>1 DEF WriteFails, At
    <3> QED BY <1>2, <3>1, <3>2
  <2>2. \/ current = 0
        \/ \E q \in 1 .. pc - 1 : script[q].op = "current" /\ script[q].arg = current
    BY <2>1 DEF Known
  <2>3. ASSUME NEW q \in 1 .. pc - 1, script[q].op = "current", script[q].arg = current
        PROVE  current <= next
    <3>1. q \in 1 .. Len(script) /\ q < pc
      BY <1>0
    <3>2. PICK r \in 1 .. pc - 1 : script[r].op = "next" /\ script[q].arg <= script[r].arg
      BY <1>0, <2>1, <2>3, <3>1 DEF NodesCovered
    <3>3. script[r].arg <= next /\ script[r].arg \in 0 .. 100
      <4>1. r \in 1 .. Len(script)
        BY <1>0
      <4>2. script[r].arg \in 0 .. 100
        BY <1>0, <3>2, <4>1
      <4>3. script[r].arg <= next
        BY <2>1, <3>2 DEF Known
      <4> QED BY <4>2, <4>3
    <3>4. current <= script[r].arg
      BY <2>3, <3>2
    <3>5. current \in Int /\ next \in Int /\ script[r].arg \in Int
      <4>1. current \in -1 .. 100 /\ next \in 0 .. 100
        BY <1>0
      <4> QED BY <3>3, <4>1
    <3>6. \A u, v, w \in Int : u <= v /\ v <= w => u <= w
      OBVIOUS
    <3> QED BY <3>3, <3>4, <3>5, <3>6
  <2>4. current <= next
    <3>1. CASE current = 0
      <4>1. next \in 0 .. 100
        BY <1>0
      <4> QED BY <3>1, <4>1
    <3>2. CASE \E q \in 1 .. pc - 1 : script[q].op = "current" /\ script[q].arg = current
      BY <2>3, <3>2, Zenon
    <3> QED BY <2>2, <3>1, <3>2
  <2>5. next \in Int /\ current \in Int
    BY <1>0
  <2> QED BY <2>1, <2>4, <2>5
<1>3. CASE Start \/ Check \/ WriteBegin \/ WriteEnd \/ UserScript \/ Finish \/ UNCHANGED vars
  <2>1. current' = current /\ next' = next
    BY <1>3 DEF Start, Check, WriteBegin, WriteEnd, UserScript, Finish, progress, vars
  <2> QED BY <1>0, <2>1
<1> QED BY <1>1, <1>2, <1>3 DEF Next, ScriptNext

(* Within, across every step.                                              *)
LEMMA WithinStep ==
  ASSUME Shape, Shape', Ahead, Known, Heard, Within, [ScreenNext]_allVars
  PROVE  Within'
<1>0. /\ current \in -1 .. 100 /\ next \in 0 .. 100
      /\ current' \in -1 .. 100 /\ next' \in 0 .. 100
      /\ prev \in -1 .. 100 /\ ahead \in 0 .. 100
  BY DEF Shape, Heard
<1>1. [Next]_vars
  BY AlsoInstall
<1>2. job' = job
  BY <1>1 DEF Next, Start, ScriptNext, SetProp, Check, CheckFails, WriteBegin, WriteEnd, UserScript,
     Finish, WriteFails, PowerCut, package, vars
<1> SUFFICES ASSUME EndNode(job) >= 30
             PROVE  ahead' <= next' /\ (prev' <= current' \/ prev' <= next')
  BY <1>2 DEF Within, EndNode
<1>3. CASE UNCHANGED screen /\ ~PowerCut
  <2>1. prev' = prev /\ ahead' = ahead
    BY <1>3 DEF screen
  <2>2. next <= next' /\ (current <= current' \/ current <= next')
    BY <1>1, <1>3, NeverBehind
  <2>3. ahead <= next /\ (prev <= current \/ prev <= next)
    BY DEF Within
  <2> QED BY <1>0, <2>1, <2>2, <2>3
<1>4. CASE Restart
  <2>1. prev' = 0 /\ ahead' = 0
    BY <1>4 DEF Restart, Ui!Restart
  <2> QED BY <1>0, <2>1
<1>5. CASE Draw
  <2>1. current' = current /\ next' = next
    BY <1>5 DEF Draw, vars, progress
  <2>2. prev' \in {prev, current} /\ ahead' \in {ahead, next}
    BY <1>5 DEF Draw, Ui!Next, Ui!SyncCurrent, Ui!SyncNext, Ui!DrawPage, Ui!DrawProgress, Ui!Close
  <2>3. ahead <= next /\ (prev <= current \/ prev <= next)
    BY DEF Within
  <2> QED BY <1>0, <2>1, <2>2, <2>3
<1> QED BY <1>3, <1>4, <1>5, AlsoInstall

(* The greatest of three.                                                  *)
LEMMA MaxOfThree ==
  ASSUME NEW a \in Int, NEW b \in Int, NEW c \in Int
  PROVE  /\ Max({a, b, c}) \in Int
         /\ a <= Max({a, b, c}) /\ b <= Max({a, b, c}) /\ c <= Max({a, b, c})
<1>1. \E x \in {a, b, c} : \A y \in {a, b, c} : x >= y
  OBVIOUS
<1> DEFINE m == Max({a, b, c})
<1>2. m \in {a, b, c} /\ \A y \in {a, b, c} : m >= y
  BY <1>1 DEF Max
<1>3. SUFFICES m \in Int /\ a <= m /\ b <= m /\ c <= m
  OBVIOUS
<1> HIDE DEF m
<1> QED BY <1>2

(* The bar never moves beyond what the script has announced by now.        *)
THEOREM BarIsAnnounced == ScreenSpec => BarWithinScript
<1> DEFINE IInv == Shape /\ Ahead /\ Known /\ Heard /\ Within
<1>1. ScreenInit => IInv
  <2>1. ScreenInit => Heard /\ Known /\ Within
    BY StartAssumption DEF ScreenInit, Ui!Init, Init, Heard, Known, Within
  <2>2. ScreenInit => Ahead
    BY DEF ScreenInit, Init, Ahead
  <2> QED BY <2>1, <2>2, ShapeInit DEF ScreenInit
<1>2. IInv /\ [ScreenNext]_allVars => IInv'
  <2> SUFFICES ASSUME IInv, [ScreenNext]_allVars PROVE IInv'
    OBVIOUS
  <2>1. [Next]_vars
    BY AlsoInstall
  <2>2. Shape' /\ Ahead' /\ Known'
    BY <2>1, ShapeStep, AheadStep, KnownStep
  <2>3. Heard'
    BY HeardStep
  <2>4. Within'
    BY <2>2, WithinStep
  <2> QED BY <2>2, <2>3, <2>4
<1>3. IInv /\ [ScreenNext]_allVars =>
        [vars' = vars /\ EndNode(job) >= 30 => shown' <= Max({shown, current, next})]_allVars
  <2> SUFFICES ASSUME IInv, [ScreenNext]_allVars, vars' = vars, EndNode(job) >= 30
               PROVE  shown' <= Max({shown, current, next})
    OBVIOUS
  <2>0. /\ shown \in Int /\ current \in -1 .. 100 /\ next \in 0 .. 100
        /\ prev \in -1 .. 100 /\ ahead \in 0 .. 100
    BY DEF Heard, Shape
  <2>1. shown' <= shown \/ shown' <= prev \/ shown' <= ahead
    <3>1. CASE UNCHANGED screen
      BY <2>0, <3>1 DEF screen
    <3>2. ~Restart
      BY DEF Restart, PowerCut, vars, shell
    <3>3. CASE Ui!DrawProgress
      <4>1. shown' = Ui!Calc
        BY <3>3 DEF Ui!DrawProgress
      <4>2. Ui!Moved <= shown \/ Ui!Moved <= prev \/ Ui!Moved <= ahead
        BY <2>0 DEF Ui!Moved, Ui!Quick, Ui!Creep, Ui!Room
      <4>3. Ui!Moved \in Int
        BY <2>0 DEF Ui!Moved
      <4>4. Ui!Calc <= Ui!Moved /\ Ui!Calc \in Int
        BY <4>3 DEF Ui!Calc
      <4> QED BY <2>0, <4>1, <4>2, <4>3, <4>4
    <3>4. CASE Ui!SyncCurrent \/ Ui!SyncNext \/ Ui!DrawPage \/ Ui!Close
      BY <2>0, <3>4 DEF Ui!SyncCurrent, Ui!SyncNext, Ui!DrawPage, Ui!Close
    <3> QED BY <3>1, <3>2, <3>3, <3>4, AlsoInstall DEF Draw, Ui!Next
  <2>2. shown' \in Int
    BY HeardStep DEF Heard
  <2>3. ahead <= next /\ (prev <= current \/ prev <= next)
    BY DEF Within
  <2> DEFINE m == Max({shown, current, next})
  <2>4. m \in Int /\ shown <= m /\ current <= m /\ next <= m
    BY <2>0, MaxOfThree
  <2>5. SUFFICES shown' <= m
    OBVIOUS
  <2> HIDE DEF m
  <2> QED BY <2>0, <2>1, <2>2, <2>3, <2>4
<1> QED BY <1>1, <1>2, <1>3, PTL DEF ScreenSpec, BarWithinScript
=============================================================================
