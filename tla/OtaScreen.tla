----------------------------- MODULE OtaScreen ------------------------------
(***************************************************************************)
(* The upgrade screen beside the running ota.sh: two processes that share  *)
(* ota.progress.current and ota.progress.next.  ota.sh writes them one by  *)
(* one, otaUI reads them one by one, and neither waits for the other.      *)
(***************************************************************************)
EXTENDS OtaInstall

CONSTANTS Configs, StartAt, TickMs, SyncMs, Wrap, SlowTicks   \* as in OtaUi

ASSUME TickAssumption == {TickMs, SyncMs, Wrap, SlowTicks} \subseteq Nat \ {0}

(* -p takes any number.                                                    *)
ASSUME StartAssumption == StartAt \subseteq Int

VARIABLES config, logo, at, ticks, shown, prev, ahead, fast, slow, visible, rebooted

Ui == INSTANCE OtaUi

ASSUME ConfigAssumption == Configs \subseteq Ui!Config

screen == <<config, logo, at, ticks, shown, prev, ahead, fast, slow, visible,
            rebooted>>

allVars == <<vars, screen>>

ScreenInit == Init /\ Ui!Init

Install == (Start \/ ScriptNext \/ WriteFails) /\ UNCHANGED screen

Draw == Ui!Next /\ UNCHANGED vars

(* A power cut ends both; both are started again.                          *)
Restart == PowerCut /\ Ui!Restart

ScreenNext == Install \/ Draw \/ Restart

(* Both processes keep running; a write is not assumed to succeed.         *)
ScreenSpec ==
  /\ ScreenInit /\ [][ScreenNext]_allVars
  /\ WF_allVars((Start \/ ScriptNext) /\ UNCHANGED screen)
  /\ WF_allVars(Draw)

-----------------------------------------------------------------------------
(* The user believes the screen: it shows 100, or the success page, only   *)
(* when every image of the package is in place.                            *)
SuccessIsReal == (visible = "upgrading" /\ shown >= 100) \/ visible = "success"
                    => Complete

(* The bar does not go back while it is on the screen, however the reads   *)
(* of the screen fall between the writes of the script.                    *)
BarNeverBack ==
  [][visible = "upgrading" /\ visible' \in {"upgrading", "success"}
        => shown' >= shown]_allVars

(* The screen works with old values, but the bar never moves beyond what   *)
(* the script has announced by now, unless a differential package leaves   *)
(* no room between 30 and its end script.                                  *)
BarWithinScript ==
  [][vars' = vars /\ EndNode(job) >= 30
        => shown' <= Max({shown, current, next})]_allVars

(* The end command reboots the device: never while the script is still     *)
(* writing, whatever ended the screen.                                     *)
NoRebootMidUpdate == rebooted => phase = "failed"

WholeConfig == config.pages = Ui!Pages /\ config.widget

(* A failed update is shown and the device rebooted, whenever it fails and *)
(* however far the screen has got.                                         *)
FailureReboots ==
  (phase = "failed" /\ WholeConfig /\ ~logo)
     ~> (rebooted /\ visible = "fail")

(* An update that is complete ends on the success page, with the bar that  *)
(* creeps, is capped and reads rarely, and however the counter wraps.  The *)
(* package has to end at 100: one whose end script has a share and is not  *)
(* there does not, and its screen stays.                                   *)
SuccessIsShown ==
  (phase = "done" /\ (job.end \/ job.endpart = 0) /\ WholeConfig /\ ~logo)
     ~> (visible = "success" /\ at = "ended")
=============================================================================
