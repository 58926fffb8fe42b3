------------------------------- MODULE OtaUi --------------------------------
(***************************************************************************)
(* otaUI, the upgrade screen (ui/ui_ota.c, with the pages of               *)
(* ui/ui_display.c): a loop that reads two properties now and then, moves  *)
(* the displayed percentage towards them tick by tick, and ends when the   *)
(* update has failed or the display has reached 100.                       *)
(*                                                                         *)
(* The properties belong to somebody else.  The two reads of a             *)
(* synchronisation are steps of their own, because ota.sh may set both     *)
(* between them; the rest of a turn of the loop is one step.               *)
(***************************************************************************)
EXTENDS Integers

CONSTANTS
  Configs,      \* what ota_ui_config.json may define: see Config below
  StartAt,      \* the values of the -p option
  TickMs,       \* UI_TICK_MS, what a turn adds to count_tick_ms
  SyncMs,       \* CONFIG_OTA_UI_PROG_SYNC_TIME
  Wrap,         \* 2^32: count_tick_ms wraps, and is compared as unsigned
  SlowTicks     \* turns for a percent beyond the last node: 100

VARIABLES
  current,    \* ota.progress.current
  next,       \* ota.progress.next
  config,     \* the configuration in use
  logo,       \* -l
  at,         \* where the loop is
  ticks,      \* count_tick_ms
  shown,      \* progress.current
  prev,       \* progress.prev_node
  ahead,      \* progress.next_node
  fast, slow, \* the static counters of ota_calc_progress
  visible,    \* the page that is not hidden
  rebooted    \* the end command has been run

screen == <<config, logo, at, ticks, shown, prev, ahead, fast, slow, visible,
            rebooted>>

(* What is on the screen behind ui_config_parse: whether the file was      *)
(* JSON, the pages that exist, and whether the first object of the         *)
(* upgrading page is the progress widget, where ui_refresh_page_progress   *)
(* looks for it.                                                           *)
Pages == {"logo", "upgrading", "success", "fail"}
Config == [json : BOOLEAN, pages : SUBSET Pages, widget : BOOLEAN]

FastTicks == 2

(* main returns at once when the file is no JSON.                          *)
Opened == IF config.json THEN "sync" ELSE "ended"

(* main, up to the loop: every page is created hidden.                     *)
Init ==
  /\ config \in Configs /\ logo \in BOOLEAN
  /\ shown \in StartAt
  /\ at = Opened /\ ticks = 0
  /\ prev = 0 /\ ahead = 0 /\ fast = 0 /\ slow = 0
  /\ visible = "none" /\ rebooted = FALSE

(* The screen is started again when the device restarts.                   *)
Restart ==
  /\ shown' \in StartAt
  /\ at' = Opened /\ ticks' = 0
  /\ prev' = 0 /\ ahead' = 0 /\ fast' = 0 /\ slow' = 0
  /\ visible' = "none" /\ rebooted' = FALSE
  /\ UNCHANGED <<config, logo>>

-----------------------------------------------------------------------------
(* ota_sync_upgrade_progress: two property_gets, current first.            *)
SyncCurrent ==
  /\ at = "sync" /\ ticks % SyncMs = 0
  /\ prev' = current
  /\ at' = "sync_next"
  /\ UNCHANGED <<config, logo, ticks, shown, ahead, fast, slow, visible, rebooted>>

SyncNext ==
  /\ at = "sync_next"
  /\ ahead' = next
  /\ at' = "draw"
  /\ UNCHANGED <<config, logo, ticks, shown, prev, fast, slow, visible, rebooted>>

(* ota_calc_progress.  Below the last node a percent takes three turns;    *)
(* above it, up to the next node, SlowTicks + 1 turns.                     *)
Quick == shown < prev /\ fast >= FastTicks

(* Mutant of Room: the next node itself is passed.                         *)
RoomAtNode == shown <= ahead

Room == shown < ahead

Creep == Room /\ slow >= SlowTicks

Moved == IF Quick \/ Creep THEN shown + 1 ELSE shown

(* Mutants of Calc: 100 is displayed when the bar creeps that far; 99 also *)
(* when the update is complete; the bar falls back to the last node.       *)
CalcUncapped == Moved
CalcNeverHundred == IF Moved >= 100 THEN 99 ELSE Moved
CalcFallsBack == IF Moved >= 100 /\ prev < 100 THEN prev ELSE Moved

(* 100 is reserved for a complete update.                                  *)
Calc == IF Moved >= 100 /\ prev < 100 THEN 99 ELSE Moved

(* The counters are static: they run on, and both are reset by a move.     *)
Count ==
  /\ fast' = IF Quick \/ Creep THEN 0 ELSE IF shown < prev THEN fast + 1 ELSE fast
  /\ slow' = IF Quick \/ Creep THEN 0 ELSE IF Room THEN slow + 1 ELSE slow

Exists(page) == page \in config.pages

(* The page a turn leaves visible; a page that is not configured leaves    *)
(* the one before it.                                                      *)
Show(page) == IF Exists(page) THEN page ELSE visible

(* ui_set_progress finds the page and the widget on it.                    *)
Drawn == Exists("upgrading") /\ config.widget

(* Mutant of Over: the loop goes on behind a failure.                      *)
OverUnlessFailed(percent) == logo \/ percent >= 100

(* The condition under which the loop ends after a turn.                   *)
Over(percent) == logo \/ prev < 0 \/ percent >= 100

(* After a turn: the loop is left at once when a page or the widget is     *)
(* missing, else after the tick.                                           *)
EndTurn(ok, percent) ==
  /\ ticks' = IF ok THEN (ticks + TickMs) % Wrap ELSE ticks
  /\ at' = IF ok /\ ~Over(percent) THEN "sync" ELSE "closing"

Turn == at = "draw" \/ (at = "sync" /\ ticks % SyncMs # 0)

(* Logo mode, or a failed update: one page, nothing else.                  *)
DrawPage ==
  /\ Turn /\ (logo \/ prev < 0)
  /\ LET page == IF logo THEN "logo" ELSE "fail"
     IN  /\ visible' = Show(page)
         /\ EndTurn(Exists(page), shown)
  /\ UNCHANGED <<config, logo, shown, prev, ahead, fast, slow, rebooted>>

(* The upgrading page, and at 100 the success page, whose result replaces  *)
(* that of the update of the widget.                                       *)
DrawProgress ==
  /\ Turn /\ ~logo /\ prev >= 0
  /\ shown' = Calc
  /\ Count
  /\ LET succeeds == Exists("success") /\ Calc >= 100
     IN  /\ visible' = IF succeeds THEN "success" ELSE Show("upgrading")
         /\ EndTurn(succeeds \/ Drawn, Calc)
  /\ UNCHANGED <<config, logo, prev, ahead, rebooted>>

(* Mutant of Close: the command runs unless the update is complete.        *)
CloseUnlessComplete ==
  /\ at = "closing"
  /\ prev' = current
  /\ ahead' = next
  /\ rebooted' = (current < 100)
  /\ at' = "ended"
  /\ UNCHANGED <<config, logo, ticks, shown, fast, slow, visible>>

(* Behind the loop the properties are read again; only the first counts.   *)
Close ==
  /\ at = "closing"
  /\ prev' = current
  /\ ahead' = next
  /\ rebooted' = (current < 0 \/ current > 100)
  /\ at' = "ended"
  /\ UNCHANGED <<config, logo, ticks, shown, fast, slow, visible>>

Next == SyncCurrent \/ SyncNext \/ DrawPage \/ DrawProgress \/ Close
=============================================================================
