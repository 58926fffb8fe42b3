------------------------------ MODULE UiPages ------------------------------
(***************************************************************************)
(* The pages of the upgrade screen: what ui_config_parse leaves on it,     *)
(* what ui_set_progress and the timer handler (ui/ui_display.c) do to the  *)
(* progress widget, and what ui_uninit frees.                              *)
(***************************************************************************)
EXTENDS UiParse

CONSTANT Files   \* the configuration files that occur

(* What the parser sees of an object, of a page and of a file.             *)
Setting == Int \cup {None}

UiObject ==
  [kind : STRING, area : BOOLEAN, src : BOOLEAN, readable : BOOLEAN, mode : STRING,
   keys : Seq(Int), fps : Setting, radius : Setting, percent : BOOLEAN,
   unread : SUBSET (Int \cup {PercentSign})]

UiPage == [name : STRING, objs : Seq(UiObject)]

UiFile == [json : BOOLEAN, pages : Seq(UiPage)]

ASSUME FilesAssumption == Files \subseteq UiFile

(* The images that occur.                                                  *)
Images ==
  LET objects == UNION {ToSet(p.objs) : p \in UNION {ToSet(f.pages) : f \in Files}}
  IN  {PercentSign} \cup UNION {ToSet(o.keys) : o \in objects}

ASSUME WidthAssumption == \A image \in Images : Width(image) \in Nat

VARIABLES
  file,      \* the one in use
  phase,     \* "new", "open", "closed", "crashed"
  result,    \* of ui_config_parse: "none", "success", "error"
  screen,    \* the pages, in the order of their creation
  live       \* image buffers allocated and not freed

vars == <<file, phase, result, screen, live>>

-----------------------------------------------------------------------------
Init ==
  /\ file \in Files
  /\ phase = "new" /\ result = "none" /\ screen = <<>> /\ live = 0

(* ui_config_parse.  A file that cannot be read or is no JSON is an error, *)
(* a page that cannot be parsed is none.                                   *)
ConfigParse ==
  /\ phase = "new" /\ file.json
  /\ phase' = "open" /\ result' = "success"
  /\ screen' = Built(file).screen
  /\ live' = Built(file).live
  /\ UNCHANGED file

ConfigUnread ==
  /\ phase = "new" /\ ~file.json
  /\ phase' = "open" /\ result' = "error"
  /\ UNCHANGED <<file, screen, live>>

Widget(page) == screen[page].objects[1].widget

WithWidget(page, widget) ==
  /\ screen' = [screen EXCEPT ![page].objects[1].widget = widget]
  /\ phase' \in IF Unsafe(widget) THEN {"open", "crashed"} ELSE {"open"}
  /\ UNCHANGED <<file, result, live>>

(* ui_set_progress: the widget is set and the screen drawn at once.  The   *)
(* page is the visible one: otaUI shows it first.                          *)
SetPageProgress(name, value) ==
  LET page == FindPage(screen, name)
  IN  /\ phase = "open" /\ page > 0 /\ HasWidget(screen[page])
      /\ WithWidget(page, SetProgress(Widget(page), value))

(* ui_timer_handler: a running animation goes to another index, and the    *)
(* widget is drawn again.                                                  *)
TimerHandler(name) ==
  LET page == FindPage(screen, name)
      widget == Widget(page)
  IN  /\ phase = "open" /\ page > 0 /\ HasWidget(screen[page])
      /\ widget.type \in {"circle", "anim"} /\ widget.animated /\ widget.size > 0
      /\ \E index \in 0 .. widget.size : WithWidget(page, Draw(ChangeIndex(widget, index)))

(* ui_uninit.                                                              *)
Uninit ==
  LET cleaned == Clean([screen |-> screen, live |-> live])
  IN  /\ phase = "open"
      /\ phase' = "closed"
      /\ screen' = cleaned.screen
      /\ live' = cleaned.live
      /\ UNCHANGED <<file, result>>

Names == {"logo", "upgrading", "success", "fail"}

Next ==
  \/ ConfigParse \/ ConfigUnread \/ Uninit
  \/ \E name \in Names, value \in 0 .. 100 : SetPageProgress(name, value)
  \/ \E name \in Names : TimerHandler(name)

Spec == Init /\ [][Next]_vars

-----------------------------------------------------------------------------
Widgets ==
  LET objects == UNION {ToSet(page.objects) : page \in ToSet(screen)}
  IN  {o.widget : o \in {o \in objects : o.kind = "progress"}}

(* Every widget is what lv_upgrade_t can hold.                             *)
TypeOK ==
  /\ file \in Files
  /\ phase \in {"new", "open", "closed", "crashed"}
  /\ result \in {"none", "success", "error"}
  /\ live \in Nat
  /\ \A w \in Widgets :
       /\ w.type \in Types
       /\ w.size \in 0 .. Full - 1
       /\ w.digits \in [1 .. LV_PROGRESS_DIGIT -> -1 .. 9]
       /\ w.value \in -1 .. 127
       /\ w.rate \in 0 .. Word - 1 /\ w.width \in Nat
       /\ {w.src, w.frame} \subseteq {None} \cup ToSet(w.images)

(* A file with an error anywhere leaves no page at all behind, also none   *)
(* of the pages in front of the error: otaUI never runs on half a screen.  *)
AllPagesOrNone ==
  screen # <<>> =>
    /\ Len(screen) = Len(file.pages)
    /\ \A i \in 1 .. Len(screen) :
         /\ screen[i].name = file.pages[i].name
         /\ Len(screen[i].objects) = Len(file.pages[i].objs)

(* Each image read is freed once when its page goes, whether ui_uninit     *)
(* removes it or an error in a later page.                                 *)
NothingLeaks == screen = <<>> => live = 0

(* The digits of a value all have an image, and its file was readable.     *)
HasDigits(w) ==
  \A d \in {(w.value \div n) % 10 : n \in {n \in {1, 10, 100} : n <= Max({1, w.value})}} :
    d < w.size /\ w.images[d + 1] = d /\ d \notin w.blank

(* Where the digits of a value have images, the areas laid out for them,   *)
(* read from the left, are the value without a zero in front.  The areas   *)
(* abut, the sign is the last, and together they are as wide as the object *)
(* made itself, one pixel to its left.                                     *)
NumberReads ==
  \A w \in Widgets :
    w.type = "number" /\ w.value >= 0 /\ HasDigits(w) =>
      LET laid == Reverse(LaidOut(w))
          n == Len(laid)
          digits == [i \in 1 .. (IF w.percent THEN n - 1 ELSE n) |-> laid[i].image]
      IN  /\ Number(digits) = w.value
          /\ digits[1] = 0 => w.value = 0
          /\ \A i \in 1 .. n - 1 : laid[i + 1].left = laid[i].right + 1
          /\ w.percent => laid[n].image = PercentSign
          /\ laid[1].left = -1 /\ laid[n].right = w.width - 2

(* ui_common.h:91: "Set and update display progress".  What a number draws *)
(* are the images of its digits and its sign.                              *)
NumberIsDrawn ==
  \A w \in Widgets :
    w.type = "number" /\ w.value >= 0 => w.painted = Glyphs(w)

(* The keys of a list that ascends.                                        *)
Ascending(w) ==
  w.size >= 2 /\ \A i \in 1 .. w.size - 1 : w.images[i] < w.images[i + 1]

(* A bar with an ascending list shows its last image at the key of that    *)
(* image only, and otherwise one of the others that is closest, whatever   *)
(* it showed before; and it has the width of what it shows.                *)
BarIsClosest ==
  \A w \in Widgets :
    w.type = "bar" /\ w.value >= 0 /\ Ascending(w) =>
      LET keys == {w.images[i] : i \in 1 .. w.size}
          full == w.images[w.size]
          drawn == w.painted[1]
          off(key) == Max({w.value - key, key - w.value})
      IN  /\ IF w.value = full THEN drawn = full
             ELSE /\ drawn \in keys \ {full}
                  /\ \A key \in keys \ {full} : off(drawn) <= off(key)
          /\ w.width = WidthOf(w, drawn)

(* What makes a list unfit for its mode: one image or none for a bar, none *)
(* for an animation, or a multiple of 256; and a rate of 0.                *)
Unfit(o) ==
  \/ o.mode = "bar" /\ Len(o.keys) % Full \in {0, 1}
  \/ o.mode \in {"circle", "anim"} /\ Len(o.keys) % Full = 0
  \/ o.mode \in {"circle", "anim"}
     /\ \E n \in {o.fps, o.radius} \ {None} : n % Word = 0

(* With every other file, no value sends the drawing outside the table or  *)
(* into a division by zero.                                                *)
CrashesOnUnfitListOnly ==
  phase = "crashed" =>
    \E p \in ToSet(file.pages) : \E o \in ToSet(p.objs) : Unfit(o)
=============================================================================
