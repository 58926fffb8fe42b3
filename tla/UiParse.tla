------------------------------ MODULE UiParse ------------------------------
(***************************************************************************)
(* The parser of ota_ui_config.json (ui/ui_config_parse.c): from a file to *)
(* the pages of the upgrade screen.                                        *)
(*                                                                         *)
(* A file is what the parser sees of it: its pages in order, and of an     *)
(* object its kind, whether it has an area, and for a progress object its  *)
(* mode, its rates, the keys of its images and those whose file cannot be  *)
(* read.  Position, alignment, colour and pixels are left out.             *)
(***************************************************************************)
EXTENDS LvUpgrade

(* What the parser makes of an object: an lv_upgrade widget, or a label    *)
(* with its image buffer.  One that failed may be half built.              *)
Label(buffers) == [kind |-> "label", buffers |-> buffers]

Progress(w) == [kind |-> "progress", widget |-> w]

Buffers(object) ==
  IF object.kind = "label" THEN object.buffers ELSE object.widget.buffers

(* ui_event_handler, or lv_upgrade_destructor: the buffers freed when the  *)
(* object is deleted.                                                      *)
Freed(object) ==
  IF object.kind = "label" THEN object.buffers ELSE Destructor(object.widget)

SumOver(Op(_), seq) == Total([i \in 1 .. Len(seq) |-> Op(seq[i])])

-----------------------------------------------------------------------------
(* json_label_parse.                                                       *)
ParseLabel(o) ==
  LET ok == o.area /\ o.src /\ o.readable
  IN  [ok |-> ok, objects |-> <<Label(IF ok THEN 1 ELSE 0)>>]

(* The images read: in number mode the loop ends at the first key that is  *)
(* not at its place, without an error.                                     *)
KeysRead(o) ==
  IF o.mode # "number" THEN o.keys
  ELSE SubSeq(o.keys, 1,
              Min({i \in 1 .. Len(o.keys) : o.keys[i] # i - 1}
                    \cup {Len(o.keys) + 1}) - 1)

(* The settings in front of the list of images.                            *)
Configured(o) ==
  LET typed == SetType(Created, o.mode)
      paced == IF o.fps = None THEN typed ELSE SetFps(typed, o.fps)
      wide == IF o.radius = None THEN paced ELSE SetRadius(paced, o.radius)
  IN  IF o.percent THEN SetPercentSign(wide, PercentSign \notin o.unread) ELSE wide

WithImages(o) ==
  FoldLeft(SetImageData, SetArraySize(Configured(o), Len(o.keys)),
           [i \in 1 .. Len(KeysRead(o)) |->
              [key |-> o.keys[i], readable |-> o.keys[i] \notin o.unread]])

(* json_progress_parse.                                                    *)
ParseProgress(o) ==
  LET parsed(ok, w) == [ok |-> ok, objects |-> <<Progress(w)>>]
      short == o.mode = "number" /\ Len(o.keys) < 10
  IN  CASE ~o.area \/ o.mode \notin Types -> parsed(FALSE, Created)
        [] o.area /\ o.mode \in Types /\ short -> parsed(FALSE, Configured(o))
        [] OTHER -> parsed(TRUE, WithImages(o))

(* json_ui_page_cont_parse.                                                *)
ParseObject(o) ==
  CASE o.kind = "progress" -> ParseProgress(o)
    [] o.kind = "label"    -> ParseLabel(o)
    [] OTHER               -> [ok |-> FALSE, objects |-> <<>>]

(* A step of the loop of json_ui_page_parse, which ends at an error.       *)
AddObject(page, o) ==
  LET parsed == ParseObject(o)
  IN  IF ~page.ok THEN page
      ELSE [page EXCEPT !.ok = parsed.ok, !.objects = @ \o parsed.objects]

Held(page) == SumOver(Freed, page.objects)

(* lv_obj_clean of the screen.                                             *)
Clean(built) ==
  [built EXCEPT !.screen = <<>>, !.live = @ - SumOver(Held, built.screen)]

(* The screen with the page on it, as far as it was parsed.                *)
WithPage(built, page) ==
  [built EXCEPT !.ok = page.ok,
                !.screen = Append(@, [name |-> page.name, objects |-> page.objects]),
                !.live = @ + SumOver(Buffers, page.objects)]

(* json_ui_page_parse.                                                     *)
Parsed(p) ==
  FoldLeft(AddObject, [name |-> p.name, ok |-> TRUE, objects |-> <<>>], p.objs)

(* Mutant of AddPage: the failing page stays on the screen.                *)
AddPageUncleaned(built, p) ==
  IF ~built.ok THEN built ELSE WithPage(built, Parsed(p))

(* A step of the loop of ui_page_config_init: a page that fails takes all  *)
(* pages off the screen and ends the loop.                                 *)
AddPage(built, p) ==
  LET added == WithPage(built, Parsed(p))
  IN  IF ~built.ok THEN built
      ELSE IF added.ok THEN added ELSE Clean(added)

Built(f) == FoldLeft(AddPage, [ok |-> TRUE, screen |-> <<>>, live |-> 0], f.pages)

-----------------------------------------------------------------------------
(* ui_find_page: the first page of the name.                               *)
FindPage(pages, name) == SelectInSeq(pages, LAMBDA p : p.name = name)

(* ui_get_upgrade_obj_by_class: only the first object is looked at.        *)
HasWidget(page) == page.objects # <<>> /\ page.objects[1].kind = "progress"

(* What otaUI has to do with a file: see Config in OtaUi.                  *)
ConfigOf(f) ==
  LET pages == Built(f).screen
      upgrading == FindPage(pages, "upgrading")
  IN  [json |-> f.json,
       pages |-> {p.name : p \in ToSet(pages)},
       widget |-> upgrading > 0 /\ HasWidget(pages[upgrading])]
=============================================================================
