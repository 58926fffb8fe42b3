----------------------------- MODULE LvUpgrade ------------------------------
(***************************************************************************)
(* The progress widget of the upgrade screen (ui/extra/lv_upgrade.c), as   *)
(* functions on its record: what the parser and the screen do to it, how   *)
(* wide it makes itself, and what a draw event lays out and draws.         *)
(*                                                                         *)
(* A position in the table of images counts from 0, as in the code; the    *)
(* sequence `images` holds the image of position i at i + 1.  An image is  *)
(* its key; of its contents only the width counts.                         *)
(***************************************************************************)
EXTENDS Integers, SequencesExt

CONSTANTS
  Full,         \* 256: image_array_size is a uint8_t
  UseArc,       \* LV_USE_ARC
  Width(_),     \* the width of an image, in pixels
  None,         \* what is not there: a setting, or an image (NULL)
  PercentSign   \* the image of the percent sign, beside the keys

ASSUME WidgetAssumption ==
  /\ Full \in Nat \ {0, 1} /\ UseArc \in BOOLEAN
  /\ None \notin Int /\ PercentSign \notin Int /\ None # PercentSign

(* lv_upgrade_type_e *)
Types == {"number", "bar", "circle", "anim", "custom_anim"}

LV_PROGRESS_DIGIT == 3

(* lv_upgrade_constructor.  `rate` is the union of anim_fps and            *)
(* arc_radius, `src` is image_dsc.src, `frame` is anim_data, `width` the   *)
(* object's.  For the properties, `buffers` counts the image buffers       *)
(* allocated on the widget's behalf, `blank` holds the images whose file   *)
(* could not be read, and `painted` what the last draw event drew.         *)
Created ==
  [type |-> "number", size |-> 0, images |-> <<>>, percent |-> FALSE,
   digits |-> [i \in 1 .. LV_PROGRESS_DIGIT |-> -1], value |-> -1,
   rate |-> 30, src |-> None, frame |-> None, animated |-> FALSE,
   width |-> 0, buffers |-> 0, blank |-> {}, painted |-> <<>>]

SetType(w, type) ==
  [w EXCEPT !.type = type,
            !.rate = IF type = "custom_anim" /\ UseArc THEN 80 ELSE @]

(* Both rates are a uint16_t.                                              *)
Word == 65536

SetFps(w, fps) == [w EXCEPT !.rate = fps % Word]

SetRadius(w, radius) == IF UseArc THEN [w EXCEPT !.rate = radius % Word] ELSE w

(* get_image_data_from_file: a file that cannot be read leaves a           *)
(* descriptor of no width, which is not told from an image.                *)
ReadImage(w, image, readable) ==
  [w EXCEPT !.buffers = @ + 1,
            !.blank = IF readable THEN @ ELSE @ \cup {image}]

SetPercentSign(w, readable) ==
  ReadImage([w EXCEPT !.percent = TRUE], PercentSign, readable)

(* lv_upgrade_set_image_array_size: the table has n entries, but its size  *)
(* is kept in eight bits.                                                  *)
SetArraySize(w, n) ==
  IF w.size > 0 \/ n <= 0 THEN w
  ELSE [w EXCEPT !.size = n % Full, !.images = [i \in 1 .. n |-> None]]

(* In number mode the key is the position; otherwise the first free one is *)
(* taken.                                                                  *)
Position(w, key) ==
  IF w.type = "number" THEN key
  ELSE Min({i \in 0 .. w.size : i = w.size \/ w.images[i + 1] = None})

(* lv_upgrade_set_image_data                                               *)
SetImageData(w, image) ==
  LET i == Position(w, image.key)
  IN  IF i >= w.size THEN w
      ELSE ReadImage([w EXCEPT !.images[i + 1] = image.key], image.key, image.readable)

(* Mutant of Destructor: the last image is left.                           *)
DestructorButLast(w) ==
  Cardinality({i \in 1 .. w.size - 1 : w.images[i] # None})
    + IF w.percent THEN 1 ELSE 0

(* lv_upgrade_destructor: the number of image buffers it frees.            *)
Destructor(w) ==
  Cardinality({i \in 1 .. w.size : w.images[i] # None})
    + IF w.percent THEN 1 ELSE 0

-----------------------------------------------------------------------------
(* The value. *)

Unit == <<1, 10, 100>>

(* Mutant of DigitsOf: the value is not reduced to its last digit.         *)
DigitsUnreduced(value) ==
  [i \in 1 .. LV_PROGRESS_DIGIT |->
     IF i = 1 \/ value \div Unit[i] > 0 THEN value \div Unit[i] ELSE -1]

(* The digits of a value, the last one first, -1 behind the first one.     *)
DigitsOf(value) ==
  [i \in 1 .. LV_PROGRESS_DIGIT |->
     IF i = 1 \/ value \div Unit[i] > 0 THEN (value \div Unit[i]) % 10 ELSE -1]

(* The digits in front of the first -1.                                    *)
UsedDigits(w) ==
  SubSeq(w.digits, 1,
         Min({i \in 0 .. LV_PROGRESS_DIGIT :
                i = LV_PROGRESS_DIGIT \/ w.digits[i + 1] < 0}))

AddDigit(sum, digit) == 10 * sum + digit

Number(digits) == FoldLeft(AddDigit, 0, digits)

(* lv_upgrade_get_value computes the value back from the digits.           *)
GetValue(w) == Number(Reverse(UsedDigits(w)))

-----------------------------------------------------------------------------
(* The images that belong to a value. *)

(* abs of the difference.                                                  *)
Distance(w, value, i) ==
  LET key == w.images[i + 1]
  IN  Max({value - key, key - value})

(* The first of the positions whose key is closest to the value.           *)
Nearest(w, value) ==
  Min({i \in 0 .. w.size - 1 :
         \A j \in 0 .. w.size - 1 : Distance(w, value, i) <= Distance(w, value, j)})

(* Mutants of Closest: the last image is taken as well; every image gives  *)
(* way to the one before it.                                               *)
ClosestAny(w, value) == Nearest(w, value)

ClosestBefore(w, value) ==
  LET best == Nearest(w, value)
  IN  IF Distance(w, value, best) # 0 THEN (best - 1) % Full ELSE best

(* lv_get_closest_element_index: the last image is kept for its own key.   *)
(* The index is returned in eight bits.                                    *)
Closest(w, value) ==
  LET best == Nearest(w, value)
  IN  IF Distance(w, value, best) # 0 /\ best = w.size - 1
        THEN (best - 1) % Full ELSE best

(* A bar whose index is in its table.                                      *)
InTable(w, value) == w.size > 0 /\ Closest(w, value) < w.size

BarImage(w, value) == w.images[Closest(w, value) + 1]

(* The images of the number from the right: the sign and the digits.  The  *)
(* loop ends at a digit beyond the table and leaves out one without image. *)
AddGlyph(glyphs, image) == IF image = None THEN glyphs ELSE Append(glyphs, image)

Glyphs(w) ==
  LET used == UsedDigits(w)
      stop == Min({i \in 0 .. Len(used) : i = Len(used) \/ used[i + 1] >= w.size})
  IN  FoldLeft(AddGlyph, IF w.percent THEN <<PercentSign>> ELSE <<>>,
               [i \in 1 .. stop |-> w.images[used[i] + 1]])

-----------------------------------------------------------------------------
(* How wide the object makes itself for a value. *)

WidthOf(w, image) == IF image \in w.blank THEN 0 ELSE Width(image)

Plus(sum, n) == sum + n

Total(numbers) == FoldLeft(Plus, 0, numbers)

(* lv_calc_number_mode_size                                                *)
NumberWidth(w) == Total([i \in 1 .. Len(Glyphs(w)) |-> WidthOf(w, Glyphs(w)[i])])

(* lv_calc_bar_mode_size                                                   *)
BarWidth(w, value) ==
  IF InTable(w, value) THEN WidthOf(w, BarImage(w, value)) ELSE 0

(* lv_calc_anim_mode_size: the widest image.                               *)
AnimWidth(w) ==
  Max({0} \cup {WidthOf(w, image) : image \in ToSet(SubSeq(w.images, 1, w.size)) \ {None}})

ObjectWidth(w, value) ==
  CASE w.type = "number" -> NumberWidth(w)
    [] w.type = "bar" -> BarWidth(w, value)
    [] w.type \in {"circle", "anim"} -> AnimWidth(w)
    [] OTHER -> IF UseArc THEN w.rate ELSE 0

-----------------------------------------------------------------------------
(* A draw event. *)

(* Mutant of Beside: the edge is not moved on.                             *)
BesideObject(laid, glyph) ==
  [edge |-> laid.edge,
   areas |-> Append(laid.areas, [image |-> glyph.image,
                                 left |-> laid.edge - glyph.width,
                                 right |-> laid.edge - 1,
                                 top |-> - Len(laid.areas) - 1])]

(* lv_calc_draw_area: the image ends at the edge, which moves to its left; *)
(* each lies one pixel above the one before it.                            *)
Beside(laid, glyph) ==
  LET left == laid.edge - glyph.width
  IN  [edge |-> left,
       areas |-> Append(laid.areas, [image |-> glyph.image, left |-> left,
                                     right |-> laid.edge - 1,
                                     top |-> - Len(laid.areas) - 1])]

(* lv_render_number_mode_content: the areas from the object's last column  *)
(* to the left.                                                            *)
LaidOut(w) ==
  FoldLeft(Beside, [edge |-> w.width - 1, areas |-> <<>>],
           [i \in 1 .. Len(Glyphs(w)) |->
              [image |-> Glyphs(w)[i], width |-> WidthOf(w, Glyphs(w)[i])]]).areas

(* lv_draw_image draws the source of image_dsc, and nothing without one.   *)
Paint(w, calls) ==
  [w EXCEPT !.painted = IF w.src = None THEN <<>> ELSE [i \in 1 .. calls |-> w.src]]

RenderNumber(w) == Paint(w, Len(LaidOut(w)))

RenderBar(w) ==
  IF InTable(w, GetValue(w)) THEN Paint([w EXCEPT !.src = BarImage(w, GetValue(w))], 1)
  ELSE w

(* lv_index_change, which the animation calls with 0 .. size.              *)
ChangeIndex(w, index) ==
  LET image == w.images[(index % w.size) + 1]
  IN  IF image = None THEN w ELSE [w EXCEPT !.frame = image]

(* lv_render_anim_mode_content: the first event starts the animation.      *)
RenderAnim(w) ==
  IF w.animated THEN Paint(w, 1)
  ELSE [w EXCEPT !.animated = TRUE, !.painted = <<>>]

(* lv_upgrade_event                                                        *)
Draw(w) ==
  CASE w.type = "number" -> RenderNumber(w)
    [] w.type = "bar" -> RenderBar(w)
    [] w.type \in {"circle", "anim"} -> RenderAnim(w)
    [] OTHER -> [w EXCEPT !.animated = UseArc]

(* lv_upgrade_set_progress: the digits, the size, and lv_refr_now.  A      *)
(* value it already has is not set again.                                  *)
SetProgress(w, value) ==
  LET set == [w EXCEPT !.digits = DigitsOf(value), !.value = value]
  IN  IF w.value = value THEN w
      ELSE Draw([set EXCEPT !.width = ObjectWidth(set, value)])

(* Setting the value or drawing the widget reads outside its table or      *)
(* divides by zero.                                                        *)
Unsafe(w) ==
  \/ w.type = "bar" /\ ~InTable(w, GetValue(w))
  \/ w.type \in {"circle", "anim"} /\ (w.size = 0 \/ w.rate = 0)
=============================================================================
