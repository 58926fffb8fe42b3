---------------------------- MODULE MCUiPages ----------------------------
(***************************************************************************)
(* Configuration files for model checking: lists of images of every kind   *)
(* for every mode, alone and behind a page that is in order, and errors at *)
(* every place where the parser meets one.                                 *)
(***************************************************************************)
EXTENDS UiPages

Object == [kind |-> "label", area |-> TRUE, src |-> TRUE, readable |-> TRUE,
           mode |-> "none", keys |-> <<>>, fps |-> None, radius |-> None,
           percent |-> FALSE, unread |-> {}]

Labels == {[Object EXCEPT !.area = area, !.src = src, !.readable = readable] :
             area, src, readable \in BOOLEAN}

Bar(keys) == [Object EXCEPT !.kind = "progress", !.mode = "bar", !.keys = keys]

(* The file of the sample: a number with all its digits.                   *)
SampleFiles ==
  {[json |-> TRUE, pages |-> <<[name |-> "upgrading", objs |-> <<[Object EXCEPT
      !.kind = "progress", !.mode = "number", !.keys = [i \in 1 .. 10 |-> i - 1],
      !.percent = TRUE]>>]>>]}

UpTo(n) == [i \in 1 .. n |-> i - 1]

(* Images of different widths, the sign the widest.                        *)
MCWidth(image) == IF image = PercentSign THEN 4 ELSE 2 + (image % 2)

(* Full is 16: sixteen images are as many as none.                         *)
Bars == {Bar(keys) : keys \in
           {<<>>, <<50>>, <<0, 100>>, <<10, 50, 100>>, <<0, 30, 60, 99>>,
            <<5, 20, 120>>, <<100, 0>>, <<0, 100, 50>>, <<-1, 40, 90>>, UpTo(16), UpTo(18)}}

Numbers == {[Bar(keys) EXCEPT !.mode = "number", !.percent = percent, !.unread = unread] :
              keys \in {UpTo(9), UpTo(10), UpTo(12), UpTo(16),
                        <<0, 1, 2, 4, 3, 5, 6, 7, 8, 9>>},
              percent \in BOOLEAN, unread \in {{}, {7, PercentSign}}}

Animations == {[Bar(UpTo(n)) EXCEPT !.mode = mode, !.fps = fps, !.radius = radius] :
                 n \in {0, 3, 17}, mode \in {"circle", "anim", "custom_anim"},
                 fps \in {None, 0, 25}, radius \in {None, 40}}

Broken == {[Bar(UpTo(3)) EXCEPT !.area = FALSE],
           [Bar(UpTo(3)) EXCEPT !.mode = "none"],
           [Object EXCEPT !.kind = "picture"]}

Page(name, objs) == [name |-> name, objs |-> objs]

(* Each object on the upgrading page behind a logo page, in front of a     *)
(* label, and a label in front of the widget.                              *)
MCFiles ==
  {[json |-> TRUE, pages |-> <<Page("logo", <<Object>>), Page("upgrading", <<o, Object>>)>>] :
     o \in Bars \cup Numbers \cup Animations \cup Broken}
  \cup {[json |-> TRUE, pages |-> <<Page("upgrading", <<Bar(<<0, 50, 100>>)>>),
                                    Page("fail", <<Object, l>>), Page("success", <<>>)>>] :
          l \in Labels \cup Broken}
  \cup {[json |-> TRUE, pages |-> <<Page("upgrading", <<Object, Bar(<<0, 100>>)>>)>>],
        [json |-> FALSE, pages |-> <<>>]}
=============================================================================
