---------------------------- MODULE MCOtaInstall ----------------------------
(***************************************************************************)
(* Packages for model checking.  Five files: three images, one whose name  *)
(* begins with vela_ota, and one with another name.                        *)
(***************************************************************************)
EXTENDS OtaInstall

MCFiles == 1 .. 5
MCNamed == 1 .. 4
MCOtaNamed == {4}

Ones == [f \in MCFiles |-> 1]

Job == [diff |-> FALSE, old |-> {}, changed |-> {}, order |-> <<>>, fresh |-> <<>>,
        newpartition |-> FALSE, last |-> <<>>, versioned |-> {},
        size |-> Ones, patch |-> Ones, speed |-> Ones,
        begin |-> FALSE, end |-> TRUE, endpart |-> 0]

(* Image sizes that are equal, that hide a small image behind a large one, *)
(* and that put it in front.                                               *)
Sizes == {Ones, [Ones EXCEPT ![1] = 997], [Ones EXCEPT ![3] = 997]}

FullJobs ==
  {[Job EXCEPT !.order = order, !.last = last, !.versioned = versioned,
               !.size = size, !.end = end, !.endpart = endpart] :
     order \in {<<1, 2, 3, 4, 5>>, <<5, 3, 1>>, <<2>>, <<4, 5>>},
     last \in {<<>>, <<2, 1>>}, versioned \in {{}, {1}, {1, 3}},
     size \in Sizes, end \in BOOLEAN, endpart \in {0, 10, 55}}

DiffJobs ==
  {[Job EXCEPT !.diff = TRUE, !.old = {1, 2, 4}, !.changed = changed,
               !.newpartition = new, !.fresh = fresh, !.last = last,
               !.size = size, !.patch = patch, !.begin = TRUE, !.end = end,
               !.endpart = endpart] :
     changed \in {{1, 2, 4}, {2}}, new \in BOOLEAN,
     fresh \in {<<3, 5>>, <<5, 3>>}, last \in {<<>>, <<1>>},
     size \in Sizes, patch \in Sizes, end \in BOOLEAN, endpart \in {0, 10, 80}}

MCJobs == FullJobs \cup DiffJobs

(* Two files of another name, one behind the other.                        *)
StrayFiles == 1 .. 3
StrayNamed == {1}
StrayJobs ==
  LET one == [f \in StrayFiles |-> 1]
  IN  {[Job EXCEPT !.diff = TRUE, !.old = {1}, !.changed = {1}, !.newpartition = TRUE,
                   !.fresh = <<2, 3>>, !.size = one, !.patch = one, !.speed = one]}
=============================================================================
