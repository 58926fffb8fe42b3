---------------------------- MODULE MCOtaScreen -----------------------------
(***************************************************************************)
(* Three packages and six configuration files for model checking:          *)
(* a full package of one verified and one unverified image, and a          *)
(* differential package with a new partition and an end script.            *)
(***************************************************************************)
EXTENDS OtaScreen

CONSTANTS None, PercentSign   \* of the parser

MCFiles == 1 .. 2

Ones == [f \in MCFiles |-> 1]

FullJob == [diff |-> FALSE, old |-> {}, changed |-> {}, order |-> <<1, 2>>,
            fresh |-> <<>>, newpartition |-> FALSE, last |-> <<>>,
            versioned |-> {1}, size |-> Ones, patch |-> Ones, speed |-> Ones,
            begin |-> FALSE, end |-> FALSE, endpart |-> 0]

DiffJob == [FullJob EXCEPT !.diff = TRUE, !.old = {1}, !.changed = {1},
                           !.fresh = <<2>>, !.newpartition = TRUE, !.end = TRUE]

(* The end script has a share of the bar, and there is none.               *)
EndlessJob == [FullJob EXCEPT !.order = <<1>>, !.endpart = 10]

MCJobs == {FullJob, DiffJob, EndlessJob}

Object == [kind |-> "label", area |-> TRUE, src |-> TRUE, readable |-> TRUE]

Bar == [kind |-> "progress", area |-> TRUE, mode |-> "bar", keys |-> <<0, 50, 100>>,
        fps |-> None, radius |-> None, percent |-> FALSE, unread |-> {}]

Page(name, objs) == [name |-> name, objs |-> objs]

Ends == <<Page("logo", <<Object>>), Page("success", <<Object>>), Page("fail", <<Object>>)>>

(* Everything; no success page; a label in front of the progress widget;   *)
(* no upgrading page; an object of an unknown kind on the last page; no    *)
(* JSON.                                                                   *)
MCScreenFiles ==
  {[json |-> TRUE, pages |-> pages] :
     pages \in {<<Page("upgrading", <<Bar, Object>>)>> \o Ends,
                <<Page("upgrading", <<Bar>>), Page("fail", <<Object>>)>>,
                <<Page("upgrading", <<Object, Bar>>)>> \o Ends,
                Ends,
                Ends \o <<Page("upgrading", <<Bar, [Object EXCEPT !.kind = "picture"]>>)>>}}
  \cup {[json |-> FALSE, pages |-> <<>>]}

(* The screen has what the parser leaves of the file.                      *)
Parser == INSTANCE UiParse WITH Full <- 16, UseArc <- TRUE, Width <- LAMBDA image : 1

MCConfigs == {Parser!ConfigOf(f) : f \in MCScreenFiles}

(* The bar starts between the nodes of both packages, or full.             *)
MCStartAt == {60, 100}
=============================================================================
