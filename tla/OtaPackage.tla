----------------------------- MODULE OtaPackage -----------------------------
(***************************************************************************)
(* What tools/gen_ota_zip.py puts into a package: which image files, in    *)
(* which order, and the shell script ota.sh that installs them.            *)
(*                                                                         *)
(* A file is a number, in the alphabetic order of the names.  A name has   *)
(* three features the tool looks at: it is vela_<xxx>.bin or .elf (Named), *)
(* and <xxx> begins with "ota" (OtaNamed); the partition to write is       *)
(* /dev/<xxx>, so a file also stands for its partition.                    *)
(*                                                                         *)
(* The script is a sequence of commands, each with one argument: a file, a *)
(* progress node, or 0.  A job is what the tool is called with.            *)
(*                                                                         *)
(* Progress is computed here in exact arithmetic and rounded down; the     *)
(* tool computes in floating point, where a node may be one less.          *)
(***************************************************************************)
EXTENDS Integers, SequencesExt

CONSTANTS
  Files,      \* the file names that occur
  Named,      \* those that begin with vela_ and end in .elf or .bin
  OtaNamed    \* those whose <xxx> begins with ota

ASSUME FilesAssumption == Files \subseteq Nat \ {0} /\ Named \subseteq Files
                             /\ OtaNamed \subseteq Files

Ops == {"begin", "current", "next", "finished", "verify", "precheck",
        "generate", "install", "end"}

Do(op, arg) == [op |-> op, arg |-> arg]

-----------------------------------------------------------------------------
(* Which files, and in which order.                                        *)

(* The files of s that are in S, in the order of s.                        *)
Kept(s, S) ==
  LET kept[i \in 0 .. Len(s)] ==
        IF i = 0 THEN <<>>
        ELSE IF s[i] \in S THEN Append(kept[i - 1], s[i]) ELSE kept[i - 1]
  IN  kept[Len(s)]

(* A set of files in alphabetic order.                                     *)
Sorted(S) ==
  [i \in 1 .. Cardinality(S) |->
     CHOOSE f \in S : Cardinality({g \in S : g <= f}) = i]

(* --last_files: the files it names go last, in the order of the option.   *)
LastFilesLast(s, last) == Kept(s, Files \ ToSet(last)) \o Kept(last, ToSet(s))

Installable == Named \ OtaNamed

(* A full package: every image of the directory, in directory order.       *)
FullBins(job) == Kept(LastFilesLast(job.order, job.last), Installable)

(* A differential package: the images of both directories that differ, in  *)
(* alphabetic order.                                                       *)
DiffBins(job) ==
  Kept(LastFilesLast(Sorted(job.old), job.last), Installable \cap job.changed)

(* --newpartition: the files of the new directory alone, whatever order    *)
(* set() lists them in.  Files with other names are removed from the list  *)
(* while the loop walks it, so the file behind a removed one is skipped.   *)
NewPartitions(job) ==
  LET Visit(loop) ==
        IF loop.at > Len(loop.list) THEN loop
        ELSE IF loop.list[loop.at] \in Named THEN [loop EXCEPT !.at = @ + 1]
        ELSE [list |-> RemoveAt(loop.list, loop.at), at |-> loop.at + 1]
      visited[n \in 0 .. Len(job.fresh)] ==
        IF n = 0 THEN [list |-> job.fresh, at |-> 1] ELSE Visit(visited[n - 1])
  IN  IF job.newpartition THEN visited[Len(job.fresh)].list ELSE <<>>

-----------------------------------------------------------------------------
(* Progress nodes.                                                         *)

UpTo(weight, s, i) ==
  LET sum[k \in 0 .. Len(s)] == IF k = 0 THEN 0 ELSE sum[k - 1] + weight[s[k]]
  IN  sum[i]

Total(weight, s) == UpTo(weight, s, Len(s))

BySpeed(job, size) == [f \in Files |-> job.speed[f] * size[f]]

(* Mutant of EndNode: the share of the end script is added.                *)
EndNodeAdded(job) == 100 + job.endpart

(* The end script has the last `endpart` per cent to itself.               *)
EndNode(job) == 100 - job.endpart

(* Mutant of ProgressList: the nodes are rounded up.                       *)
ProgressListRoundedUp(start, end, weight, s) ==
  [i \in 1 .. Len(s) |->
     start + (UpTo(weight, s, i) * (end - start) + Total(weight, s) - 1)
                \div Total(weight, s)]

(* gen_progress_list: nodes from start to end, in proportion to size.      *)
ProgressList(start, end, weight, s) ==
  [i \in 1 .. Len(s) |->
     IF i = Len(s) THEN end
     ELSE start + (UpTo(weight, s, i) * (end - start)) \div Total(weight, s)]

(* The differential package: a tenth of the images' share goes to the      *)
(* prechecks, nine tenths to generating them, by the size of the patches;  *)
(* the rest goes to the new partitions.                                    *)
DiffShares(job) ==
  LET bins == DiffBins(job)
      new == NewPartitions(job)
      size == BySpeed(job, job.size)
      patch == BySpeed(job, job.patch)
      images == Total(size, bins)
      all == images + Total(size, new)
      patches == Total(patch, bins)
      span == EndNode(job) - 30
  IN  [precheck |-> [i \in 1 .. Len(bins) |->
         30 + (span * images * UpTo(patch, bins, i)) \div (10 * all * patches)],
       generate |-> [i \in 1 .. Len(bins) |->
         30 + (span * images * (patches + 9 * UpTo(patch, bins, i)))
                 \div (10 * all * patches)],
       install |-> [i \in 1 .. Len(new) |->
         30 + (span * (images + UpTo(size, new, i))) \div all]]

(* Mutant of DiffNodes: both nodes of an image are appended to the list.   *)
DiffNodesAppended(job) ==
  LET share == DiffShares(job)
      nodes == [i \in 1 .. 2 * Len(share.precheck) |->
                  IF i % 2 = 1 THEN share.precheck[(i + 1) \div 2]
                               ELSE share.generate[i \div 2]] \o share.install
  IN  [nodes EXCEPT ![Len(nodes)] = EndNode(job)]

(* The loop inserts the precheck nodes in the middle of the list and       *)
(* appends the others, which leaves the prechecks first.                   *)
DiffNodes(job) ==
  LET share == DiffShares(job)
      nodes == share.precheck \o share.generate \o share.install
  IN  [nodes EXCEPT ![Len(nodes)] = EndNode(job)]

-----------------------------------------------------------------------------
(* The script.                                                             *)

Steps(op, s) == [i \in 1 .. Len(s) |-> Do(op, s[i])]

(* Mutant of Line: the node already reached is announced again.            *)
LineRepeatsNode(steps, nodes, silent, i) ==
  <<steps[i], Do("current", nodes[i])>>
    \o IF i < Len(nodes) /\ i \notin silent
         THEN <<Do("next", nodes[i])>> ELSE <<>>

(* Step i, the node it reaches and, unless it is one of the silent steps,  *)
(* the node the next step will reach.                                      *)
Line(steps, nodes, silent, i) ==
  <<steps[i], Do("current", nodes[i])>>
    \o IF i < Len(nodes) /\ i \notin silent
         THEN <<Do("next", nodes[i + 1])>> ELSE <<>>

(* ota.sh: the user's begin script, the steps, the user's end script.  The *)
(* end of the prechecks is recorded behind the steps in `marks`.           *)
Lines(job, steps, nodes, silent, marks) ==
  (IF job.begin THEN <<Do("begin", 0)>> ELSE <<>>)
    \o <<Do("current", 30), Do("next", nodes[1])>>
    \o FlattenSeq([i \in 1 .. Len(steps) |->
         Line(steps, nodes, silent, i)
           \o IF i \in marks THEN <<Do("finished", 1)>> ELSE <<>>])
    \o IF job.end THEN <<Do("next", 100), Do("end", 0), Do("current", 100)>>
                  ELSE <<>>

(* The images a full package verifies: those with a rollback index.        *)
Rated(job) == Kept(FullBins(job), job.versioned)

FullNodes(job) ==
  LET size == BySpeed(job, job.size)
  IN  ProgressList(30, 40, size, Rated(job))
        \o ProgressList(45, EndNode(job), size, FullBins(job))

(* Mutant of FullScript: an image is written before any is verified.       *)
FullScriptWritesFirst(job) ==
  IF FullBins(job) = <<>> \/ EndNode(job) <= 45 THEN <<>>
  ELSE Lines(job, Steps("install", FullBins(job)) \o Steps("verify", Rated(job)),
             FullNodes(job), {}, {})

(* A full package verifies, then writes.                                   *)
(* The tool gives up without an image, or when the end script leaves no    *)
(* room for the installation.                                              *)
FullScript(job) ==
  IF FullBins(job) = <<>> \/ EndNode(job) <= 45 THEN <<>>
  ELSE Lines(job, Steps("verify", Rated(job)) \o Steps("install", FullBins(job)),
             FullNodes(job), {}, {})

DiffSteps(job) == Steps("precheck", DiffBins(job))
                    \o Steps("generate", DiffBins(job))
                    \o Steps("install", NewPartitions(job))

(* Mutants of DiffScript: the prechecks are recorded when the images are   *)
(* done; every image is generated as soon as it is checked.                *)
DiffScriptMarksLate(job) ==
  LET n == Len(DiffBins(job))
  IN  IF n = 0 THEN <<>>
      ELSE Lines(job, DiffSteps(job), DiffNodes(job), {2 * n}, {2 * n})

DiffScriptOneByOne(job) ==
  LET bins == DiffBins(job)
      n == Len(bins)
      steps == [i \in 1 .. 2 * n |->
                  Do(IF i % 2 = 1 THEN "precheck" ELSE "generate",
                     bins[(i + 1) \div 2])] \o Steps("install", NewPartitions(job))
  IN  IF n = 0 THEN <<>>
      ELSE Lines(job, steps, DiffNodes(job), {2 * n}, {n})

(* A differential package prechecks every patch, records that it did, then *)
(* generates every image, then writes the new partitions.  Behind the last *)
(* generated image the next node is not announced.                         *)
DiffScript(job) ==
  LET n == Len(DiffBins(job))
  IN  IF n = 0 THEN <<>>
      ELSE Lines(job, DiffSteps(job), DiffNodes(job), {2 * n}, {n})

Script(job) == IF job.diff THEN DiffScript(job) ELSE FullScript(job)

(* The images the package is there to install.                             *)
Payload(job) == IF job.diff THEN ToSet(DiffBins(job) \o NewPartitions(job))
                            ELSE ToSet(FullBins(job))
=============================================================================
