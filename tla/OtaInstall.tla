----------------------------- MODULE OtaInstall -----------------------------
(***************************************************************************)
(* A device that runs the ota.sh of a package: the script OtaPackage       *)
(* defines, interpreted command by command, over partitions that can be    *)
(* left half written and properties of which only persist.* outlive a      *)
(* power cut.                                                              *)
(*                                                                         *)
(* Outside the repository, and modelled from how the script uses them: the *)
(* recovery system that runs ota.sh again after a power cut and sets       *)
(* ddelta_precheck until persist.ota.precheck.finished is set; avb_verify, *)
(* ddelta_apply and dd.  ddelta_apply can continue a patch it began,       *)
(* because it keeps its state in --ota_tmp, but it can only precheck a     *)
(* patch against the old contents.                                         *)
(***************************************************************************)
EXTENDS OtaPackage, FiniteSets

CONSTANTS
  Jobs,        \* the calls of gen_ota_zip.py that occur
  Marks,       \* what an earlier update may have left in finished
  MaxErrors,   \* bound: failed writes in a behaviour
  MaxCuts      \* bound: power cuts in a behaviour

(* The files of a directory and of an option, sizes, times and the share   *)
(* of the end script are what a call can have: no file is empty, and the   *)
(* share is a percentage.                                                  *)
ASSUME JobsAssumption ==
  \A j \in Jobs :
    /\ {j.diff, j.newpartition, j.begin, j.end} \subseteq BOOLEAN
    /\ {j.order, j.last, j.fresh} \subseteq Seq(Files)
    /\ IsFiniteSet(j.old)
    /\ {j.size, j.patch, j.speed} \subseteq [Files -> Nat \ {0}]
    /\ j.endpart \in 0 .. 100

ASSUME MarkAssumption == Marks \subseteq BOOLEAN
ASSUME BoundAssumption == MaxErrors \in Nat /\ MaxCuts \in Nat

VARIABLES
  job,        \* the call the package was made by
  script,     \* its ota.sh
  unsound,    \* images that are not what the device may install
  phase,      \* of the script
  pc,         \* the command it is at
  writing,    \* the command is writing its partition
  precheck,   \* $ddelta_precheck, set when the script is started
  part,       \* what the partitions hold
  current,    \* ota.progress.current
  next,       \* ota.progress.next
  finished,   \* persist.ota.precheck.finished
  stale,      \* it was still set from an earlier update
  ended,      \* history: this run of the script reached the user's end script
  errors, cuts

package == <<job, script, unsound, stale>>
shell == <<phase, pc, writing, precheck>>
progress == <<current, next>>
vars == <<package, shell, part, progress, finished, ended, errors, cuts>>

Phases == {"off", "running", "failed", "done"}
Contents == {"old", "torn", "new"}

TypeOK ==
  /\ job \in Jobs
  /\ \A i \in 1 .. Len(script) : script[i].op \in Ops
  /\ unsound \subseteq Files
  /\ phase \in Phases /\ writing \in BOOLEAN /\ precheck \in BOOLEAN
  /\ pc \in 1 .. Len(script) + 1
  /\ part \in [Files -> Contents]
  /\ current \in -1 .. 100 /\ next \in 0 .. 100
  /\ {finished, stale, ended} \subseteq BOOLEAN
  /\ errors \in 0 .. MaxErrors /\ cuts \in 0 .. MaxCuts

(* A property that is not set reads as 0.  Nothing in the repository       *)
(* clears persist.ota.precheck.finished behind an update.                  *)
Init ==
  /\ job \in {j \in Jobs : Script(j) # <<>>}
  /\ script = Script(job)
  /\ unsound \in SUBSET Payload(job)
  /\ phase = "off" /\ pc = 1 /\ writing = FALSE /\ precheck = FALSE
  /\ part = [f \in Files |-> "old"]
  /\ current = 0 /\ next = 0
  /\ stale \in Marks /\ finished = stale /\ ended = FALSE
  /\ errors = 0 /\ cuts = 0

-----------------------------------------------------------------------------
At(ops) == phase = "running" /\ pc <= Len(script) /\ script[pc].op \in ops

Arg == script[pc].arg

(* The recovery system starts the script.                                  *)
Start ==
  /\ phase = "off"
  /\ phase' = "running"
  /\ pc' = 1
  /\ precheck' = ~finished
  /\ ended' = FALSE
  /\ UNCHANGED <<package, writing, part, progress, finished, errors, cuts>>

(* setprop.  The script runs under `set +e` and does not look at the       *)
(* result.                                                                 *)
SetProp ==
  /\ At({"current", "next", "finished"})
  /\ current' = IF script[pc].op = "current" THEN Arg ELSE current
  /\ next' = IF script[pc].op = "next" THEN Arg ELSE next
  /\ finished' = (finished \/ script[pc].op = "finished")
  /\ pc' = pc + 1
  /\ UNCHANGED <<package, phase, writing, precheck, part, ended, errors, cuts>>

(* What the script does when a step fails.                                 *)
GiveUp ==
  /\ current' = -1
  /\ phase' = "failed"
  /\ writing' = FALSE
  /\ UNCHANGED pc

(* A precheck is skipped unless the recovery system asks for it.           *)
Skipped == script[pc].op = "precheck" /\ ~precheck

(* libavb: with an image it verifies that against the partition's rollback *)
(* index, without one the partition itself.                                *)
Verify(p, partitions) ==
  IF p.image \in Files THEN IF p.image \in unsound THEN 1 ELSE 0
  ELSE IF \E f \in ToSet(partitions) : part[f] = "torn" THEN 1 ELSE 0

Avb == INSTANCE AvbVerify WITH
  avb_verify <- Verify,
  avb_hash_desc <- LAMBDA partition : 0,
  avb_vbmeta_hash_desc <- LAMBDA vbmeta, partition : 0

(* The line of ota.sh that verifies an image, and the exit code it tests.  *)
AvbVerify ==
  Avb!Exit(<<Avb!Option("U", Arg), Avb!Option("k", "/etc/key.avb")>>, <<Arg>>)

(* ddelta_apply, called to precheck: the patch is sound and the partition  *)
(* still holds what it is against.                                         *)
Precheck == IF Arg \notin unsound /\ part[Arg] = "old" THEN 0 ELSE 1

Passes == (IF script[pc].op = "verify" THEN AvbVerify ELSE Precheck) = 0

(* avb_verify -U, or ddelta_apply with its precheck argument.              *)
Check ==
  /\ At({"verify", "precheck"})
  /\ Skipped \/ Passes
  /\ pc' = pc + 1
  /\ UNCHANGED <<package, phase, writing, precheck, part, progress, finished,
                 ended, errors, cuts>>

CheckFails ==
  /\ At({"verify", "precheck"})
  /\ ~Skipped /\ ~Passes
  /\ GiveUp
  /\ UNCHANGED <<package, precheck, part, next, finished, ended, errors, cuts>>

(* ddelta_apply, or dd ... verify.                                         *)
WriteBegin ==
  /\ At({"generate", "install"}) /\ ~writing
  /\ writing' = TRUE
  /\ part' = [part EXCEPT ![Arg] = "torn"]
  /\ UNCHANGED <<package, phase, pc, precheck, progress, finished, ended,
                 errors, cuts>>

WriteEnd ==
  /\ writing
  /\ writing' = FALSE
  /\ part' = [part EXCEPT ![Arg] = "new"]
  /\ pc' = pc + 1
  /\ UNCHANGED <<package, phase, precheck, progress, finished, ended, errors, cuts>>

WriteFails ==
  /\ writing /\ errors < MaxErrors
  /\ errors' = errors + 1
  /\ GiveUp
  /\ UNCHANGED <<package, precheck, part, next, finished, ended, cuts>>

(* The user's scripts are pasted into ota.sh.                              *)
UserScript ==
  /\ At({"begin", "end"})
  /\ pc' = pc + 1
  /\ ended' = (ended \/ script[pc].op = "end")
  /\ UNCHANGED <<package, phase, writing, precheck, part, progress, finished,
                 errors, cuts>>

Finish ==
  /\ phase = "running" /\ pc > Len(script)
  /\ phase' = "done"
  /\ UNCHANGED <<package, pc, writing, precheck, part, progress, finished,
                 ended, errors, cuts>>

PowerCut ==
  /\ phase = "running" /\ cuts < MaxCuts
  /\ cuts' = cuts + 1
  /\ phase' = "off" /\ pc' = 1 /\ writing' = FALSE
  /\ current' = 0 /\ next' = 0
  /\ UNCHANGED <<package, precheck, part, finished, ended, errors>>

ScriptNext ==
  \/ SetProp \/ Check \/ CheckFails \/ WriteBegin \/ WriteEnd \/ UserScript
  \/ Finish

Next == Start \/ ScriptNext \/ WriteFails \/ PowerCut

Spec == Init /\ [][Next]_vars

-----------------------------------------------------------------------------
Complete == \A f \in Payload(job) : part[f] = "new"

(* The images a package checks before it writes anything.                  *)
Checked == IF job.diff THEN ToSet(DiffBins(job)) ELSE ToSet(Rated(job))

(* One image that fails its check keeps every partition as it was, also    *)
(* those written before it in the order of the package, and also when the  *)
(* power fails during the checks and the script starts again.  Only a      *)
(* differential package is open to what an earlier update left behind.     *)
UnsoundIsUntouched ==
  unsound \cap Checked # {} /\ ~(stale /\ job.diff) => \A f \in Files : part[f] = "old"

(* Nothing but an unsound image or a failed write ends in a failure:       *)
(* a patch that was cut off is not prechecked against what it left behind. *)
FailsForAReason == phase = "failed" => unsound # {} \/ errors > 0

(* Success is claimed in two ways: the user's end script runs, where the   *)
(* update can be made bootable, and the progress is 100, which the screen  *)
(* shows as success.  Neither happens before the last image is in place,   *)
(* with steps that failed, and with nodes that were rounded.               *)
SuccessMeansInstalled == ended \/ current = 100 => Complete

(* Progress does not go back while the script runs, from checking to       *)
(* writing and from one image to the next, unless it fails; nor when a     *)
(* differential package leaves no room between 30 and its end script.      *)
NodesAscend ==
  [][phase' = "running" /\ EndNode(job) >= 30 => current' >= current]_vars

(* The node the running step will reach.                                   *)
Reaches == script[CHOOSE i \in pc .. Len(script) :
                    /\ script[i].op = "current"
                    /\ \A k \in pc .. i - 1 : script[k].op # "current"].arg

(* Behind the last generated image, the next node is not announced.        *)
Unannounced ==
  job.diff /\ NewPartitions(job) # <<>> /\ Arg = NewPartitions(job)[1]

(* While an image is written, the screen knows where the step will end.    *)
StepIsAnnounced == writing => next = Reaches \/ Unannounced

(* README.md:145, "The firmware to be upgraded must be named in the form   *)
(* of vela_<xxx>.bin": a file of another name is not written to a device.  *)
OnlyNamedInstalled == \A f \in Files \ Named : part[f] = "old"
=============================================================================
