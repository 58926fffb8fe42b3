----------------------------- MODULE AvbVerify ------------------------------
(***************************************************************************)
(* avb_verify (verify/avb_main.c): from its command line to its exit code. *)
(* A command line is a sequence of options, each with its argument, and    *)
(* the partitions behind them.  The library that reads images and checks   *)
(* them, libavb, is external: its three functions are constants, which     *)
(* give 0 or an error.                                                     *)
(***************************************************************************)
EXTENDS Integers, SequencesExt

CONSTANTS avb_verify(_, _), avb_hash_desc(_), avb_vbmeta_hash_desc(_, _)

(* A pointer that is NULL.                                                 *)
Null == 0

Option(opt, arg) == [opt |-> opt, arg |-> arg]

(* struct avb_params_t, before the options, and whether to display info    *)
(* or to give up with the usage.                                           *)
Params ==
  [flags |-> {"no_vbmeta_partition"}, key |-> "/etc/key.avb", suffix |-> Null,
   image |-> Null, vbmeta |-> Null, info |-> FALSE, usage |-> FALSE]

(* A turn of the getopt loop, which ends at -h or at an unknown option.    *)
Take(p, o) ==
  IF p.usage THEN p
  ELSE CASE o.opt = "i" -> [p EXCEPT !.flags = @ \cup {"allow_rollback_index_error"}]
         [] o.opt = "I" -> [p EXCEPT !.info = TRUE]
         [] o.opt = "k" -> [p EXCEPT !.key = o.arg]
         [] o.opt = "s" -> [p EXCEPT !.suffix = o.arg]
         [] o.opt = "U" -> [p EXCEPT !.image = o.arg]
         [] o.opt = "V" -> [p EXCEPT !.flags = @ \ {"no_vbmeta_partition"},
                                     !.vbmeta = o.arg]
         [] OTHER -> [p EXCEPT !.usage = TRUE]

Parse(options) == FoldLeft(Take, Params, options)

(* Info mode: the result for the first partition without a descriptor.     *)
Info(p, partitions) ==
  LET Desc(partition) == IF "no_vbmeta_partition" \in p.flags THEN avb_hash_desc(partition)
                         ELSE avb_vbmeta_hash_desc(p.vbmeta, partition)
  IN  FoldLeft(LAMBDA ret, partition : IF ret # 0 THEN ret ELSE Desc(partition),
               0, partitions)

(* main.  The shell sees eight bits of what it returns.                    *)
Exit(options, partitions) ==
  LET p == Parse(options)
  IN  IF p.usage THEN 1
      ELSE IF partitions = <<>> THEN 10
      ELSE IF p.info THEN Info(p, partitions) % 256
      ELSE avb_verify(p, partitions) % 256
=============================================================================
