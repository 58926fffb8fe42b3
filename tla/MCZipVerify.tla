---------------------------- MODULE MCZipVerify ----------------------------
(***************************************************************************)
(* Packages for model checking: every combination of what may be wrong     *)
(* with one of four layouts, around the size of a chunk.                   *)
(***************************************************************************)
EXTENDS ZipVerify

Layouts == {[data |-> 1, cd |-> 46, comment |-> 0, more |-> 0, key_length |-> 0],
            [data |-> 32, cd |-> 47, comment |-> 5, more |-> 44, key_length |-> 1],
            [data |-> 33, cd |-> 64, comment |-> 0, more |-> 1, key_length |-> 270],
            [data |-> 95, cd |-> 65, comment |-> 1, more |-> 4, key_length |-> 3]}

(* A signing block with one algorithm, or with more of everything.         *)
MCBlock(more, key_length, same) ==
  [digest |-> 32, digest_id |-> 259, more_digests |-> more,
   certificates |-> 8 + key_length, attributes |-> more,
   signature |-> 256, signature_id |-> IF same THEN 259 ELSE 260,
   more_signatures |-> more, public_key |-> key_length, more_signers |-> more,
   more_pairs |-> more]

MCPackages ==
  {[format |-> f, magic |-> m, signed |-> s, intact |-> t,
    block |-> MCBlock(l.more, l.key_length, i),
    data |-> l.data, cd |-> l.cd, comment |-> l.comment] :
     f, m, i, s, t \in BOOLEAN, l \in Layouts}
=============================================================================
