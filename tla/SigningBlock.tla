---------------------------- MODULE SigningBlock ----------------------------
(***************************************************************************)
(* The signing block of a package: what a signer writes, and what          *)
(* zip_verify finds in it (get_signature_info, verify/zip_verify.c).       *)
(*                                                                         *)
(* The first pair of the block holds nested blocks, each behind a length   *)
(* of 4 bytes:                                                             *)
(*                                                                         *)
(*   signers: signer: signed data: digests: digest: id, digest; ...        *)
(*                                 certificates; attributes                *)
(*                    signatures: signature: id, signature; ...            *)
(*                    public key                                           *)
(*                                                                         *)
(* An offset counts from the first pair.  Lists may have further members   *)
(* (`more`), which zip_verify does not look at.                            *)
(***************************************************************************)
EXTENDS Integers

(* A signing block: lengths of its parts, and the two algorithm ids.       *)
Block ==
  [digest: Nat, digest_id: Nat, more_digests: Nat, certificates: Nat,
   attributes: Nat, signature: Nat, signature_id: Nat, more_signatures: Nat,
   public_key: Nat, more_signers: Nat, more_pairs: Nat]

Region(data, length) == [data |-> data, length |-> length]

-----------------------------------------------------------------------------
(* The signer: the length of each list, and where each part lies.          *)
DigestsLength(b) == 12 + b.digest + b.more_digests

SignedDataLength(b) == 12 + DigestsLength(b) + b.certificates + b.attributes

SignaturesLength(b) == 12 + b.signature + b.more_signatures

SignerLength(b) == 12 + SignedDataLength(b) + SignaturesLength(b) + b.public_key

SignersLength(b) == 4 + SignerLength(b) + b.more_signers

(* A pair is a length of 8 bytes, an id of 4 and the value.                *)
PairsLength(b) == 12 + 4 + SignersLength(b) + b.more_pairs

SignedData(b) == Region(24, SignedDataLength(b))

Digest(b) == Region(40, b.digest)

Signatures(b) == Region(28 + SignedDataLength(b), SignaturesLength(b))

Signature(b) == Region(40 + SignedDataLength(b), b.signature)

PublicKey(b) ==
  Region(32 + SignedDataLength(b) + SignaturesLength(b), b.public_key)

(* The numbers of 4 bytes that the signer wrote, with their offsets.       *)
Words(b) ==
  {<<12, SignersLength(b)>>, <<16, SignerLength(b)>>,
   <<20, SignedDataLength(b)>>, <<24, DigestsLength(b)>>, <<28, 8 + b.digest>>,
   <<32, b.digest_id>>, <<36, b.digest>>,
   <<24 + SignedDataLength(b), SignaturesLength(b)>>,
   <<28 + SignedDataLength(b), 8 + b.signature>>,
   <<32 + SignedDataLength(b), b.signature_id>>,
   <<36 + SignedDataLength(b), b.signature>>,
   <<28 + SignedDataLength(b) + SignaturesLength(b), b.public_key>>}

(* What is read at an offset; where the signer wrote no number, anything.  *)
Word(b, offset) ==
  CHOOSE n \in {w[2] : w \in Words(b)} : <<offset, n>> \in Words(b)

-----------------------------------------------------------------------------
(* parse_block: a region behind its length.                                *)
parse_block(b, offset) == Region(offset + 4, Word(b, offset))

End(region) == region.data + region.length

(* Mutant of get_signature_info: the digest is taken with the id and the   *)
(* length before it.                                                       *)
InfoWithId(b, data) ==
  LET one_sign_block == parse_block(b, data)
      signed_data == parse_block(b, one_sign_block.data)
      signatures == parse_block(b, End(signed_data))
      digests == parse_block(b, signed_data.data)
      content == parse_block(b, signatures.data)
  IN  [signed_data |-> signed_data,
       public_key |-> parse_block(b, End(signatures)),
       digests_signatures_algorithm_id |-> Word(b, digests.data + 4),
       one_digest |-> parse_block(b, digests.data),
       signatures_algorithm_id |-> Word(b, content.data),
       signatures_content |-> parse_block(b, content.data + 4)]

(* get_signature_info, without the certificate, which nothing uses.        *)
get_signature_info(b, data) ==
  LET one_sign_block == parse_block(b, data)
      signed_data == parse_block(b, one_sign_block.data)
      signatures == parse_block(b, End(signed_data))
      digests == parse_block(b, signed_data.data)
      content == parse_block(b, signatures.data)
  IN  [signed_data |-> signed_data,
       public_key |-> parse_block(b, End(signatures)),
       digests_signatures_algorithm_id |-> Word(b, digests.data + 4),
       one_digest |-> parse_block(b, digests.data + 8),
       signatures_algorithm_id |-> Word(b, content.data),
       signatures_content |-> parse_block(b, content.data + 4)]

(* parse_kv_block: the value of the first pair, whatever its id.           *)
parse_kv_block == 8 + 4

SignatureInfo(b) ==
  get_signature_info(b, parse_block(b, parse_kv_block).data)
=============================================================================
