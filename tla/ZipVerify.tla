----------------------------- MODULE ZipVerify -----------------------------
(***************************************************************************)
(* zip_verify (verify/zip_verify.c), call by call: every call of the       *)
(* system or of a library may fail, and the result goes up through         *)
(* verify_digest, verify_app, verify and main, which share the name and    *)
(* the convention of `res`.                                                *)
(*                                                                         *)
(* A package is the lengths of its parts and what is true of its contents. *)
(* Hashes do not collide.  Descriptors 0 to 2 are in use, so that the      *)
(* tests fd > 0 and fd >= 0 agree.                                         *)
(***************************************************************************)
EXTENDS SigningBlock, Sequences, FiniteSetsExt

CONSTANTS
  Packages,    \* the packages that occur; see Genuine and the layout below
  ChunkSize,   \* DIGESTED_CHUNK_MAX_SIZE
  BufSize,     \* CONFIG_UTILS_ZIP_VERIFY_BUFSIZE
  MaxErrors    \* bound: different calls that fail in a run

ASSUME SizeAssumption == ChunkSize \in Nat \ {0} /\ BufSize \in Nat \ {0}
                           /\ MaxErrors \in Nat

(* Package contents: the lengths of the parts and the signing block, and   *)
(* the facts about them.                                                   *)
ASSUME PackagesAssumption ==
  \A p \in Packages : /\ p.block \in Block
                      /\ p.data \in Nat /\ p.cd \in Nat /\ p.comment \in Nat

VARIABLES
  package,
  pc,        \* the call that comes next
  res,       \* the result, when pc is "exit"
  open,      \* what is open: "zip", "app", "cert"
  heap,      \* what is allocated: "app_block", "block", "key", "buf"
  content,   \* the signing block was read
  key,       \* the key was read
  at,        \* verify_digest: where the hashing is
  hashed,    \* verify_digest: the chunks hashed
  eocd,      \* verify_digest: the end record hashed
  failed     \* the calls that failed

memory == <<open, heap>>
digest == <<at, hashed, eocd>>
vars == <<package, pc, res, memory, content, key, digest, failed>>

-----------------------------------------------------------------------------
(* The layout of a signed package: entries, the signing block (a length of *)
(* 8 bytes, pairs, the length again, a magic of 16), the central           *)
(* directory, and its end record, which holds the offset of the directory  *)
(* at 16 and the length of the comment behind it.                          *)
BlockLength(p) == PairsLength(p.block) + 8 + 16

CdOffset(p) == p.data + 8 + BlockLength(p)

EocdOffset(p) == CdOffset(p) + p.cd

FileLength(p) == EocdOffset(p) + 22 + p.comment

(* What the signer hashed.                                                 *)
Cut(from, length) ==
  [i \in 1 .. (length + ChunkSize - 1) \div ChunkSize |->
     [from |-> from + (i - 1) * ChunkSize,
      length |-> Min({ChunkSize, length - (i - 1) * ChunkSize})]]

SignedChunks(p) == Cut(0, p.data) \o Cut(CdOffset(p), p.cd)

SignedEocd(p) ==
  [from |-> EocdOffset(p), length |-> 22 + p.comment, offset |-> p.data]

Genuine(p) ==
  /\ p.format /\ p.magic /\ p.signed /\ p.intact
  /\ p.block.digest_id = p.block.signature_id

-----------------------------------------------------------------------------
(* Mutant of AppBlock: the length in front of the block is left to the     *)
(* entries.                                                                *)
AppBlockWithLength(p) ==
  LET pointer == FileLength(p) - p.comment - 4 - 2
      cd == CdOffset(p)
  IN  [data |-> [from |-> 0, length |-> cd - BlockLength(p)],
       cd |-> [from |-> cd, length |-> pointer - 16 - cd],
       eocd |-> [from |-> pointer - 16, length |-> p.comment + 4 + 2 + 16]]

(* The regions that parse_app_block finds, from the comment's length, the  *)
(* offset of the directory and the length in front of the magic.           *)
AppBlock(p) ==
  LET pointer == FileLength(p) - p.comment - 4 - 2
      cd == CdOffset(p)
      block == cd - BlockLength(p)
  IN  [data |-> [from |-> 0, length |-> block - 8],
       cd |-> [from |-> cd, length |-> pointer - 16 - cd],
       eocd |-> [from |-> pointer - 16, length |-> p.comment + 4 + 2 + 16]]

(* calc_chunk_count.                                                       *)
ChunkCount(length) == (length + ChunkSize - 1) \div ChunkSize

(* md_file_block begins with a region.                                     *)
Beginning(region) ==
  [region |-> region, chunk |-> 0, left |-> AppBlock(package)[region].length, sum |-> 0]

Init ==
  /\ package \in Packages
  /\ pc = "access" /\ res = -1
  /\ open = {} /\ heap = {}
  /\ content = FALSE /\ key = FALSE
  /\ at = [region |-> "data", chunk |-> 0, left |-> 0, sum |-> 0]
  /\ hashed = <<>> /\ eocd = <<>>
  /\ failed = {}

Fails(call) ==
  /\ Cardinality(failed) < MaxErrors
  /\ failed' = failed \cup {call}

(* goto error: the result goes up to main as it is, and what verify_app    *)
(* holds is freed.                                                         *)
Return(result) ==
  /\ pc' = "exit"
  /\ res' = result
  /\ heap' = heap \ {"app_block", "block"}

Continue(next) == pc' = next /\ UNCHANGED res

-----------------------------------------------------------------------------
(* main: access, for the file and for the key.                             *)
Access ==
  /\ pc = "access"
  /\ \/ Continue("unzip") /\ UNCHANGED <<memory, failed>>
     \/ Fails("access") /\ Return(-1) /\ UNCHANGED open
  /\ UNCHANGED <<package, content, key, digest>>

(* verify: unzOpen, unzGetGlobalInfo64, unzClose.                          *)
UnzOpen ==
  /\ pc = "unzip"
  /\ \/ /\ package.format
        /\ Continue("info") /\ open' = open \cup {"zip"} /\ UNCHANGED <<heap, failed>>
     \/ ~package.format /\ Return(-1) /\ UNCHANGED <<open, failed>>
     \/ Fails("unzip") /\ Return(-1) /\ UNCHANGED open
  /\ UNCHANGED <<package, content, key, digest>>

UnzInfo ==
  /\ pc = "info"
  /\ \/ Continue("close") /\ UNCHANGED <<memory, failed>>
     \/ Fails("info") /\ Return(-1) /\ UNCHANGED open
  /\ UNCHANGED <<package, content, key, digest>>

UnzClose ==
  /\ pc = "close"
  /\ open' = open \ {"zip"}
  /\ \/ Continue("parse") /\ UNCHANGED <<heap, failed>>
     \/ Fails("close") /\ Return(-1)
  /\ UNCHANGED <<package, content, key, digest>>

(* parse_app_block: allocate, open, read three numbers and the magic.  The *)
(* file is closed on both ways out.                                        *)
ParseAppBlock ==
  /\ pc = "parse"
  /\ \/ package.magic /\ Continue("load") /\ heap' = heap \cup {"app_block"}
          /\ UNCHANGED failed
     \/ ~package.magic /\ Return(-1) /\ UNCHANGED failed
     \/ Fails("parse") /\ Return(-1)
  /\ UNCHANGED <<package, open, content, key, digest>>

(* The signing block is allocated and read; the result of the read is not  *)
(* looked at.                                                              *)
LoadBlock ==
  /\ pc = "load"
  /\ \/ /\ Continue("ids") /\ heap' = heap \cup {"block"}
        /\ \/ content' = TRUE /\ UNCHANGED failed
           \/ content' = FALSE /\ Fails("read_block")
     \/ /\ Return(-1) /\ UNCHANGED content
        /\ \E call \in {"malloc_block", "open_app"} : Fails(call)
  /\ UNCHANGED <<package, open, key, digest>>

Info == SignatureInfo(package.block)

SameIds ==
  Info.digests_signatures_algorithm_id = Info.signatures_algorithm_id

(* What is parsed of a block that was not read is undefined: the program   *)
(* stops, or the lengths it finds happen to lead somewhere.                *)
CompareIds ==
  /\ pc = "ids"
  /\ \/ (content => SameIds) /\ Continue("stat") /\ UNCHANGED heap
     \/ (content => ~SameIds) /\ Return(-1)
     \/ ~content /\ Continue("crashed") /\ UNCHANGED heap
  /\ UNCHANGED <<package, open, content, key, digest, failed>>

Stat ==
  /\ pc = "stat"
  /\ \/ Continue("cert") /\ UNCHANGED <<heap, failed>>
     \/ Fails("stat") /\ Return(-1)
  /\ UNCHANGED <<package, open, content, key, digest>>

(* stat has left 0 in the result, and a failing open leaves it there.      *)
OpenCert ==
  /\ pc = "cert"
  /\ \/ Continue("key") /\ open' = open \cup {"cert"} /\ UNCHANGED <<heap, failed>>
     \/ Fails("open_cert") /\ Return(0) /\ UNCHANGED open
  /\ UNCHANGED <<package, content, key, digest>>

(* Neither the allocation nor the read of the key is checked.              *)
ReadKey ==
  /\ pc = "key"
  /\ open' = open \ {"cert"}
  /\ Continue("signature")
  /\ \/ key' = TRUE /\ heap' = heap \cup {"key"} /\ UNCHANGED failed
     \/ key' = FALSE /\ heap' = heap \cup {"key"} /\ Fails("read_key")
     \/ key' = FALSE /\ UNCHANGED heap /\ Fails("malloc_key")
  /\ UNCHANGED <<package, content, digest>>

SignatureIsValid ==
  /\ content /\ key /\ package.signed
  /\ Info.signed_data = SignedData(package.block)
  /\ Info.signatures_content = Signature(package.block)

(* verify_signature.  A key that was not read is not a key, or is read     *)
(* beyond its end.                                                         *)
VerifySignature ==
  /\ pc = "signature"
  /\ \/ /\ SignatureIsValid
        /\ Continue("open") /\ heap' = heap \ {"key"}
     \/ /\ ~SignatureIsValid
        /\ pc' = "exit" /\ res' = 1
        /\ heap' = heap \ {"key", "app_block", "block"}
     \/ ~(content /\ key) /\ Continue("crashed") /\ UNCHANGED heap
  /\ UNCHANGED <<package, open, content, key, digest, failed>>

-----------------------------------------------------------------------------
(* verify_digest. *)

OpenApp ==
  /\ pc = "open"
  /\ \/ /\ Continue("hash")
        /\ open' = open \cup {"app"} /\ heap' = heap \cup {"buf"}
        /\ at' = Beginning("data")
        /\ UNCHANGED failed
     \/ /\ Return(-1) /\ UNCHANGED <<open, at>>
        /\ \E call \in {"open_digest", "malloc_buf"} : Fails(call)
  /\ UNCHANGED <<package, content, key, hashed, eocd>>

FileBlock == AppBlock(package)[at.region]

ThisChunk == Min({at.left, ChunkSize})

Hashing == pc = "hash" /\ at.chunk < ChunkCount(FileBlock.length)

(* md_one_chunk: a read of the loop returns as much as it likes.           *)
HashRead ==
  /\ Hashing /\ at.sum < ThisChunk
  /\ \E n \in 1 .. Min({BufSize, ThisChunk - at.sum}) :
       at' = [at EXCEPT !.sum = @ + n]
  /\ UNCHANGED <<package, pc, res, memory, content, key, hashed, eocd, failed>>

(* md_file_block: a chunk is complete.                                     *)
HashChunk ==
  /\ Hashing /\ at.sum = ThisChunk
  /\ hashed' = Append(hashed, [from |-> FileBlock.from + at.chunk * ChunkSize,
                               length |-> ThisChunk])
  /\ at' = [at EXCEPT !.chunk = @ + 1, !.left = @ - ThisChunk, !.sum = 0]
  /\ UNCHANGED <<package, pc, res, memory, content, key, eocd, failed>>

(* Mutant of HashFails: what could be read counts as the whole chunk.      *)
HashFailsSilently ==
  /\ Hashing /\ at.sum < ThisChunk
  /\ Fails("read")
  /\ at' = [at EXCEPT !.sum = ThisChunk]
  /\ UNCHANGED <<package, pc, res, memory, content, key, hashed, eocd>>

(* A read fails: the rest of the region is not hashed, and verify_digest   *)
(* goes on, as it drops the result.                                        *)
HashFails ==
  /\ Hashing /\ at.sum < ThisChunk
  /\ Fails("read")
  /\ at' = [at EXCEPT !.chunk = ChunkCount(FileBlock.length), !.sum = 0]
  /\ UNCHANGED <<package, pc, res, memory, content, key, hashed, eocd>>

HashRegionEnd ==
  /\ pc = "hash" /\ at.chunk = ChunkCount(FileBlock.length)
  /\ IF at.region = "data" THEN at' = Beginning("cd") /\ UNCHANGED pc
     ELSE pc' = "eocd" /\ UNCHANGED at
  /\ UNCHANGED <<package, res, memory, content, key, hashed, eocd, failed>>

(* The way out of verify_digest.                                           *)
ReturnDigest(result) ==
  /\ pc' = "exit"
  /\ res' = result
  /\ open' = open \ {"app"}
  /\ heap' = heap \ {"buf", "app_block", "block"}

(* The end record is hashed with the offset it had before the signing.     *)
ReadEocd ==
  /\ pc = "eocd"
  /\ eocd' = [from |-> AppBlock(package).eocd.from,
              length |-> AppBlock(package).eocd.length,
              offset |-> AppBlock(package).data.length]
  /\ Continue("compare")
  /\ UNCHANGED <<package, memory, content, key, at, hashed, failed>>

(* realloc gives NULL and the buffer is lost; lseek gives -1; a read that  *)
(* is too short leaves its count, which may be 0, as the result.           *)
EocdFails ==
  /\ pc = "eocd"
  /\ \/ /\ Fails("realloc")
        /\ pc' = "exit" /\ res' = -1
        /\ open' = open \ {"app"} /\ heap' = heap \ {"app_block", "block"}
     \/ Fails("lseek") /\ ReturnDigest(-1)
     \/ Fails("read_eocd") /\ \E count \in {-1, 0, 1} : ReturnDigest(count)
  /\ UNCHANGED <<package, content, key, digest>>

SameDigest ==
  /\ Info.one_digest.data = Digest(package.block).data
  /\ package.intact /\ hashed = SignedChunks(package) /\ eocd = SignedEocd(package)

(* Mutant of Compare: the result of the comparison is lost.                *)
CompareDropped ==
  /\ pc = "compare"
  /\ ReturnDigest(0)
  /\ UNCHANGED <<package, content, key, digest, failed>>

(* Mutant of Compare: the way out of a mismatch keeps the file open.       *)
CompareLeavesOpen ==
  /\ pc = "compare"
  /\ IF SameDigest THEN ReturnDigest(0) ELSE Return(1) /\ UNCHANGED open
  /\ UNCHANGED <<package, content, key, digest, failed>>

Compare ==
  /\ pc = "compare"
  /\ ReturnDigest(IF SameDigest THEN 0 ELSE 1)
  /\ UNCHANGED <<package, content, key, digest, failed>>

VerifyDigest ==
  \/ OpenApp \/ HashRead \/ HashChunk \/ HashFails \/ HashRegionEnd \/ ReadEocd
  \/ EocdFails \/ Compare

VerifyApp ==
  \/ ParseAppBlock \/ LoadBlock \/ CompareIds \/ Stat \/ OpenCert \/ ReadKey
  \/ VerifySignature \/ VerifyDigest

Next == Access \/ UnzOpen \/ UnzInfo \/ UnzClose \/ VerifyApp

Spec == Init /\ [][Next]_vars

-----------------------------------------------------------------------------
Calls == {"access", "unzip", "info", "close", "parse", "malloc_block", "open_app",
          "read_block", "stat", "open_cert", "read_key", "malloc_key",
          "open_digest", "malloc_buf", "read", "realloc", "lseek", "read_eocd"}

TypeOK ==
  /\ package \in Packages
  /\ pc \in {"access", "unzip", "info", "close", "parse", "load", "ids", "stat",
             "cert", "key", "signature", "open", "hash", "eocd", "compare",
             "exit", "crashed"}
  /\ res \in -1 .. 1
  /\ open \subseteq {"zip", "app", "cert"}
  /\ heap \subseteq {"app_block", "block", "key", "buf"}
  /\ content \in BOOLEAN /\ key \in BOOLEAN
  /\ at.region \in {"data", "cd"}
  /\ at.sum \in 0 .. ChunkSize
  /\ Len(hashed) <= Len(SignedChunks(package))
  /\ failed \subseteq Calls

Accepted == pc = "exit" /\ res = 0

(* A package is accepted only when everything about it is as it was        *)
(* signed, whatever calls fail on the way; two calls are excepted, whose   *)
(* failure the code takes for success: the open of the key behind its      *)
(* stat, and a read of the end record that finds nothing.                  *)
AcceptedIsGenuine ==
  Accepted => Genuine(package) \/ failed \cap {"open_cert", "read_eocd"} # {}

(* The same without the exceptions.  README.md:240 boots what a verifier   *)
(* exits with 0 for.                                                       *)
ZeroMeansVerified == Accepted => Genuine(package)

(* Nothing is accepted of which a part could not be read: the signing      *)
(* block, the key, or a piece of the contents in the middle of a chunk.    *)
UnreadIsNotAccepted ==
  Accepted => failed \cap {"read_block", "read_key", "malloc_key", "read"} = {}
                \/ failed \cap {"open_cert", "read_eocd"} # {}

(* A genuine package is accepted when no call fails, whatever the lengths  *)
(* of its parts and however the reads are cut: regions, chunks and the     *)
(* end record are those of the signer.                                     *)
GenuineIsAccepted ==
  pc = "exit" /\ Genuine(package) /\ failed = {} => res = 0

(* On every way out all that was opened is closed and all that was         *)
(* allocated is freed, but for the zip handle without its information and  *)
(* the buffer that could not grow.                                         *)
NothingIsLeft ==
  pc = "exit" =>
    /\ open \subseteq IF "info" \in failed THEN {"zip"} ELSE {}
    /\ heap \subseteq IF "realloc" \in failed THEN {"buf"} ELSE {}
=============================================================================
