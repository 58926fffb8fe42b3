-------------------------- MODULE ZipVerify_proofs --------------------------
(***************************************************************************)
(* zip_verify, for every package, every size of chunk and buffer, and      *)
(* every number of failing calls: it finds in a signing block what the     *)
(* signer wrote (InfoIsFound); it accepts only genuine packages, but       *)
(* for the two failures that AcceptedIsGenuine names; it accepts none of   *)
(* which a read failed; and it accepts a genuine one when no call fails.   *)
(*                                                                         *)
(* The last two rest on what is hashed: Hashed says that the chunks hashed *)
(* so far are the first of those the signer cut, so that at the end both   *)
(* have hashed the same.                                                   *)
(***************************************************************************)
EXTENDS ZipVerify, TLAPS, SequenceTheorems

-----------------------------------------------------------------------------
(* The signing block.                                                      *)

(* The lengths behind which the signer's parts lie are natural numbers.    *)
LEMMA LengthsAreNat ==
  ASSUME NEW b \in Block
  PROVE  /\ DigestsLength(b) \in Nat
         /\ SignedDataLength(b) \in Nat
         /\ SignaturesLength(b) \in Nat /\ SignaturesLength(b) >= 12
         /\ SignedDataLength(b) >= 24
  BY DEF Block, DigestsLength, SignedDataLength, SignaturesLength

(* The numbers lie apart from each other: one that the signer wrote is     *)
(* what is read at its offset.                                             *)
LEMMA WordIsFound ==
  ASSUME NEW b \in Block, NEW offset, NEW n, <<offset, n>> \in Words(b)
  PROVE  Word(b, offset) = n
<1>1. n \in {w[2] : w \in Words(b)}
  OBVIOUS
<1>2. ASSUME NEW m, <<offset, m>> \in Words(b) PROVE m = n
  <2>1. /\ SignedDataLength(b) \in Nat /\ SignedDataLength(b) >= 24
        /\ SignaturesLength(b) \in Nat /\ SignaturesLength(b) >= 12
    BY LengthsAreNat
  <2>2. QED
    BY <1>2, <2>1 DEF Words
<1>3. QED
  BY <1>1, <1>2 DEF Word

(* So each field of a block is read where the parser looks for it.          *)
LEMMA WordsAreFound ==
  ASSUME NEW b \in Block
  PROVE  /\ Word(b, 20) = SignedDataLength(b)
         /\ Word(b, 32) = b.digest_id
         /\ Word(b, 36) = b.digest
         /\ Word(b, 24 + SignedDataLength(b)) = SignaturesLength(b)
         /\ Word(b, 32 + SignedDataLength(b)) = b.signature_id
         /\ Word(b, 36 + SignedDataLength(b)) = b.signature
         /\ Word(b, 28 + SignedDataLength(b) + SignaturesLength(b)) = b.public_key
  BY WordIsFound DEF Words

(* get_signature_info gives the signed data, the key, the first digest and *)
(* the first signature with their ids as the signer wrote them.            *)
THEOREM InfoIsFound ==
  ASSUME NEW b \in Block
  PROVE  SignatureInfo(b) =
           [signed_data |-> SignedData(b),
            public_key |-> PublicKey(b),
            digests_signatures_algorithm_id |-> b.digest_id,
            one_digest |-> Digest(b),
            signatures_algorithm_id |-> b.signature_id,
            signatures_content |-> Signature(b)]
<1> DEFINE D == SignedDataLength(b)
           S == SignaturesLength(b)
<1>1. D \in Nat /\ S \in Nat
  BY LengthsAreNat
<1>2. parse_block(b, parse_kv_block).data = 16
  BY DEF parse_block, parse_kv_block, Region
<1>3. parse_block(b, 16).data = 20
  BY DEF parse_block, Region
<1>4. parse_block(b, 20) = SignedData(b)
  BY WordsAreFound DEF parse_block, SignedData
<1>5. SignedData(b).data = 24 /\ End(SignedData(b)) = 24 + D
  BY DEF SignedData, End, Region
<1>6. parse_block(b, 24 + D) = Signatures(b)
  BY <1>1, WordsAreFound DEF parse_block, Signatures
<1>7. Signatures(b).data = 28 + D /\ End(Signatures(b)) = 28 + D + S
  BY DEF Signatures, End, Region
<1>8. parse_block(b, 28 + D + S) = PublicKey(b)
  BY <1>1, WordsAreFound DEF parse_block, PublicKey
<1>9. parse_block(b, 24).data = 28
  BY DEF parse_block, Region
<1>10. parse_block(b, 36) = Digest(b)
  BY WordsAreFound DEF parse_block, Digest
<1>11. parse_block(b, 28 + D).data = 32 + D
  BY <1>1 DEF parse_block, Region
<1>12. parse_block(b, 36 + D) = Signature(b)
  BY <1>1, WordsAreFound DEF parse_block, Signature
<1>13. QED
  BY <1>1, <1>2, <1>3, <1>4, <1>5, <1>6, <1>7, <1>8, <1>9, <1>10, <1>11, <1>12,
     WordsAreFound
     DEF SignatureInfo, get_signature_info

-----------------------------------------------------------------------------
(* What is accepted.                                                       *)

(* What has been checked when a call comes next.                           *)
FormatChecked == pc \notin {"access", "unzip", "exit", "crashed"} => package.format

MagicChecked ==
  pc \notin {"access", "unzip", "info", "close", "parse", "exit", "crashed"}
    => package.magic

IdsChecked ==
  pc \in {"stat", "cert", "key", "signature", "open", "hash", "eocd", "compare"}
    => (content => SameIds)

SignatureChecked ==
  pc \in {"open", "hash", "eocd", "compare"} => content /\ package.signed

IInv ==
  /\ package \in Packages
  /\ FormatChecked /\ MagicChecked /\ IdsChecked /\ SignatureChecked
  /\ AcceptedIsGenuine

(* At the beginning nothing is accepted.                                   *)
LEMMA InitIInv == Init => IInv
  BY DEF Init, IInv, FormatChecked, MagicChecked, IdsChecked, SignatureChecked,
         AcceptedIsGenuine, Accepted

(* The ids that are compared are those that the signer wrote.              *)
LEMMA IdsAreSigned ==
  ASSUME package \in Packages
  PROVE  SameIds <=> package.block.digest_id = package.block.signature_id
<1>1. package.block \in Block
  BY PackagesAssumption
<1>2. QED
  BY <1>1, InfoIsFound DEF SameIds, Info

(* A call either passes the check it stands for or ends with a result that *)
(* is not 0, except the two.                                               *)
LEMMA StepIInv == IInv /\ [Next]_vars => IInv'
<1> SUFFICES ASSUME IInv, [Next]_vars PROVE IInv'
  OBVIOUS
<1> USE DEF IInv, FormatChecked, MagicChecked, IdsChecked, SignatureChecked,
            AcceptedIsGenuine, Accepted, Genuine, memory, digest,
            SameIds, Info
<1>1. CASE UNCHANGED vars
  BY <1>1 DEF vars
<1>2. CASE Access
  BY <1>2 DEF Access, Continue, Return, Fails
<1>3. CASE UnzOpen
  BY <1>3 DEF UnzOpen, Continue, Return, Fails
<1>4. CASE UnzInfo
  BY <1>4 DEF UnzInfo, Continue, Return, Fails
<1>5. CASE UnzClose
  BY <1>5 DEF UnzClose, Continue, Return, Fails
<1>6. CASE ParseAppBlock
  BY <1>6 DEF ParseAppBlock, Continue, Return, Fails
<1>7. CASE LoadBlock
  BY <1>7 DEF LoadBlock, Continue, Return, Fails
<1>8. CASE CompareIds
  BY <1>8 DEF CompareIds, Continue, Return
<1>9. CASE Stat
  BY <1>9 DEF Stat, Continue, Return, Fails
<1>10. CASE OpenCert
  BY <1>10 DEF OpenCert, Continue, Return, Fails
<1>11. CASE ReadKey
  BY <1>11 DEF ReadKey, Continue, Fails
<1>12. CASE VerifySignature
  BY <1>12 DEF VerifySignature, SignatureIsValid, Continue
<1>13. CASE OpenApp
  BY <1>13 DEF OpenApp, Continue, Return, Fails
<1>14. CASE HashRead
  BY <1>14 DEF HashRead, Hashing
<1>15. CASE HashChunk
  BY <1>15 DEF HashChunk, Hashing
<1>16. CASE HashFails
  BY <1>16 DEF HashFails, Hashing
<1>17. CASE HashRegionEnd
  BY <1>17 DEF HashRegionEnd
<1>18. CASE ReadEocd
  BY <1>18 DEF ReadEocd, Continue
<1>19. CASE EocdFails
  BY <1>19 DEF EocdFails, ReturnDigest, Fails
<1>20. CASE Compare
  BY <1>20, IdsAreSigned DEF Compare, ReturnDigest, SameDigest
<1>21. QED
  BY <1>1, <1>2, <1>3, <1>4, <1>5, <1>6, <1>7, <1>8, <1>9, <1>10, <1>11, <1>12,
     <1>13, <1>14, <1>15, <1>16, <1>17, <1>18, <1>19, <1>20
     DEF Next, VerifyApp, VerifyDigest

(* Result 0 means that the format, the magic, the algorithms, the signature*)
(* and the digest of the whole contents were found right, except after a   *)
(* failed open of the key or an end record that reads as empty.            *)
THEOREM NothingElseIsAccepted == Spec => []AcceptedIsGenuine
<1>1. IInv => AcceptedIsGenuine
  BY DEF IInv
<1>2. QED
  BY InitIInv, StepIInv, <1>1, PTL DEF Spec

-----------------------------------------------------------------------------
(* What is open and allocated when a call comes next.                      *)
OpenAt ==
  /\ pc \in {"info", "close"} => open = {"zip"}
  /\ pc = "key" => open = {"cert"}
  /\ pc \in {"hash", "eocd", "compare"} => open = {"app"}
  /\ pc \in {"access", "unzip", "parse", "load", "ids", "stat", "cert", "signature",
             "open"} => open = {}

HeapAt ==
  /\ pc \in {"access", "unzip", "info", "close", "parse"} => heap = {}
  /\ pc = "load" => heap = {"app_block"}
  /\ pc \in {"ids", "stat", "cert", "key", "open"} => heap = {"app_block", "block"}
  /\ pc = "signature" => heap \subseteq {"app_block", "block", "key"}
                         /\ {"app_block", "block"} \subseteq heap
  /\ pc \in {"hash", "eocd", "compare"} => heap = {"app_block", "block", "buf"}

LeftInv == OpenAt /\ HeapAt /\ NothingIsLeft

(* Nothing is open or allocated before the first call.                     *)
LEMMA InitLeft == Init => LeftInv
  BY DEF Init, LeftInv, OpenAt, HeapAt, NothingIsLeft

(* Every call returns what it will not leave to its successor.             *)
LEMMA StepLeft == LeftInv /\ [Next]_vars => LeftInv'
<1> SUFFICES ASSUME LeftInv, [Next]_vars PROVE LeftInv'
  OBVIOUS
<1> USE DEF LeftInv, OpenAt, HeapAt, NothingIsLeft, memory, digest
<1>1. CASE UNCHANGED vars
  BY <1>1 DEF vars
<1>2. CASE Access
  BY <1>2 DEF Access, Continue, Return, Fails
<1>3. CASE UnzOpen
  BY <1>3 DEF UnzOpen, Continue, Return, Fails
<1>4. CASE UnzInfo
  BY <1>4 DEF UnzInfo, Continue, Return, Fails
<1>5. CASE UnzClose
  BY <1>5 DEF UnzClose, Continue, Return, Fails
<1>6. CASE ParseAppBlock
  BY <1>6 DEF ParseAppBlock, Continue, Return, Fails
<1>7. CASE LoadBlock
  BY <1>7 DEF LoadBlock, Continue, Return, Fails
<1>8. CASE CompareIds
  BY <1>8 DEF CompareIds, Continue, Return
<1>9. CASE Stat
  BY <1>9 DEF Stat, Continue, Return, Fails
<1>10. CASE OpenCert
  BY <1>10 DEF OpenCert, Continue, Return, Fails
<1>11. CASE ReadKey
  BY <1>11 DEF ReadKey, Continue, Fails
<1>12. CASE VerifySignature
  BY <1>12 DEF VerifySignature, Continue
<1>13. CASE OpenApp
  BY <1>13 DEF OpenApp, Continue, Return, Fails
<1>14. CASE HashRead
  BY <1>14 DEF HashRead, Hashing
<1>15. CASE HashChunk
  BY <1>15 DEF HashChunk, Hashing
<1>16. CASE HashFails
  BY <1>16 DEF HashFails, Hashing, Fails
<1>17. CASE HashRegionEnd
  BY <1>17 DEF HashRegionEnd
<1>18. CASE ReadEocd
  BY <1>18 DEF ReadEocd, Continue
<1>19. CASE EocdFails
  BY <1>19 DEF EocdFails, ReturnDigest, Fails
<1>20. CASE Compare
  BY <1>20 DEF Compare, ReturnDigest
<1>21. QED
  BY <1>1, <1>2, <1>3, <1>4, <1>5, <1>6, <1>7, <1>8, <1>9, <1>10, <1>11, <1>12,
     <1>13, <1>14, <1>15, <1>16, <1>17, <1>18, <1>19, <1>20
     DEF Next, VerifyApp, VerifyDigest

(* On every way out of zip_verify, whichever calls failed, nothing is left *)
(* open or allocated, but for the two cases that NothingIsLeft names.      *)
THEOREM EverythingIsReturned == Spec => []NothingIsLeft
<1>1. LeftInv => NothingIsLeft
  BY DEF LeftInv
<1>2. QED
  BY InitLeft, StepLeft, <1>1, PTL DEF Spec

-----------------------------------------------------------------------------
(* The regions, the chunks and what of them is hashed: zip_verify cuts a   *)
(* package as its signer does.                                             *)

LEMMA MinOfTwo ==
  ASSUME NEW m \in Int, NEW n \in Int
  PROVE  Min({m, n}) = IF m <= n THEN m ELSE n
<1> DEFINE r == IF m <= n THEN m ELSE n
<1>1. r \in {m, n} /\ \A y \in {m, n} : r =< y
  OBVIOUS
<1>2. \A x \in {m, n} : (\A y \in {m, n} : x =< y) => x = r
  OBVIOUS
<1> HIDE DEF r
<1>3. Min({m, n}) = r
  BY <1>1, <1>2 DEF Min
<1> QED BY <1>3 DEF r

(* Where the parts of a package are.                                       *)
LEMMA LayoutIs ==
  ASSUME NEW p \in Packages
  PROVE  /\ p.data \in Nat /\ p.cd \in Nat /\ p.comment \in Nat
         /\ CdOffset(p) \in Nat /\ EocdOffset(p) \in Nat
         /\ AppBlock(p).data = [from |-> 0, length |-> p.data]
         /\ AppBlock(p).cd = [from |-> CdOffset(p), length |-> p.cd]
         /\ AppBlock(p).eocd = [from |-> EocdOffset(p), length |-> 22 + p.comment]
<1>1. p.block \in Block /\ p.data \in Nat /\ p.cd \in Nat /\ p.comment \in Nat
  BY PackagesAssumption
<1>2. PairsLength(p.block) \in Nat
  BY <1>1 DEF Block, PairsLength, SignersLength, SignerLength, SignedDataLength,
     DigestsLength, SignaturesLength
<1>3. BlockLength(p) \in Nat
  BY <1>2 DEF BlockLength
<1>4. CdOffset(p) \in Nat /\ CdOffset(p) = p.data + 8 + BlockLength(p)
  BY <1>1, <1>3 DEF CdOffset
<1>5. /\ EocdOffset(p) \in Nat /\ EocdOffset(p) = CdOffset(p) + p.cd
      /\ FileLength(p) = EocdOffset(p) + 22 + p.comment
  BY <1>1, <1>4 DEF EocdOffset, FileLength
<1> QED BY <1>1, <1>3, <1>4, <1>5 DEF AppBlock

(* The chunks that begin before an end.                                    *)
LEMMA ChunkCountIs ==
  ASSUME NEW n \in Nat
  PROVE  /\ ChunkCount(n) \in Nat
         /\ \A k \in Nat : k < ChunkCount(n) <=> k * ChunkSize < n
<1> DEFINE q == (n + ChunkSize - 1) \div ChunkSize
<1>1. ChunkSize \in Nat /\ ChunkSize > 0
  BY SizeAssumption
<1>2. q \in Nat /\ q * ChunkSize <= n + ChunkSize - 1
         /\ n + ChunkSize - 1 < (q + 1) * ChunkSize
  BY <1>1
<1> HIDE DEF q
<1>3. ASSUME NEW k \in Nat, k < q
      PROVE  k * ChunkSize < n
  <2>1. (k + 1) * ChunkSize <= q * ChunkSize
    BY <1>1, <1>2, <1>3
  <2>2. (k + 1) * ChunkSize = k * ChunkSize + ChunkSize
    BY <1>1
  <2> QED BY <1>1, <1>2, <2>1, <2>2
<1>4. ASSUME NEW k \in Nat, q <= k
      PROVE  n <= k * ChunkSize
  <2>1. q * ChunkSize <= k * ChunkSize
    BY <1>1, <1>2, <1>4
  <2>2. (q + 1) * ChunkSize = q * ChunkSize + ChunkSize
    BY <1>1, <1>2
  <2> QED BY <1>1, <1>2, <2>1, <2>2
<1>5. \A k \in Nat : k < q <=> k * ChunkSize < n
  <2> TAKE k \in Nat
  <2>1. k * ChunkSize \in Nat
    BY <1>1
  <2> QED BY <1>2, <1>3, <1>4, <2>1
<1> QED BY <1>2, <1>5 DEF q, ChunkCount

Chunks == [from : Int, length : Int]

ChunkOf(from, length, i) ==
  [from |-> from + i * ChunkSize, length |-> Min({ChunkSize, length - i * ChunkSize})]

(* A chunk is a chunk.                                                     *)
LEMMA ChunkType ==
  ASSUME NEW from \in Int, NEW length \in Int, NEW i \in Int
  PROVE  ChunkOf(from, length, i) \in Chunks
<1>1. ChunkSize \in Int /\ i * ChunkSize \in Int
  BY SizeAssumption
<1>2. Min({ChunkSize, length - i * ChunkSize}) \in Int
  BY <1>1, MinOfTwo
<1> QED BY <1>1, <1>2 DEF ChunkOf, Chunks

(* What a region is cut into.                                              *)
LEMMA CutIs ==
  ASSUME NEW from \in Int, NEW length \in Nat
  PROVE  /\ Cut(from, length) \in Seq(Chunks)
         /\ Len(Cut(from, length)) = ChunkCount(length)
         /\ \A i \in 1 .. ChunkCount(length) :
              Cut(from, length)[i] = ChunkOf(from, length, i - 1)
<1>1. ChunkCount(length) \in Nat
  BY ChunkCountIs
<1>2. Cut(from, length) = [i \in 1 .. ChunkCount(length) |-> ChunkOf(from, length, i - 1)]
  BY DEF Cut, ChunkOf, ChunkCount
<1>3. \A i \in 1 .. ChunkCount(length) : ChunkOf(from, length, i - 1) \in Chunks
  BY <1>1, ChunkType
<1> QED BY <1>1, <1>2, <1>3

AllChunks(p) == ChunkCount(p.data) + ChunkCount(p.cd)

(* The signer cuts the data, then the central directory.                   *)
LEMMA SignedChunksAre ==
  ASSUME NEW p \in Packages
  PROVE  /\ SignedChunks(p) \in Seq(Chunks) /\ AllChunks(p) \in Nat
         /\ Len(SignedChunks(p)) = AllChunks(p)
         /\ \A i \in 1 .. ChunkCount(p.data) :
              SignedChunks(p)[i] = ChunkOf(0, p.data, i - 1)
         /\ \A i \in 1 .. ChunkCount(p.cd) :
              SignedChunks(p)[ChunkCount(p.data) + i] = ChunkOf(CdOffset(p), p.cd, i - 1)
<1> DEFINE s == Cut(0, p.data)
           t == Cut(CdOffset(p), p.cd)
           m == ChunkCount(p.data)
           n == ChunkCount(p.cd)
<1>0. p.data \in Nat /\ p.cd \in Nat /\ CdOffset(p) \in Int /\ 0 \in Int
  <2>1. p.data \in Nat /\ p.cd \in Nat /\ CdOffset(p) \in Nat
    BY LayoutIs, Zenon
  <2> QED BY <2>1
<1>1. /\ s \in Seq(Chunks) /\ Len(s) = m /\ m \in Nat
      /\ \A i \in 1 .. m : s[i] = ChunkOf(0, p.data, i - 1)
  <2>1. m \in Nat
    BY <1>0, ChunkCountIs
  <2> QED BY <1>0, <2>1, CutIs, Zenon
<1>2. /\ t \in Seq(Chunks) /\ Len(t) = n /\ n \in Nat
      /\ \A i \in 1 .. n : t[i] = ChunkOf(CdOffset(p), p.cd, i - 1)
  <2>1. n \in Nat
    BY <1>0, ChunkCountIs
  <2> QED BY <1>0, <2>1, CutIs, Zenon
<1>3. SignedChunks(p) = s \o t /\ AllChunks(p) = m + n
  BY DEF SignedChunks, AllChunks
<1> HIDE DEF s, t, m, n
<1>4. /\ s \o t \in Seq(Chunks) /\ Len(s \o t) = m + n
      /\ \A i \in 1 .. m + n : (s \o t)[i] = IF i <= m THEN s[i] ELSE t[i - m]
  BY <1>1, <1>2, ConcatProperties
<1>5. \A i \in 1 .. m : (s \o t)[i] = s[i]
  BY <1>1, <1>2, <1>4
<1>6. \A i \in 1 .. n : (s \o t)[m + i] = t[i]
  <2> TAKE i \in 1 .. n
  <2>1. m + i \in 1 .. m + n /\ ~(m + i <= m) /\ (m + i) - m = i
    BY <1>1, <1>2
  <2> QED BY <1>4, <2>1
<1>7. m + n \in Nat
  BY <1>1, <1>2
<1>8. /\ \A i \in 1 .. m : (s \o t)[i] = ChunkOf(0, p.data, i - 1)
      /\ \A i \in 1 .. n : (s \o t)[m + i] = ChunkOf(CdOffset(p), p.cd, i - 1)
  BY <1>1, <1>2, <1>5, <1>6
<1> QED BY <1>3, <1>4, <1>7, <1>8 DEF m, n

-----------------------------------------------------------------------------
(* Where the hashing is, and what it has hashed by then. *)

HashCalls == {"hash", "eocd", "compare"}

(* The chunks that the signer hashed, up to where the hashing is.          *)
Due == (IF at.region = "data" THEN 0 ELSE ChunkCount(package.data)) + at.chunk

AtIs ==
  /\ at \in [region : {"data", "cd"}, chunk : Nat, left : Int, sum : 0 .. ChunkSize]
  /\ pc = "hash" =>
       /\ at.chunk <= ChunkCount(FileBlock.length)
       /\ at.chunk < ChunkCount(FileBlock.length) =>
            at.left = FileBlock.length - at.chunk * ChunkSize
  /\ pc \in {"eocd", "compare"} => at.region = "cd" /\ at.chunk = ChunkCount(package.cd)

(* A failed read leaves a gap that nothing fills. *)
HashedIs ==
  /\ hashed \in Seq(Chunks) /\ Len(hashed) <= AllChunks(package)
  /\ pc \notin HashCalls \cup {"exit", "crashed"} => hashed = <<>> /\ "read" \notin failed
  /\ pc \in HashCalls =>
       /\ "read" \in failed => Len(hashed) < Due
       /\ "read" \notin failed =>
            /\ Len(hashed) = Due
            /\ \A i \in 1 .. Len(hashed) : hashed[i] = SignedChunks(package)[i]

Hashed == package \in Packages /\ AtIs /\ HashedIs

(* The region that is hashed.                                              *)
LEMMA FileBlockIs ==
  ASSUME package \in Packages, AtIs
  PROVE  /\ at.region = "data" => FileBlock = [from |-> 0, length |-> package.data]
         /\ at.region = "cd" => FileBlock = [from |-> CdOffset(package), length |-> package.cd]
         /\ FileBlock.length \in Nat /\ FileBlock.from \in Nat
         /\ ChunkCount(FileBlock.length) \in Nat
         /\ at.region \in {"data", "cd"} /\ at.chunk \in Nat
<1>1. /\ at.region \in {"data", "cd"} /\ at.chunk \in Nat
      /\ at.region = "data" => FileBlock = AppBlock(package).data
      /\ at.region = "cd" => FileBlock = AppBlock(package).cd
  BY DEF AtIs, FileBlock
<1>2. /\ at.region = "data" => FileBlock = [from |-> 0, length |-> package.data]
      /\ at.region = "cd" => FileBlock = [from |-> CdOffset(package), length |-> package.cd]
      /\ package.data \in Nat /\ package.cd \in Nat /\ CdOffset(package) \in Nat
  BY <1>1, LayoutIs, Zenon
<1>3. FileBlock.length \in Nat /\ FileBlock.from \in Nat
  BY <1>1, <1>2
<1> QED BY <1>1, <1>2, <1>3, ChunkCountIs

(* The chunk that is hashed next is the one the signer hashed.             *)
LEMMA DueIs ==
  ASSUME Hashed, Hashing
  PROVE  /\ Due \in Nat /\ Due + 1 <= AllChunks(package)
         /\ SignedChunks(package)[Due + 1] =
              ChunkOf(FileBlock.from, FileBlock.length, at.chunk)
<1> DEFINE m == ChunkCount(package.data)
           n == ChunkCount(package.cd)
           k == at.chunk
<1>1. /\ m \in Nat /\ n \in Nat /\ k \in Nat /\ AllChunks(package) = m + n
  <2>1. package.data \in Nat /\ package.cd \in Nat
    BY LayoutIs, Zenon DEF Hashed
  <2> QED BY <2>1, ChunkCountIs DEF AllChunks, Hashed, AtIs
<1>2. /\ \A i \in 1 .. m : SignedChunks(package)[i] = ChunkOf(0, package.data, i - 1)
      /\ \A i \in 1 .. n : SignedChunks(package)[m + i]
                             = ChunkOf(CdOffset(package), package.cd, i - 1)
  BY SignedChunksAre, Zenon DEF Hashed
<1>3. k < ChunkCount(FileBlock.length)
  BY DEF Hashing
<1>4. CASE at.region = "data"
  <2>1. FileBlock.from = 0 /\ FileBlock.length = package.data
    BY <1>4, FileBlockIs DEF Hashed
  <2>2. Due = k /\ k < m
    BY <1>1, <1>3, <1>4, <2>1 DEF Due
  <2> HIDE DEF m, n, k
  <2>3. k + 1 \in 1 .. m /\ (k + 1) - 1 = k
    BY <1>1, <2>2
  <2>4. SignedChunks(package)[k + 1] = ChunkOf(0, package.data, k)
    BY <1>2, <2>3
  <2> QED BY <1>1, <2>1, <2>2, <2>4 DEF k
<1>5. CASE at.region = "cd"
  <2>1. FileBlock.from = CdOffset(package) /\ FileBlock.length = package.cd
    BY <1>5, FileBlockIs DEF Hashed
  <2>2. Due = m + k /\ k < n
    BY <1>1, <1>3, <1>5, <2>1 DEF Due
  <2> HIDE DEF m, n, k
  <2>3. k + 1 \in 1 .. n /\ (k + 1) - 1 = k /\ (m + k) + 1 = m + (k + 1)
    BY <1>1, <2>2
  <2>4. SignedChunks(package)[m + (k + 1)] = ChunkOf(CdOffset(package), package.cd, k)
    BY <1>2, <2>3
  <2> QED BY <1>1, <2>1, <2>2, <2>3, <2>4 DEF k
<1> QED BY <1>4, <1>5, FileBlockIs DEF Hashed

(* What one chunk holds, while there is one. *)
LEMMA ThisChunkIs ==
  ASSUME Hashed, Hashing
  PROVE  /\ ThisChunk \in 1 .. ChunkSize /\ at.left \in Nat
         /\ at.left = FileBlock.length - at.chunk * ChunkSize
         /\ ThisChunk = IF at.left <= ChunkSize THEN at.left ELSE ChunkSize
         /\ ChunkOf(FileBlock.from, FileBlock.length, at.chunk)
              = [from |-> FileBlock.from + at.chunk * ChunkSize, length |-> ThisChunk]
<1>1. /\ FileBlock.length \in Nat /\ at.chunk \in Nat
      /\ at.left = FileBlock.length - at.chunk * ChunkSize
      /\ at.chunk < ChunkCount(FileBlock.length)
  BY FileBlockIs DEF Hashed, AtIs, Hashing
<1>2. at.chunk * ChunkSize < FileBlock.length
  BY <1>1, ChunkCountIs
<1>3. ChunkSize \in Nat /\ ChunkSize > 0 /\ at.chunk * ChunkSize \in Int
  BY <1>1, SizeAssumption
<1>4. at.left \in Nat /\ at.left > 0
  BY <1>1, <1>2, <1>3
<1>5. ThisChunk = IF at.left <= ChunkSize THEN at.left ELSE ChunkSize
  BY <1>3, <1>4, MinOfTwo DEF ThisChunk
<1>6. {ChunkSize, at.left} = {at.left, ChunkSize}
  OBVIOUS
<1>7. Min({ChunkSize, FileBlock.length - at.chunk * ChunkSize}) = ThisChunk
  BY <1>1, <1>6 DEF ThisChunk
<1> QED BY <1>1, <1>3, <1>4, <1>5, <1>7 DEF ChunkOf

(* The typed update of the place in the region.                            *)
LEMMA AtChanges ==
  ASSUME NEW r \in [region : {"data", "cd"}, chunk : Nat, left : Int, sum : 0 .. ChunkSize],
         NEW c \in Nat, NEW l \in Int
  PROVE  LET new == [r EXCEPT !.chunk = c, !.left = l, !.sum = 0]
         IN  /\ new \in [region : {"data", "cd"}, chunk : Nat, left : Int, sum : 0 .. ChunkSize]
             /\ new.region = r.region /\ new.chunk = c /\ new.left = l
<1>1. 0 \in 0 .. ChunkSize
  BY SizeAssumption
<1> QED BY <1>1

(* Hashed, when a buffer is read.                                          *)
LEMMA HashedRead ==
  ASSUME Hashed, HashRead
  PROVE  Hashed'
<1>1. PICK n \in 1 .. Min({BufSize, ThisChunk - at.sum}) :
        at' = [at EXCEPT !.sum = @ + n]
  BY DEF HashRead
<1>2. /\ Hashing /\ pc = "hash" /\ at.sum < ThisChunk
      /\ UNCHANGED <<package, pc, hashed, failed>>
  BY DEF HashRead, Hashing
<1>3. /\ ThisChunk \in 1 .. ChunkSize /\ at.sum \in Nat /\ BufSize \in Nat /\ ChunkSize \in Nat
      /\ at \in [region : {"data", "cd"}, chunk : Nat, left : Int, sum : 0 .. ChunkSize]
  BY <1>2, ThisChunkIs, SizeAssumption DEF Hashed, AtIs
<1>4. n \in Nat /\ at.sum + n <= ThisChunk
  BY <1>1, <1>2, <1>3, MinOfTwo
<1>5. at.sum + n \in 0 .. ChunkSize
  BY <1>3, <1>4
<1>6. /\ at' \in [region : {"data", "cd"}, chunk : Nat, left : Int, sum : 0 .. ChunkSize]
      /\ at'.region = at.region /\ at'.chunk = at.chunk /\ at'.left = at.left
  BY <1>1, <1>3, <1>5
<1>7. FileBlock' = FileBlock /\ Due' = Due
  BY <1>2, <1>6 DEF FileBlock, Due
<1> QED BY <1>2, <1>6, <1>7 DEF Hashed, AtIs, HashedIs, HashCalls

(* Hashed, when a chunk is complete.                                       *)
LEMMA HashedChunk ==
  ASSUME Hashed, HashChunk
  PROVE  Hashed'
<1> DEFINE e == [from |-> FileBlock.from + at.chunk * ChunkSize, length |-> ThisChunk]
           L == FileBlock.length
           k == at.chunk
<1>1. /\ Hashing /\ pc = "hash"
      /\ hashed' = Append(hashed, e)
      /\ at' = [at EXCEPT !.chunk = @ + 1, !.left = @ - ThisChunk, !.sum = 0]
      /\ UNCHANGED <<package, pc, failed>>
  BY DEF HashChunk, Hashing
<1>2. /\ L \in Nat /\ FileBlock.from \in Nat /\ ChunkSize \in Nat
      /\ ChunkCount(L) \in Nat /\ k \in Nat /\ k < ChunkCount(L)
  BY <1>1, FileBlockIs, SizeAssumption DEF Hashed, Hashing
<1>3. /\ ThisChunk \in 1 .. ChunkSize /\ at.left \in Nat
      /\ at.left = L - k * ChunkSize
      /\ ThisChunk = IF at.left <= ChunkSize THEN at.left ELSE ChunkSize
      /\ ChunkOf(FileBlock.from, L, k) = e
  BY <1>1, ThisChunkIs
<1>4. /\ Due \in Nat /\ Due + 1 <= AllChunks(package) /\ AllChunks(package) \in Nat
      /\ SignedChunks(package)[Due + 1] = e
  BY <1>1, <1>3, DueIs, SignedChunksAre DEF Hashed
<1>5. e \in Chunks
  BY <1>2, <1>3, ChunkType
<1>6. /\ at \in [region : {"data", "cd"}, chunk : Nat, left : Int, sum : 0 .. ChunkSize]
      /\ hashed \in Seq(Chunks)
  BY DEF Hashed, AtIs, HashedIs
<1>7. /\ at' \in [region : {"data", "cd"}, chunk : Nat, left : Int, sum : 0 .. ChunkSize]
      /\ at'.region = at.region /\ at'.chunk = k + 1 /\ at'.left = at.left - ThisChunk
  <2>1. at.left - ThisChunk \in Int /\ at.chunk + 1 \in Nat
    BY <1>2, <1>3
  <2>2. at' = [at EXCEPT !.chunk = at.chunk + 1, !.left = at.left - ThisChunk, !.sum = 0]
    BY <1>1, <1>6
  <2> QED BY <1>6, <2>1, <2>2, AtChanges
<1>8. FileBlock' = FileBlock
  BY <1>1, <1>7 DEF FileBlock
<1>9. Due' = Due + 1
  <2>1. ChunkCount(package.data) \in Nat
    BY LayoutIs, ChunkCountIs, Zenon DEF Hashed
  <2>2. /\ at'.chunk = at.chunk + 1 /\ at.chunk \in Nat
        /\ at'.region = at.region /\ package' = package
    BY <1>1, <1>2, <1>7
  <2> QED BY ONLY <2>1, <2>2 DEF Due
<1> HIDE DEF e, L, k
<1>10. /\ hashed' \in Seq(Chunks) /\ Len(hashed') = Len(hashed) + 1 /\ Len(hashed) \in Nat
       /\ hashed'[Len(hashed) + 1] = e
       /\ \A i \in 1 .. Len(hashed) : hashed'[i] = hashed[i]
  BY <1>1, <1>5, <1>6
<1>11. k + 1 < ChunkCount(L) => at.left - ThisChunk = L - (k + 1) * ChunkSize
  <2> SUFFICES ASSUME k + 1 < ChunkCount(L)
               PROVE  at.left - ThisChunk = L - (k + 1) * ChunkSize
    OBVIOUS
  <2>1. (k + 1) * ChunkSize < L
    BY <1>2, ChunkCountIs
  <2>2. (k + 1) * ChunkSize = k * ChunkSize + ChunkSize /\ k * ChunkSize \in Nat
    BY <1>2
  <2> QED BY <1>2, <1>3, <2>1, <2>2
<1>12. AtIs'
  BY <1>1, <1>2, <1>7, <1>8, <1>11 DEF AtIs, L
<1>13. HashedIs'
  <2>1. /\ "read" \in failed => Len(hashed) < Due
        /\ "read" \notin failed =>
             /\ Len(hashed) = Due
             /\ \A i \in 1 .. Len(hashed) : hashed[i] = SignedChunks(package)[i]
    BY <1>1 DEF Hashed, HashedIs, HashCalls
  <2>2. Len(hashed') <= AllChunks(package)
    BY <1>4, <1>10, <2>1
  <2>3. "read" \notin failed =>
          \A i \in 1 .. Len(hashed') : hashed'[i] = SignedChunks(package)[i]
    BY <1>4, <1>10, <2>1
  <2>4. /\ "read" \in failed => Len(hashed') < Due'
        /\ "read" \notin failed => Len(hashed') = Due'
    BY <1>4, <1>9, <1>10, <2>1
  <2> QED BY <1>1, <1>10, <2>2, <2>3, <2>4 DEF HashedIs, HashCalls
<1> QED BY <1>1, <1>12, <1>13 DEF Hashed

(* The rest of the region, one chunk at least, is due and not hashed.      *)
LEMMA HashedFails ==
  ASSUME Hashed, HashFails
  PROVE  Hashed'
<1>1. /\ Hashing /\ pc = "hash" /\ "read" \in failed' /\ UNCHANGED <<package, pc, hashed>>
      /\ at' = [at EXCEPT !.chunk = ChunkCount(FileBlock.length), !.sum = 0]
  BY DEF HashFails, Hashing, Fails
<1>2. /\ ChunkCount(FileBlock.length) \in Nat /\ at.chunk \in Nat
      /\ at.chunk < ChunkCount(FileBlock.length) /\ ChunkSize \in Nat
  BY <1>1, FileBlockIs, SizeAssumption DEF Hashed, Hashing
<1>3. /\ at' \in [region : {"data", "cd"}, chunk : Nat, left : Int, sum : 0 .. ChunkSize]
      /\ at'.region = at.region /\ at'.chunk = ChunkCount(FileBlock.length)
  <2>1. at \in [region : {"data", "cd"}, chunk : Nat, left : Int, sum : 0 .. ChunkSize]
    BY DEF Hashed, AtIs
  <2>2. at' = [at EXCEPT !.chunk = ChunkCount(FileBlock.length), !.left = at.left, !.sum = 0]
    BY <1>1, <2>1
  <2> QED BY <1>2, <2>1, <2>2, AtChanges
<1>4. FileBlock' = FileBlock
  BY <1>1, <1>3 DEF FileBlock
<1>5. AtIs'
  BY <1>1, <1>2, <1>3, <1>4 DEF AtIs
<1>6. Len(hashed) \in Nat /\ Len(hashed) <= Due
  BY <1>1, DueIs DEF Hashed, HashedIs, HashCalls
<1>7. Due < Due'
  <2>1. ChunkCount(package.data) \in Nat
    BY LayoutIs, ChunkCountIs, Zenon DEF Hashed
  <2> QED BY <1>1, <1>2, <1>3, <2>1 DEF Due
<1>8. HashedIs'
  <2>1. Due' \in Int /\ Due \in Nat
    <3>1. ChunkCount(package.data) \in Nat
      BY LayoutIs, ChunkCountIs, Zenon DEF Hashed
    <3> QED BY <1>1, <1>2, <1>3, <3>1, DueIs DEF Due
  <2>2. Len(hashed) < Due'
    BY <1>6, <1>7, <2>1
  <2> QED BY <1>1, <2>2 DEF Hashed, HashedIs, HashCalls
<1> QED BY <1>1, <1>5, <1>8 DEF Hashed

(* Where a region begins.                                                  *)
LEMMA BeginningIs ==
  ASSUME package \in Packages, NEW r \in {"data", "cd"}, at' = Beginning(r),
         UNCHANGED package
  PROVE  /\ at' \in [region : {"data", "cd"}, chunk : Nat, left : Int, sum : 0 .. ChunkSize]
         /\ at'.region = r /\ at'.chunk = 0
         /\ at'.left = FileBlock'.length /\ FileBlock'.length \in Nat
<1>1. /\ AppBlock(package).data = [from |-> 0, length |-> package.data]
      /\ AppBlock(package).cd = [from |-> CdOffset(package), length |-> package.cd]
      /\ package.data \in Nat /\ package.cd \in Nat
  BY LayoutIs, Zenon
<1>2. AppBlock(package)[r].length \in Nat
  BY <1>1
<1>3. FileBlock' = AppBlock(package)[r]
  BY DEF Beginning, FileBlock
<1> QED BY <1>2, <1>3, SizeAssumption DEF Beginning

(* Hashed, when a region is complete.                                      *)
LEMMA HashedRegionEnd ==
  ASSUME Hashed, HashRegionEnd
  PROVE  Hashed'
<1>1. /\ pc = "hash" /\ at.chunk = ChunkCount(FileBlock.length)
      /\ UNCHANGED <<package, hashed, failed>>
  BY DEF HashRegionEnd
<1>2. package.data \in Nat /\ package.cd \in Nat
  BY LayoutIs, Zenon DEF Hashed
<1>3. /\ at.region = "data" => FileBlock.length = package.data
      /\ at.region = "cd" => FileBlock.length = package.cd
      /\ at.region \in {"data", "cd"} /\ at.chunk \in Nat
  BY FileBlockIs DEF Hashed
<1>4. CASE at.region = "data"
  <2>1. at' = Beginning("cd") /\ pc' = "hash"
    BY <1>1, <1>4 DEF HashRegionEnd
  <2>2. /\ at' \in [region : {"data", "cd"}, chunk : Nat, left : Int, sum : 0 .. ChunkSize]
        /\ at'.region = "cd" /\ at'.chunk = 0
        /\ at'.left = FileBlock'.length /\ FileBlock'.length \in Nat
    BY <1>1, <2>1, BeginningIs DEF Hashed
  <2>3. AtIs'
    <3>1. ChunkCount(FileBlock'.length) \in Nat /\ ChunkSize \in Nat
      BY <2>2, ChunkCountIs, SizeAssumption
    <3>2. FileBlock'.length - at'.chunk * ChunkSize = FileBlock'.length
      BY <2>2, <3>1
    <3>3. at'.chunk <= ChunkCount(FileBlock'.length)
      BY <2>2, <3>1
    <3> QED BY <2>1, <2>2, <3>2, <3>3 DEF AtIs
  <2>4. Due' = Due
    <3>1. Due = at.chunk
      BY <1>3, <1>4 DEF Due
    <3>2. Due' = ChunkCount(package.data)
      BY <1>1, <1>2, <2>2, ChunkCountIs DEF Due
    <3> QED BY <1>1, <1>3, <1>4, <3>1, <3>2
  <2> QED BY <1>1, <2>1, <2>3, <2>4 DEF Hashed, HashedIs, HashCalls
<1>5. CASE at.region = "cd"
  <2>1. UNCHANGED at /\ pc' = "eocd"
    BY <1>1, <1>5 DEF HashRegionEnd
  <2>2. Due' = Due
    BY <1>1, <2>1 DEF Due
  <2> QED BY <1>1, <1>3, <1>5, <2>1, <2>2 DEF Hashed, AtIs, HashedIs, HashCalls
<1> QED BY <1>3, <1>4, <1>5

(* Hashed, in a call that hashes nothing.                                  *)
LEMMA HashedOutside ==
  ASSUME Hashed, pc \notin HashCalls \cup {"exit", "crashed"}, pc' \notin HashCalls,
         UNCHANGED <<package, at, hashed>>, failed' \subseteq failed \cup (Calls \ {"read"})
  PROVE  Hashed'
  BY DEF Hashed, AtIs, HashedIs, HashCalls

(* Hashed, when the package is opened.                                     *)
LEMMA HashedOpen ==
  ASSUME Hashed, OpenApp
  PROVE  Hashed'
<1>1. /\ pc = "open" /\ UNCHANGED <<package, hashed>>
      /\ hashed = <<>> /\ "read" \notin failed
  BY DEF OpenApp, Hashed, HashedIs, HashCalls
<1>2. CASE pc' = "hash"
  <2>1. at' = Beginning("data") /\ UNCHANGED failed
    BY <1>2 DEF OpenApp, Continue, Return
  <2>2. /\ at' \in [region : {"data", "cd"}, chunk : Nat, left : Int, sum : 0 .. ChunkSize]
        /\ at'.region = "data" /\ at'.chunk = 0
        /\ at'.left = FileBlock'.length /\ FileBlock'.length \in Nat
    BY <1>1, <2>1, BeginningIs DEF Hashed
  <2>3. ChunkCount(FileBlock'.length) \in Nat /\ ChunkSize \in Nat
    BY <2>2, ChunkCountIs, SizeAssumption
  <2>4. FileBlock'.length - at'.chunk * ChunkSize = FileBlock'.length
    BY <2>2, <2>3
  <2>5. Due' = 0
    BY <2>2 DEF Due
  <2>6. hashed' \in Seq(Chunks) /\ Len(hashed') = 0 /\ AllChunks(package) \in Nat
    BY <1>1, SignedChunksAre DEF Hashed
  <2> QED BY <1>1, <1>2, <2>1, <2>2, <2>3, <2>4, <2>5, <2>6
          DEF Hashed, AtIs, HashedIs, HashCalls
<1>3. CASE pc' # "hash"
  <2>1. pc' = "exit" /\ UNCHANGED at /\ failed' \subseteq failed \cup (Calls \ {"read"})
    BY <1>3 DEF OpenApp, Continue, Return, Fails, Calls
  <2> QED BY <1>1, <2>1, HashedOutside DEF HashCalls
<1> QED BY <1>2, <1>3

(* Hashed, across every step.                                              *)
LEMMA HashedStep ==
  ASSUME Hashed, [Next]_vars
  PROVE  Hashed'
<1>1. CASE UNCHANGED vars
  BY <1>1 DEF vars, digest, Hashed, AtIs, HashedIs, FileBlock, Due
<1>2. CASE Access \/ UnzOpen \/ UnzInfo \/ UnzClose \/ ParseAppBlock \/ LoadBlock
           \/ CompareIds \/ Stat \/ OpenCert \/ ReadKey \/ VerifySignature
  <2>1. /\ pc \notin HashCalls \cup {"exit", "crashed"} /\ pc' \notin HashCalls
        /\ UNCHANGED <<package, at, hashed>>
        /\ failed' \subseteq failed \cup (Calls \ {"read"})
    BY <1>2 DEF Access, UnzOpen, UnzInfo, UnzClose, ParseAppBlock, LoadBlock, CompareIds,
       Stat, OpenCert, ReadKey, VerifySignature, Continue, Return, Fails, digest,
       HashCalls, Calls
  <2> QED BY <2>1, HashedOutside
<1>3. CASE ReadEocd \/ EocdFails \/ Compare
  <2>1. /\ pc \in {"eocd", "compare"} /\ pc' \in {"compare", "exit"}
        /\ UNCHANGED <<package, at, hashed>>
        /\ "read" \in failed' <=> "read" \in failed
    BY <1>3 DEF ReadEocd, EocdFails, Compare, Continue, ReturnDigest, Fails, digest
  <2>2. Due' = Due
    BY <2>1 DEF Due
  <2> QED BY <2>1, <2>2 DEF Hashed, AtIs, HashedIs, HashCalls
<1> QED BY <1>1, <1>2, <1>3, HashedOpen, HashedRead, HashedChunk, HashedFails,
        HashedRegionEnd DEF Next, VerifyApp, VerifyDigest

(* Nothing is hashed at first.                                             *)
LEMMA HashedInit == ASSUME Init PROVE Hashed
<1>1. ChunkSize \in Nat /\ AllChunks(package) \in Nat
  BY SizeAssumption, SignedChunksAre DEF Init
<1>2. at \in [region : {"data", "cd"}, chunk : Nat, left : Int, sum : 0 .. ChunkSize]
  BY <1>1 DEF Init
<1> QED BY <1>1, <1>2 DEF Init, Hashed, AtIs, HashedIs, HashCalls

-----------------------------------------------------------------------------
(* The rest of the state is of its type. *)
ResultType ==
  /\ pc \in {"access", "unzip", "info", "close", "parse", "load", "ids", "stat",
             "cert", "key", "signature", "open", "hash", "eocd", "compare",
             "exit", "crashed"}
  /\ res \in -1 .. 1

MemoryType ==
  /\ open \subseteq {"zip", "app", "cert"}
  /\ heap \subseteq {"app_block", "block", "key", "buf"}

Kinds == ResultType /\ MemoryType /\ failed \subseteq Calls

Marks == content \in BOOLEAN /\ key \in BOOLEAN

(* Kinds, across every step.                                               *)
LEMMA KindsStep ==
  ASSUME Kinds, [Next]_vars
  PROVE  Kinds'
<1> USE DEF Kinds, Next, VerifyApp, VerifyDigest, vars, memory, digest, Access, UnzOpen,
        UnzInfo, UnzClose, ParseAppBlock, LoadBlock, CompareIds, Stat, OpenCert, ReadKey,
        VerifySignature, OpenApp, HashRead, HashChunk, HashFails, HashRegionEnd, Hashing,
        ReadEocd, EocdFails, Compare, Continue, Return, ReturnDigest, Fails
<1>1. ResultType'
  BY DEF ResultType
<1>2. MemoryType'
  BY DEF MemoryType
<1>3. failed' \subseteq Calls
  BY DEF Calls
<1> QED BY <1>1, <1>2, <1>3 DEF Kinds

(* Marks, across every step.                                               *)
LEMMA MarksStep ==
  ASSUME Marks, [Next]_vars
  PROVE  Marks'
<1>1. CASE LoadBlock
  BY <1>1, Zenon DEF LoadBlock, Marks
<1>2. CASE ReadKey
  BY <1>2, Zenon DEF ReadKey, Marks
<1>3. CASE UNCHANGED <<content, key>>
  BY <1>3 DEF Marks
<1> QED BY <1>1, <1>2, <1>3 DEF Next, VerifyApp, VerifyDigest, vars, Access, UnzOpen,
        UnzInfo, UnzClose, ParseAppBlock, CompareIds, Stat, OpenCert, VerifySignature,
        OpenApp, HashRead, HashChunk, HashFails, HashRegionEnd, ReadEocd, EocdFails, Compare

(* Type correctness: a chunk is never hashed beyond its end, and never     *)
(* more chunks than the signer hashed, whatever the reads return.          *)
THEOREM ZipTypeCorrect == Spec => []TypeOK
<1>1. Init => Hashed /\ Kinds /\ Marks
  <2>1. Init => Kinds
    BY DEF Init, Kinds, ResultType, MemoryType
  <2>2. Init => Marks
    BY DEF Init, Marks
  <2> QED BY <2>1, <2>2, HashedInit
<1>2. Hashed /\ Kinds /\ Marks /\ [Next]_vars => Hashed' /\ Kinds' /\ Marks'
  BY HashedStep, KindsStep, MarksStep
<1>3. Hashed /\ Kinds /\ Marks => TypeOK
  <2>1. ASSUME Hashed
        PROVE  /\ at.region \in {"data", "cd"} /\ at.sum \in 0 .. ChunkSize
               /\ Len(hashed) <= Len(SignedChunks(package)) /\ package \in Packages
    BY <2>1, SignedChunksAre DEF Hashed, AtIs, HashedIs
  <2> QED BY <2>1, Zenon DEF Kinds, ResultType, MemoryType, Marks, TypeOK
<1> QED BY <1>1, <1>2, <1>3, PTL DEF Spec

-----------------------------------------------------------------------------
(* What could not be read is not relied on later. *)

Unread == {"read_block", "read_key", "malloc_key"}

WhatIsRead ==
  /\ content => "read_block" \notin failed
  /\ key => failed \cap {"read_key", "malloc_key"} = {}
  /\ pc \in {"access", "unzip", "info", "close", "parse", "load"} =>
       failed \cap Unread = {}
  /\ pc \in {"ids", "stat", "cert", "key"} => failed \cap {"read_key", "malloc_key"} = {}
  /\ pc \in {"open", "hash", "eocd", "compare"} => content /\ key
  /\ UnreadIsNotAccepted

(* The comparison sees that a chunk is missing. *)
LEMMA NoReadFailed ==
  ASSUME Hashed, pc = "compare", hashed = SignedChunks(package)
  PROVE  "read" \notin failed
<1>1. Due = AllChunks(package)
  BY DEF Due, AllChunks, Hashed, AtIs
<1>2. Len(hashed) = AllChunks(package) /\ AllChunks(package) \in Nat
  BY SignedChunksAre DEF Hashed
<1> QED BY <1>1, <1>2 DEF Hashed, HashedIs, HashCalls

(* WhatIsRead, across every step.                                          *)
LEMMA WhatIsReadStep ==
  ASSUME Hashed, WhatIsRead, [Next]_vars
  PROVE  WhatIsRead'
<1> USE DEF WhatIsRead, UnreadIsNotAccepted, Accepted, Unread, memory, digest
<1>1. CASE UNCHANGED vars
  BY <1>1 DEF vars
<1>2. CASE Access \/ UnzOpen \/ UnzInfo \/ UnzClose \/ ParseAppBlock
  BY <1>2 DEF Access, UnzOpen, UnzInfo, UnzClose, ParseAppBlock, Continue, Return, Fails
<1>3. CASE LoadBlock
  BY <1>3 DEF LoadBlock, Continue, Return, Fails
<1>4. CASE CompareIds
  BY <1>4 DEF CompareIds, Continue, Return
<1>5. CASE Stat \/ OpenCert
  BY <1>5 DEF Stat, OpenCert, Continue, Return, Fails
<1>6. CASE ReadKey
  BY <1>6 DEF ReadKey, Continue, Fails
<1>7. CASE VerifySignature
  BY <1>7 DEF VerifySignature, SignatureIsValid, Continue
<1>8. CASE OpenApp
  BY <1>8 DEF OpenApp, Continue, Return, Fails
<1>9. CASE HashRead \/ HashChunk \/ HashFails \/ HashRegionEnd
  BY <1>9 DEF HashRead, HashChunk, HashFails, HashRegionEnd, Hashing, Fails
<1>10. CASE ReadEocd
  BY <1>10 DEF ReadEocd, Continue
<1>11. CASE EocdFails
  BY <1>11 DEF EocdFails, ReturnDigest, Fails
<1>12. CASE Compare
  <2>1. SameDigest => "read" \notin failed
    BY <1>12, NoReadFailed DEF Compare, SameDigest
  <2> QED BY <1>12, <2>1 DEF Compare, ReturnDigest
<1> QED BY <1>1, <1>2, <1>3, <1>4, <1>5, <1>6, <1>7, <1>8, <1>9, <1>10, <1>11, <1>12
        DEF Next, VerifyApp, VerifyDigest

(* Wherever a read fails, of the signing block, of the key or within a     *)
(* chunk, and although the code drops the results of these reads, no       *)
(* package is accepted, but for the two failures taken for success.        *)
THEOREM UnreadIsNeverAccepted == Spec => []UnreadIsNotAccepted
<1>1. Init => Hashed /\ WhatIsRead
  <2>1. Init => WhatIsRead
    BY DEF Init, WhatIsRead, UnreadIsNotAccepted, Accepted
  <2> QED BY <2>1, HashedInit
<1>2. Hashed /\ WhatIsRead /\ [Next]_vars => Hashed' /\ WhatIsRead'
  BY HashedStep, WhatIsReadStep
<1>3. WhatIsRead => UnreadIsNotAccepted
  BY DEF WhatIsRead
<1> QED BY <1>1, <1>2, <1>3, PTL DEF Spec

-----------------------------------------------------------------------------
(* Nothing stands in the way of a genuine package. *)

NothingWrong ==
  failed = {} =>
    /\ pc \in {"ids", "stat", "cert", "key", "signature", "open"} \cup HashCalls => content
    /\ pc \in {"signature", "open"} \cup HashCalls => key
    /\ pc = "compare" => eocd = SignedEocd(package)
    /\ GenuineIsAccepted

(* The checks that a genuine package passes. *)
LEMMA GenuinePasses ==
  ASSUME package \in Packages, Genuine(package)
  PROVE  /\ SameIds
         /\ content /\ key => SignatureIsValid
         /\ hashed = SignedChunks(package) /\ eocd = SignedEocd(package) => SameDigest
<1>1. Info = [signed_data |-> SignedData(package.block),
              public_key |-> PublicKey(package.block),
              digests_signatures_algorithm_id |-> package.block.digest_id,
              one_digest |-> Digest(package.block),
              signatures_algorithm_id |-> package.block.signature_id,
              signatures_content |-> Signature(package.block)]
  BY PackagesAssumption, InfoIsFound DEF Info
<1>2. package.signed /\ package.intact /\ package.block.digest_id = package.block.signature_id
  BY DEF Genuine
<1>3. SameIds
  BY <1>1, <1>2 DEF SameIds
<1>4. content /\ key => SignatureIsValid
  BY <1>1, <1>2 DEF SignatureIsValid
<1>5. hashed = SignedChunks(package) /\ eocd = SignedEocd(package) => SameDigest
  BY <1>1, <1>2 DEF SameDigest
<1> QED BY <1>3, <1>4, <1>5

(* Without a failed read the chunks are all there, and the signer's. *)
LEMMA AllIsHashed ==
  ASSUME Hashed, pc = "compare", failed = {}
  PROVE  hashed = SignedChunks(package)
<1>1. Due = AllChunks(package)
  BY DEF Due, AllChunks, Hashed, AtIs
<1>2. /\ hashed \in Seq(Chunks) /\ Len(hashed) = AllChunks(package)
      /\ \A i \in 1 .. Len(hashed) : hashed[i] = SignedChunks(package)[i]
  BY <1>1 DEF Hashed, HashedIs, HashCalls
<1>3. SignedChunks(package) \in Seq(Chunks) /\ Len(SignedChunks(package)) = AllChunks(package)
  BY SignedChunksAre, Zenon DEF Hashed
<1> QED BY <1>2, <1>3, SeqEqual, Zenon

(* NothingWrong, across every step.                                        *)
LEMMA NothingWrongStep ==
  ASSUME Hashed, NothingWrong, [Next]_vars
  PROVE  NothingWrong'
<1> SUFFICES ASSUME failed' = {}
             PROVE  NothingWrong'
  BY DEF NothingWrong
<1>1. failed = {} /\ UNCHANGED <<package, failed>> /\ (\A call : ~Fails(call))
  <2>1. \A call : ~Fails(call)
    BY DEF Fails
  <2> QED BY <2>1 DEF Next, VerifyApp, VerifyDigest, vars, digest, Access, UnzOpen, UnzInfo,
          UnzClose, ParseAppBlock, LoadBlock, CompareIds, Stat, OpenCert, ReadKey,
          VerifySignature, OpenApp, HashRead, HashChunk, HashFails, HashRegionEnd,
          ReadEocd, EocdFails, Compare
<1>2. package \in Packages /\ Genuine(package)' = Genuine(package)
  BY <1>1 DEF Hashed, Genuine
<1> USE DEF NothingWrong, GenuineIsAccepted, HashCalls, memory, digest
<1>3. CASE UNCHANGED vars
  BY <1>1, <1>3 DEF vars, Genuine, SignedEocd
<1>4. CASE Access \/ UnzOpen \/ UnzInfo \/ UnzClose \/ ParseAppBlock
  BY <1>1, <1>2, <1>4 DEF Access, UnzOpen, UnzInfo, UnzClose, ParseAppBlock, Continue,
     Return, Genuine
<1>5. CASE LoadBlock \/ Stat \/ OpenCert \/ ReadKey \/ OpenApp
  BY <1>1, <1>5 DEF LoadBlock, Stat, OpenCert, ReadKey, OpenApp, Continue, Return
<1>6. CASE CompareIds
  BY <1>1, <1>2, <1>6, GenuinePasses DEF CompareIds, Continue, Return
<1>7. CASE VerifySignature
  BY <1>1, <1>2, <1>7, GenuinePasses DEF VerifySignature, Continue
<1>8. CASE HashRead \/ HashChunk \/ HashFails \/ HashRegionEnd \/ EocdFails
  BY <1>1, <1>8 DEF HashRead, HashChunk, HashFails, HashRegionEnd, Hashing, EocdFails
<1>9. CASE ReadEocd
  <2>1. /\ AppBlock(package).data = [from |-> 0, length |-> package.data]
        /\ AppBlock(package).eocd = [from |-> EocdOffset(package), length |-> 22 + package.comment]
    BY <1>2, LayoutIs, Zenon
  <2>2. eocd' = SignedEocd(package)
    BY <1>9, <2>1 DEF ReadEocd, SignedEocd
  <2> QED BY <1>1, <1>9, <2>2 DEF ReadEocd, Continue, SignedEocd
<1>10. CASE Compare
  <2>1. Genuine(package) => SameDigest
    BY <1>1, <1>2, <1>10, AllIsHashed, GenuinePasses DEF Compare
  <2> QED BY <1>1, <1>2, <1>10, <2>1 DEF Compare, ReturnDigest
<1> QED BY <1>3, <1>4, <1>5, <1>6, <1>7, <1>8, <1>9, <1>10 DEF Next, VerifyApp, VerifyDigest

(* zip_verify rejects no genuine package: whatever the lengths of its      *)
(* parts and of its signing block, for every size of chunk and buffer, and *)
(* however the reads are cut, the result is 0 when no call fails.          *)
THEOREM GenuineIsAlwaysAccepted == Spec => []GenuineIsAccepted
<1>1. Init => Hashed /\ NothingWrong
  <2>1. Init => NothingWrong
    BY DEF Init, NothingWrong, HashCalls, GenuineIsAccepted
  <2> QED BY <2>1, HashedInit
<1>2. Hashed /\ NothingWrong /\ [Next]_vars => Hashed' /\ NothingWrong'
  BY HashedStep, NothingWrongStep
<1>3. NothingWrong => GenuineIsAccepted
  BY DEF NothingWrong, GenuineIsAccepted
<1> QED BY <1>1, <1>2, <1>3, PTL DEF Spec
====
