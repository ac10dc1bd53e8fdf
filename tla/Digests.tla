------------------------------- MODULE Digests -------------------------------
(***************************************************************************)
(* The hash functions of CryptoJS, fed piece by piece, and the message     *)
(* digest of KJUR.crypto on top of them.                                   *)
(*                                                                         *)
(* A word array is the octets of its words, four per word, of which the    *)
(* first sigBytes count; a word that was never written reads as zero.  The *)
(* rounds that take in a block are abstract: a hash value is the sequence  *)
(* of the blocks taken in, so two digests are equal when every block is.   *)
(* Block and length sizes (16 and 2 words for SHA-1 and SHA-256, 32 and 4  *)
(* for SHA-512) are constants, as are the halves of a 64-bit word.         *)
(***************************************************************************)
EXTENDS Integers, Sequences
LOCAL INSTANCE SequencesExt

CONSTANTS
  BlockSize,     \* [algorithm -> words of a block]
  LengthSize,    \* [algorithm -> words for the length of the message]
  HalfBits       \* bits of the halves of an X64Word

ASSUME SizeAssumption ==
  /\ DOMAIN LengthSize = DOMAIN BlockSize
  /\ \A a \in DOMAIN BlockSize :
       /\ LengthSize[a] \in 2..BlockSize[a]
       /\ \E k \in 0..10 : BlockSize[a] = 2^k     \* shifts divide by the block

WordBytes == 4
RoundUp(n, to) == ((n + to - 1) \div to) * to

-----------------------------------------------------------------------------
(***************************************************************************)
(* WordArray                                                               *)
(***************************************************************************)
WordArray(octets, sigBytes) == [octets |-> octets, sigBytes |-> sigBytes]
Blank(n) == [i \in 1..n |-> 0]
OctetAt(octets, i) == IF i <= Len(octets) THEN octets[i] ELSE 0

\* The octets of a string or a hex string, in whole words.
Parse(octets) ==
  WordArray(octets \o Blank(RoundUp(Len(octets), WordBytes) - Len(octets)), Len(octets))

clamp(w) ==
  WordArray([i \in 1..RoundUp(w.sigBytes, WordBytes) |->
               IF i <= w.sigBytes THEN OctetAt(w.octets, i) ELSE 0], w.sigBytes)

\* Mutant: words are appended, also behind a word that is not full.
concatWords(this, that) ==
  WordArray(clamp(this).octets \o that.octets, this.sigBytes + that.sigBytes)

\* Octet by octet behind a word that is not full, else all words of that.
concat(this, that) ==
  LET w == clamp(this)
      n == this.sigBytes + that.sigBytes
  IN  IF this.sigBytes % WordBytes # 0
        THEN WordArray([i \in 1..RoundUp(n, WordBytes) |->
               IF i <= this.sigBytes \/ i > n THEN OctetAt(w.octets, i)
               ELSE that.octets[i - this.sigBytes]], n)
        ELSE WordArray(w.octets \o that.octets, n)

-----------------------------------------------------------------------------
(***************************************************************************)
(* BufferedBlockAlgorithm, Hasher and the ends of SHA1, SHA256, SHA512     *)
(***************************************************************************)
BlockBytes(algorithm) == BlockSize[algorithm] * WordBytes

reset(algorithm) ==
  [algorithm |-> algorithm, data |-> WordArray(<<>>, 0), nDataBytes |-> 0, hash |-> <<>>]

doProcessBlock(hash, block) == Append(hash, block)

append(md, piece) ==
  [md EXCEPT !.data = concat(@, piece), !.nDataBytes = @ + piece.sigBytes]

\* Only full blocks are taken in.
process(md) ==
  LET size == BlockBytes(md.algorithm)
      nBlocksReady == md.data.sigBytes \div size
      nBytesReady == nBlocksReady * size
      octets == md.data.octets
      Block(i) == [j \in 1..size |-> OctetAt(octets, (i - 1) * size + j)]
  IN  [md EXCEPT
        !.hash = FoldLeft(doProcessBlock, @, [i \in 1..nBlocksReady |-> Block(i)]),
        !.data = WordArray(SubSeq(octets, nBytesReady + 1, Len(octets)),
                           md.data.sigBytes - nBytesReady)]

update(md, piece) == process(append(md, piece))

\* The message's bits in the last two words.
LengthOctets(nDataBytes) == [i \in 1..8 |-> IF i < 6 THEN 0 ELSE ((8 * nDataBytes) \div 256^(8 - i)) % 256]

\* 0x80 behind the data (or-ed into what is there), the length at the end of the
\* block in which it has room.
doFinalize(md) ==
  LET size == BlockBytes(md.algorithm)
      left == md.data.sigBytes
      end == ((left + LengthSize[md.algorithm] * WordBytes) \div size) * size + size
      old(i) == OctetAt(md.data.octets, i)
      octets == [i \in 1..end |->
        IF i > end - 8 THEN LengthOctets(md.nDataBytes)[i - (end - 8)]
        ELSE IF i = left + 1 THEN (IF old(i) >= 128 THEN old(i) ELSE old(i) + 128)
        ELSE old(i)]
  IN  process([md EXCEPT !.data = WordArray(octets, end)])

\* digest(), digestString(s) and digestHex(h): finalize does not reset, the hash is
\* the object's own.
digest(md) == doFinalize(md).hash
digestHex(md, octets) == digest(update(md, Parse(octets)))

\* hashString and hashHex: a message digest of their own for every message.
hashHex(octets, algorithm) == digestHex(reset(algorithm), octets)

-----------------------------------------------------------------------------
(***************************************************************************)
(* SHA512's sums of 64-bit words.  The lower half is a double that is not  *)
(* cut off, the carry compares it modulo 2^32 (>>> 0) with an addend.      *)
(***************************************************************************)
Cut(x) == x % 2^HalfBits
X64Word(high, low) == [high |-> high, low |-> low]

PlusWord(sum, addend) ==
  LET low == sum.low + addend.low
  IN  X64Word(sum.high + addend.high + (IF Cut(low) < Cut(addend.low) THEN 1 ELSE 0), low)

\* W[i] = gamma0 + W[i - 7] + gamma1 + W[i - 16]
ScheduledWord(gamma0, Wi7, gamma1, Wi16) ==
  LET low == gamma0.low + Wi7.low
      first == X64Word(gamma0.high + Wi7.high + (IF Cut(low) < Cut(gamma0.low) THEN 1 ELSE 0), low)
  IN  PlusWord(PlusWord(first, gamma1), Wi16)

\* t1 = h + sigma1 + ch + K[i] + W[i]
RoundSum(h, sigma1, ch, Ki, Wi) ==
  LET low == h.low + sigma1.low
      first == X64Word(h.high + sigma1.high + (IF Cut(low) < Cut(h.low) THEN 1 ELSE 0), low)
  IN  PlusWord(PlusWord(PlusWord(first, ch), Ki), Wi)

\* The intermediate hash value after a block.
HashSum(H, a) == PlusWord(H, a)
=============================================================================
