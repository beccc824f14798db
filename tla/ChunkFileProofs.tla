-------------------------- MODULE ChunkFileProofs --------------------------
(***************************************************************************)
(* Proofs about ChunkFile: read_chunk inverts write_chunk, and what is in  *)
(* the file, or is read from it, is a chunk that was stored in full.       *)
(***************************************************************************)
EXTENDS ChunkFile, SequenceTheorems, TLAPS

-----------------------------------------------------------------------------
(* Dividing by the base leaves a remainder below it.                       *)
LEMMA Digit ==
  ASSUME NEW u \in Nat
  PROVE  /\ u \div ByteBase \in Nat
         /\ u % ByteBase \in Byte
         /\ u = ByteBase * (u \div ByteBase) + (u % ByteBase)
<1>1. ByteBase \in Nat /\ ByteBase > 0
  BY ByteAssumption
<1>2. u % ByteBase \in Byte
  BY <1>1 DEF Byte
<1>3. u \div ByteBase \in Nat /\ u = ByteBase * (u \div ByteBase) + (u % ByteBase)
  BY <1>1
<1> QED BY <1>2, <1>3

(* A number below base times bound has a quotient below bound.             *)
LEMMA QuotientBelow ==
  ASSUME NEW u \in Nat, NEW bound \in Nat, u < ByteBase * bound
  PROVE  u \div ByteBase < bound
<1> DEFINE q == u \div ByteBase
<1>1. q \in Nat /\ u >= ByteBase * q
  BY Digit, ByteAssumption DEF Byte
<1>2. ASSUME q >= bound PROVE FALSE
  <2>1. ByteBase * q >= ByteBase * bound
    BY <1>1, <1>2, ByteAssumption
  <2> QED BY <2>1, <1>1, ByteAssumption
<1> QED BY <1>1, <1>2

(* A number below the base is its own remainder.                           *)
LEMMA LastDigit ==
  ASSUME NEW u \in Byte
  PROVE  u % ByteBase = u
BY ByteAssumption DEF Byte

(* The four bytes written for an unsigned give it back.                    *)
LEMMA LittleEndianValue ==
  ASSUME NEW u \in UWord
  PROVE  /\ LittleEndian(u) \in Seq(Byte)
         /\ Len(LittleEndian(u)) = 4
         /\ LittleEndian(u)[1] + ByteBase * (LittleEndian(u)[2] + ByteBase *
              (LittleEndian(u)[3] + ByteBase * LittleEndian(u)[4])) = u
<1> DEFINE B == ByteBase
           s1 == u \div B
           s2 == s1 \div B
           s3 == s2 \div B
<1>1. B \in Nat /\ u \in Nat /\ u < B * (B * (B * B))
  BY ByteAssumption, HalfAssumption DEF UWord
<1>2. s1 \in Nat /\ s2 \in Nat /\ s3 \in Nat
  BY <1>1, Digit
<1>3. s1 < B * (B * B)
  BY <1>1, QuotientBelow
<1>4. s2 < B * B
  BY <1>1, <1>2, <1>3, QuotientBelow
<1>5. s3 < B
  BY <1>1, <1>2, <1>4, QuotientBelow
<1>6. s3 % B = s3
  BY <1>1, <1>2, <1>5, LastDigit DEF Byte
<1>7. u = B * s1 + (u % B) /\ s1 = B * s2 + (s1 % B) /\ s2 = B * s3 + (s2 % B)
  BY <1>1, <1>2, Digit
<1>8. u % B \in Byte /\ s1 % B \in Byte /\ s2 % B \in Byte /\ s3 % B \in Byte
  BY <1>1, <1>2, Digit
<1>9. LittleEndian(u) = <<u % B, s1 % B, s2 % B, s3 % B>>
  BY DEF LittleEndian
<1> HIDE DEF s1, s2, s3
<1>10. (u % B) + B * ((s1 % B) + B * ((s2 % B) + B * (s3 % B))) = u
   <2>1. s2 = (s2 % B) + B * (s3 % B)
     BY <1>1, <1>2, <1>6, <1>7, <1>8 DEF Byte
  <2>2. s1 = (s1 % B) + B * s2
    BY <1>1, <1>2, <1>7, <1>8 DEF Byte
  <2>3. u = (u % B) + B * s1
    BY <1>1, <1>2, <1>7, <1>8 DEF Byte
  <2> QED BY <2>1, <2>2, <2>3
<1> QED BY <1>8, <1>9, <1>10

(* An int survives its conversion to unsigned and back.                    *)
LEMMA SignedUnsigned ==
  ASSUME NEW n \in Word
  PROVE  ToUnsigned(n) \in UWord /\ ToSigned(ToUnsigned(n)) = n
<1> DEFINE u == IF n >= 0 THEN n ELSE n + 2 * Half
<1>1. n % (2 * Half) = u
  BY HalfAssumption DEF Word
<1>2. u \in UWord /\ u % (2 * Half) = u
  BY HalfAssumption DEF Word, UWord
<1> QED BY <1>1, <1>2, HalfAssumption DEF ToUnsigned, ToSigned, Word, UWord

(* A size that is an unsigned number is written as it is.                  *)
LEMMA UnsignedKept ==
  ASSUME NEW u \in UWord
  PROVE  ToUnsigned(u) = u
BY HalfAssumption DEF UWord, ToUnsigned

-----------------------------------------------------------------------------
(* The elements of a concatenation.                                        *)
LEMMA Concatenated ==
  ASSUME NEW s \in Seq(Byte), NEW t \in Seq(Byte)
  PROVE  /\ s \o t \in Seq(Byte)
         /\ Len(s \o t) = Len(s) + Len(t)
         /\ \A i \in 1 .. Len(s) : (s \o t)[i] = s[i]
         /\ \A i \in 1 .. Len(t) : (s \o t)[Len(s) + i] = t[i]
OBVIOUS

(* The constants take four bytes each, one after the other.                *)
LEMMA RawConstantsLayout ==
  ASSUME NEW pool \in Seq(Word)
  PROVE  /\ RawConstants(pool) \in Seq(Byte)
         /\ Len(RawConstants(pool)) = 4 * Len(pool)
         /\ \A n \in 1 .. Len(pool), j \in 1 .. 4 :
              RawConstants(pool)[4 * (n - 1) + j] = LittleEndian(ToUnsigned(pool[n]))[j]
<1> DEFINE size == 4 * Len(pool)
           at(i) == LittleEndian(ToUnsigned(pool[1 + ((i - 1) \div 4)]))[1 + ((i - 1) % 4)]
<1>1. size \in Nat
  OBVIOUS
<1>2. ASSUME NEW i \in 1 .. size PROVE at(i) \in Byte
  <2>1. 1 + ((i - 1) \div 4) \in 1 .. Len(pool) /\ 1 + ((i - 1) % 4) \in 1 .. 4
    BY <1>1
  <2>2. pool[1 + ((i - 1) \div 4)] \in Word
    BY <2>1, ElementOfSeq
  <2>3. LittleEndian(ToUnsigned(pool[1 + ((i - 1) \div 4)])) \in [1 .. 4 -> Byte]
    BY <2>2, SignedUnsigned, LittleEndianValue, LenProperties
  <2> QED BY <2>1, <2>3
<1>3. RawConstants(pool) = [i \in 1 .. size |-> at(i)]
  BY DEF RawConstants
<1> HIDE DEF at
<1>4. RawConstants(pool) \in Seq(Byte) /\ Len(RawConstants(pool)) = size
  BY <1>1, <1>2, <1>3
<1>5. ASSUME NEW n \in 1 .. Len(pool), NEW j \in 1 .. 4
      PROVE  RawConstants(pool)[4 * (n - 1) + j] = LittleEndian(ToUnsigned(pool[n]))[j]
  <2> DEFINE i == 4 * (n - 1) + j
  <2>1. i \in 1 .. size /\ 1 + ((i - 1) \div 4) = n /\ 1 + ((i - 1) % 4) = j
    BY <1>1
  <2>2. RawConstants(pool)[i] = at(i)
    BY <1>3, <2>1
  <2> QED BY <2>1, <2>2 DEF at
<1> QED BY <1>4, <1>5

(* Where each field of a chunk is in its file.                             *)
LEMMA FileLayout ==
  ASSUME NEW ch \in ChunkData, Fits(ch)
  PROVE  /\ FileOf(ch) \in Seq(Byte)
         /\ Len(FileOf(ch)) = HeaderSize + 4 * Len(ch.constants) + Len(ch.binary)
         /\ \A i \in 1 .. 6 : FileOf(ch)[i] = Magic[i]
         /\ \A j \in 1 .. 4 : /\ FileOf(ch)[6 + j] = LittleEndian(Len(ch.constants))[j]
                             /\ FileOf(ch)[10 + j] = LittleEndian(Len(ch.binary))[j]
         /\ \A i \in 1 .. 4 * Len(ch.constants) :
              FileOf(ch)[HeaderSize + i] = RawConstants(ch.constants)[i]
         /\ \A i \in 1 .. Len(ch.binary) :
              FileOf(ch)[HeaderSize + 4 * Len(ch.constants) + i] = ch.binary[i]
<1> DEFINE count == LittleEndian(Len(ch.constants))
           length == LittleEndian(Len(ch.binary))
           raw == RawConstants(ch.constants)
           s1 == Magic \o count
           s2 == s1 \o length
           s3 == s2 \o raw
           s4 == s3 \o ch.binary
<1>1. ch.binary \in Seq(Byte) /\ ch.constants \in Seq(Word)
  BY DEF ChunkData
<1>2. Magic \in Seq(Byte) /\ Len(Magic) = 6
  BY ByteAssumption DEF Magic, Byte
<1>3. HeaderSize = 14
  BY <1>2 DEF HeaderSize
<1>4. count \in Seq(Byte) /\ Len(count) = 4 /\ length \in Seq(Byte) /\ Len(length) = 4
  BY LittleEndianValue DEF Fits
<1>5. raw \in Seq(Byte) /\ Len(raw) = 4 * Len(ch.constants)
  BY <1>1, RawConstantsLayout
<1>6. FileOf(ch) = s4
  BY UnsignedKept DEF FileOf, Fits
<1> HIDE DEF count, length, raw
<1>7. /\ s1 \in Seq(Byte) /\ Len(s1) = 10
      /\ \A i \in 1 .. 6 : s1[i] = Magic[i]
      /\ \A i \in 1 .. 4 : s1[6 + i] = count[i]
  <2>1. /\ s1 \in Seq(Byte) /\ Len(s1) = Len(Magic) + Len(count)
        /\ \A i \in 1 .. Len(Magic) : s1[i] = Magic[i]
        /\ \A i \in 1 .. Len(count) : s1[Len(Magic) + i] = count[i]
    BY <1>2, <1>4, Concatenated, Zenon
  <2> HIDE DEF s1
  <2> QED BY <2>1, <1>2, <1>4
<1> HIDE DEF s1
<1>8. /\ s2 \in Seq(Byte) /\ Len(s2) = 14
      /\ \A i \in 1 .. 10 : s2[i] = s1[i]
      /\ \A i \in 1 .. 4 : s2[10 + i] = length[i]
  <2>1. /\ s2 \in Seq(Byte) /\ Len(s2) = Len(s1) + Len(length)
        /\ \A i \in 1 .. Len(s1) : s2[i] = s1[i]
        /\ \A i \in 1 .. Len(length) : s2[Len(s1) + i] = length[i]
    BY <1>4, <1>7, Concatenated, Zenon
  <2> HIDE DEF s2
  <2> QED BY <2>1, <1>4, <1>7
<1> HIDE DEF s2
<1>9. /\ s3 \in Seq(Byte) /\ Len(s3) = 14 + Len(raw)
      /\ \A i \in 1 .. 14 : s3[i] = s2[i]
      /\ \A i \in 1 .. Len(raw) : s3[14 + i] = raw[i]
  <2>1. /\ s3 \in Seq(Byte) /\ Len(s3) = Len(s2) + Len(raw)
        /\ \A i \in 1 .. Len(s2) : s3[i] = s2[i]
        /\ \A i \in 1 .. Len(raw) : s3[Len(s2) + i] = raw[i]
    BY <1>5, <1>8, Concatenated, Zenon
  <2> HIDE DEF s3
  <2> QED BY <2>1, <1>5, <1>8
<1> HIDE DEF s3
<1>10. /\ s4 \in Seq(Byte) /\ Len(s4) = 14 + Len(raw) + Len(ch.binary)
       /\ \A i \in 1 .. 14 + Len(raw) : s4[i] = s3[i]
       /\ \A i \in 1 .. Len(ch.binary) : s4[14 + Len(raw) + i] = ch.binary[i]
  <2>1. /\ s4 \in Seq(Byte) /\ Len(s4) = Len(s3) + Len(ch.binary)
        /\ \A i \in 1 .. Len(s3) : s4[i] = s3[i]
        /\ \A i \in 1 .. Len(ch.binary) : s4[Len(s3) + i] = ch.binary[i]
    BY <1>1, <1>9, Concatenated, Zenon
  <2> HIDE DEF s4
  <2> QED BY <2>1, <1>1, <1>9
<1> HIDE DEF s4
<1>11. Len(raw) \in Nat /\ Len(ch.binary) \in Nat /\ Len(ch.constants) \in Nat
  BY <1>1, <1>5
<1>12. /\ \A i \in 1 .. 14 : s4[i] = s2[i]
       /\ \A i \in 1 .. Len(raw) : s4[14 + i] = raw[i]
  <2>1. PICK r \in Nat : r = Len(raw)
    BY <1>11
  <2>2. /\ \A i \in 1 .. 14 + r : s4[i] = s3[i]
        /\ \A i \in 1 .. 14 : s3[i] = s2[i]
        /\ \A i \in 1 .. r : s3[14 + i] = raw[i]
    BY <1>9, <1>10, <2>1, Zenon
  <2>3. \A i \in 1 .. 14 : i \in 1 .. 14 + r
    OBVIOUS
  <2>4. \A i \in 1 .. r : 14 + i \in 1 .. 14 + r
    OBVIOUS
  <2> QED BY <2>1, <2>2, <2>3, <2>4, Zenon
<1>13. \A i \in 1 .. 6 : s4[i] = Magic[i]
  BY <1>7, <1>8, <1>12
<1>14. \A j \in 1 .. 4 : s4[6 + j] = count[j] /\ s4[10 + j] = length[j]
  BY <1>7, <1>8, <1>12
<1>15. \A i \in 1 .. Len(ch.binary) : s4[14 + Len(raw) + i] = ch.binary[i]
  BY <1>10
<1> QED
  BY <1>3, <1>5, <1>6, <1>10, <1>12, <1>13, <1>14, <1>15 DEF count, length, raw

(* A file that begins as the file of a chunk has the sizes of this chunk.  *)
LEMMA HeaderRead ==
  ASSUME NEW ch \in ChunkData, Fits(ch), NEW bytes \in Seq(Byte),
         Len(bytes) >= HeaderSize,
         \A i \in 1 .. HeaderSize : bytes[i] = FileOf(ch)[i]
  PROVE  /\ HasMagic(bytes) /\ HasHeader(bytes)
         /\ CountOf(bytes) = Len(ch.constants)
         /\ LengthOf(bytes) = Len(ch.binary)
<1> DEFINE count == LittleEndian(Len(ch.constants))
           length == LittleEndian(Len(ch.binary))
<1>1. Len(Magic) = 6 /\ HeaderSize = 14
  BY DEF Magic, HeaderSize
<1>2. Len(bytes) >= 14 /\ \A i \in 1 .. 14 : bytes[i] = FileOf(ch)[i]
  BY <1>1
<1> DEFINE f == FileOf(ch)
<1>a. /\ \A i \in 1 .. 6 : f[i] = Magic[i]
      /\ \A j \in 1 .. 4 : f[6 + j] = count[j] /\ f[10 + j] = length[j]
  BY FileLayout, Zenon
<1> HIDE DEF f, count, length
<1>b. \A i \in 1 .. 14 : bytes[i] = f[i]
  BY <1>2 DEF f
<1>3. \A i \in 1 .. 6 : bytes[i] = Magic[i]
  BY <1>a, <1>b
<1>4. \A j \in 1 .. 4 : bytes[6 + j] = count[j] /\ bytes[10 + j] = length[j]
  BY <1>a, <1>b
<1>5. Len(ch.constants) \in UWord /\ Len(ch.binary) \in UWord
  BY DEF Fits
<1>6. bytes[7] = count[1] /\ bytes[8] = count[2] /\ bytes[9] = count[3] /\ bytes[10] = count[4]
  BY <1>4
<1>7. bytes[11] = length[1] /\ bytes[12] = length[2] /\ bytes[13] = length[3]
      /\ bytes[14] = length[4]
  BY <1>4
<1>8. CountOf(bytes) = count[1] + ByteBase * (count[2] + ByteBase * (count[3]
                                                          + ByteBase * count[4]))
  BY <1>1, <1>6 DEF CountOf, ValueAt
<1>9. LengthOf(bytes) = length[1] + ByteBase * (length[2] + ByteBase * (length[3]
                                                          + ByteBase * length[4]))
  BY <1>1, <1>7 DEF LengthOf, ValueAt
<1>10. CountOf(bytes) = Len(ch.constants) /\ LengthOf(bytes) = Len(ch.binary)
  BY <1>5, <1>8, <1>9, LittleEndianValue DEF count, length
<1>11. HasMagic(bytes) /\ HasHeader(bytes)
  BY <1>1, <1>2, <1>3 DEF HasMagic, HasHeader
<1> QED BY <1>10, <1>11

(* What write_chunk writes, read_chunk accepts and gives back unchanged:   *)
(* both agree on the order, the width and the signedness of every field    *)
(* (decl_vm.cc:16-84).                                                     *)
THEOREM RoundTrip ==
  ASSUME NEW ch \in ChunkData, Fits(ch)
  PROVE  ReadChunk(FileOf(ch)) = [ok |-> TRUE, chunk |-> ch]
<1> DEFINE f == FileOf(ch)
           nc == Len(ch.constants)
           nb == Len(ch.binary)
<1>1. ch.binary \in Seq(Byte) /\ ch.constants \in Seq(Word) /\ nc \in Nat /\ nb \in Nat
  BY DEF ChunkData
<1>2. HeaderSize = 14
  BY DEF HeaderSize, Magic
<1>3. f \in Seq(Byte) /\ Len(f) = 14 + 4 * nc + nb
  BY <1>2, FileLayout
<1> HIDE DEF f, nc, nb
<1>4. HasMagic(f) /\ HasHeader(f) /\ CountOf(f) = nc /\ LengthOf(f) = nb
  <2>1. Len(f) >= HeaderSize
    BY <1>1, <1>2, <1>3
  <2> QED BY <1>3, <2>1, HeaderRead, Zenon DEF f, nc, nb
<1>5. Accepts(f)
  BY <1>2, <1>3, <1>4 DEF Accepts, HasSize
<1>6. ASSUME NEW n \in 1 .. nc
      PROVE  ToSigned(ValueAt(f, 14 + 4 * (n - 1))) = ch.constants[n]
  <2> USE DEF nc, f
  <2> DEFINE at == 4 * (n - 1)
             le == LittleEndian(ToUnsigned(ch.constants[n]))
  <2>1. ch.constants[n] \in Word
    BY <1>1
  <2>2. \A j \in 1 .. 4 : f[14 + (at + j)] = le[j]
    <3> SUFFICES ASSUME NEW j \in 1 .. 4 PROVE f[14 + (at + j)] = le[j]
      OBVIOUS
    <3>1. at + j \in 1 .. 4 * nc
      BY <1>1
    <3>2. f[14 + (at + j)] = RawConstants(ch.constants)[at + j]
      BY <1>2, <3>1, FileLayout
    <3>3. RawConstants(ch.constants)[at + j] = le[j]
      BY <1>1, RawConstantsLayout
    <3> QED BY <3>2, <3>3
  <2> HIDE DEF f, nc, le
  <2>3. /\ f[14 + at + 1] = le[1] /\ f[14 + at + 2] = le[2]
        /\ f[14 + at + 3] = le[3] /\ f[14 + at + 4] = le[4]
    <3>1. at \in Int
      BY <1>1
    <3> HIDE DEF at
    <3> QED BY <2>2, <3>1
  <2>4. ValueAt(f, 14 + at) = le[1] + ByteBase * (le[2] + ByteBase * (le[3]
                                                          + ByteBase * le[4]))
    BY <2>3 DEF ValueAt
  <2>5. ValueAt(f, 14 + at) = ToUnsigned(ch.constants[n])
    BY <2>1, <2>4, SignedUnsigned, LittleEndianValue DEF le
  <2> QED BY <2>1, <2>5, SignedUnsigned
<1>7. ChunkOf(f).constants = ch.constants
  <2>1. ChunkOf(f).constants = [n \in 1 .. nc |-> ToSigned(ValueAt(f, 14 + 4 * (n - 1)))]
    BY <1>2, <1>4 DEF ChunkOf
  <2>2. @ = [n \in 1 .. nc |-> ch.constants[n]]
    BY <1>6
  <2>3. @ = ch.constants
    BY <1>1, LenProperties DEF nc
  <2> QED BY <2>1, <2>2, <2>3
<1>8. ChunkOf(f).binary = ch.binary
  <2>1. PICK from \in Nat : from = 14 + 4 * nc + 1
    BY <1>1
  <2>2. PICK size \in Nat : size = Len(f) /\ size - from + 1 = nb
    BY <1>1, <1>3, <2>1
  <2> DEFINE part == SubSeq(f, from, size)
  <2>3. ChunkOf(f).binary = part
    BY <1>2, <1>4, <2>1, <2>2 DEF ChunkOf
  <2>4. \A i \in from .. size : f[i] \in Byte
    <3>1. \A i \in 1 .. size : f[i] \in Byte
      BY <1>3, <2>2, ElementOfSeq, Zenon
    <3>2. from >= 1
      BY <1>1, <2>1
    <3> QED BY <3>1, <3>2
  <2>5. /\ part \in Seq(Byte)
        /\ Len(part) = IF from <= size THEN size - from + 1 ELSE 0
        /\ \A i \in 1 .. size - from + 1 : part[i] = f[from + i - 1]
    <3>1. from \in Int /\ size \in Int
      OBVIOUS
    <3> QED BY <2>4, <3>1, SubSeqProperties
  <2>6. \A i \in 1 .. nb : f[14 + 4 * nc + i] = ch.binary[i]
    BY <1>2, FileLayout, Zenon DEF f, nb, nc
  <2> HIDE DEF part
  <2>7. Len(part) = nb
    BY <1>1, <2>2, <2>5
  <2>8. \A i \in 1 .. nb : part[i] = ch.binary[i]
    <3> SUFFICES ASSUME NEW i \in 1 .. nb PROVE part[i] = ch.binary[i]
      OBVIOUS
    <3>1. i \in 1 .. size - from + 1 /\ from + i - 1 = 14 + 4 * nc + i
      BY <1>1, <2>1, <2>2
    <3> QED BY <2>5, <2>6, <3>1
  <2>9. part = ch.binary
    BY <1>1, <2>5, <2>7, <2>8, SeqEqual DEF nb
  <2> QED BY <2>3, <2>9
<1>9. ChunkOf(f) = [constants |-> ChunkOf(f).constants, binary |-> ChunkOf(f).binary]
  BY DEF ChunkOf
<1>10. ch = [constants |-> ch.constants, binary |-> ch.binary]
  BY DEF ChunkData
<1> QED BY <1>5, <1>7, <1>8, <1>9, <1>10 DEF ReadChunk, f

-----------------------------------------------------------------------------
(* The inductive invariant.                                                *)
Made == Chunks \cup {EmptyChunk}

StartsWith(bytes, ch) ==
  /\ Len(FileOf(ch)) <= Len(bytes)
  /\ \A i \in 1 .. Len(FileOf(ch)) : bytes[i] = FileOf(ch)[i]

CutShort(bytes, ch) ==
  /\ Len(bytes) < Len(FileOf(ch))
  /\ \A i \in 1 .. Len(bytes) : bytes[i] = FileOf(ch)[i]

(* The file begins with all of a chunk that was stored (what a longer file *)
(* left behind may follow), or it is the beginning of a chunk's file.      *)
Covered == \/ \E ch \in stored : StartsWith(file, ch)
           \/ \E ch \in Made : CutShort(file, ch)

(* When no file is split, nothing or all of it has been handed over.       *)
WholeInv == ~split =>
  /\ Covered
  /\ \A w \in Writers : Active(w) => writer[w].pos \in {0, Len(Goal(w))}

(* What the owner of the file finds in it: nobody else is about to write,  *)
(* and the file is what the owner's own pieces have made of an empty one.  *)
Begins(bytes, ch) ==
  /\ Len(bytes) <= Len(FileOf(ch))
  /\ \A i \in 1 .. Len(bytes) : bytes[i] = FileOf(ch)[i]

Growing(ch) == /\ Begins(file, ch)
               /\ Len(file) = Len(FileOf(ch)) => ch \in stored

Owned(w) ==
  /\ \A v \in Writers \ {w} : ~Active(v)
  /\ \E ch \in Made : Growing(ch)
  /\ Active(w) => Growing(writer[w].chunk) /\ Len(file) = writer[w].pos
  /\ writer[w].state = "saved" => file = Goal(w)

OwnInv == \A w \in Writers : owner = w => Owned(w)

(* What a reader has fetched undisturbed is the beginning of the file.     *)
ReadInv == reader.state = "reading" /\ reader.calm =>
  /\ owner # "shared"
  /\ Len(reader.got) <= Len(file)
  /\ \A i \in 1 .. Len(reader.got) : reader.got[i] = file[i]

(* What is written is a chunk, from its first byte on.                     *)
MadeInv == /\ \A w \in Writers :
                /\ writer[w].chunk \in Made
                /\ Active(w) \/ writer[w].state = "ready"
                     => writer[w].chunk \in Chunks
                /\ writer[w].state = "ready" => writer[w].pos = 0
           /\ stored \subseteq Made

Inv == TypeOK /\ MadeInv /\ WholeInv /\ OwnInv /\ ReadInv /\ LoadedIsWritten

(* Every chunk at hand can be written.                                     *)
LEMMA MadeFits ==
  ASSUME NEW ch \in Made
  PROVE  ch \in ChunkData /\ Fits(ch)
<1>1. EmptyChunk \in ChunkData /\ Fits(EmptyChunk)
  BY HalfAssumption DEF EmptyChunk, ChunkData, Fits, UWord
<1> QED BY <1>1, ChunksAssumption DEF Made

LEMMA FileOfType ==
  ASSUME NEW ch \in Made
  PROVE  /\ FileOf(ch) \in Seq(Byte)
         /\ Len(ch.constants) \in Nat /\ Len(ch.binary) \in Nat
         /\ HeaderSize = 14
         /\ Len(FileOf(ch)) = 14 + 4 * Len(ch.constants) + Len(ch.binary)
         /\ Len(FileOf(ch)) \in Nat /\ Len(FileOf(ch)) >= 14
<1>1. ch \in ChunkData /\ Fits(ch)
  BY MadeFits
<1>2. Len(ch.constants) \in Nat /\ Len(ch.binary) \in Nat
  BY <1>1 DEF ChunkData
<1>3. HeaderSize = 14
  BY DEF HeaderSize, Magic
<1>4. /\ FileOf(ch) \in Seq(Byte)
      /\ Len(FileOf(ch)) = 14 + 4 * Len(ch.constants) + Len(ch.binary)
  BY <1>1, <1>2, <1>3, FileLayout
<1>5. PICK nc \in Nat, nb \in Nat : nc = Len(ch.constants) /\ nb = Len(ch.binary)
  BY <1>2
<1>6. Len(FileOf(ch)) = 14 + 4 * nc + nb
  BY <1>4, <1>5, Zenon
<1>7. Len(FileOf(ch)) \in Nat /\ Len(FileOf(ch)) >= 14
  BY <1>6
<1> QED BY <1>2, <1>3, <1>4, <1>7, Zenon

(* A file that agrees with that of a chunk as far as the header goes, and  *)
(* that read_chunk accepts, has the length of the chunk's file.            *)
LEMMA AcceptedLength ==
  ASSUME NEW ch \in Made, NEW bytes \in Seq(Byte), Accepts(bytes),
         \A i \in 1 .. 14 : bytes[i] = FileOf(ch)[i]
  PROVE  Len(bytes) = Len(FileOf(ch))
<1>1. Len(bytes) >= HeaderSize /\ Len(bytes) = HeaderSize + 4 * CountOf(bytes) + LengthOf(bytes)
  BY DEF Accepts, HasHeader, HasSize
<1>2. CountOf(bytes) = Len(ch.constants) /\ LengthOf(bytes) = Len(ch.binary)
  <2>1. \A i \in 1 .. HeaderSize : bytes[i] = FileOf(ch)[i]
    BY FileOfType
  <2> QED BY <1>1, <2>1, MadeFits, HeaderRead, Zenon
<1> QED BY <1>1, <1>2, FileOfType

(* What follows a stored chunk in its file makes read_chunk reject it.     *)
LEMMA AcceptedIsWhole ==
  ASSUME NEW ch \in Made, NEW bytes \in Seq(Byte), Accepts(bytes), StartsWith(bytes, ch)
  PROVE  bytes = FileOf(ch)
<1> DEFINE f == FileOf(ch)
<1>1. f \in Seq(Byte) /\ Len(f) \in Nat /\ Len(f) >= 14
  BY FileOfType, Zenon
<1>2. \A i \in 1 .. Len(f) : bytes[i] = f[i]
  BY DEF StartsWith
<1> HIDE DEF f
<1>3. \A i \in 1 .. 14 : bytes[i] = f[i]
  BY <1>1, <1>2
<1>4. Len(bytes) = Len(f)
  BY <1>3, AcceptedLength DEF f
<1>5. \A i \in 1 .. Len(bytes) : bytes[i] = f[i]
  BY <1>2, <1>4
<1>6. bytes = f
  BY <1>1, <1>4, <1>5, SeqEqual
<1> QED BY <1>6 DEF f

(* The beginning of a chunk's file is rejected.                            *)
LEMMA CutIsRejected ==
  ASSUME NEW ch \in Made, NEW bytes \in Seq(Byte), CutShort(bytes, ch)
  PROVE  ~ Accepts(bytes)
<1> SUFFICES ASSUME Accepts(bytes) PROVE FALSE
  OBVIOUS
<1>1. Len(bytes) \in Nat /\ Len(bytes) >= 14
  <2>1. HeaderSize = 14
    BY DEF HeaderSize, Magic
  <2> QED BY <2>1 DEF Accepts, HasHeader
<1>2. \A i \in 1 .. Len(bytes) : bytes[i] = FileOf(ch)[i]
  BY DEF CutShort
<1>3. \A i \in 1 .. 14 : bytes[i] = FileOf(ch)[i]
  BY <1>1, <1>2
<1>4. Len(bytes) = Len(FileOf(ch))
  BY <1>3, AcceptedLength
<1> QED BY <1>1, <1>4 DEF CutShort

-----------------------------------------------------------------------------
(* What a piece leaves in the file.                                        *)
LEMMA PutType ==
  ASSUME NEW f \in Seq(Byte), NEW old \in Seq(Byte),
         NEW from \in Nat, NEW to \in Nat, to <= Len(f)
  PROVE  /\ Put(old, f, from, to) \in Seq(Byte)
         /\ Len(Put(old, f, from, to)) =
              IF from < to /\ Len(old) < to THEN to ELSE Len(old)
         /\ \A i \in 1 .. Len(Put(old, f, from, to)) :
              Put(old, f, from, to)[i] = IF from < i /\ i <= to THEN f[i]
                                         ELSE IF i <= Len(old) THEN old[i]
                                         ELSE 0
<1> DEFINE n == IF from < to /\ Len(old) < to THEN to ELSE Len(old)
           at(i) == IF from < i /\ i <= to THEN f[i]
                    ELSE IF i <= Len(old) THEN old[i]
                    ELSE 0
<1>1. n \in Nat
  OBVIOUS
<1>2. 0 \in Byte
  BY ByteAssumption DEF Byte
<1>3. ASSUME NEW i \in 1 .. n PROVE at(i) \in Byte
  BY <1>2
<1>4. Put(old, f, from, to) = [i \in 1 .. n |-> at(i)]
  BY DEF Put
<1> HIDE DEF n, at
<1>5. Put(old, f, from, to) \in Seq(Byte) /\ Len(Put(old, f, from, to)) = n
  BY <1>1, <1>3, <1>4
<1>6. \A i \in 1 .. n : Put(old, f, from, to)[i] = at(i)
  BY <1>4
<1> QED BY <1>5, <1>6 DEF n, at

(* The owner's piece continues what is there.                              *)
LEMMA PutContinues ==
  ASSUME NEW ch \in Made, NEW old \in Seq(Byte), Begins(old, ch),
         NEW to \in Nat, Len(old) <= to, to <= Len(FileOf(ch))
  PROVE  /\ Put(old, FileOf(ch), Len(old), to) \in Seq(Byte)
         /\ Len(Put(old, FileOf(ch), Len(old), to)) = to
         /\ Begins(Put(old, FileOf(ch), Len(old), to), ch)
         /\ \A i \in 1 .. Len(old) : Put(old, FileOf(ch), Len(old), to)[i] = old[i]
<1> DEFINE f == FileOf(ch)
           new == Put(old, f, Len(old), to)
<1>1. f \in Seq(Byte) /\ Len(f) \in Nat
  BY FileOfType, Zenon
<1>2. \A i \in 1 .. Len(old) : old[i] = f[i]
  BY DEF Begins
<1>3. to <= Len(f)
  OBVIOUS
<1> HIDE DEF f
<1>4. /\ new \in Seq(Byte)
      /\ Len(new) = IF Len(old) < to /\ Len(old) < to THEN to ELSE Len(old)
      /\ \A i \in 1 .. Len(new) :
           new[i] = IF Len(old) < i /\ i <= to THEN f[i]
                    ELSE IF i <= Len(old) THEN old[i] ELSE 0
  <2>1. Len(old) \in Nat
    OBVIOUS
  <2> QED BY <1>1, <1>3, <2>1, PutType
<1> HIDE DEF new
<1>5. Len(new) = to
  BY <1>4
<1>6. \A i \in 1 .. Len(new) : new[i] = f[i]
  BY <1>2, <1>4, <1>5
<1>7. \A i \in 1 .. Len(old) : new[i] = old[i]
  BY <1>4, <1>5
<1>8. Begins(new, ch)
  BY <1>3, <1>5, <1>6 DEF Begins, f
<1> QED BY <1>4, <1>5, <1>7, <1>8 DEF new, f

(* A whole file handed over at once covers what is there.                  *)
LEMMA PutCovers ==
  ASSUME NEW ch \in Made, NEW old \in Seq(Byte)
  PROVE  StartsWith(Put(old, FileOf(ch), 0, Len(FileOf(ch))), ch)
<1> DEFINE f == FileOf(ch)
           new == Put(old, f, 0, Len(f))
<1>1. f \in Seq(Byte) /\ Len(f) \in Nat /\ Len(f) >= 14
  BY FileOfType, Zenon
<1> HIDE DEF f
<1>2. /\ Len(new) = IF 0 < Len(f) /\ Len(old) < Len(f) THEN Len(f) ELSE Len(old)
      /\ \A i \in 1 .. Len(new) :
           new[i] = IF 0 < i /\ i <= Len(f) THEN f[i]
                    ELSE IF i <= Len(old) THEN old[i] ELSE 0
  BY <1>1, PutType
<1> HIDE DEF new
<1>3. Len(f) <= Len(new)
  BY <1>1, <1>2
<1>4. \A i \in 1 .. Len(f) : new[i] = f[i]
  BY <1>1, <1>2, <1>3
<1> QED BY <1>3, <1>4 DEF StartsWith, f, new

(* A full disk that takes none or some of a whole file leaves a beginning. *)
LEMMA PutCuts ==
  ASSUME NEW ch \in Made, NEW old \in Seq(Byte),
         NEW to \in Nat, Len(old) <= to, to < Len(FileOf(ch))
  PROVE  CutShort(Put(old, FileOf(ch), 0, to), ch)
<1> DEFINE f == FileOf(ch)
           new == Put(old, f, 0, to)
<1>1. f \in Seq(Byte) /\ Len(f) \in Nat
  BY FileOfType, Zenon
<1>2. to < Len(f)
  OBVIOUS
<1> HIDE DEF f
<1>3. /\ Len(new) = IF 0 < to /\ Len(old) < to THEN to ELSE Len(old)
      /\ \A i \in 1 .. Len(new) :
           new[i] = IF 0 < i /\ i <= to THEN f[i]
                    ELSE IF i <= Len(old) THEN old[i] ELSE 0
  BY <1>1, <1>2, PutType
<1> HIDE DEF new
<1>4. Len(new) = to
  BY <1>3
<1>5. \A i \in 1 .. Len(new) : new[i] = f[i]
  BY <1>3, <1>4
<1> QED BY <1>2, <1>4, <1>5 DEF CutShort, f, new

(* An accepted beginning is all of the file.                               *)
LEMMA AcceptedBeginning ==
  ASSUME NEW ch \in Made, NEW bytes \in Seq(Byte), Accepts(bytes), Begins(bytes, ch)
  PROVE  bytes = FileOf(ch)
<1> DEFINE f == FileOf(ch)
<1>1. f \in Seq(Byte) /\ Len(f) \in Nat
  BY FileOfType, Zenon
<1>2. Len(bytes) \in Nat
  OBVIOUS
<1>3. CASE Len(bytes) < Len(f)
  BY <1>3, CutIsRejected DEF Begins, CutShort
<1>4. CASE Len(bytes) = Len(f)
  BY <1>1, <1>4, SeqEqual DEF Begins
<1> QED BY <1>1, <1>2, <1>3, <1>4 DEF Begins

-----------------------------------------------------------------------------
(* Whatever bytes read_chunk is given, it makes a chunk of them or none.   *)
LEMMA ProductType == ASSUME NEW a \in Nat, NEW b \in Nat PROVE a + ByteBase * b \in Nat
BY ByteAssumption

LEMMA ValueType ==
  ASSUME NEW bytes \in Seq(Byte), NEW at \in Nat, at + 4 <= Len(bytes)
  PROVE  ValueAt(bytes, at) \in Nat
<1>1. \A j \in 1 .. 4 : bytes[at + j] \in Nat
  <2>1. \A i \in 1 .. Len(bytes) : bytes[i] \in Byte
    BY ElementOfSeq
  <2>2. \A j \in 1 .. 4 : at + j \in 1 .. Len(bytes)
    OBVIOUS
  <2> QED BY <2>1, <2>2 DEF Byte
<1>2. PICK b1 \in Nat, b2 \in Nat, b3 \in Nat, b4 \in Nat :
        b1 = bytes[at + 1] /\ b2 = bytes[at + 2] /\ b3 = bytes[at + 3] /\ b4 = bytes[at + 4]
  BY <1>1
<1>3. b3 + ByteBase * b4 \in Nat
  BY ProductType
<1>4. b2 + ByteBase * (b3 + ByteBase * b4) \in Nat
  BY <1>3, ProductType
<1>5. b1 + ByteBase * (b2 + ByteBase * (b3 + ByteBase * b4)) \in Nat
  BY <1>4, ProductType
<1> QED BY <1>2, <1>5 DEF ValueAt

LEMMA SignedType == ASSUME NEW n \in Nat PROVE ToSigned(n) \in Word
<1> DEFINE u == n % (2 * Half)
<1>1. u \in 0 .. (2 * Half - 1)
  BY HalfAssumption
<1>2. ToSigned(n) = IF u < Half THEN u ELSE u - 2 * Half
  BY DEF ToSigned
<1> HIDE DEF u
<1> QED BY <1>1, <1>2, HalfAssumption DEF Word

LEMMA ReadChunkType ==
  ASSUME NEW bytes \in Seq(Byte)
  PROVE  ReadChunk(bytes) \in [ok : BOOLEAN, chunk : ChunkData]
<1>1. CASE ~ Accepts(bytes)
  BY <1>1, MadeFits DEF ReadChunk, Made
<1>2. CASE Accepts(bytes)
  <2>1. Len(Magic) = 6 /\ HeaderSize = 14
    BY DEF Magic, HeaderSize
  <2>2. Len(bytes) >= 14 /\ Len(bytes) \in Nat
    BY <1>2, <2>1 DEF Accepts, HasHeader
  <2>3. CountOf(bytes) \in Nat /\ LengthOf(bytes) \in Nat
    BY <2>1, <2>2, ValueType DEF CountOf, LengthOf
  <2>4. PICK count \in Nat, length \in Nat :
          count = CountOf(bytes) /\ length = LengthOf(bytes)
    BY <2>3
  <2>5. Len(bytes) = 14 + 4 * count + length
    BY <1>2, <2>1, <2>4 DEF Accepts, HasSize
  <2>6. ASSUME NEW n \in 1 .. count
        PROVE  ToSigned(ValueAt(bytes, 14 + 4 * (n - 1))) \in Word
    <3>1. 14 + 4 * (n - 1) \in Nat /\ 14 + 4 * (n - 1) + 4 <= Len(bytes)
      BY <2>5
    <3> QED BY <3>1, ValueType, SignedType
  <2>7. [n \in 1 .. count |-> ToSigned(ValueAt(bytes, 14 + 4 * (n - 1)))] \in Seq(Word)
    BY <2>6
  <2>8. SubSeq(bytes, 14 + 4 * count + 1, Len(bytes)) \in Seq(Byte)
    <3>1. 14 + 4 * count + 1 \in Nat /\ 14 + 4 * count + 1 >= 1
      OBVIOUS
    <3> QED BY <2>2, <3>1
  <2>9. ChunkOf(bytes) \in ChunkData
    BY <2>1, <2>4, <2>7, <2>8 DEF ChunkOf, ChunkData
  <2> QED BY <1>2, <2>9 DEF ReadChunk
<1> QED BY <1>1, <1>2

-----------------------------------------------------------------------------
(* What the steps do to the processes.                                     *)
Moves(w, state, ch, pos) ==
  /\ writer' \in [Writers -> [state : WriterStates, chunk : ChunkData, pos : Nat]]
  /\ writer'[w].state = state /\ writer'[w].chunk = ch /\ writer'[w].pos = pos
  /\ \A v \in Writers \ {w} : writer'[v] = writer[v]
  /\ \A v \in Writers : writer'[v].chunk \in Made

LEMMA GoesMoves ==
  ASSUME Inv, NEW w \in Writers, NEW state \in WriterStates, Goes(w, state)
  PROVE  Moves(w, state, writer[w].chunk, writer[w].pos)
BY DEF Inv, TypeOK, MadeInv, Goes, Moves

LEMMA GoneMoves ==
  ASSUME Inv, NEW w \in Writers, NEW state \in WriterStates, Gone(w, state)
  PROVE  Moves(w, state, EmptyChunk, 0)
<1>1. EmptyChunk \in Made /\ EmptyChunk \in ChunkData
  BY MadeFits DEF Made
<1>2. [state |-> state, chunk |-> EmptyChunk, pos |-> 0]
        \in [state : WriterStates, chunk : ChunkData, pos : Nat]
  BY <1>1
<1> QED BY <1>1, <1>2 DEF Inv, TypeOK, MadeInv, Gone, Moves

LEMMA StartMoves ==
  ASSUME Inv, NEW w \in Writers, NEW ch \in Chunks, Start(w, ch)
  PROVE  Moves(w, "ready", ch, 0)
<1>1. ch \in Made /\ ch \in ChunkData
  BY ChunksAssumption DEF Made
<1>2. [state |-> "ready", chunk |-> ch, pos |-> 0]
        \in [state : WriterStates, chunk : ChunkData, pos : Nat]
  BY <1>1 DEF WriterStates
<1> QED BY <1>1, <1>2 DEF Inv, TypeOK, MadeInv, Start, Moves

(* What a process that hands a piece over does.                            *)
LEMMA HandOverMoves ==
  ASSUME Inv, NEW w \in Writers, HandOver(w)
  PROVE  \E to \in Nat :
           /\ to \in PieceEnds(w)
           /\ writer[w].pos < to /\ to <= Len(Goal(w))
           /\ file' = Put(file, Goal(w), writer[w].pos, to) /\ file' \in Seq(Byte)
           /\ stored' = IF to = Len(Goal(w)) THEN stored \cup {writer[w].chunk}
                                             ELSE stored
           /\ split' = (split \/ to < Len(Goal(w)))
           /\ stored' \subseteq Made /\ stored \subseteq stored'
           /\ Moves(w, writer[w].state, writer[w].chunk, to)
<1>1. /\ writer[w].chunk \in Made /\ writer[w].pos \in Nat /\ file \in Seq(Byte)
      /\ stored \subseteq Made
  BY DEF Inv, TypeOK, MadeInv
<1>2. Goal(w) \in Seq(Byte) /\ Len(Goal(w)) \in Nat
  BY <1>1, FileOfType, Zenon DEF Goal
<1>3. PICK to \in PieceEnds(w) :
        /\ file' = Put(file, Goal(w), writer[w].pos, to)
        /\ writer' = [writer EXCEPT ![w].pos = to]
        /\ stored' = IF to = Len(Goal(w)) THEN stored \cup {writer[w].chunk}
                                          ELSE stored
        /\ split' = (split \/ to < Len(Goal(w)))
  BY DEF HandOver
<1>4. to \in Nat /\ writer[w].pos < to /\ to <= Len(Goal(w))
  BY <1>2, <1>3, OffsetsAssumption DEF PieceEnds
<1>5. Moves(w, writer[w].state, writer[w].chunk, to)
  BY <1>3, <1>4 DEF Inv, TypeOK, MadeInv, Moves
<1>6. file' \in Seq(Byte)
  BY <1>1, <1>2, <1>3, <1>4, PutType
<1>7. stored' \subseteq Made /\ stored \subseteq stored'
  BY <1>1, <1>3
<1> QED BY <1>3, <1>4, <1>5, <1>6, <1>7

(* What a process that meets a full disk does.                             *)
LEMMA RunsOutMoves ==
  ASSUME Inv, NEW w \in Writers, RunsOut(w)
  PROVE  /\ Moves(w, writer'[w].state, EmptyChunk, 0) /\ ~Active(w)'
         /\ writer'[w].state # "saved"
         /\ file' \in Seq(Byte)
         /\ \E to \in Nat :
              /\ writer[w].pos <= to /\ Len(file) <= to /\ to < Len(Goal(w))
              /\ file' = Put(file, Goal(w), writer[w].pos, to)
<1>1. writer[w].chunk \in Made /\ writer[w].pos \in Nat /\ file \in Seq(Byte)
  BY DEF Inv, TypeOK, MadeInv
<1>2. Goal(w) \in Seq(Byte) /\ Len(Goal(w)) \in Nat
  BY <1>1, FileOfType, Zenon DEF Goal
<1>3. PICK end \in PieceEnds(w) :
        \E to \in Rooms \cup {writer[w].pos} :
          /\ to \in writer[w].pos .. (end - 1) /\ to >= Len(file)
          /\ file' = Put(file, Goal(w), writer[w].pos, to)
  BY DEF RunsOut
<1>4. PICK to \in Rooms \cup {writer[w].pos} :
        /\ to \in writer[w].pos .. (end - 1) /\ to >= Len(file)
        /\ file' = Put(file, Goal(w), writer[w].pos, to)
  BY <1>3
<1>5. end \in Nat /\ end <= Len(Goal(w))
  BY <1>2, OffsetsAssumption DEF PieceEnds
<1>6. to \in Nat /\ writer[w].pos <= to /\ to < Len(Goal(w))
  BY <1>1, <1>2, <1>4, <1>5
<1>7. file' \in Seq(Byte)
  <2>1. to <= Len(Goal(w))
    BY <1>2, <1>6
  <2> QED BY <1>1, <1>2, <1>4, <1>6, <2>1, PutType
<1>8. \E state \in {"failed", "cut"} : Gone(w, state)
  BY DEF RunsOut
<1>9. PICK state \in {"failed", "cut"} : Gone(w, state)
  BY <1>8
<1>10. Moves(w, state, EmptyChunk, 0)
  BY <1>9, GoneMoves DEF WriterStates
<1>11. writer'[w].state = state
  BY <1>10 DEF Moves
<1> QED BY <1>4, <1>6, <1>7, <1>9, <1>10, <1>11 DEF Active

(* Every step of a process that leaves the file alone.                     *)
Quiet(w) == /\ file' = file /\ stored' = stored /\ owner' = owner
            /\ split' = split
            /\ reader' = reader /\ loaded' = loaded
            /\ Moves(w, writer'[w].state, writer'[w].chunk, writer'[w].pos)
            /\ writer'[w].state = "ready"
                 => writer'[w].chunk \in Chunks /\ writer'[w].pos = 0
            /\ \/ ~Active(w)' /\ writer'[w].state # "saved"
               \/ /\ Active(w) /\ writer'[w].chunk = writer[w].chunk
                  /\ writer'[w].pos = writer[w].pos
                  /\ writer'[w].state = "saved"
                       => writer[w].pos = Len(Goal(w)) /\ ~Active(w)'

LEMMA QuietSteps ==
  ASSUME Inv, NEW w \in Writers,
         \/ \E ch \in Chunks : Start(w, ch)
         \/ OpenFails(w) \/ EndWrite(w) \/ Close(w) \/ Kill(w)
  PROVE  Quiet(w)
<1>1. ASSUME NEW ch \in Chunks, Start(w, ch) PROVE Quiet(w)
  <2>1. Moves(w, "ready", ch, 0)
    BY <1>1, StartMoves
  <2>2. writer'[w].state = "ready" /\ writer'[w].chunk = ch /\ writer'[w].pos = 0
    BY <2>1 DEF Moves
  <2> QED BY <1>1, <2>1, <2>2 DEF Start, Quiet, Active
<1>2. CASE OpenFails(w) \/ Kill(w)
  <2>1. \E state \in {"failed", "killed"} : Gone(w, state)
    BY <1>2 DEF OpenFails, Kill
  <2>2. PICK state \in {"failed", "killed"} : Gone(w, state)
    BY <2>1
  <2>3. Moves(w, state, EmptyChunk, 0)
    BY <2>2, GoneMoves DEF WriterStates
  <2>4. writer'[w].state = state /\ writer'[w].chunk = EmptyChunk /\ writer'[w].pos = 0
    BY <2>3 DEF Moves
  <2> QED BY <1>2, <2>3, <2>4 DEF OpenFails, Kill, Quiet, Active
<1>3. CASE EndWrite(w)
  <2>1. Moves(w, "closing", writer[w].chunk, writer[w].pos)
    BY <1>3, GoesMoves DEF EndWrite, WriterStates
  <2>2. /\ writer'[w].state = "closing" /\ writer'[w].chunk = writer[w].chunk
        /\ writer'[w].pos = writer[w].pos
    BY <2>1 DEF Moves
  <2> QED BY <1>3, <2>1, <2>2 DEF EndWrite, Quiet, Active
<1>4. CASE Close(w)
  <2>1. Moves(w, "saved", writer[w].chunk, writer[w].pos)
    BY <1>4, GoesMoves DEF Close, WriterStates
  <2>2. /\ writer'[w].state = "saved" /\ writer'[w].chunk = writer[w].chunk
        /\ writer'[w].pos = writer[w].pos
    BY <2>1 DEF Moves
  <2> QED BY <1>4, <2>1, <2>2 DEF Close, Quiet, Active
<1> QED BY <1>1, <1>2, <1>3, <1>4

-----------------------------------------------------------------------------
LEMMA InitInv == Init => Inv
<1> SUFFICES ASSUME Init PROVE Inv
  OBVIOUS
<1>1. EmptyChunk \in Made /\ EmptyChunk \in ChunkData
  BY MadeFits DEF Made
<1>2. file = <<>> /\ Len(file) = 0 /\ file \in Seq(Byte)
  BY DEF Init
<1>3. TypeOK /\ MadeInv
  <2>1. [state |-> "done", chunk |-> EmptyChunk, pos |-> 0]
          \in [state : WriterStates, chunk : ChunkData, pos : Nat]
    BY <1>1 DEF WriterStates
  <2> QED BY <1>1, <1>2, <2>1
          DEF Init, NoRead, NoLoad, TypeOK, MadeInv, Active
<1>4. WholeInv
  <2>1. Len(FileOf(EmptyChunk)) \in Nat /\ Len(FileOf(EmptyChunk)) >= 14
    BY <1>1, FileOfType, Zenon
  <2>2. CutShort(file, EmptyChunk)
    BY <1>2, <2>1 DEF CutShort
  <2> QED BY <1>1, <2>2 DEF Init, WholeInv, Covered, Active
<1> QED BY <1>3, <1>4, WritersAssumption
        DEF Init, NoRead, NoLoad, Inv, OwnInv, ReadInv, LoadedIsWritten

(* The kinds of steps the system takes.                                    *)
LEMMA StepKinds ==
  ASSUME Inv, [Next]_vars
  PROVE  \/ \E w \in Writers : Quiet(w) \/ Open(w) \/ HandOver(w) \/ RunsOut(w)
         \/ OpenInput \/ FetchBlock \/ ReadToEnd \/ UNCHANGED vars
BY QuietSteps DEF Next, Write

LEMMA OpenMoves ==
  ASSUME Inv, NEW w \in Writers, Open(w)
  PROVE  /\ Moves(w, "open", writer[w].chunk, 0)
         /\ writer[w].chunk \in Chunks
         /\ file' = <<>> /\ Len(file') = 0 /\ file' \in Seq(Byte)
<1>1. writer[w].state = "ready" /\ Goes(w, "open") /\ file' = <<>>
  BY DEF Open
<1>2. writer[w].pos = 0 /\ writer[w].chunk \in Chunks
  BY <1>1 DEF Inv, MadeInv
<1>3. Moves(w, "open", writer[w].chunk, writer[w].pos)
  BY <1>1, GoesMoves DEF WriterStates
<1> QED BY <1>1, <1>2, <1>3

LEMMA StepTypes == ASSUME Inv, [Next]_vars PROVE TypeOK' /\ MadeInv'
<1>1. TypeOK /\ MadeInv
  BY DEF Inv
<1>2. ASSUME NEW w \in Writers, Quiet(w) PROVE TypeOK' /\ MadeInv'
  <2>1. \A v \in Writers : Active(v)' \/ writer'[v].state = "ready"
                             => writer'[v].chunk \in Chunks
    BY <1>1, <1>2 DEF Quiet, Moves, MadeInv, Active
  <2>2. \A v \in Writers : writer'[v].state = "ready" => writer'[v].pos = 0
    BY <1>1, <1>2 DEF Quiet, Moves, MadeInv
  <2> QED BY <1>1, <1>2, <2>1, <2>2 DEF Quiet, Moves, TypeOK, MadeInv
<1>3. ASSUME NEW w \in Writers, Open(w) PROVE TypeOK' /\ MadeInv'
  <2>1. /\ Moves(w, "open", writer[w].chunk, 0)
        /\ writer[w].chunk \in Chunks /\ file' \in Seq(Byte)
    BY <1>3, OpenMoves
  <2>2. reader' = [reader EXCEPT !.calm = FALSE] /\ loaded' = loaded /\ stored' = stored
        /\ owner' \in Writers \cup {"shared"} /\ split' \in BOOLEAN
    BY <1>3 DEF Open
  <2>3. reader' \in [state : {"idle", "reading"}, got : Seq(Byte), calm : BOOLEAN]
    BY <1>1, <2>2 DEF TypeOK
  <2>4. \A v \in Writers : Active(v)' \/ writer'[v].state = "ready"
                             => writer'[v].chunk \in Chunks
    BY <1>1, <2>1 DEF Moves, MadeInv, Active
  <2>5. \A v \in Writers : writer'[v].state = "ready" => writer'[v].pos = 0
    BY <1>1, <2>1 DEF Moves, MadeInv
  <2> QED BY <1>1, <2>1, <2>2, <2>3, <2>4, <2>5 DEF Moves, TypeOK, MadeInv
<1>4. ASSUME NEW w \in Writers, HandOver(w) PROVE TypeOK' /\ MadeInv'
  <2>1. PICK to \in Nat :
          /\ file' \in Seq(Byte) /\ stored' \subseteq Made
          /\ split' \in BOOLEAN
          /\ Moves(w, writer[w].state, writer[w].chunk, to)
    BY <1>4, HandOverMoves
  <2>2. /\ reader' = reader /\ loaded' = loaded /\ owner' = owner
        /\ writer[w].state \in {"open", "closing"}
    BY <1>4 DEF HandOver, Active
  <2>3. \A v \in Writers : Active(v)' \/ writer'[v].state = "ready"
                             => writer'[v].chunk \in Chunks
    BY <1>1, <2>1, <2>2 DEF Moves, MadeInv, Active
  <2>4. \A v \in Writers : writer'[v].state = "ready" => writer'[v].pos = 0
    BY <1>1, <2>1, <2>2 DEF Moves, MadeInv
  <2>5. stored' \subseteq ChunkData
    BY <2>1, MadeFits
  <2> QED BY <1>1, <2>1, <2>2, <2>3, <2>4, <2>5 DEF Moves, TypeOK, MadeInv
<1>5. ASSUME NEW w \in Writers, RunsOut(w) PROVE TypeOK' /\ MadeInv'
  <2>1. /\ Moves(w, writer'[w].state, EmptyChunk, 0) /\ ~Active(w)'
        /\ file' \in Seq(Byte)
    BY <1>5, RunsOutMoves
  <2>2. /\ reader' = reader /\ loaded' = loaded /\ owner' = owner /\ stored' = stored
        /\ split' = split /\ writer'[w].state # "ready"
    <3>1. \E state \in {"failed", "cut"} : Gone(w, state)
      BY <1>5 DEF RunsOut
    <3>2. writer'[w].state \in {"failed", "cut"}
      BY <1>1, <3>1 DEF Gone, TypeOK
    <3> QED BY <1>5, <3>2 DEF RunsOut
  <2>3. \A v \in Writers : Active(v)' \/ writer'[v].state = "ready"
                             => writer'[v].chunk \in Chunks
    BY <1>1, <2>1, <2>2 DEF Moves, MadeInv, Active
  <2>4. \A v \in Writers : writer'[v].state = "ready" => writer'[v].pos = 0
    BY <1>1, <2>1 DEF Moves, MadeInv
  <2> QED BY <1>1, <2>1, <2>2, <2>3, <2>4 DEF Moves, TypeOK, MadeInv
<1>6. ASSUME OpenInput \/ FetchBlock \/ ReadToEnd \/ UNCHANGED vars
      PROVE  TypeOK' /\ MadeInv'
  <2>1. file' = file /\ writer' = writer /\ stored' = stored /\ owner' = owner
        /\ split' = split
    BY <1>6 DEF OpenInput, FetchBlock, ReadToEnd, vars
  <2>2. MadeInv'
    BY <1>1, <2>1 DEF MadeInv, Active
  <2>3. reader' \in [state : {"idle", "reading"}, got : Seq(Byte), calm : BOOLEAN]
    <3>1. CASE OpenInput
      <4>1. PICK calm \in BOOLEAN : calm = (owner # "shared")
        OBVIOUS
      <4>2. reader' = [state |-> "reading", got |-> <<>>, calm |-> calm]
        BY <3>1, <4>1 DEF OpenInput
      <4> QED BY <4>1, <4>2
    <3>3. CASE ReadToEnd
      <4>1. reader' = [reader EXCEPT !.state = "idle", !.got = <<>>]
        BY <3>3 DEF ReadToEnd
      <4>2. <<>> \in Seq(Byte)
        OBVIOUS
      <4> QED BY <1>1, <4>1, <4>2 DEF TypeOK
    <3>4. CASE UNCHANGED vars
      BY <1>1, <3>4 DEF vars, TypeOK
    <3>2. CASE FetchBlock
      <4>1. PICK to \in Breaks \cup {Len(file)} :
              /\ Len(reader.got) < to /\ to <= Len(file)
              /\ reader' = [reader EXCEPT
                             !.got = @ \o SubSeq(file, Len(reader.got) + 1, to)]
        BY <3>2 DEF FetchBlock
      <4>2. file \in Seq(Byte) /\ to \in Nat /\ reader.got \in Seq(Byte)
        BY <1>1, OffsetsAssumption DEF TypeOK
      <4>3. SubSeq(file, Len(reader.got) + 1, to) \in Seq(Byte)
        BY <4>1, <4>2
      <4>4. reader.got \o SubSeq(file, Len(reader.got) + 1, to) \in Seq(Byte)
        BY <4>2, <4>3
      <4> QED BY <1>1, <4>1, <4>4 DEF TypeOK
    <3> QED BY <1>6, <3>1, <3>2, <3>3, <3>4
  <2>4. loaded' \in [ok : BOOLEAN, chunk : ChunkData]
    <3>1. EmptyChunk \in ChunkData
      BY MadeFits DEF Made
    <3>2. CASE ReadToEnd
      <4>1. reader.got \in Seq(Byte) /\ loaded' = ReadChunk(reader.got)
        BY <1>1, <3>2 DEF ReadToEnd, TypeOK
      <4> QED BY <4>1, ReadChunkType
    <3>3. CASE OpenInput
      BY <3>1, <3>3 DEF OpenInput, NoLoad
    <3>4. CASE FetchBlock \/ UNCHANGED vars
      BY <1>1, <3>4 DEF FetchBlock, vars, TypeOK
    <3> QED BY <1>6, <3>2, <3>3, <3>4
  <2> QED BY <1>1, <2>1, <2>2, <2>3, <2>4 DEF TypeOK
<1> QED BY <1>2, <1>3, <1>4, <1>5, <1>6, StepKinds

(* Only the owner works on a file that is not shared.                      *)
LEMMA OwnerActs ==
  ASSUME Inv, NEW o \in Writers, owner = o, NEW w \in Writers, Active(w)
  PROVE  /\ w = o /\ Owned(o)
         /\ writer[o].chunk \in Made /\ file \in Seq(Byte)
         /\ Begins(file, writer[o].chunk) /\ Len(file) = writer[o].pos
<1>1. Owned(o)
  BY DEF Inv, OwnInv
<1>2. w = o
  BY <1>1 DEF Owned
<1> QED BY <1>1, <1>2 DEF Owned, Growing, Inv, MadeInv, TypeOK

(* Its pieces go after what is there.                                      *)
LEMMA OwnerContinues ==
  ASSUME Inv, NEW o \in Writers, owner = o, Active(o), NEW to \in Nat,
         writer[o].pos <= to, to <= Len(Goal(o)),
         file' = Put(file, Goal(o), writer[o].pos, to)
  PROVE  /\ Len(file') = to /\ Begins(file', writer[o].chunk) /\ Len(file) <= to
         /\ \A i \in 1 .. Len(file) : file'[i] = file[i]
<1> DEFINE ch == writer[o].chunk
<1>1. ch \in Made /\ file \in Seq(Byte) /\ Begins(file, ch) /\ Len(file) = writer[o].pos
  BY OwnerActs
<1>2. to <= Len(FileOf(ch)) /\ file' = Put(file, FileOf(ch), Len(file), to)
      /\ Len(file) <= to
  BY <1>1 DEF Goal
<1> HIDE DEF ch
<1>3. /\ Len(Put(file, FileOf(ch), Len(file), to)) = to
      /\ Begins(Put(file, FileOf(ch), Len(file), to), ch)
      /\ \A i \in 1 .. Len(file) : Put(file, FileOf(ch), Len(file), to)[i] = file[i]
  BY <1>1, <1>2, PutContinues
<1> QED BY <1>2, <1>3 DEF ch

LEMMA StepOwned == ASSUME Inv, [Next]_vars PROVE OwnInv'
<1> SUFFICES ASSUME NEW o \in Writers, owner' = o PROVE Owned(o)'
  BY DEF OwnInv
<1>0. TypeOK /\ MadeInv
  BY DEF Inv
<1>1. ASSUME owner = o PROVE Owned(o)
  BY <1>1 DEF Inv, OwnInv
<1>2. ASSUME NEW w \in Writers, Quiet(w) PROVE Owned(o)'
  <2>1. Owned(o) /\ file' = file /\ stored' = stored
    BY <1>1, <1>2 DEF Quiet
  <2>2. \A v \in Writers \ {w} : writer'[v] = writer[v]
    BY <1>2 DEF Quiet, Moves
  <2>3. \A v \in Writers \ {o} : ~Active(v)'
    BY <1>2, <2>1, <2>2 DEF Owned, Active, Quiet
  <2>4. \A ch \in Made : Growing(ch) => Growing(ch)'
    BY <2>1 DEF Growing, Begins
  <2>5. CASE w # o
    BY <2>1, <2>2, <2>3, <2>4, <2>5 DEF Owned, Active, Goal, Growing, Begins
  <2>6. CASE w = o /\ ~Active(o)' /\ writer'[o].state # "saved"
    BY <2>1, <2>3, <2>4, <2>6 DEF Owned
  <2>7. CASE /\ w = o /\ Active(o) /\ writer'[o].chunk = writer[o].chunk
             /\ writer'[o].pos = writer[o].pos
             /\ writer'[o].state = "saved"
                  => writer[o].pos = Len(Goal(o)) /\ ~Active(o)'
    <3>1. Growing(writer[o].chunk) /\ Len(file) = writer[o].pos
      BY <2>1, <2>7 DEF Owned
    <3>2. Growing(writer[o].chunk)'
      BY <2>1, <2>7, <3>1 DEF Growing, Begins
    <3>3. writer'[o].state = "saved" => file' = Goal(o)'
      <4> SUFFICES ASSUME writer'[o].state = "saved" PROVE file' = Goal(o)'
        OBVIOUS
      <4>1. writer[o].chunk \in Made /\ file \in Seq(Byte)
        BY <1>0 DEF TypeOK, MadeInv
      <4> DEFINE f == FileOf(writer[o].chunk)
      <4>2. f \in Seq(Byte)
        BY <4>1, FileOfType, Zenon
      <4>3. Len(file) = Len(f) /\ \A i \in 1 .. Len(file) : file[i] = f[i]
        BY <2>7, <3>1 DEF Goal, Growing, Begins
      <4> HIDE DEF f
      <4>4. file = f
        BY <4>1, <4>2, <4>3, SeqEqual
      <4> QED BY <2>1, <2>7, <4>4 DEF Goal, f
    <3> QED BY <2>1, <2>3, <2>4, <2>7, <3>1, <3>2, <3>3 DEF Owned
  <2> QED BY <1>2, <2>5, <2>6, <2>7 DEF Quiet
<1>3. ASSUME NEW w \in Writers, Open(w) PROVE Owned(o)'
  <2>1. o = w /\ \A v \in Writers \ {w} : ~Active(v)
    BY <1>3, WritersAssumption DEF Open, Alone
  <2>2. /\ Moves(w, "open", writer[w].chunk, 0)
        /\ file' = <<>> /\ Len(file') = 0
    BY <1>3, OpenMoves
  <2>3. writer'[o].state = "open" /\ writer'[o].pos = 0 /\ writer'[o].chunk \in Made
    BY <2>1, <2>2 DEF Moves
  <2>4. \A v \in Writers \ {o} : ~Active(v)'
    BY <2>1, <2>2 DEF Moves, Active
  <2>5. Growing(writer[o].chunk)'
    <3> DEFINE ch == writer'[o].chunk
    <3>1. Len(FileOf(ch)) \in Nat /\ Len(FileOf(ch)) >= 14
      BY <2>3, FileOfType, Zenon
    <3> QED BY <2>2, <3>1 DEF Growing, Begins
  <2>6. \E ch \in Made : Growing(ch)'
    BY <2>3, <2>5 DEF Growing, Begins
  <2> QED BY <2>2, <2>3, <2>4, <2>5, <2>6 DEF Owned
<1>4. ASSUME NEW w \in Writers, HandOver(w) PROVE Owned(o)'
  <2>1. owner = o /\ Active(w)
    BY <1>4 DEF HandOver
  <2>2. w = o /\ Owned(o)
    BY <2>1, OwnerActs
  <2>3. PICK to \in Nat :
          /\ writer[o].pos < to /\ to <= Len(Goal(o))
          /\ file' = Put(file, Goal(o), writer[o].pos, to)
          /\ stored' = IF to = Len(Goal(o)) THEN stored \cup {writer[o].chunk}
                                            ELSE stored
          /\ Moves(o, writer[o].state, writer[o].chunk, to)
    BY <1>4, <2>2, HandOverMoves
  <2>4. writer[o].pos <= to
    BY <1>0, <2>3 DEF TypeOK
  <2>5. Len(file') = to /\ Begins(file', writer[o].chunk)
    BY <2>1, <2>2, <2>3, <2>4, OwnerContinues
  <2>6. /\ writer'[o].state = writer[o].state /\ writer'[o].chunk = writer[o].chunk
        /\ writer'[o].pos = to /\ writer'[o].chunk \in Made
        /\ \A v \in Writers \ {o} : writer'[v] = writer[v]
    BY <2>3 DEF Moves
  <2>7. Growing(writer[o].chunk)'
    BY <2>3, <2>5, <2>6 DEF Growing, Begins, Goal
  <2>8. \A v \in Writers \ {o} : ~Active(v)'
    BY <2>2, <2>6 DEF Owned, Active
  <2>9. \E ch \in Made : Growing(ch)'
    BY <2>6, <2>7 DEF Growing, Begins
  <2> QED BY <2>1, <2>2, <2>5, <2>6, <2>7, <2>8, <2>9 DEF Owned, Active
<1>5. ASSUME NEW w \in Writers, RunsOut(w) PROVE Owned(o)'
  <2>1. owner = o /\ Active(w) /\ stored' = stored
    BY <1>5 DEF RunsOut
  <2>2. w = o /\ Owned(o) /\ writer[o].chunk \in Made
    BY <2>1, OwnerActs
  <2>3. PICK to \in Nat :
          /\ writer[o].pos <= to /\ to < Len(Goal(o))
          /\ file' = Put(file, Goal(o), writer[o].pos, to)
    BY <1>5, <2>2, RunsOutMoves
  <2>4. to <= Len(Goal(o)) /\ Len(Goal(o)) = Len(FileOf(writer[o].chunk))
    <3>1. Len(FileOf(writer[o].chunk)) \in Nat
      BY <2>2, FileOfType, Zenon
    <3> QED BY <2>3, <3>1 DEF Goal
  <2>5. Len(file') = to /\ Begins(file', writer[o].chunk)
    BY <2>1, <2>2, <2>3, <2>4, OwnerContinues
  <2>6. /\ ~Active(o)' /\ writer'[o].state # "saved"
        /\ \A v \in Writers \ {o} : writer'[v] = writer[v]
    BY <1>5, <2>2, RunsOutMoves DEF Moves
  <2>7. \E ch \in Made : Growing(ch)'
    <3>1. Len(FileOf(writer[o].chunk)) \in Nat /\ to # Len(FileOf(writer[o].chunk))
      BY <2>2, <2>3, <2>4, FileOfType
    <3> QED BY <2>2, <2>5, <3>1 DEF Growing, Begins
  <2>8. \A v \in Writers \ {o} : ~Active(v)'
    BY <2>2, <2>6 DEF Owned, Active
  <2> QED BY <2>6, <2>7, <2>8 DEF Owned
<1>6. ASSUME OpenInput \/ FetchBlock \/ ReadToEnd \/ UNCHANGED vars
      PROVE  Owned(o)'
  <2>1. file' = file /\ writer' = writer /\ stored' = stored /\ owner' = owner
    BY <1>6 DEF OpenInput, FetchBlock, ReadToEnd, vars
  <2>2. Owned(o)
    BY <1>1, <2>1
  <2> QED BY <2>1, <2>2 DEF Owned, Active, Growing, Begins, Goal
<1> QED BY <1>2, <1>3, <1>4, <1>5, <1>6, StepKinds

(* Unless split, a file is handed over from its first byte to its last.    *)
LEMMA StepWhole == ASSUME Inv, [Next]_vars PROVE WholeInv'
<1> DEFINE Before == /\ Covered
                     /\ \A v \in Writers : Active(v) => writer[v].pos \in {0, Len(Goal(v))}
           Positions == \A v \in Writers : Active(v)' => writer'[v].pos \in {0, Len(Goal(v)')}
<1> SUFFICES ASSUME ~split' PROVE Covered' /\ Positions
  BY DEF WholeInv
<1>1. TypeOK /\ MadeInv /\ (~split => Before)
  BY DEF Inv, WholeInv
<1>2. ASSUME NEW w \in Writers, Quiet(w) PROVE Covered' /\ Positions
  <2>0. Before
    BY <1>1, <1>2 DEF Quiet
  <2>1. Covered'
    BY <2>0, <1>2 DEF Quiet, Covered, StartsWith, CutShort
  <2>2. \A v \in Writers \ {w} : writer'[v] = writer[v]
    BY <1>2 DEF Quiet, Moves
  <2>3. Active(w)' => /\ Active(w) /\ writer'[w].pos = writer[w].pos
                      /\ writer'[w].chunk = writer[w].chunk
    BY <1>2 DEF Quiet
  <2>4. Positions
    BY <2>0, <2>2, <2>3 DEF Active, Goal
  <2> QED BY <2>1, <2>4
<1>3. ASSUME NEW w \in Writers, Open(w) PROVE Covered' /\ Positions
  <2>1. /\ Moves(w, "open", writer[w].chunk, 0)
        /\ file' = <<>> /\ Len(file') = 0
    BY <1>3, OpenMoves
  <2>2. EmptyChunk \in Made
    BY DEF Made
  <2>3. Len(FileOf(EmptyChunk)) \in Nat /\ Len(FileOf(EmptyChunk)) >= 14
    BY <2>2, FileOfType, Zenon
  <2>4. Covered'
    BY <2>1, <2>2, <2>3 DEF Covered, CutShort
  <2>5. CASE Alone(w)
    <3>1. writer'[w].pos = 0 /\ \A v \in Writers \ {w} : ~Active(v)'
      BY <2>1, <2>5 DEF Moves, Active, Alone
    <3> QED BY <2>4, <3>1
  <2>6. CASE ~Alone(w)
    <3>1. Before
      BY <1>1, <1>3, <2>6 DEF Open
    <3>2. Positions
      BY <2>1, <3>1 DEF Moves, Active, Goal
    <3> QED BY <2>4, <3>2
  <2> QED BY <2>4, <2>5, <2>6
<1>4. ASSUME NEW w \in Writers, HandOver(w) PROVE Covered' /\ Positions
  <2> DEFINE ch == writer[w].chunk
  <2>1. Active(w) /\ ch \in Chunks /\ ch \in Made /\ file \in Seq(Byte)
        /\ writer[w].pos \in Nat
    BY <1>1, <1>4 DEF HandOver, TypeOK, MadeInv
  <2>2. PICK to \in Nat :
          /\ to \in PieceEnds(w) /\ writer[w].pos < to /\ to <= Len(Goal(w))
          /\ file' = Put(file, Goal(w), writer[w].pos, to)
          /\ stored' = IF to = Len(Goal(w)) THEN stored \cup {ch} ELSE stored
          /\ split' = (split \/ to < Len(Goal(w)))
          /\ Moves(w, writer[w].state, ch, to)
    BY <1>4, HandOverMoves
  <2>0. ~split /\ Before
    BY <1>1, <2>2
  <2>3. Goal(w) = FileOf(ch) /\ Len(FileOf(ch)) \in Nat
    <3>1. Len(FileOf(ch)) \in Nat
      BY <2>1, FileOfType, Zenon
    <3> QED BY <3>1 DEF Goal
  <2>4. to = Len(FileOf(ch))
    <3>1. ~(to < Len(Goal(w)))
      BY <2>2
    <3> QED BY <2>2, <2>3, <3>1
  <2>5. writer[w].pos = 0
    BY <2>0, <2>1, <2>2, <2>3, <2>4
  <2>6. file' = Put(file, FileOf(ch), 0, Len(FileOf(ch))) /\ ch \in stored'
    BY <2>2, <2>3, <2>4, <2>5
  <2>7. writer'[w].pos = to /\ writer'[w].chunk = ch
        /\ \A v \in Writers \ {w} : writer'[v] = writer[v]
    BY <2>2 DEF Moves
  <2> HIDE DEF ch
  <2>8. StartsWith(file', ch)
    BY <2>1, <2>6, PutCovers
  <2>9. Covered'
    BY <2>6, <2>8 DEF Covered, StartsWith
  <2>10. Goal(w)' = FileOf(ch)
    BY <2>7 DEF Goal
  <2>11. \A v \in Writers \ {w} : Goal(v)' = Goal(v) /\ Active(v)' = Active(v)
    BY <2>7 DEF Goal, Active
  <2>12. Positions
    BY <2>0, <2>4, <2>7, <2>10, <2>11
  <2> QED BY <2>9, <2>12
<1>5. ASSUME NEW w \in Writers, RunsOut(w) PROVE Covered' /\ Positions
  <2> DEFINE ch == writer[w].chunk
  <2>1. Active(w) /\ ch \in Made /\ file \in Seq(Byte) /\ writer[w].pos \in Nat
    BY <1>1, <1>5 DEF RunsOut, TypeOK, MadeInv
  <2>2. PICK to \in Nat :
          /\ writer[w].pos <= to /\ Len(file) <= to /\ to < Len(Goal(w))
          /\ file' = Put(file, Goal(w), writer[w].pos, to)
    BY <1>5, RunsOutMoves
  <2>0. Before
    BY <1>1, <1>5 DEF RunsOut
  <2>3. Goal(w) = FileOf(ch) /\ Len(FileOf(ch)) \in Nat
    <3>1. Len(FileOf(ch)) \in Nat
      BY <2>1, FileOfType, Zenon
    <3> QED BY <3>1 DEF Goal
  <2>4. writer[w].pos = 0
    BY <2>0, <2>1, <2>2, <2>3
  <2>5. /\ ~Active(w)'
        /\ \A v \in Writers \ {w} : writer'[v] = writer[v]
    BY <1>5, RunsOutMoves DEF Moves
  <2>6. file' = Put(file, FileOf(ch), 0, to) /\ to < Len(FileOf(ch))
    BY <2>2, <2>3, <2>4
  <2> HIDE DEF ch
  <2>7. CutShort(file', ch)
    BY <2>1, <2>2, <2>6, PutCuts
  <2>8. Covered'
    BY <2>1, <2>7 DEF Covered, CutShort
  <2>9. Positions
    BY <2>0, <2>5 DEF Active, Goal
  <2> QED BY <2>8, <2>9
<1>6. ASSUME OpenInput \/ FetchBlock \/ ReadToEnd \/ UNCHANGED vars
      PROVE  Covered' /\ Positions
  <2>1. file' = file /\ writer' = writer /\ stored' = stored /\ split' = split
    BY <1>6 DEF OpenInput, FetchBlock, ReadToEnd, vars
  <2> QED BY <1>1, <2>1 DEF Covered, StartsWith, CutShort, Active, Goal
<1> HIDE DEF Positions
<1>7. Covered' /\ Positions
  BY <1>2, <1>3, <1>4, <1>5, <1>6, StepKinds
<1> QED BY <1>7 DEF Positions

(* A file that is not shared only grows while somebody reads it.           *)
LEMMA StepRead == ASSUME Inv, [Next]_vars PROVE ReadInv'
<1>1. TypeOK /\ MadeInv /\ ReadInv
  BY DEF Inv
<1>2. ASSUME NEW w \in Writers, Quiet(w) PROVE ReadInv'
  BY <1>1, <1>2 DEF Quiet, ReadInv
<1>3. ASSUME NEW w \in Writers, Open(w) PROVE ReadInv'
  BY <1>1, <1>3 DEF Open, ReadInv, TypeOK
<1>4. ASSUME NEW w \in Writers, NEW to \in Nat, Active(w),
             writer[w].pos <= to, to <= Len(Goal(w)),
             file' = Put(file, Goal(w), writer[w].pos, to),
             reader' = reader, owner' = owner
      PROVE  ReadInv'
  <2> SUFFICES ASSUME reader.state = "reading", reader.calm PROVE ReadInv'
    BY <1>4 DEF ReadInv
  <2>1. owner \in Writers /\ owner # "shared"
    BY <1>1 DEF ReadInv, TypeOK
  <2>2. w = owner
    BY <1>4, <2>1, OwnerActs
  <2>3. Len(file') = to /\ Len(file) <= to /\ \A i \in 1 .. Len(file) : file'[i] = file[i]
    BY <1>4, <2>1, <2>2, OwnerContinues
  <2>4. /\ Len(reader.got) <= Len(file) /\ Len(reader.got) \in Nat /\ Len(file) \in Nat
        /\ \A i \in 1 .. Len(reader.got) : reader.got[i] = file[i]
    BY <1>1 DEF ReadInv, TypeOK
  <2>5. Len(reader.got) <= Len(file')
    BY <2>3, <2>4
  <2>6. \A i \in 1 .. Len(reader.got) : reader.got[i] = file'[i]
    BY <2>3, <2>4
  <2> QED BY <1>4, <2>1, <2>5, <2>6 DEF ReadInv
<1>5. ASSUME NEW w \in Writers, HandOver(w) PROVE ReadInv'
  <2>1. PICK to \in Nat :
          /\ writer[w].pos < to /\ to <= Len(Goal(w))
          /\ file' = Put(file, Goal(w), writer[w].pos, to)
    BY <1>5, HandOverMoves
  <2>2. writer[w].pos <= to
    BY <1>1, <2>1 DEF TypeOK
  <2>3. Active(w) /\ reader' = reader /\ owner' = owner
    BY <1>5 DEF HandOver
  <2> QED BY <1>4, <2>1, <2>2, <2>3
<1>6. ASSUME NEW w \in Writers, RunsOut(w) PROVE ReadInv'
  <2>1. PICK to \in Nat :
          /\ writer[w].pos <= to /\ to < Len(Goal(w))
          /\ file' = Put(file, Goal(w), writer[w].pos, to)
    BY <1>6, RunsOutMoves
  <2>2. to <= Len(Goal(w))
    <3>1. Len(Goal(w)) \in Nat
      BY <1>1, FileOfType, Zenon DEF MadeInv, Goal
    <3> QED BY <2>1, <3>1
  <2>3. Active(w) /\ reader' = reader /\ owner' = owner
    BY <1>6 DEF RunsOut
  <2> QED BY <1>4, <2>1, <2>2, <2>3
<1>7. CASE OpenInput
  <2>1. /\ reader' = [state |-> "reading", got |-> <<>>, calm |-> owner # "shared"]
        /\ file' = file /\ owner' = owner
    BY <1>7 DEF OpenInput
  <2>2. Len(reader'.got) = 0 /\ (reader'.calm => owner' # "shared")
    BY <2>1
  <2>3. Len(file') \in Nat
    BY <1>1, <2>1 DEF TypeOK
  <2> QED BY <2>2, <2>3 DEF ReadInv
<1>8. CASE FetchBlock
  <2>1. PICK to \in Breaks \cup {Len(file)} :
          /\ Len(reader.got) < to /\ to <= Len(file)
          /\ reader' = [reader EXCEPT
                         !.got = @ \o SubSeq(file, Len(reader.got) + 1, to)]
    BY <1>8 DEF FetchBlock
  <2>2. file' = file /\ owner' = owner
    BY <1>8 DEF FetchBlock
  <2> SUFFICES ASSUME reader.state = "reading", reader.calm PROVE ReadInv'
    BY <1>1, <2>1 DEF ReadInv, TypeOK
  <2> DEFINE got == reader.got
             piece == SubSeq(file, Len(got) + 1, to)
  <2>3. /\ owner # "shared" /\ file \in Seq(Byte) /\ got \in Seq(Byte) /\ to \in Nat
        /\ \A i \in 1 .. Len(got) : got[i] = file[i]
    BY <1>1, OffsetsAssumption DEF ReadInv, TypeOK
  <2>4. Len(got) < to /\ to <= Len(file) /\ reader'.got = got \o piece
    BY <1>1, <2>1 DEF TypeOK
  <2> HIDE DEF got
  <2>5. /\ piece \in Seq(Byte) /\ Len(piece) = to - Len(got)
        /\ \A i \in 1 .. Len(piece) : piece[i] = file[Len(got) + i]
    BY <2>3, <2>4
  <2> HIDE DEF piece
  <2>6. /\ Len(got \o piece) = Len(got) + Len(piece)
        /\ \A i \in 1 .. Len(got) : (got \o piece)[i] = got[i]
        /\ \A i \in 1 .. Len(piece) : (got \o piece)[Len(got) + i] = piece[i]
    BY <2>3, <2>5, Concatenated, Zenon
  <2>7. Len(got) \in Nat /\ Len(got \o piece) = to
    BY <2>3, <2>5, <2>6
  <2>8. ASSUME NEW i \in 1 .. to PROVE (got \o piece)[i] = file[i]
    <3>1. CASE i <= Len(got)
      BY <2>3, <2>6, <2>7, <3>1
    <3>2. CASE i > Len(got)
      <4>1. i - Len(got) \in 1 .. Len(piece) /\ Len(got) + (i - Len(got)) = i
        BY <2>5, <2>7, <3>2
      <4> QED BY <2>5, <2>6, <4>1
    <3> QED BY <2>7, <3>1, <3>2
  <2> QED BY <2>2, <2>3, <2>4, <2>7, <2>8 DEF ReadInv
<1>9. CASE ReadToEnd
  BY <1>1, <1>9 DEF ReadToEnd, ReadInv, TypeOK
<1>10. CASE UNCHANGED vars
  BY <1>1, <1>10 DEF vars, ReadInv
<1> QED BY <1>2, <1>3, <1>5, <1>6, <1>7, <1>8, <1>9, <1>10, StepKinds

(* What read_chunk accepts of a stored chunk's file is this chunk.         *)
LEMMA StoredIsRead ==
  ASSUME NEW ch \in Made, NEW bytes \in Seq(Byte), bytes = FileOf(ch)
  PROVE  ReadChunk(bytes) = [ok |-> TRUE, chunk |-> ch]
BY MadeFits, RoundTrip, Zenon

(* A file that one process wrote at a time, and that read_chunk accepts,   *)
(* is that of a stored chunk.                                              *)
LEMMA OwnedIsWritten ==
  ASSUME Inv, owner # "shared", Accepts(file)
  PROVE  ReadChunk(file).chunk \in stored
<1>1. Owned(owner) /\ file \in Seq(Byte)
  BY DEF Inv, OwnInv, TypeOK
<1>2. PICK ch \in Made : Growing(ch)
  BY <1>1 DEF Owned
<1>3. file = FileOf(ch)
  BY <1>1, <1>2, AcceptedBeginning DEF Growing
<1>4. ch \in stored
  BY <1>2, <1>3 DEF Growing
<1>5. ReadChunk(file) = [ok |-> TRUE, chunk |-> ch]
  BY <1>1, <1>3, StoredIsRead
<1> QED BY <1>4, <1>5

LEMMA StepLoaded == ASSUME Inv, [Next]_vars PROVE LoadedIsWritten'
<1>1. TypeOK /\ LoadedIsWritten
  BY DEF Inv
<1>2. ASSUME NEW w \in Writers, Quiet(w) \/ RunsOut(w) PROVE LoadedIsWritten'
  BY <1>1, <1>2 DEF Quiet, RunsOut, LoadedIsWritten
<1>3. ASSUME NEW w \in Writers, HandOver(w) PROVE LoadedIsWritten'
  <2>1. stored \subseteq stored'
    BY <1>3, HandOverMoves
  <2> QED BY <1>1, <1>3, <2>1 DEF HandOver, LoadedIsWritten
<1>4. ASSUME NEW w \in Writers, Open(w) PROVE LoadedIsWritten'
  BY <1>1, <1>4 DEF Open, LoadedIsWritten, TypeOK
<1>5. CASE OpenInput
  BY <1>5 DEF OpenInput, NoLoad, LoadedIsWritten
<1>6. CASE FetchBlock \/ UNCHANGED vars
  <2>1. loaded' = loaded /\ stored' = stored /\ reader'.calm = reader.calm
    BY <1>1, <1>6 DEF FetchBlock, vars, TypeOK
  <2> QED BY <1>1, <2>1 DEF LoadedIsWritten
<1>7. CASE ReadToEnd
  <2> SUFFICES ASSUME loaded'.ok, reader'.calm PROVE loaded'.chunk \in stored'
    BY DEF LoadedIsWritten
  <2>1. /\ reader.state = "reading" /\ Len(reader.got) >= Len(file)
        /\ loaded' = ReadChunk(reader.got) /\ stored' = stored
        /\ reader'.calm = reader.calm
    BY <1>1, <1>7 DEF ReadToEnd, TypeOK
  <2>2. /\ owner # "shared" /\ Len(reader.got) <= Len(file)
        /\ \A i \in 1 .. Len(reader.got) : reader.got[i] = file[i]
    BY <2>1 DEF Inv, ReadInv
  <2>3. reader.got \in Seq(Byte) /\ file \in Seq(Byte)
    BY <1>1 DEF TypeOK
  <2>4. reader.got = file
    <3>1. Len(reader.got) = Len(file)
      BY <2>1, <2>2, <2>3
    <3> QED BY <2>2, <2>3, <3>1, SeqEqual
  <2>5. Accepts(file)
    BY <2>1, <2>4 DEF ReadChunk
  <2> QED BY <2>1, <2>2, <2>4, <2>5, OwnedIsWritten
<1> QED BY <1>2, <1>3, <1>4, <1>5, <1>6, <1>7, StepKinds

LEMMA StepInv == Inv /\ [Next]_vars => Inv'
BY StepTypes, StepOwned, StepWhole, StepRead, StepLoaded DEF Inv

(* Whatever is killed or cut short, in whatever pieces the streams write,  *)
(* and for any number of processes and any chunks: a file that read_chunk  *)
(* would accept holds a chunk that some pclc wrote to its last byte, if    *)
(* one process wrote it at a time or each wrote in one piece.              *)
THEOREM FileHoldsWritten == Spec => []FileIsWritten
<1>1. Inv => FileIsWritten
  <2> SUFFICES ASSUME Inv, owner # "shared" \/ ~split, Accepts(file)
               PROVE  ChunkOf(file) \in stored
    BY DEF FileIsWritten
  <2>1. ReadChunk(file).chunk = ChunkOf(file)
    BY DEF ReadChunk
  <2>2. CASE owner # "shared"
    BY <2>1, <2>2, OwnedIsWritten
  <2>3. CASE ~split
    <3>1. Covered /\ file \in Seq(Byte) /\ stored \subseteq Made
      BY <2>3 DEF Inv, WholeInv, TypeOK, MadeInv
    <3>2. PICK ch \in stored : StartsWith(file, ch)
      BY <3>1, CutIsRejected DEF Covered
    <3>3. ch \in Made
      BY <3>1
    <3>4. file = FileOf(ch)
      BY <3>1, <3>2, <3>3, AcceptedIsWhole
    <3>5. ReadChunk(file) = [ok |-> TRUE, chunk |-> ch]
      BY <3>1, <3>3, <3>4, StoredIsRead
    <3> QED BY <2>1, <3>5
  <2> QED BY <2>2, <2>3
<1> QED BY <1>1, InitInv, StepInv, PTL DEF Spec

(* A pclvm that reads a file nobody else opens meanwhile, block by block   *)
(* and even while its owner still writes, executes nothing but a chunk     *)
(* that some pclc wrote to its last byte.                                  *)
THEOREM LoadsOnlyWritten == Spec => []LoadedIsWritten
<1>1. Inv => LoadedIsWritten
  BY DEF Inv
<1> QED BY <1>1, InitInv, StepInv, PTL DEF Spec

(* The bytes, the processes and the chunks keep their types.               *)
THEOREM FileTypeCorrect == Spec => []TypeOK
<1>1. Inv => TypeOK
  BY DEF Inv
<1> QED BY <1>1, InitInv, StepInv, PTL DEF Spec

(* A chunk that was saved while no other process wrote the file is what    *)
(* read_chunk gives back until somebody opens the file again: for any      *)
(* number of processes, of which any may be killed or run out of disk, any *)
(* chunks and any pieces.                                                  *)
THEOREM SavedReadBack == Spec => []SavedIsReadBack
<1>1. Inv => SavedIsReadBack
  <2> SUFFICES ASSUME Inv, NEW w \in Writers, owner = w,
                      writer[w].state = "saved"
               PROVE  ReadChunk(file) = [ok |-> TRUE, chunk |-> writer[w].chunk]
    BY DEF SavedIsReadBack
  <2>1. file = FileOf(writer[w].chunk) /\ writer[w].chunk \in Made
        /\ file \in Seq(Byte)
    BY DEF Inv, OwnInv, Owned, Goal, MadeInv, TypeOK
  <2> QED BY <2>1, StoredIsRead
<1> QED BY <1>1, InitInv, StepInv, PTL DEF Spec
=============================================================================
