---------------------------- MODULE StreamProofs ----------------------------
(* Proofs about what is delivered in parts, as module Stores composes it.     *)
(* First Frames, the frame codec: for any number of frames, connections and   *)
(* fields in a payload, what the receiving end hands on is what the sending   *)
(* end sent, in that order, as long as the stream is whole.  The invariant    *)
(* looks at the bytes buffered and under way as one stream of units.  Then    *)
(* SQLTable, for any number of rows and of writes: what a query streamed in   *)
(* LIMIT/OFFSET windows delivers while its table is written.                  *)
EXTENDS Stores, TLAPS, SequenceTheorems, FiniteSetTheorems, WellFoundedInduction

\* Induction over numbers, for a set of them.
LEMMA LeastNumber ==
    ASSUME NEW S \in SUBSET Nat, S # {}
    PROVE  \E m \in S : \A n \in S : m <= n
<1> DEFINE R == OpToRel(<, Nat)
<1>1. IsWellFoundedOn(R, Nat)
  BY NatLessThanWellFounded
<1>2. \A m, n \in Nat : <<n, m>> \in R <=> n < m
  BY DEF OpToRel
<1> HIDE DEF R
<1>3. \E m \in S : \A n \in S : ~(<<n, m>> \in R)
  BY <1>1, WFMin
<1>4. PICK m \in S : \A n \in S : ~(<<n, m>> \in R)
  BY <1>3
<1>5. ASSUME NEW n \in S PROVE m <= n
  <2>1. ~(<<n, m>> \in R) /\ n \in Nat /\ m \in Nat
    BY <1>4
  <2>2. ~(n < m)
    BY <1>2, <2>1, Zenon
  <2> QED BY <2>1, <2>2
<1> QED BY <1>4, <1>5

LEMMA UpTo ==
    ASSUME NEW n \in Nat, NEW S, 0 \in S, \A k \in 0..(n - 1) : k \in S => k + 1 \in S
    PROVE  n \in S
<1> DEFINE Bad == (0..n) \ S
<1>1. CASE Bad = {}
  BY <1>1
<1>2. CASE Bad # {}
  <2>1. PICK m \in Bad : \A k \in Bad : m <= k
    <3>1. Bad \in SUBSET Nat
      OBVIOUS
    <3> HIDE DEF Bad
    <3> QED BY <1>2, <3>1, LeastNumber
  <2>2. m # 0 /\ m - 1 \in 0..(n - 1) /\ m - 1 \notin Bad
    BY <2>1
  <2> QED BY <2>1, <2>2
<1> QED BY <1>1, <1>2

\* A part of a sequence, and three sequences joined in either grouping.
LEMMA PartsAre ==
    \A S : \A s \in Seq(S) : \A m \in Nat \ {0} : \A n \in Nat : n <= Len(s) => SubSeq(s, m, n) \in Seq(S)
<1> SUFFICES ASSUME NEW S, NEW s \in Seq(S), NEW m \in Nat \ {0}, NEW n \in Nat, n <= Len(s)
             PROVE  SubSeq(s, m, n) \in Seq(S)
  OBVIOUS
<1>1. \A i \in m..n : s[i] \in S
  OBVIOUS
<1> QED BY <1>1, SubSeqProperties

LEMMA Regroup == \A S : \A x, y, z \in Seq(S) : (x \o y) \o z = x \o (y \o z)
<1> SUFFICES ASSUME NEW S, NEW x \in Seq(S), NEW y \in Seq(S), NEW z \in Seq(S)
             PROVE  (x \o y) \o z = x \o (y \o z)
  OBVIOUS
<1> QED BY ConcatAssociative

-----------------------------------------------------------------------------
(* Units and frames.                                                          *)

Opcodes == Frame!KnownOpcodes \cup {"?"}
Payloads == SUBSET (UNION {answer.payload : answer \in Frame!Answers \cup {Frame!Hello}})
UnitKinds == {"magic", "header", "body", "zlib", "sum", "junk"}
PlainUnits ==
    [k : {"body", "zlib"}, fields : Payloads, version : {0}, meta : {Frame!NoMeta}, sum : {<<>>}]
Metas ==
    {m \in [opcode : Opcodes, checksum : BOOLEAN, length : Nat, id : Nat, compression : {"none", "zlib", "?"}, crc : {TRUE}] :
        m.compression = "zlib" => m.length = 1}
Units ==
    {u \in [k : UnitKinds, fields : Payloads, version : Nat, meta : {Frame!NoMeta} \cup Metas, sum : Seq(PlainUnits)] :
        u.k = "header" => u.meta \in Metas}

\* Frames as a peer sends them: one value for each field, and fields of its body.
Names(f) == {p[1] : p \in f.payload}
SentFrames ==
    {f \in [opcode : Opcodes, payload : Payloads, checksum : BOOLEAN, compression : {"none", "zlib", "?"}, version : Nat, id : Nat] :
        /\ IsFiniteSet(f.payload)
        /\ f.opcode # "?" => f.opcode \in DOMAIN Frame!Bodies /\ Names(f) \subseteq DOMAIN Frame!Bodies[f.opcode]
        /\ \A p, q \in f.payload : p[1] = q[1] => p = q}

LEMMA FrameCardinality ==
    ASSUME NEW S
    PROVE  /\ Frame!Cardinality(S) = Cardinality(S)
           /\ Frame!IsFiniteSet(S) <=> IsFiniteSet(S)
  BY DEF Frame!Cardinality, Cardinality, Frame!IsFiniteSet, IsFiniteSet

\* SetToSeq lists each element of a finite set.
LEMMA ListsAll ==
    ASSUME NEW S, IsFiniteSet(S)
    PROVE  /\ Cardinality(S) \in Nat
           /\ Frame!SetToSeq(S) \in [1..Cardinality(S) -> S]
           /\ \A x \in S : \E i \in 1..Cardinality(S) : Frame!SetToSeq(S)[i] = x
<1> DEFINE n == Cardinality(S)
           s == Frame!SetToSeq(S)
<1>1. n \in Nat
  BY FS_CardinalityType
<1>2. \E f \in [1..n -> S] : Frame!IsInjective(f)
  <2>1. PICK f : f \in Bijection(1..n, S)
    BY <1>1, FS_CardinalityType, Zenon DEF ExistsBijection
  <2>2. f \in [1..n -> S] /\ \A a, b \in DOMAIN f : f[a] = f[b] => a = b
    BY <2>1 DEF Bijection, Injection, IsInjective
  <2> QED BY <2>2 DEF Frame!IsInjective
<1>3. s \in [1..n -> S] /\ Frame!IsInjective(s)
  BY <1>2, FrameCardinality DEF Frame!SetToSeq
<1>4. s \in Injection(1..n, S)
  BY <1>3 DEF Injection, IsInjective, Frame!IsInjective
<1>5. s \in Surjection(1..n, S)
  <2>1. Cardinality(1..n) = n
    BY <1>1, FS_Interval
  <2> HIDE DEF n, s
  <2> QED BY <1>4, <2>1, FS_Injection DEF n
<1> QED BY <1>1, <1>3, <1>5 DEF Surjection

BodyOf(f) == Frame!BodyUnits(f.payload, f.compression = "zlib")
MetaOf(f) ==
    [opcode |-> f.opcode, checksum |-> f.checksum, length |-> Len(BodyOf(f)), id |-> f.id,
     compression |-> IF f.payload = {} /\ f.compression = "zlib" THEN "none" ELSE f.compression, crc |-> TRUE]
Size(f) == 2 + Len(BodyOf(f)) + (IF f.checksum THEN 1 ELSE 0)

LEMMA BodyIs ==
    ASSUME NEW f \in SentFrames
    PROVE  /\ BodyOf(f) \in Seq(PlainUnits) /\ Len(BodyOf(f)) \in Nat
           /\ f.compression = "zlib" /\ f.payload # {} => Len(BodyOf(f)) = 1 /\ BodyOf(f)[1].k = "zlib"
           /\ ~(f.compression = "zlib" /\ f.payload # {}) => Len(BodyOf(f)) = Cardinality(f.payload)
           /\ UNION {BodyOf(f)[i].fields : i \in 1..Len(BodyOf(f))} = f.payload
<1> DEFINE S == f.payload
           c == f.compression = "zlib"
           b == Frame!BodyUnits(S, c)
<1>1. S \in Payloads /\ IsFiniteSet(S)
  BY DEF SentFrames
<1> HIDE DEF S, c
<1>2. CASE c /\ S # {}
  <2>1. b = <<Frame!Unit("zlib", S, 0, Frame!NoMeta, <<>>)>>
    BY <1>2 DEF Frame!BodyUnits
  <2>2. b \in Seq(PlainUnits) /\ Len(b) = 1 /\ b[1].k = "zlib" /\ b[1].fields = S
    BY <1>1, <2>1 DEF PlainUnits, Frame!Unit
  <2>3. UNION {b[i].fields : i \in 1..Len(b)} = S
    BY <2>2
  <2> QED BY <1>2, <2>2, <2>3 DEF BodyOf, S, c
<1>3. CASE ~(c /\ S # {})
  <2> DEFINE n == Cardinality(S)
             s == Frame!SetToSeq(S)
             unit(i) == Frame!Unit("body", {s[i]}, 0, Frame!NoMeta, <<>>)
  <2>1. n \in Nat /\ s \in [1..n -> S] /\ \A x \in S : \E i \in 1..n : s[i] = x
    BY <1>1, ListsAll
  <2>2. b = [i \in 1..n |-> unit(i)]
    BY <1>3, FrameCardinality DEF Frame!BodyUnits
  <2>3. \A i \in 1..n : unit(i) \in PlainUnits
    BY <1>1, <2>1 DEF PlainUnits, Payloads, Frame!Unit
  <2>4. b \in Seq(PlainUnits) /\ Len(b) = n
    <3> HIDE DEF n, unit, b
    <3> QED BY <2>1, <2>2, <2>3
  <2>5. \A i \in 1..n : b[i].fields = {s[i]}
    BY <2>2 DEF Frame!Unit
  <2>6. UNION {b[i].fields : i \in 1..n} = S
    <3> HIDE DEF n, s, b
    <3> QED BY <2>1, <2>5
  <2> QED BY <1>3, <2>1, <2>4, <2>6 DEF BodyOf, S, c
<1> QED BY <1>2, <1>3

LEMMA UnitTypes ==
    ASSUME NEW k \in UnitKinds, NEW fields \in Payloads, NEW version \in Nat,
           NEW meta \in {Frame!NoMeta} \cup Metas, NEW sum \in Seq(PlainUnits), k = "header" => meta \in Metas
    PROVE  Frame!Unit(k, fields, version, meta, sum) \in Units
<1> DEFINE u == Frame!Unit(k, fields, version, meta, sum)
<1>1. u.k = k /\ u.meta = meta
  BY DEF Frame!Unit
<1>2. u \in [k : UnitKinds, fields : Payloads, version : Nat, meta : {Frame!NoMeta} \cup Metas, sum : Seq(PlainUnits)]
  BY DEF Frame!Unit
<1> HIDE DEF u
<1> QED BY <1>1, <1>2 DEF Units, u

LEMMA EncodeIs ==
    ASSUME NEW f \in SentFrames
    PROVE  /\ Frame!EncodeFrame(f) \in Seq(Units) /\ Len(Frame!EncodeFrame(f)) = Size(f)
           /\ Size(f) \in Nat /\ Size(f) >= 2 + Len(BodyOf(f)) /\ Len(BodyOf(f)) \in Nat
           /\ Frame!EncodeFrame(f)[1].k = "magic" /\ Frame!EncodeFrame(f)[1].version = f.version
           /\ Frame!EncodeFrame(f)[2].k = "header" /\ Frame!EncodeFrame(f)[2].meta = MetaOf(f)
           /\ \A i \in 1..Len(BodyOf(f)) :
                  Frame!EncodeFrame(f)[2 + i] = BodyOf(f)[i] /\ BodyOf(f)[i] \in PlainUnits
           /\ f.checksum => /\ Size(f) = 3 + Len(BodyOf(f))
                            /\ Frame!EncodeFrame(f)[Size(f)].k = "sum"
                            /\ Frame!EncodeFrame(f)[Size(f)].sum = BodyOf(f)
           /\ \A i \in 1..Size(f) : i # 2 => Frame!EncodeFrame(f)[i].k # "header"
<1> DEFINE b == BodyOf(f)
           n == Len(b)
           e == Frame!EncodeFrame(f)
           magic == Frame!Unit("magic", {}, f.version, Frame!NoMeta, <<>>)
           header == Frame!Unit("header", {}, 0, MetaOf(f), <<>>)
           sum == Frame!Unit("sum", {}, 0, Frame!NoMeta, b)
           tail == IF f.checksum THEN <<sum>> ELSE <<>>
<1>1. b \in Seq(PlainUnits) /\ n \in Nat
  BY BodyIs
<1>2. MetaOf(f) \in Metas
  <2>1. f.opcode \in Opcodes /\ f.checksum \in BOOLEAN /\ f.compression \in {"none", "zlib", "?"} /\ f.id \in Nat
    BY DEF SentFrames
  <2>2. n \in Nat /\ (f.compression = "zlib" /\ f.payload # {} => n = 1)
    BY BodyIs
  <2> DEFINE comp == IF f.payload = {} /\ f.compression = "zlib" THEN "none" ELSE f.compression
  <2>3. comp \in {"none", "zlib", "?"} /\ (comp = "zlib" => n = 1)
    BY <2>1, <2>2
  <2>4. MetaOf(f) = [opcode |-> f.opcode, checksum |-> f.checksum, length |-> n, id |-> f.id,
                     compression |-> comp, crc |-> TRUE]
    BY DEF MetaOf
  <2> HIDE DEF n, comp
  <2> QED BY <2>1, <2>2, <2>3, <2>4 DEF Metas
<1>3. e = (<<magic, header>> \o b) \o tail
  BY DEF Frame!EncodeFrame, BodyOf, MetaOf
<1>4. magic \in Units /\ header \in Units /\ sum \in Units
  <2>1. f.version \in Nat /\ {} \in Payloads /\ <<>> \in Seq(PlainUnits)
    BY DEF SentFrames, Payloads
  <2> HIDE DEF b
  <2>2. magic \in Units
    BY <2>1, UnitTypes DEF UnitKinds
  <2>3. header \in Units
    BY <1>2, <2>1, UnitTypes DEF UnitKinds
  <2>4. sum \in Units
    BY <1>1, <2>1, UnitTypes DEF UnitKinds
  <2> QED BY <2>2, <2>3, <2>4
<1>5. b \in Seq(Units)
  <2>1. PlainUnits \subseteq Units
    <3>1. <<>> \in Seq(PlainUnits)
      OBVIOUS
    <3>2. ASSUME NEW u \in PlainUnits
          PROVE  u \in [k : UnitKinds, fields : Payloads, version : Nat,
                        meta : {Frame!NoMeta} \cup Metas, sum : Seq(PlainUnits)]
      <4>1. u = [k |-> u.k, fields |-> u.fields, version |-> u.version, meta |-> u.meta, sum |-> u.sum]
        BY DEF PlainUnits
      <4>2. /\ u.k \in {"body", "zlib"} /\ u.fields \in Payloads /\ u.version = 0
            /\ u.meta = Frame!NoMeta /\ u.sum = <<>>
        BY DEF PlainUnits
      <4>3. u.k \in UnitKinds /\ u.version \in Nat /\ u.meta \in {Frame!NoMeta} \cup Metas /\ u.sum \in Seq(PlainUnits)
        BY <3>1, <4>2 DEF UnitKinds
      <4> HIDE DEF PlainUnits
      <4> QED BY <4>1, <4>2, <4>3
    <3>3. \A u \in PlainUnits : u.k # "header"
      BY DEF PlainUnits
    <3> QED BY <3>2, <3>3 DEF Units
  <2> HIDE DEF b
  <2> QED BY <1>1, <2>1
<1>6. tail \in Seq(Units) /\ Len(tail) = IF f.checksum THEN 1 ELSE 0
  BY <1>4
<1>7. /\ magic.k = "magic" /\ magic.version = f.version /\ header.k = "header" /\ header.meta = MetaOf(f)
      /\ sum.k = "sum" /\ sum.sum = b
      /\ f.checksum => tail[1] = sum
  BY DEF Frame!Unit
<1>8. \A i \in 1..n : b[i] \in PlainUnits /\ b[i].k # "header"
  <2>1. \A u \in PlainUnits : u.k # "header"
    BY DEF PlainUnits
  <2> HIDE DEF b
  <2> QED BY <1>1, <2>1
<1>9. f.checksum \in BOOLEAN
  BY DEF SentFrames
<1> HIDE DEF b, magic, header, sum, tail, e
<1>10. /\ e \in Seq(Units) /\ Len(e) = 2 + n + Len(tail)
       /\ e[1] = magic /\ e[2] = header
       /\ \A i \in 1..n : e[2 + i] = b[i]
       /\ \A i \in 1..Len(tail) : e[2 + n + i] = tail[i]
  <2> DEFINE h == <<magic, header>> \o b
  <2>1. h \in Seq(Units) /\ Len(h) = 2 + n /\ h[1] = magic /\ h[2] = header /\ \A i \in 1..n : h[2 + i] = b[i]
    BY <1>4, <1>5
  <2> HIDE DEF h
  <2>2. e = h \o tail
    BY <1>3 DEF h
  <2>3. /\ e \in Seq(Units) /\ Len(e) = Len(h) + Len(tail)
        /\ \A i \in 1..Len(h) : e[i] = h[i]
        /\ \A i \in 1..Len(tail) : e[Len(h) + i] = tail[i]
    <3>1. /\ e \in Seq(Units) /\ Len(e) = Len(h) + Len(tail)
          /\ \A i \in 1..(Len(h) + Len(tail)) : e[i] = IF i <= Len(h) THEN h[i] ELSE tail[i - Len(h)]
      BY <1>6, <2>1, <2>2, ConcatProperties
    <3>2. Len(h) \in Nat /\ Len(tail) \in Nat
      BY <1>6, <2>1
    <3> QED BY <3>1, <3>2
  <2>4. 1 \in 1..Len(h) /\ 2 \in 1..Len(h) /\ \A i \in 1..n : 2 + i \in 1..Len(h)
    BY <1>1, <2>1
  <2> QED BY <2>1, <2>3, <2>4
<1>11. \A i \in 1..Len(e) : i # 2 => e[i].k # "header"
  <2> TAKE i \in 1..Len(e)
  <2>1. i = 1 \/ i = 2 \/ i - 2 \in 1..n \/ (f.checksum /\ i = 3 + n)
    BY <1>1, <1>6, <1>10
  <2>2. CASE i - 2 \in 1..n
    <3>1. e[2 + (i - 2)] = b[i - 2]
      BY <1>10, <2>2
    <3>2. 2 + (i - 2) = i
      BY <1>10
    <3> QED BY <1>8, <2>2, <3>1, <3>2
  <2>3. CASE f.checksum /\ i = 3 + n
    <3>1. Len(tail) = 1 /\ e[2 + n + 1] = sum
      BY <1>6, <1>7, <1>10, <2>3
    <3>2. 2 + n + 1 = i
      BY <1>1, <2>3
    <3> QED BY <1>7, <3>1, <3>2
  <2> QED BY <1>7, <1>10, <2>1, <2>2, <2>3
<1>12. Size(f) = 2 + n + (IF f.checksum THEN 1 ELSE 0)
  BY DEF Size, b
<1>13. f.checksum => Size(f) = 3 + n /\ e[Size(f)] = sum
  <2> SUFFICES ASSUME f.checksum PROVE Size(f) = 3 + n /\ e[Size(f)] = sum
    OBVIOUS
  <2>1. Len(tail) = 1 /\ e[2 + n + 1] = sum
    BY <1>6, <1>7, <1>10
  <2>2. Size(f) = 3 + n /\ 2 + n + 1 = Size(f)
    BY <1>1, <1>12
  <2> QED BY <2>1, <2>2
<1> QED BY <1>1, <1>6, <1>7, <1>8, <1>9, <1>10, <1>11, <1>12, <1>13 DEF b, e

-----------------------------------------------------------------------------
(* Decoding.                                                                  *)

TotalOf(meta) == 2 + meta.length + (IF meta.checksum THEN 1 ELSE 0)
TakesHead(data) ==
    LET meta == data[2].meta IN
    /\ data[1].k = "magic" /\ data[1].version = 1 /\ data[2].k = "header" /\ meta.crc
    /\ fCodec = "aura" => /\ meta.opcode \in Frame!KnownOpcodes /\ ~(meta.length > MaxPayload)
                          /\ meta.compression \in Frame!Compressions
TakesBody(data) ==
    LET meta == data[2].meta IN
    /\ meta.checksum => /\ data[TotalOf(meta)].k = "sum"
                        /\ data[TotalOf(meta)].sum = SubSeq(data, 3, 2 + meta.length)
    /\ fCodec = "aura" /\ meta.compression = "zlib" => data[3].k = "zlib"
Takes(data) ==
    /\ Len(data) >= 2 /\ TakesHead(data) /\ Len(data) >= TotalOf(data[2].meta) /\ TakesBody(data)
FrameAt(data) ==
    [opcode |-> data[2].meta.opcode, id |-> data[2].meta.id,
     message |-> Frame!ReadBody(data[2].meta.opcode, SubSeq(data, 3, 2 + data[2].meta.length))]

LEMMA MetaTypes ==
    ASSUME NEW m \in Metas
    PROVE  /\ m.opcode \in Opcodes /\ m.checksum \in BOOLEAN /\ m.length \in Nat /\ m.id \in Nat
           /\ m.compression \in {"none", "zlib", "?"} /\ m.crc = TRUE /\ (m.compression = "zlib" => m.length = 1)
           /\ TotalOf(m) \in Nat /\ TotalOf(m) >= 2 + m.length
           /\ TotalOf(m) = 2 + m.length + (IF m.checksum THEN 1 ELSE 0)
<1>1. /\ m.opcode \in Opcodes /\ m.checksum \in BOOLEAN /\ m.length \in Nat /\ m.id \in Nat
      /\ m.compression \in {"none", "zlib", "?"} /\ m.crc = TRUE /\ (m.compression = "zlib" => m.length = 1)
  BY DEF Metas
<1> QED BY <1>1 DEF TotalOf

LEMMA UnitIs ==
    ASSUME NEW u \in Units
    PROVE  /\ u.fields \in Payloads /\ u.version \in Nat /\ (u.k = "header" => u.meta \in Metas)
  BY DEF Units

LEMMA WaitIs == Frame!Wait.used = 0 /\ Frame!Wait.error = ""
  BY DEF Frame!Wait

LEMMA FailIs ==
    ASSUME NEW why, why # ""
    PROVE  Frame!Fail(why).used = 0 /\ Frame!Fail(why).error # ""
  BY DEF Frame!Fail

\* What the decoder does with the units it has: a frame whose head and body it takes
\* comes out, and nothing is consumed otherwise.
LEMMA DecodeIs ==
    ASSUME NEW data \in Seq(Units)
    PROVE  LET d == Frame!DecodeFrame(data) IN
           /\ Takes(data) => /\ data[2].meta \in Metas /\ d.used = TotalOf(data[2].meta)
                             /\ d.error = "" /\ d.frame = FrameAt(data)
           /\ ~Takes(data) => /\ d.used = 0
                              /\ d.error = "" <=> \/ Len(data) < 2
                                                  \/ TakesHead(data) /\ Len(data) < TotalOf(data[2].meta)
<1> DEFINE d == Frame!DecodeFrame(data)
           m == data[2].meta
<1>1. CASE Len(data) < 2
  <2>1. d = Frame!Wait
    BY <1>1 DEF Frame!DecodeFrame
  <2>2. d.used = 0 /\ d.error = ""
    BY <2>1, WaitIs
  <2> HIDE DEF d
  <2>3. ~Takes(data)
    BY <1>1 DEF Takes
  <2> QED BY <1>1, <2>2, <2>3 DEF d
<1>2. CASE ~(Len(data) < 2) /\ ~TakesHead(data)
  <2>1. \E why \in {"magic", "version", "header checksum", "opcode", "length", "compression"} : d = Frame!Fail(why)
    BY <1>2 DEF Frame!DecodeFrame, TakesHead
  <2>2. d.used = 0 /\ d.error # ""
    BY <2>1, FailIs
  <2> HIDE DEF d
  <2>3. ~Takes(data)
    BY <1>2 DEF Takes
  <2> QED BY <1>2, <2>2, <2>3 DEF d
<1>3. CASE ~(Len(data) < 2) /\ TakesHead(data)
  <2>1. d = Frame!DecodeBody(data, m)
    BY <1>3 DEF Frame!DecodeFrame, TakesHead
  <2>2. data[2] \in Units /\ data[2].k = "header"
    BY <1>3 DEF TakesHead
  <2>3. m \in Metas
    BY <2>2, UnitIs
  <2>4. /\ m.length \in Nat /\ m.checksum \in BOOLEAN /\ (m.compression = "zlib" => m.length = 1)
        /\ TotalOf(m) \in Nat /\ TotalOf(m) >= 2 + m.length
    BY <2>3, MetaTypes
  <2>5. TotalOf(m) = 2 + m.length + (IF m.checksum THEN 1 ELSE 0)
    BY DEF TotalOf
  <2> HIDE DEF d, m
  <2>6. CASE Len(data) < TotalOf(m)
    <3>1. d = Frame!Wait
      BY <2>1, <2>5, <2>6 DEF Frame!DecodeBody
    <3>2. ~Takes(data)
      BY <2>4, <2>6 DEF Takes, m
    <3>3. d.used = 0 /\ d.error = ""
      BY <3>1, WaitIs
    <3> QED BY <1>3, <2>6, <3>2, <3>3 DEF d, m
  <2>7. CASE ~(Len(data) < TotalOf(m)) /\ ~TakesBody(data)
    <3> DEFINE body == SubSeq(data, 3, 2 + m.length)
    <3>1. m.compression = "zlib" => body[1] = data[3]
      <4> SUFFICES ASSUME m.compression = "zlib" PROVE body[1] = data[3]
        OBVIOUS
      <4>1. m.length = 1 /\ Len(data) >= 3
        BY <2>4, <2>7
      <4> QED BY <4>1
    <3>2. \E why \in {"payload checksum", "decompress"} : d = Frame!Fail(why)
      <4> HIDE DEF body
      <4>1. (m.checksum /\ (data[TotalOf(m)].k # "sum" \/ data[TotalOf(m)].sum # body))
            \/ (fCodec = "aura" /\ m.compression = "zlib" /\ body[1].k # "zlib")
        BY <2>7, <3>1 DEF TakesBody, m, body
      <4> QED BY <2>1, <2>5, <2>7, <4>1 DEF Frame!DecodeBody, body
    <3>3. d.used = 0 /\ d.error # ""
      BY <3>2, FailIs
    <3>4. ~Takes(data)
      BY <2>7 DEF Takes
    <3> QED BY <1>3, <2>7, <3>3, <3>4 DEF d, m
  <2>8. CASE ~(Len(data) < TotalOf(m)) /\ TakesBody(data)
    <3> DEFINE body == SubSeq(data, 3, 2 + m.length)
    <3>1. m.compression = "zlib" => body[1] = data[3]
      <4> SUFFICES ASSUME m.compression = "zlib" PROVE body[1] = data[3]
        OBVIOUS
      <4>1. m.length = 1 /\ Len(data) >= 3
        BY <2>4, <2>8
      <4> QED BY <4>1
    <3>2. d = [error |-> "", used |-> TotalOf(m),
               frame |-> [opcode |-> m.opcode, id |-> m.id, message |-> Frame!ReadBody(m.opcode, body)]]
      <4> HIDE DEF body
      <4>1. ~(m.checksum /\ (data[TotalOf(m)].k # "sum" \/ data[TotalOf(m)].sum # body))
            /\ ~(fCodec = "aura" /\ m.compression = "zlib" /\ body[1].k # "zlib")
        BY <2>8, <3>1 DEF TakesBody, m, body
      <4> QED BY <2>1, <2>5, <2>8, <4>1 DEF Frame!DecodeBody, body
    <3>3. d.used = TotalOf(m) /\ d.error = "" /\ d.frame = FrameAt(data)
      BY <3>2 DEF FrameAt, m
    <3>4. Takes(data)
      BY <1>3, <2>4, <2>8 DEF Takes, m
    <3> QED BY <2>3, <3>3, <3>4 DEF d, m
  <2> QED BY <2>6, <2>7, <2>8
<1> QED BY <1>1, <1>2, <1>3

\* A frame that comes out of some units comes out of any that begin alike.
LEMMA TakesPrefix ==
    ASSUME NEW a \in Seq(Units), NEW b \in Seq(Units), Takes(a), Len(b) >= TotalOf(a[2].meta),
           \A i \in 1..TotalOf(a[2].meta) : b[i] = a[i]
    PROVE  Takes(b) /\ b[2].meta = a[2].meta /\ FrameAt(b) = FrameAt(a)
<1> DEFINE m == a[2].meta
<1>1. m \in Metas
  BY DecodeIs
<1>2. /\ m.length \in Nat /\ m.checksum \in BOOLEAN /\ (m.compression = "zlib" => m.length = 1)
      /\ TotalOf(m) \in Nat /\ TotalOf(m) >= 2 + m.length
  BY <1>1, MetaTypes
<1>3. b[1] = a[1] /\ b[2] = a[2] /\ b[TotalOf(m)] = a[TotalOf(m)] /\ (m.compression = "zlib" => b[3] = a[3])
  BY <1>2
<1>4. SubSeq(b, 3, 2 + m.length) = SubSeq(a, 3, 2 + m.length)
  <2>1. \A i \in 3..(2 + m.length) : i \in 1..TotalOf(m) /\ b[i] = a[i]
    BY <1>2
  <2>2. Len(a) >= 2 + m.length /\ Len(b) >= 2 + m.length
    BY <1>2 DEF Takes
  <2> HIDE DEF m
  <2> QED BY <1>2, <2>1, <2>2
<1>5. TakesHead(b) /\ TakesBody(b)
  <2>1. Len(a) >= 2 /\ TakesHead(a) /\ TakesBody(a)
    BY DEF Takes
  <2> HIDE DEF m
  <2> QED BY <1>3, <1>4, <2>1 DEF TakesHead, TakesBody, m
<1>6. Len(b) >= 2 /\ Len(b) >= TotalOf(m)
  BY <1>2
<1> HIDE DEF m
<1> QED BY <1>3, <1>4, <1>5, <1>6 DEF Takes, FrameAt, m

\* The bodies are known by name, and none has the field of a message that is not JSON.
LEMMA BodyDomains ==
    /\ DOMAIN Frame!RequestBodies = {"HANDSHAKE", "PING", "SCHEMA", "QUERY", "MUTATION", "CURSOR_FETCH", "CURSOR_CLOSE", "BEGIN_TX"}
    /\ DOMAIN Frame!AnswerBodies = {"HANDSHAKE_ACK", "PONG", "SCHEMA_RESULT", "QUERY_RESULT", "MUTATION_RESULT", "ERROR",
                                    "CURSOR_ACK", "TX_ACK"}
    /\ DOMAIN Frame!Bodies = DOMAIN Frame!RequestBodies \cup DOMAIN Frame!AnswerBodies
    /\ \A o \in DOMAIN Frame!Bodies : "malformed" \notin DOMAIN Frame!Bodies[o]
<1>1. DOMAIN Frame!RequestBodies = {"HANDSHAKE", "PING", "SCHEMA", "QUERY", "MUTATION", "CURSOR_FETCH", "CURSOR_CLOSE", "BEGIN_TX"}
  BY DEF Frame!RequestBodies
<1>2. DOMAIN Frame!AnswerBodies = {"HANDSHAKE_ACK", "PONG", "SCHEMA_RESULT", "QUERY_RESULT", "MUTATION_RESULT", "ERROR",
                                    "CURSOR_ACK", "TX_ACK"}
  BY DEF Frame!AnswerBodies
<1>3. DOMAIN Frame!Bodies = DOMAIN Frame!RequestBodies \cup DOMAIN Frame!AnswerBodies
  BY DEF Frame!Bodies
<1>4. \A o \in DOMAIN Frame!Bodies :
          Frame!Bodies[o] = IF o \in DOMAIN Frame!RequestBodies THEN Frame!RequestBodies[o] ELSE Frame!AnswerBodies[o]
  BY DEF Frame!Bodies
<1>5. \A o \in DOMAIN Frame!RequestBodies : "malformed" \notin DOMAIN Frame!RequestBodies[o]
  <2>1. DOMAIN Frame!NoFields = {}
    BY DEF Frame!NoFields
  <2>2. /\ "malformed" \notin DOMAIN Frame!RequestBodies["HANDSHAKE"]
        /\ "malformed" \notin DOMAIN Frame!RequestBodies["PING"]
        /\ "malformed" \notin DOMAIN Frame!RequestBodies["QUERY"]
        /\ "malformed" \notin DOMAIN Frame!RequestBodies["MUTATION"]
        /\ "malformed" \notin DOMAIN Frame!RequestBodies["CURSOR_FETCH"]
        /\ "malformed" \notin DOMAIN Frame!RequestBodies["CURSOR_CLOSE"]
        /\ "malformed" \notin DOMAIN Frame!RequestBodies["BEGIN_TX"]
        /\ Frame!RequestBodies["SCHEMA"] = Frame!NoFields
    BY DEF Frame!RequestBodies
  <2> QED BY <1>1, <2>1, <2>2
<1>6. \A o \in DOMAIN Frame!AnswerBodies : "malformed" \notin DOMAIN Frame!AnswerBodies[o]
  <2>2. /\ "malformed" \notin DOMAIN Frame!AnswerBodies["HANDSHAKE_ACK"]
        /\ "malformed" \notin DOMAIN Frame!AnswerBodies["PONG"]
        /\ "malformed" \notin DOMAIN Frame!AnswerBodies["SCHEMA_RESULT"]
        /\ "malformed" \notin DOMAIN Frame!AnswerBodies["QUERY_RESULT"]
        /\ "malformed" \notin DOMAIN Frame!AnswerBodies["MUTATION_RESULT"]
        /\ "malformed" \notin DOMAIN Frame!AnswerBodies["ERROR"]
        /\ "malformed" \notin DOMAIN Frame!AnswerBodies["CURSOR_ACK"]
        /\ "malformed" \notin DOMAIN Frame!AnswerBodies["TX_ACK"]
    BY DEF Frame!AnswerBodies
  <2> QED BY <1>2, <2>2
<1> QED BY <1>1, <1>2, <1>3, <1>4, <1>5, <1>6

\* What is read of a payload is the payload, with defaults for what it leaves out.
LEMMA MessageIs ==
    ASSUME NEW f \in SentFrames
    PROVE  LET m == Frame!FromPayload(f.opcode, f.payload) IN
           m # Frame!Malformed /\ Frame!Same([opcode |-> f.opcode, id |-> f.id, message |-> m], f)
<1> DEFINE m == Frame!FromPayload(f.opcode, f.payload)
           D == IF f.opcode \in DOMAIN Frame!Bodies THEN DOMAIN Frame!Bodies[f.opcode] ELSE {}
           of(q) == CHOOSE p \in f.payload : p[1] = q
<1>1. m = [q \in D |-> IF \E p \in f.payload : p[1] = q THEN of(q)[2] ELSE Frame!Bodies[f.opcode][q]]
  BY DEF Frame!FromPayload
<1>2. "malformed" \notin D
  BY BodyDomains
<1>3. f.opcode # "?" => f.opcode \in DOMAIN Frame!Bodies /\ Names(f) \subseteq DOMAIN Frame!Bodies[f.opcode]
  BY DEF SentFrames
<1>4. \A p, q \in f.payload : p[1] = q[1] => p = q
  BY DEF SentFrames
<1>5. "?" \notin DOMAIN Frame!Bodies
  BY BodyDomains
<1>6. m # Frame!Malformed
  <2>1. DOMAIN Frame!Malformed = {"malformed"}
    BY DEF Frame!Malformed
  <2>2. DOMAIN m = D
    BY <1>1
  <2> HIDE DEF m, D
  <2> QED BY <1>2, <2>1, <2>2
<1>7. ASSUME NEW p \in f.payload, f.opcode # "?" PROVE m[p[1]] = p[2]
  <2>1. p[1] \in D
    BY <1>3, <1>7 DEF Names
  <2>2. of(p[1]) \in f.payload /\ of(p[1])[1] = p[1]
    OBVIOUS
  <2>3. of(p[1]) = p
    <3> HIDE DEF of
    <3> QED BY <1>4, <2>2
  <2> HIDE DEF m, D, of
  <2> QED BY <1>1, <2>1, <2>3
<1>8. ASSUME NEW q \in DOMAIN m, \A p \in f.payload : p[1] # q PROVE m[q] = Frame!Bodies[f.opcode][q]
  BY <1>1, <1>8
<1> HIDE DEF m, D, of
<1>9. Frame!Same([opcode |-> f.opcode, id |-> f.id, message |-> m], f)
  BY <1>7, <1>8 DEF Frame!Same
<1> QED BY <1>6, <1>9 DEF m

-----------------------------------------------------------------------------
(* A frame at the front of the units.                                         *)

\* A unit of a frame as it arrives: itself, or junk on a connection with a damage.
Arrives(u, f, j) == u = Frame!EncodeFrame(f)[j] \/ (fDamaged = fConn /\ u = Frame!Junk)
Fits(o, f) ==
    IF o.message = Frame!Malformed THEN ~f.checksum /\ fDamaged = fConn /\ o.id = f.id ELSE Frame!Same(o, f)

LEMMA JunkIs == Frame!Junk.k = "junk" /\ Frame!Junk \in Units
<1>1. {} \in Payloads /\ <<>> \in Seq(PlainUnits)
  BY DEF Payloads
<1> QED BY <1>1, UnitTypes DEF Frame!Junk, UnitKinds, Frame!Unit

LEMMA MetaOfIs ==
    ASSUME NEW f \in SentFrames
    PROVE  /\ MetaOf(f).opcode = f.opcode /\ MetaOf(f).checksum = f.checksum /\ MetaOf(f).crc = TRUE
           /\ MetaOf(f).length = Len(BodyOf(f)) /\ MetaOf(f).id = f.id
           /\ MetaOf(f).compression = IF f.payload = {} /\ f.compression = "zlib" THEN "none" ELSE f.compression
           /\ TotalOf(MetaOf(f)) = Size(f)
  BY DEF MetaOf, TotalOf, Size

\* If a frame comes out at the place of one that was sent, then it is that frame.
LEMMA FrontFrame ==
    ASSUME NEW f \in SentFrames, NEW data \in Seq(Units), Takes(data),
           \A j \in 1..Size(f) : j <= Len(data) => Arrives(data[j], f, j)
    PROVE  TotalOf(data[2].meta) = Size(f) /\ Fits(FrameAt(data), f)
<1> DEFINE e == Frame!EncodeFrame(f)
           n == Len(BodyOf(f))
           body == SubSeq(data, 3, 2 + n)
<1>1. /\ Size(f) \in Nat /\ Size(f) >= 2 + n /\ n \in Nat
      /\ e[1].version = f.version /\ e[2].meta = MetaOf(f)
      /\ \A i \in 1..n : e[2 + i] = BodyOf(f)[i] /\ BodyOf(f)[i] \in PlainUnits
      /\ f.checksum => Size(f) = 3 + n /\ e[Size(f)].sum = BodyOf(f)
  BY EncodeIs
<1>2. Len(data) \in Nat /\ Len(data) >= 2 /\ TakesHead(data) /\ Len(data) >= TotalOf(data[2].meta) /\ TakesBody(data)
  BY DEF Takes
<1>3. data[2] = e[2]
  <2>1. Arrives(data[2], f, 2)
    BY <1>1, <1>2
  <2>2. data[2].k = "header"
    BY <1>2 DEF TakesHead
  <2> QED BY <2>1, <2>2, JunkIs DEF Arrives
<1>4. data[2].meta = MetaOf(f) /\ TotalOf(data[2].meta) = Size(f)
  BY <1>1, <1>3, MetaOfIs
<1>5. body \in Seq(Units) /\ Len(body) = n /\ \A i \in 1..n : body[i] = data[2 + i] /\ Arrives(data[2 + i], f, 2 + i)
  <2>1. Len(data) >= 2 + n
    BY <1>1, <1>2, <1>4
  <2>2. \A i \in 1..n : 2 + i \in 1..Size(f) /\ 2 + i <= Len(data)
    BY <1>1, <2>1
  <2>3. \A i \in 3..(2 + n) : data[i] \in Units
    BY <1>1, <2>1
  <2> HIDE DEF n
  <2>4. body \in Seq(Units) /\ Len(body) = n /\ \A i \in 1..n : body[i] = data[2 + i]
    BY <1>1, <2>1
  <2> QED BY <2>2, <2>4
<1>6. FrameAt(data) = [opcode |-> f.opcode, id |-> f.id, message |-> Frame!ReadBody(f.opcode, body)]
  BY <1>4, MetaOfIs DEF FrameAt
<1> HIDE DEF n, e, body
<1>7. CASE \E i \in 1..n : body[i].k \notin {"body", "zlib"}
  <2>1. Frame!ReadBody(f.opcode, body) = Frame!Malformed
    BY <1>5, <1>7 DEF Frame!ReadBody
  <2>2. PICK i \in 1..n : body[i].k \notin {"body", "zlib"}
    BY <1>7
  <2>3. BodyOf(f)[i].k \in {"body", "zlib"}
    BY <1>1 DEF PlainUnits
  <2>4. fDamaged = fConn /\ body[i] # BodyOf(f)[i]
    BY <1>1, <1>5, <2>2, <2>3 DEF Arrives, e
  <2>5. ASSUME f.checksum PROVE FALSE
    <3>1. data[Size(f)].k = "sum" /\ data[Size(f)].sum = body
      BY <1>2, <1>4, <2>5, MetaOfIs DEF TakesBody, n, body
    <3>2. Arrives(data[Size(f)], f, Size(f))
      BY <1>1, <1>2, <1>4
    <3>3. data[Size(f)] = e[Size(f)]
      BY <3>1, <3>2, JunkIs DEF Arrives, e
    <3> QED BY <1>1, <2>4, <2>5, <3>1, <3>3
  <2>6. FrameAt(data).message = Frame!Malformed /\ FrameAt(data).id = f.id
    BY <1>6, <2>1
  <2> QED BY <1>4, <2>4, <2>5, <2>6 DEF Fits
<1>8. CASE ~(\E i \in 1..n : body[i].k \notin {"body", "zlib"})
  <2>1. Frame!ReadBody(f.opcode, body) = Frame!FromPayload(f.opcode, UNION {body[i].fields : i \in 1..n})
    BY <1>5, <1>8 DEF Frame!ReadBody
  <2>2. \A i \in 1..n : body[i] = BodyOf(f)[i]
    BY <1>1, <1>5, <1>8, JunkIs DEF Arrives, e
  <2>3. UNION {body[i].fields : i \in 1..n} = f.payload
    <3>1. UNION {BodyOf(f)[i].fields : i \in 1..n} = f.payload
      BY BodyIs DEF n
    <3> QED BY <2>2, <3>1
  <2> DEFINE m == Frame!FromPayload(f.opcode, f.payload)
  <2>4. m # Frame!Malformed /\ Frame!Same([opcode |-> f.opcode, id |-> f.id, message |-> m], f)
    BY MessageIs
  <2> HIDE DEF m
  <2>5. FrameAt(data) = [opcode |-> f.opcode, id |-> f.id, message |-> m]
    BY <1>6, <2>1, <2>3 DEF m
  <2> QED BY <1>4, <2>4, <2>5 DEF Fits
<1> QED BY <1>7, <1>8

\* A whole undamaged frame comes out exactly if this client takes it, and is given up
\* otherwise.
LEMMA WholeFrame ==
    ASSUME NEW f \in SentFrames, NEW data \in Seq(Units), Len(data) >= Size(f),
           \A j \in 1..Size(f) : data[j] = Frame!EncodeFrame(f)[j], Frame!LimitsAreLimits
    PROVE  /\ Takes(data) <=> Frame!Readable(f)
           /\ ~Takes(data) => Frame!DecodeFrame(data).error # ""
<1> DEFINE e == Frame!EncodeFrame(f)
           n == Len(BodyOf(f))
           m == data[2].meta
<1>1. /\ Size(f) \in Nat /\ Size(f) >= 2 + n /\ n \in Nat
      /\ e[1].k = "magic" /\ e[1].version = f.version /\ e[2].k = "header" /\ e[2].meta = MetaOf(f)
      /\ \A i \in 1..n : e[2 + i] = BodyOf(f)[i] /\ BodyOf(f)[i] \in PlainUnits
      /\ f.checksum => Size(f) = 3 + n /\ e[Size(f)].k = "sum" /\ e[Size(f)].sum = BodyOf(f)
  BY EncodeIs
<1>2. data[1] = e[1] /\ data[2] = e[2] /\ data[Size(f)] = e[Size(f)] /\ Len(data) \in Nat /\ Len(data) >= 2 + n
  BY <1>1
<1>3. m = MetaOf(f) /\ TotalOf(m) = Size(f)
  <2>1. data[2] = e[2] /\ e[2].meta = MetaOf(f)
    BY <1>1, <1>2
  <2> HIDE DEF e
  <2>2. m = MetaOf(f)
    BY <2>1
  <2> QED BY <2>2, MetaOfIs
<1>4. /\ f.compression = "zlib" /\ f.payload # {} => n = 1 /\ BodyOf(f)[1].k = "zlib"
      /\ ~(f.compression = "zlib" /\ f.payload # {}) => n = Cardinality(f.payload)
      /\ BodyOf(f) \in Seq(PlainUnits)
  BY BodyIs
<1>5. f.payload = {} => Cardinality(f.payload) = 0
  BY FS_EmptySet
<1>6. f.compression \in {"none", "zlib", "?"}
  BY DEF SentFrames
<1>7. SubSeq(data, 3, 2 + n) = BodyOf(f)
  <2> DEFINE b == BodyOf(f)
  <2>1. \A i \in 1..n : data[2 + i] = b[i]
    <3>1. \A i \in 1..n : 2 + i \in 1..Size(f)
      BY <1>1
    <3> QED BY <1>1, <3>1
  <2>2. b \in Seq(PlainUnits) /\ Len(b) = n
    BY <1>4
  <2> HIDE DEF b, n
  <2>3. Len(SubSeq(data, 3, 2 + n)) = n /\ \A i \in 1..n : SubSeq(data, 3, 2 + n)[i] = data[2 + i]
    BY <1>1, <1>2
  <2>4. SubSeq(data, 3, 2 + n) \in Seq(Units)
    <3> PICK k : k = 2 + n
      OBVIOUS
    <3>1. k \in Nat /\ k <= Len(data)
      BY <1>1, <1>2
    <3>2. SubSeq(data, 3, k) \in Seq(Units)
      BY <3>1, PartsAre
    <3> QED BY <3>2
  <2> QED BY <2>1, <2>2, <2>3, <2>4 DEF b
<1> HIDE DEF m, n, e
<1>8. TakesBody(data)
  <2>1. m.checksum => data[TotalOf(m)].k = "sum" /\ data[TotalOf(m)].sum = SubSeq(data, 3, 2 + m.length)
    <3>1. m.checksum = f.checksum /\ m.length = n /\ TotalOf(m) = Size(f)
      BY <1>3, MetaOfIs DEF n
    <3>2. f.checksum => data[Size(f)].k = "sum" /\ data[Size(f)].sum = BodyOf(f)
      BY <1>1, <1>2
    <3> QED BY <1>7, <3>1, <3>2
  <2>2. ASSUME m.compression = "zlib" PROVE data[3].k = "zlib"
    <3>1. f.compression = "zlib" /\ f.payload # {}
      BY <1>3, <2>2, MetaOfIs
    <3>2. n = 1 /\ BodyOf(f)[1].k = "zlib"
      BY <1>4, <3>1
    <3>3. data[3] = e[3] /\ e[2 + 1] = BodyOf(f)[1]
      BY <1>1, <3>2 DEF e
    <3> QED BY <3>2, <3>3
  <2> QED BY <2>1, <2>2 DEF TakesBody, m
<1>9. m.compression \in Frame!Compressions <=> f.compression \in Frame!Compressions
  BY <1>3, <1>6, MetaOfIs DEF Frame!Compressions
<1>10. ~(m.length > MaxPayload) <=> (f.compression = "zlib" \/ Frame!Cardinality(f.payload) <= MaxPayload)
  <2>1. MaxPayload \in Nat /\ MaxPayload >= 1
    BY DEF Frame!LimitsAreLimits
  <2>2. m.length = n
    BY <1>3, MetaOfIs DEF n
  <2>3. Frame!Cardinality(f.payload) = Cardinality(f.payload)
    BY FrameCardinality
  <2>4. CASE f.compression = "zlib" /\ f.payload # {}
    BY <1>4, <2>1, <2>2, <2>4
  <2>5. CASE f.compression = "zlib" /\ f.payload = {}
    BY <1>4, <1>5, <2>1, <2>2, <2>5
  <2>6. CASE f.compression # "zlib"
    BY <1>1, <1>4, <2>1, <2>2, <2>3, <2>6
  <2> QED BY <2>4, <2>5, <2>6
<1>11. TakesHead(data) <=> Frame!Readable(f)
  <2>1. data[1].k = "magic" /\ data[1].version = f.version /\ data[2].k = "header" /\ m.crc /\ m.opcode = f.opcode
    BY <1>1, <1>2, <1>3, MetaOfIs
  <2> QED BY <1>9, <1>10, <2>1 DEF TakesHead, Frame!Readable, m
<1>12. Len(data) >= 2 /\ Len(data) >= TotalOf(m)
  BY <1>1, <1>2, <1>3
<1>13. Takes(data) <=> Frame!Readable(f)
  BY <1>8, <1>11, <1>12 DEF Takes, m
<1>14. TotalOf(m) \in Nat
  BY <1>1, <1>3
<1>15. ~Takes(data) => Frame!DecodeFrame(data).error # ""
  <2>1. ~(Len(data) < 2) /\ ~(Len(data) < TotalOf(m))
    BY <1>2, <1>12, <1>14
  <2> QED BY <2>1, DecodeIs DEF m
<1> QED BY <1>13, <1>15

-----------------------------------------------------------------------------
(* What is on the stream and what was handed out.                             *)

Messages == {Frame!FromPayload(o, p) : o \in Opcodes, p \in Payloads} \cup {Frame!Malformed}
HandedFrames == [opcode : Opcodes, id : Nat, message : Messages]
First == fCount - Len(fSent) + 1

\* The units are those of the frames after the k-th, cut where each ends.
Follows(data, k) ==
    \E ends \in [k..Len(fSent) -> Nat] :
        /\ ends[k] = 0 /\ ends[Len(fSent)] = Len(data)
        /\ \A h, i \in k..Len(fSent) : h <= i => ends[h] <= ends[i]
        /\ \A i \in (k + 1)..Len(fSent) :
              /\ ends[i] = ends[i - 1] + Size(fSent[i])
              /\ \A j \in 1..Size(fSent[i]) : Arrives(data[ends[i - 1] + j], fSent[i], j)
InOrder(o) ==
    /\ Len(o) <= Len(fSent)
    /\ \A i \in 1..Len(o) : Fits(o[i], fSent[i]) /\ (fDamaged # fConn => Frame!Readable(fSent[i]))

\* The leftovers are still in front, and no frame but a longer one can come of them;
\* or a frame has come of them, and the first of this connection went with it.
Before(data, o) ==
    /\ o = <<>> /\ fOver <= Len(data) /\ ~Takes(SubSeq(data, 1, fOver))
    /\ fSent = <<>> => Len(data) = fOver
    /\ \A i \in 1..Len(data) : data[i].k = "header" /\ data[i].meta.id = First => i = fOver + 2
After(data) ==
    /\ fSent # <<>>
    /\ \A i \in 2..Len(data) : data[i].k = "header" => data[i].meta.id # First

KnownIds(data) == \A i \in 1..Len(data) : data[i].k = "header" => data[i].meta.id <= fCount
Right(data, o) ==
    /\ fOver = 0 => InOrder(o) /\ (fStatus # "closed" => Follows(data, Len(o)))
    /\ fOver > 0 =>
         /\ \A i \in 1..Len(o) : o[i].id # First
         /\ fStatus # "closed" => Before(data, o) \/ After(data)
    /\ fSent = <<>> => o = <<>>

LEMMA FrameAtTypes ==
    ASSUME NEW data \in Seq(Units), Takes(data)
    PROVE  FrameAt(data) \in HandedFrames
<1> DEFINE m == data[2].meta
           body == SubSeq(data, 3, 2 + m.length)
<1>1. m \in Metas
  BY DecodeIs
<1>2. /\ m.opcode \in Opcodes /\ m.length \in Nat /\ m.id \in Nat /\ TotalOf(m) >= 2 + m.length /\ TotalOf(m) \in Nat
  BY <1>1, MetaTypes
<1>3. Len(data) >= 2 + m.length
  BY <1>2 DEF Takes
<1>4. body \in Seq(Units)
  <2>1. \A i \in 3..(2 + m.length) : data[i] \in Units
    BY <1>2, <1>3
  <2> HIDE DEF m
  <2> QED BY <1>2, <1>3, <2>1
<1>5. UNION {body[i].fields : i \in 1..Len(body)} \in Payloads
  <2>1. \A i \in 1..Len(body) : body[i].fields \in Payloads
    <3> HIDE DEF body
    <3> QED BY <1>4, UnitIs
  <2> HIDE DEF body
  <2> QED BY <2>1 DEF Payloads
<1>6. Frame!ReadBody(m.opcode, body) \in Messages
  <2> DEFINE p == UNION {body[i].fields : i \in 1..Len(body)}
  <2>1. Frame!ReadBody(m.opcode, body) \in {Frame!Malformed, Frame!FromPayload(m.opcode, p)}
    BY DEF Frame!ReadBody
  <2> HIDE DEF body, m, p
  <2>2. p \in Payloads
    BY <1>5 DEF p
  <2> QED BY <1>2, <2>1, <2>2 DEF Messages
<1> HIDE DEF body, m
<1>7. FrameAt(data) = [opcode |-> m.opcode, id |-> m.id, message |-> Frame!ReadBody(m.opcode, body)]
  BY DEF FrameAt, m, body
<1> QED BY <1>2, <1>6, <1>7 DEF HandedFrames

LEMMA RestIs ==
    ASSUME NEW S, NEW data \in Seq(S), NEW n \in Nat, n <= Len(data)
    PROVE  /\ SubSeq(data, n + 1, Len(data)) \in Seq(S) /\ Len(SubSeq(data, n + 1, Len(data))) = Len(data) - n
           /\ \A i \in 1..(Len(data) - n) : SubSeq(data, n + 1, Len(data))[i] = data[n + i]
<1>1. n + 1 \in 1..(Len(data) + 1) /\ Len(data) \in (n + 1) - 1 .. Len(data)
  OBVIOUS
<1> QED BY <1>1

\* Without the first frame, the units are those of the others.
LEMMA FollowsOn ==
    ASSUME NEW k \in Nat, k < Len(fSent), fSent \in Seq(SentFrames), NEW data \in Seq(Units), Follows(data, k)
    PROVE  /\ Size(fSent[k + 1]) <= Len(data)
           /\ \A j \in 1..Size(fSent[k + 1]) : Arrives(data[j], fSent[k + 1], j)
           /\ Follows(SubSeq(data, Size(fSent[k + 1]) + 1, Len(data)), k + 1)
<1> DEFINE n == Len(fSent)
           s == Size(fSent[k + 1])
           rest == SubSeq(data, s + 1, Len(data))
<1>1. PICK ends \in [k..n -> Nat] :
        /\ ends[k] = 0 /\ ends[n] = Len(data)
        /\ \A h, i \in k..n : h <= i => ends[h] <= ends[i]
        /\ \A i \in (k + 1)..n :
              /\ ends[i] = ends[i - 1] + Size(fSent[i])
              /\ \A j \in 1..Size(fSent[i]) : Arrives(data[ends[i - 1] + j], fSent[i], j)
  BY DEF Follows
<1>2. n \in Nat /\ k + 1 \in (k + 1)..n /\ k \in k..n /\ n \in k..n /\ k + 1 \in k..n
  OBVIOUS
<1>3. \A i \in (k + 1)..n : fSent[i] \in SentFrames /\ Size(fSent[i]) \in Nat
  BY EncodeIs
<1> HIDE DEF n, s
<1>4. s \in Nat /\ ends[k + 1] = s /\ s <= Len(data)
  <2>1. ends[k + 1] = ends[(k + 1) - 1] + s /\ (k + 1) - 1 = k
    BY <1>1, <1>2 DEF s
  <2>2. s \in Nat
    BY <1>2, <1>3 DEF s
  <2>3. k + 1 <= n
    BY <1>2
  <2> QED BY <1>1, <1>2, <2>1, <2>2, <2>3
<1>5. \A j \in 1..s : Arrives(data[j], fSent[k + 1], j)
  <2> TAKE j \in 1..s
  <2>1. Arrives(data[ends[(k + 1) - 1] + j], fSent[k + 1], j)
    BY <1>1, <1>2 DEF s
  <2>2. ends[(k + 1) - 1] + j = j
    BY <1>1, <1>4
  <2> QED BY <2>1, <2>2
<1>6. rest \in Seq(Units) /\ Len(rest) = Len(data) - s /\ \A i \in 1..(Len(data) - s) : rest[i] = data[s + i]
  BY <1>4, RestIs DEF rest
<1> HIDE DEF rest
<1> DEFINE new == [i \in (k + 1)..n |-> ends[i] - s]
<1>7. \A i \in (k + 1)..n : ends[i] \in Nat /\ ends[i] >= s /\ ends[i] <= Len(data) /\ new[i] = ends[i] - s
  <2> TAKE i \in (k + 1)..n
  <2>1. i \in k..n /\ k + 1 <= i /\ i <= n
    BY <1>2
  <2> QED BY <1>1, <1>2, <1>4, <2>1
<1>8. new \in [(k + 1)..n -> Nat]
  BY <1>4, <1>7
<1>9. new[k + 1] = 0 /\ new[n] = Len(rest)
  BY <1>1, <1>2, <1>4, <1>6, <1>7
<1>10. \A h, i \in (k + 1)..n : h <= i => new[h] <= new[i]
  <2> TAKE h, i \in (k + 1)..n
  <2>1. h \in k..n /\ i \in k..n
    BY <1>2
  <2>2. h <= i => ends[h] <= ends[i]
    BY <1>1, <2>1
  <2> QED BY <1>4, <1>7, <2>2
<1>11. ASSUME NEW i \in ((k + 1) + 1)..n
       PROVE  /\ new[i] = new[i - 1] + Size(fSent[i])
              /\ \A j \in 1..Size(fSent[i]) : Arrives(rest[new[i - 1] + j], fSent[i], j)
  <2>1. i \in (k + 1)..n /\ i - 1 \in (k + 1)..n
    BY <1>2
  <2>2. /\ ends[i] = ends[i - 1] + Size(fSent[i]) /\ Size(fSent[i]) \in Nat
        /\ \A j \in 1..Size(fSent[i]) : Arrives(data[ends[i - 1] + j], fSent[i], j)
    BY <1>1, <1>3, <2>1
  <2>3. new[i] = ends[i] - s /\ new[i - 1] = ends[i - 1] - s /\ ends[i] <= Len(data) /\ ends[i - 1] >= s
        /\ ends[i] \in Nat /\ ends[i - 1] \in Nat
    BY <1>7, <2>1
  <2> HIDE DEF new
  <2> DEFINE size == Size(fSent[i])
  <2>6. size \in Nat /\ ends[i] = ends[i - 1] + size
    BY <2>2
  <2> HIDE DEF size
  <2>4. ASSUME NEW j \in 1..Size(fSent[i]) PROVE rest[new[i - 1] + j] = data[ends[i - 1] + j]
    <3>1. new[i - 1] + j \in 1..(Len(data) - s) /\ s + (new[i - 1] + j) = ends[i - 1] + j
      <4>1. j \in 1..size
        BY DEF size
      <4>2. j \in Nat /\ j >= 1 /\ j <= size
        BY <2>6, <4>1
      <4>3. ends[i - 1] + j \in Nat /\ ends[i - 1] + j <= Len(data) /\ Len(data) \in Nat
        BY <2>3, <2>6, <4>2
      <4>4. new[i - 1] + j = (ends[i - 1] + j) - s
        BY <1>4, <2>3, <4>2
      <4> DEFINE a == ends[i - 1] + j
                 b == new[i - 1] + j
                 l == Len(data)
      <4>5. a \in Nat /\ a <= l /\ l \in Nat /\ b = a - s /\ a >= s + 1 /\ s \in Nat
        BY <1>4, <2>3, <4>2, <4>3, <4>4
      <4> HIDE DEF a, b, l
      <4>6. b \in 1..(l - s) /\ s + b = a
        BY <4>5
      <4> QED BY <4>6 DEF a, b, l
    <3> QED BY <1>6, <3>1
  <2>5. new[i] = new[i - 1] + Size(fSent[i])
    BY <1>4, <2>2, <2>3
  <2> QED BY <2>2, <2>4, <2>5
<1> HIDE DEF new
<1>12. Follows(rest, k + 1)
  BY <1>8, <1>9, <1>10, <1>11 DEF Follows, n
<1> QED BY <1>4, <1>5, <1>12 DEF s, rest

\* One frame out of the units that came keeps everything right.
LEMMA OneOut ==
    ASSUME fSent \in Seq(SentFrames), fOver \in Nat, fCount \in Nat, fStatus # "closed", Frame!LimitsAreLimits,
           NEW data \in Seq(Units), NEW rest \in Seq(Units), NEW o \in Seq(HandedFrames),
           Len(rest) <= Len(data), \A i \in 1..Len(rest) : rest[i] = data[i],
           Takes(rest), Right(data, o), KnownIds(data)
    PROVE  LET u == TotalOf(rest[2].meta) IN
           /\ u \in Nat /\ u >= 2 /\ u <= Len(rest)
           /\ Right(SubSeq(data, u + 1, Len(data)), Append(o, FrameAt(rest)))
           /\ KnownIds(SubSeq(data, u + 1, Len(data)))
<1> DEFINE m == rest[2].meta
           u == TotalOf(m)
           x == FrameAt(rest)
           more == SubSeq(data, u + 1, Len(data))
           after == Append(o, x)
<1>1. m \in Metas
  BY DecodeIs
<1>2. u \in Nat /\ u >= 2 /\ u <= Len(rest) /\ u <= Len(data)
  <2>1. u \in Nat /\ u >= 2 + m.length /\ m.length \in Nat
    BY <1>1, MetaTypes
  <2> HIDE DEF m
  <2>2. Len(rest) >= u
    BY DEF Takes, m
  <2> HIDE DEF u
  <2> QED BY <2>1, <2>2
<1>3. rest[2] = data[2] /\ x.id = data[2].meta.id /\ data[2].k = "header"
  <2>1. 2 \in 1..Len(rest)
    BY <1>2
  <2>2. rest[2] = data[2]
    BY <2>1
  <2>3. rest[2].k = "header"
    BY DEF Takes, TakesHead
  <2> QED BY <2>2, <2>3 DEF FrameAt
<1> HIDE DEF m, u, x
<1>4. more \in Seq(Units) /\ Len(more) = Len(data) - u /\ \A i \in 1..(Len(data) - u) : more[i] = data[u + i]
  BY <1>2, RestIs
<1> HIDE DEF more
<1>5. x \in HandedFrames
  BY FrameAtTypes DEF x
<1>6. after \in Seq(HandedFrames) /\ Len(after) = Len(o) + 1 /\ after[Len(o) + 1] = x /\ \A i \in 1..Len(o) : after[i] = o[i]
  BY <1>5
<1> HIDE DEF after
<1>7. KnownIds(more)
  <2>1. \A i \in 1..Len(more) : u + i \in 1..Len(data) /\ more[i] = data[u + i]
    BY <1>2, <1>4
  <2> QED BY <2>1 DEF KnownIds
<1>8. ASSUME fOver = 0 PROVE InOrder(after) /\ Follows(more, Len(after)) /\ fSent # <<>>
  <2> DEFINE k == Len(o)
             f == fSent[k + 1]
  <2>1. InOrder(o) /\ Follows(data, k)
    BY <1>8 DEF Right
  <2>2. k \in Nat /\ k <= Len(fSent) /\ Len(fSent) \in Nat
    BY <2>1 DEF InOrder
  <2>3. k # Len(fSent)
    <3>1. SUFFICES ASSUME k = Len(fSent) PROVE FALSE
      OBVIOUS
    <3>2. PICK ends : ends[k] = 0 /\ ends[Len(fSent)] = Len(data)
      BY <2>1 DEF Follows
    <3> QED BY <1>2, <3>1, <3>2
  <2>4. k < Len(fSent) /\ f \in SentFrames
    BY <2>2, <2>3
  <2> HIDE DEF k, f
  <2>5. /\ Size(f) <= Len(data)
        /\ \A j \in 1..Size(f) : Arrives(data[j], f, j)
        /\ Follows(SubSeq(data, Size(f) + 1, Len(data)), k + 1)
    BY <2>1, <2>2, <2>4, FollowsOn DEF f
  <2>6. Size(f) \in Nat
    BY <2>4, EncodeIs
  <2>7. \A j \in 1..Size(f) : j <= Len(rest) => Arrives(rest[j], f, j)
    <3>1. \A j \in 1..Size(f) : j <= Len(rest) => j \in 1..Len(rest)
      BY <2>6
    <3> QED BY <2>5, <3>1
  <2>8. u = Size(f) /\ Fits(x, f)
    BY <2>4, <2>7, FrontFrame DEF u, m, x
  <2>9. fDamaged # fConn => Frame!Readable(f)
    <3> SUFFICES ASSUME fDamaged # fConn PROVE Frame!Readable(f)
      OBVIOUS
    <3>1. \A j \in 1..Size(f) : j \in 1..Len(rest) /\ rest[j] = Frame!EncodeFrame(f)[j]
      BY <1>2, <2>5, <2>6, <2>8 DEF Arrives
    <3> QED BY <1>2, <2>4, <2>8, <3>1, WholeFrame
  <2>10. InOrder(after)
    <3>1. Len(after) <= Len(fSent)
      BY <1>6, <2>2, <2>4 DEF k
    <3>2. ASSUME NEW i \in 1..Len(after)
          PROVE  Fits(after[i], fSent[i]) /\ (fDamaged # fConn => Frame!Readable(fSent[i]))
      <4>1. CASE i \in 1..Len(o)
        BY <1>6, <2>1, <4>1 DEF InOrder
      <4>2. CASE i = Len(o) + 1
        BY <1>6, <2>8, <2>9, <4>2 DEF k, f
      <4> QED BY <1>6, <4>1, <4>2
    <3> QED BY <3>1, <3>2 DEF InOrder
  <2>11. Follows(more, Len(after))
    BY <1>6, <2>5, <2>8 DEF more, k
  <2>12. fSent # <<>>
    BY <2>2, <2>4
  <2> QED BY <2>10, <2>11, <2>12
<1>9. ASSUME fOver > 0 PROVE (\A i \in 1..Len(after) : after[i].id # First) /\ After(more)
  <2>1. (\A i \in 1..Len(o) : o[i].id # First) /\ (Before(data, o) \/ After(data))
    BY <1>9 DEF Right
  <2>2. x.id # First /\ After(more)
    <3>1. CASE After(data)
      <4>1. data[2].meta.id # First
        BY <1>2, <1>3, <3>1 DEF After
      <4>2. \A i \in 2..Len(more) : u + i \in 2..Len(data) /\ more[i] = data[u + i]
        BY <1>2, <1>4
      <4> QED BY <1>3, <3>1, <4>1, <4>2 DEF After
    <3>2. CASE Before(data, o)
      <4>1. /\ fOver <= Len(data) /\ ~Takes(SubSeq(data, 1, fOver)) /\ (fSent = <<>> => Len(data) = fOver)
            /\ \A i \in 1..Len(data) : data[i].k = "header" /\ data[i].meta.id = First => i = fOver + 2
        BY <3>2 DEF Before
      <4>2. u > fOver
        <5> SUFFICES ASSUME u <= fOver PROVE FALSE
          BY <1>2
        <5> DEFINE b == SubSeq(data, 1, fOver)
        <5>1. b \in Seq(Units) /\ Len(b) = fOver /\ \A i \in 1..fOver : b[i] = data[i]
          BY <4>1
        <5>2. \A i \in 1..u : b[i] = rest[i]
          <6>1. \A i \in 1..u : i \in 1..fOver /\ i \in 1..Len(rest)
            BY <1>2
          <6> HIDE DEF b
          <6> QED BY <5>1, <6>1
        <5> HIDE DEF b
        <5>3. Takes(b)
          BY <1>2, <5>1, <5>2, TakesPrefix DEF u, m
        <5> QED BY <4>1, <5>3 DEF b
      <4>3. fSent # <<>>
        BY <1>2, <4>1, <4>2
      <4>4. data[2].meta.id # First
        BY <1>2, <1>3, <1>9, <4>1
      <4>5. \A i \in 2..Len(more) : u + i \in 1..Len(data) /\ u + i # fOver + 2 /\ more[i] = data[u + i]
        BY <1>2, <1>4, <4>2
      <4> QED BY <1>3, <4>1, <4>3, <4>4, <4>5 DEF After
    <3> QED BY <2>1, <3>1, <3>2
  <2>3. \A i \in 1..Len(after) : i \in 1..Len(o) \/ i = Len(o) + 1
    BY <1>6
  <2> QED BY <1>6, <2>1, <2>2, <2>3
<1>10. fSent # <<>>
  BY <1>8, <1>9 DEF After
<1>11. Right(more, after)
  <2>1. ~(fOver = 0 /\ fOver > 0)
    OBVIOUS
  <2> QED BY <1>8, <1>9, <1>10 DEF Right
<1> QED BY <1>2, <1>7, <1>11 DEF u, m, more, after, x

LEMMA CutConcat ==
    ASSUME NEW S, NEW a \in Seq(S), NEW b \in Seq(S), NEW n \in Nat, n <= Len(a)
    PROVE  SubSeq(a, n + 1, Len(a)) \o b = SubSeq(a \o b, n + 1, Len(a \o b))
<1> DEFINE c == a \o b
           l == SubSeq(a, n + 1, Len(a)) \o b
           r == SubSeq(c, n + 1, Len(c))
<1>1. /\ c \in Seq(S) /\ Len(c) = Len(a) + Len(b)
      /\ \A i \in 1..(Len(a) + Len(b)) : c[i] = IF i <= Len(a) THEN a[i] ELSE b[i - Len(a)]
  BY ConcatProperties
<1>2. Len(a) \in Nat /\ Len(b) \in Nat
  OBVIOUS
<1>3. /\ r \in Seq(S) /\ Len(r) = Len(c) - n /\ \A i \in 1..(Len(c) - n) : r[i] = c[n + i]
  <2> HIDE DEF c
  <2> QED BY <1>1, <1>2, RestIs
<1>4. /\ SubSeq(a, n + 1, Len(a)) \in Seq(S) /\ Len(SubSeq(a, n + 1, Len(a))) = Len(a) - n
      /\ \A i \in 1..(Len(a) - n) : SubSeq(a, n + 1, Len(a))[i] = a[n + i]
  BY RestIs
<1> DEFINE h == SubSeq(a, n + 1, Len(a))
<1>5. /\ l \in Seq(S) /\ Len(l) = Len(h) + Len(b)
      /\ \A i \in 1..(Len(h) + Len(b)) : l[i] = IF i <= Len(h) THEN h[i] ELSE b[i - Len(h)]
  <2> HIDE DEF h
  <2> QED BY <1>4, ConcatProperties DEF h
<1> HIDE DEF c, l, r, h
<1>6. Len(l) = Len(r)
  BY <1>1, <1>2, <1>3, <1>4, <1>5 DEF h
<1>7. \A i \in 1..Len(l) : l[i] = r[i]
  <2> TAKE i \in 1..Len(l)
  <2>1. Len(h) = Len(a) - n /\ i \in 1..(Len(h) + Len(b)) /\ i \in Nat
    BY <1>4, <1>5 DEF h
  <2>2. r[i] = c[n + i] /\ n + i \in 1..(Len(a) + Len(b))
    BY <1>1, <1>2, <1>3, <2>1
  <2>3. CASE i <= Len(h)
    <3>1. l[i] = h[i] /\ h[i] = a[n + i] /\ n + i <= Len(a)
      BY <1>2, <1>4, <1>5, <2>1, <2>3 DEF h
    <3> QED BY <1>1, <2>2, <3>1
  <2>4. CASE ~(i <= Len(h))
    <3>1. l[i] = b[i - Len(h)] /\ ~(n + i <= Len(a)) /\ i - Len(h) = (n + i) - Len(a)
      BY <1>2, <1>5, <2>1, <2>4
    <3> QED BY <1>1, <2>2, <3>1
  <2> QED BY <2>3, <2>4
<1>8. l = r
  BY <1>3, <1>5, <1>6, <1>7, SeqEqual
<1> QED BY <1>8 DEF l, r, c

\* _drain_buffer as rounds, each of the one before.
LEMMA DrainIs ==
    ASSUME NEW data \in Seq(Units)
    PROVE  LET rounds == Len(data) \div 2 IN
           \E after : /\ after = [n \in 0..rounds |-> IF n = 0 THEN [rest |-> data, frames |-> <<>>]
                                                      ELSE Frame!Drained(after[n - 1])]
                      /\ Frame!Drain(data) = after[rounds]
<1> DEFINE rounds == Len(data) \div 2
           s == [rest |-> data, frames |-> <<>>]
           Is(g, m) == g = [n \in 0..m |-> IF n = 0 THEN s ELSE Frame!Drained(g[n - 1])]
           Good == {m \in 0..rounds : \E g : Is(g, m)}
<1>1. rounds \in Nat
  OBVIOUS
<1> HIDE DEF s
<1>2. 0 \in Good
  <2> DEFINE h == [n \in 0..0 |-> s]
  <2>1. h = [n \in 0..0 |-> IF n = 0 THEN s ELSE Frame!Drained(h[n - 1])]
    OBVIOUS
  <2> HIDE DEF h, rounds
  <2> QED BY <1>1, <2>1
<1>3. ASSUME NEW m \in 0..(rounds - 1), m \in Good PROVE m + 1 \in Good
  <2> HIDE DEF rounds
  <2>1. PICK g : g = [n \in 0..m |-> IF n = 0 THEN s ELSE Frame!Drained(g[n - 1])]
    BY <1>3
  <2> DEFINE h == [n \in 0..(m + 1) |-> IF n = m + 1 THEN Frame!Drained(g[m]) ELSE g[n]]
  <2>2. \A n \in 0..(m + 1) : h[n] = IF n = 0 THEN s ELSE Frame!Drained(h[n - 1])
    BY <2>1
  <2>3. h = [n \in 0..(m + 1) |-> IF n = 0 THEN s ELSE Frame!Drained(h[n - 1])]
    BY <2>2
  <2> HIDE DEF h
  <2> QED BY <1>1, <2>3
<1>4. rounds \in Good
  <2> HIDE DEF Good, rounds
  <2> QED BY <1>1, <1>2, <1>3, UpTo
<1>5. \E g : Is(g, rounds)
  BY <1>4
<1> DEFINE a == CHOOSE g : Is(g, rounds)
<1>6. Is(a, rounds)
  BY <1>5
<1>7. Frame!Drain(data) = a[rounds]
  BY DEF Frame!Drain, s
<1> HIDE DEF a, rounds
<1> QED BY <1>6, <1>7 DEF s, rounds

\* After as many rounds as the buffer has pairs of units no frame is left at its front.
LEMMA AllOut ==
    ASSUME fSent \in Seq(SentFrames), fOver \in Nat, fCount \in Nat, fStatus # "closed", Frame!LimitsAreLimits,
           NEW fed \in Seq(Units), NEW w \in Seq(Units), NEW o \in Seq(HandedFrames),
           Right(fed \o w, o), KnownIds(fed \o w)
    PROVE  LET d == Frame!Drain(fed) IN
           /\ d.rest \in Seq(Units) /\ d.frames \in Seq(HandedFrames)
           /\ Right(d.rest \o w, o \o d.frames) /\ KnownIds(d.rest \o w)
           /\ ~Takes(d.rest)
           /\ d.frames = <<>> => d.rest = fed
<1> DEFINE rounds == Len(fed) \div 2
           Stage(s, k) ==
               /\ s.rest \in Seq(Units) /\ s.frames \in Seq(HandedFrames)
               /\ Right(s.rest \o w, o \o s.frames) /\ KnownIds(s.rest \o w)
               /\ Takes(s.rest) => Len(s.rest) + 2 * k <= Len(fed)
               /\ s.frames = <<>> => s.rest = fed
<1>1. rounds \in Nat /\ Len(fed) \in Nat /\ Len(fed) <= 2 * rounds + 1
  OBVIOUS
<1>2. PICK after : /\ after = [n \in 0..rounds |-> IF n = 0 THEN [rest |-> fed, frames |-> <<>>]
                                                   ELSE Frame!Drained(after[n - 1])]
                   /\ Frame!Drain(fed) = after[rounds]
  BY DrainIs
<1> HIDE DEF rounds
<1>3. Stage(after[0], 0)
  <2>1. after[0] = [rest |-> fed, frames |-> <<>>]
    BY <1>1, <1>2
  <2>2. after[0].rest = fed /\ after[0].frames = <<>> /\ o \o <<>> = o
    BY <2>1
  <2> QED BY <1>1, <2>2
<1>4. ASSUME NEW k \in 0..(rounds - 1), Stage(after[k], k) PROVE Stage(after[k + 1], k + 1)
  <2> DEFINE s == after[k]
             d == Frame!DecodeFrame(s.rest)
  <2>1. after[k + 1] = Frame!Drained(s)
    BY <1>1, <1>2
  <2> HIDE DEF s
  <2>2. /\ s.rest \in Seq(Units) /\ s.frames \in Seq(HandedFrames)
        /\ Right(s.rest \o w, o \o s.frames) /\ KnownIds(s.rest \o w)
        /\ s.frames = <<>> => s.rest = fed
    BY <1>4 DEF s
  <2>5. Takes(s.rest) => Len(s.rest) + 2 * k <= Len(fed)
    BY <1>4 DEF s
  <2>3. CASE Takes(s.rest)
    <3> DEFINE u == TotalOf(s.rest[2].meta)
               x == FrameAt(s.rest)
               data == s.rest \o w
               fr == o \o s.frames
               next == SubSeq(s.rest, u + 1, Len(s.rest))
    <3>1. d.used = u /\ d.frame = x
      BY <2>2, <2>3, DecodeIs
    <3>2. data \in Seq(Units) /\ Len(data) = Len(s.rest) + Len(w) /\ (\A i \in 1..Len(s.rest) : data[i] = s.rest[i])
      BY <2>2, ConcatProperties
    <3>3. fr \in Seq(HandedFrames)
      BY <2>2
    <3>4. /\ u \in Nat /\ u >= 2 /\ u <= Len(s.rest)
          /\ Right(SubSeq(data, u + 1, Len(data)), Append(fr, x)) /\ KnownIds(SubSeq(data, u + 1, Len(data)))
      <4>1. Len(s.rest) <= Len(data)
        BY <2>2, <3>2
      <4>2. Right(data, fr) /\ KnownIds(data) /\ s.rest \in Seq(Units)
        BY <2>2
      <4> HIDE DEF data, fr, u, x
      <4> QED BY <2>3, <3>2, <3>3, <4>1, <4>2, OneOut DEF u, x
    <3>5. x \in HandedFrames
      BY <2>2, <2>3, FrameAtTypes
    <3> HIDE DEF u, x
    <3>6. Frame!Drained(s) = [rest |-> next, frames |-> Append(s.frames, x)]
      <4>1. Frame!Drained(s) = [rest |-> SubSeq(s.rest, d.used + 1, Len(s.rest)),
                                frames |-> IF d.used = 0 THEN s.frames ELSE Append(s.frames, d.frame)]
        BY DEF Frame!Drained
      <4> HIDE DEF d
      <4>2. d.used # 0
        BY <3>1, <3>4
      <4> QED BY <3>1, <4>1, <4>2
    <3>7. next \in Seq(Units) /\ Len(next) = Len(s.rest) - u /\ \A i \in 1..(Len(s.rest) - u) : next[i] = s.rest[u + i]
      BY <2>2, <3>4, RestIs
    <3>8. next \o w = SubSeq(data, u + 1, Len(data))
      BY <2>2, <3>4, CutConcat
    <3>9. o \o Append(s.frames, x) = Append(fr, x)
      BY <2>2, <3>5
    <3>10. Append(s.frames, x) \in Seq(HandedFrames) /\ Append(s.frames, x) # <<>>
      <4>1. s.frames \in Seq(HandedFrames)
        BY <2>2
      <4>2. Append(s.frames, x) \in Seq(HandedFrames) /\ Len(Append(s.frames, x)) = Len(s.frames) + 1
        BY <3>5, <4>1, AppendProperties
      <4>3. Len(s.frames) \in Nat
        BY <4>1
      <4> DEFINE a == Append(s.frames, x)
                 l == Len(s.frames)
      <4>4. a \in Seq(HandedFrames) /\ Len(a) = l + 1 /\ l \in Nat
        BY <4>2, <4>3
      <4> HIDE DEF a, l
      <4>5. Len(a) # 0
        BY <4>4
      <4>6. a # <<>>
        BY <4>5
      <4> QED BY <4>4, <4>6 DEF a
    <3>11. Len(s.rest) + 2 * k <= Len(fed) /\ Len(s.rest) \in Nat /\ k \in Nat
      <4>1. Len(s.rest) + 2 * k <= Len(fed)
        BY <2>3, <2>5
      <4>2. s.rest \in Seq(Units)
        BY <2>2
      <4>3. Len(s.rest) \in Nat
        BY <4>2
      <4>4. k \in Nat
        BY <1>1
      <4> QED BY <4>1, <4>3, <4>4
    <3> HIDE DEF data, fr, next
    <3>12. Len(next) + 2 * (k + 1) <= Len(fed)
      <4> DEFINE l == Len(next)
                 t == Len(s.rest)
                 n == Len(fed)
      <4>1. l = t - u /\ t + 2 * k <= n /\ t \in Nat /\ k \in Nat /\ u \in Nat /\ u >= 2 /\ n \in Nat
        BY <1>1, <3>4, <3>7, <3>11
      <4> HIDE DEF l, t, n
      <4>2. l + 2 * (k + 1) <= n
        BY <4>1
      <4> QED BY <4>2 DEF l, n
    <3>13. after[k + 1].rest = next /\ after[k + 1].frames = Append(s.frames, x)
      BY <2>1, <3>6
    <3> QED BY <3>4, <3>7, <3>8, <3>9, <3>10, <3>12, <3>13
  <2>4. CASE ~Takes(s.rest)
    <3>1. d.used = 0
      BY <2>2, <2>4, DecodeIs
    <3>2. SubSeq(s.rest, 0 + 1, Len(s.rest)) = s.rest
      BY <2>2
    <3> HIDE DEF d
    <3>3. Frame!Drained(s) = [rest |-> s.rest, frames |-> s.frames]
      BY <3>1, <3>2 DEF Frame!Drained, d
    <3>4. after[k + 1].rest = s.rest /\ after[k + 1].frames = s.frames
      BY <2>1, <3>3
    <3> QED BY <2>2, <2>4, <3>4
  <2> QED BY <2>3, <2>4
<1> DEFINE Good == {k \in 0..rounds : Stage(after[k], k)}
<1>5. rounds \in Good
  <2>1. 0 \in Good
    <3> HIDE DEF Stage
    <3> QED BY <1>1, <1>3
  <2>2. \A k \in 0..(rounds - 1) : k \in Good => k + 1 \in Good
    <3> HIDE DEF Stage
    <3> QED BY <1>1, <1>4
  <2> HIDE DEF Good
  <2> QED BY <1>1, <2>1, <2>2, UpTo
<1>6. Stage(after[rounds], rounds)
  <2> HIDE DEF Stage
  <2> QED BY <1>5
<1> DEFINE last == after[rounds]
<1>7. ~Takes(last.rest)
  <2>1. Takes(last.rest) => Len(last.rest) >= 2 /\ Len(last.rest) + 2 * rounds <= Len(fed)
    BY <1>6 DEF Takes
  <2>2. Len(last.rest) \in Nat
    BY <1>6
  <2> DEFINE l == Len(last.rest)
             n == Len(fed)
  <2>3. /\ Takes(last.rest) => l >= 2 /\ l + 2 * rounds <= n
        /\ l \in Nat /\ n \in Nat /\ rounds \in Nat /\ n <= 2 * rounds + 1
    BY <1>1, <2>1, <2>2
  <2> HIDE DEF last, l, n
  <2> QED BY <2>3
<1> QED BY <1>2, <1>6, <1>7

-----------------------------------------------------------------------------
(* The invariant of the frames.                                               *)

Stream == fBuffer \o fWire
FrameTypes ==
    /\ fConfig.checksum \in BOOLEAN /\ fConfig.compression \in {"none", "zlib"}
    /\ fConn \in Nat \ {0} /\ fCount \in Nat /\ fOver \in Nat /\ fDamaged \in Nat /\ fDamaged <= fConn
    /\ fSent \in Seq(SentFrames) /\ fWire \in Seq(Units) /\ fBuffer \in Seq(Units) /\ fOut \in Seq(HandedFrames)
    /\ fStatus \in {"reading", "failed", "closed"}
Numbered ==
    /\ Len(fSent) <= fCount
    /\ \A i \in 1..Len(fSent) : fSent[i].id = First - 1 + i
\* The buffer has no frame at its front, and the reader knows if it has a bad one.
Stuck ==
    /\ ~Takes(fBuffer)
    /\ fStatus = "failed" => Frame!DecodeFrame(fBuffer).error # ""
    /\ fStatus = "reading" /\ fOver = 0 => Frame!DecodeFrame(fBuffer).error = ""
    /\ fStatus = "closed" => fWire = <<>>
    /\ fOver > 0 /\ fStatus # "closed" /\ fOut = <<>> => fOver <= Len(fBuffer)
FrameInv == FrameTypes /\ Numbered /\ Right(Stream, fOut) /\ KnownIds(Stream) /\ Stuck

\* What is said of units and frames changes with what it is said of only.
LEMMA SameSaid ==
    ASSUME fSent' = fSent, fDamaged' = fDamaged, fConn' = fConn, fOver' = fOver, fCount' = fCount, fCodec' = fCodec,
           fStatus # "closed", NEW data, NEW o, Right(data, o), KnownIds(data)
    PROVE  Right(data, o)' /\ KnownIds(data)'
<1>1. \A d : Takes(d)' <=> Takes(d)
  BY DEF Takes, TakesHead, TakesBody, TotalOf
<1>2. First' = First
  BY DEF First
<1>3. Before(data, o)' <=> Before(data, o)
  BY <1>1, <1>2 DEF Before
<1>4. After(data)' <=> After(data)
  BY <1>2 DEF After
<1>5. \A u, f, j : Arrives(u, f, j)' <=> Arrives(u, f, j)
  BY DEF Arrives
<1>6. \A f : Size(f)' = Size(f)
  BY DEF Size, BodyOf
<1>7. Follows(data, Len(o))' <=> Follows(data, Len(o))
  BY <1>5, <1>6 DEF Follows
<1>8. InOrder(o)' <=> InOrder(o)
  BY DEF InOrder, Fits, Frame!Same, Frame!Readable
<1>9. KnownIds(data)'
  BY DEF KnownIds
<1> QED BY <1>2, <1>3, <1>4, <1>7, <1>8, <1>9 DEF Right

LEMMA ShortWaits ==
    ASSUME NEW data \in Seq(Units), Len(data) < 2
    PROVE  ~Takes(data) /\ Frame!DecodeFrame(data).error = ""
<1>1. ~Takes(data)
  BY DEF Takes
<1> QED BY <1>1, DecodeIs

LEMMA FramesInit == Frame!Init => FrameInv
<1> SUFFICES ASSUME Frame!Init PROVE FrameInv
  OBVIOUS
<1>1. /\ fConn = 1 /\ fCount = 0 /\ fSent = <<>> /\ fWire = <<>> /\ fBuffer = <<>> /\ fOut = <<>>
      /\ fStatus = "reading" /\ fOver = 0 /\ fDamaged = 0
      /\ fConfig \in [checksum : BOOLEAN, compression : Frame!Compressions]
  BY DEF Frame!Init
<1>2. FrameTypes
  BY <1>1 DEF FrameTypes, Frame!Compressions
<1>3. Numbered
  BY <1>1 DEF Numbered
<1>4. Stream = <<>> /\ Stream \in Seq(Units)
  BY <1>1 DEF Stream
<1>5. ~Takes(fBuffer) /\ Frame!DecodeFrame(fBuffer).error = ""
  <2>1. fBuffer \in Seq(Units) /\ Len(fBuffer) < 2
    BY <1>1
  <2> QED BY <2>1, ShortWaits
<1>6. Stuck
  <2>1. fStatus # "failed" /\ fStatus # "closed" /\ ~(fOver > 0)
    BY <1>1
  <2> QED BY <1>5, <2>1 DEF Stuck
<1>7. KnownIds(Stream)
  BY <1>4 DEF KnownIds
<1>8. Right(Stream, fOut)
  <2>1. Follows(<<>>, 0)
    <3> DEFINE ends == [i \in 0..0 |-> 0]
    <3>1. ends \in [0..0 -> Nat] /\ ends[0] = 0 /\ Len(<<>>) = 0
      OBVIOUS
    <3>2. Len(fSent) = 0
      BY <1>1
    <3>3. 0..0 = 0..Len(fSent) /\ \A h, i \in 0..0 : ends[h] <= ends[i]
      BY <3>2
    <3>4. (0 + 1)..0 = {}
      OBVIOUS
    <3> HIDE DEF ends
    <3> QED BY <3>1, <3>2, <3>3, <3>4 DEF Follows
  <2>2. InOrder(<<>>)
    BY <1>1 DEF InOrder
  <2> QED BY <1>1, <1>4, <2>1, <2>2 DEF Right
<1> QED BY <1>2, <1>3, <1>6, <1>7, <1>8 DEF FrameInv

LEMMA FedStream ==
    ASSUME NEW S, NEW a \in Seq(S), NEW b \in Seq(S), NEW n \in 1..Len(b)
    PROVE  LET fed == a \o SubSeq(b, 1, n)
               w == SubSeq(b, n + 1, Len(b))
           IN  fed \in Seq(S) /\ w \in Seq(S) /\ fed \o w = a \o b /\ Len(fed) >= Len(a)
<1> DEFINE c == SubSeq(b, 1, n)
           w == SubSeq(b, n + 1, Len(b))
<1>1. c \in Seq(S) /\ Len(c) = n /\ w \in Seq(S)
  BY RestIs
<1>2. c \o w = b
  <2>1. SubSeq(b, 1, n) \o SubSeq(b, n + 1, Len(b)) = SubSeq(b, 1, Len(b))
    BY ConcatAdjacentSubSeq
  <2> QED BY <2>1
<1> HIDE DEF c, w
<1>6. c \in Seq(S) /\ w \in Seq(S)
  BY <1>1
<1>3. (a \o c) \o w = a \o (c \o w)
  BY <1>6, Regroup, SMTT(30)
<1>4. a \o c \in Seq(S) /\ Len(a \o c) = Len(a) + n /\ Len(a) \in Nat
  <2>1. a \o c \in Seq(S) /\ Len(a \o c) = Len(a) + Len(c)
    BY <1>6, ConcatProperties
  <2> QED BY <1>1, <2>1
<1>5. (a \o c) \o w = a \o b /\ Len(a \o c) >= Len(a)
  BY <1>2, <1>3, <1>4
<1> QED BY <1>4, <1>5, <1>6 DEF c, w

LEMMA ChunkKeeps ==
    ASSUME FrameInv, Frame!LimitsAreLimits, NEW n \in 1..Len(fWire), Frame!Chunk(n)
    PROVE  FrameInv'
<1> DEFINE fed == fBuffer \o SubSeq(fWire, 1, n)
           w == SubSeq(fWire, n + 1, Len(fWire))
           d == Frame!Drain(fed)
<1>1. /\ fStatus = "reading"
      /\ fBuffer' = d.rest /\ fOut' = fOut \o d.frames /\ fWire' = w
      /\ fStatus' = IF Frame!DecodeFrame(d.rest).error = "" THEN "reading" ELSE "failed"
      /\ fCodec' = fCodec /\ fConfig' = fConfig /\ fConn' = fConn /\ fCount' = fCount /\ fSent' = fSent
      /\ fOver' = fOver /\ fDamaged' = fDamaged
  BY DEF Frame!Chunk
<1>2. FrameTypes /\ Numbered /\ Right(Stream, fOut) /\ KnownIds(Stream) /\ Stuck
  BY DEF FrameInv
<1>3. fWire \in Seq(Units) /\ fBuffer \in Seq(Units) /\ fOut \in Seq(HandedFrames) /\ fSent \in Seq(SentFrames)
      /\ fOver \in Nat /\ fCount \in Nat
  BY <1>2 DEF FrameTypes
<1>4. fed \in Seq(Units) /\ w \in Seq(Units) /\ fed \o w = Stream /\ Len(fed) >= Len(fBuffer)
  BY <1>3, FedStream DEF Stream
<1> HIDE DEF fed, w, d
<1>5. /\ d.rest \in Seq(Units) /\ d.frames \in Seq(HandedFrames)
      /\ Right(d.rest \o w, fOut \o d.frames) /\ KnownIds(d.rest \o w)
      /\ ~Takes(d.rest)
      /\ d.frames = <<>> => d.rest = fed
  BY <1>1, <1>2, <1>3, <1>4, AllOut DEF d
<1> PICK b : b = d.rest
  OBVIOUS
<1> PICK g : g = d.frames
  OBVIOUS
<1> PICK v : v = w
  OBVIOUS
<1> PICK o : o = fOut
  OBVIOUS
<1>6. Right(b \o v, o \o g)' /\ KnownIds(b \o v)'
  <2>1. Right(b \o v, o \o g) /\ KnownIds(b \o v) /\ fStatus # "closed"
    BY <1>1, <1>5
  <2> QED BY <1>1, <2>1, SameSaid
<1>7. fBuffer' = b /\ fWire' = v /\ fOut' = o \o g
  BY <1>1
<1>8. Right(Stream, fOut)' /\ KnownIds(Stream)'
  BY <1>6, <1>7 DEF Stream, Right, KnownIds
<1>9. FrameTypes'
  <2>1. fOut' \in Seq(HandedFrames)
    <3>1. fOut \in Seq(HandedFrames) /\ d.frames \in Seq(HandedFrames)
      BY <1>3, <1>5
    <3>2. fOut \o d.frames \in Seq(HandedFrames)
      BY <3>1, ConcatProperties
    <3> QED BY <1>1, <3>2
  <2>2. fBuffer' \in Seq(Units) /\ fWire' \in Seq(Units) /\ fStatus' \in {"reading", "failed", "closed"}
    BY <1>1, <1>4, <1>5
  <2> QED BY <1>1, <1>2, <2>1, <2>2 DEF FrameTypes
<1>10. Numbered'
  BY <1>1, <1>2 DEF Numbered, First
<1>11. Stuck'
  <2>1. ~Takes(fBuffer)'
    BY <1>1, <1>5 DEF Takes, TakesHead, TakesBody, TotalOf
  <2>2. (fOver > 0 /\ fOut = <<>>)' => (fOver <= Len(fBuffer))'
    <3> SUFFICES ASSUME fOver > 0, fOut \o d.frames = <<>> PROVE fOver <= Len(d.rest)
      BY <1>1
    <3>1. fOut = <<>> /\ d.frames = <<>>
      BY <1>3, <1>5, ConcatEmptySeq
    <3>2. fOver <= Len(fBuffer)
      BY <1>1, <1>2, <3>1 DEF Stuck
    <3>3. Len(fed) \in Nat /\ Len(fBuffer) \in Nat
      BY <1>3, <1>4
    <3> QED BY <1>3, <1>4, <1>5, <3>1, <3>2, <3>3
  <2>3. Frame!DecodeFrame(fBuffer)' = Frame!DecodeFrame(d.rest)
    BY <1>1 DEF Frame!DecodeFrame, Frame!DecodeBody
  <2> QED BY <1>1, <2>1, <2>2, <2>3 DEF Stuck
<1> QED BY <1>8, <1>9, <1>10, <1>11 DEF FrameInv

LEMMA BodyOfAnswer == \A o \in DOMAIN Frame!AnswerBodies : Frame!Bodies[o] = Frame!AnswerBodies[o]
<1>1. \A o \in DOMAIN Frame!AnswerBodies : o \in DOMAIN Frame!Bodies /\ o \notin DOMAIN Frame!RequestBodies
  BY BodyDomains
<1>2. \A o \in DOMAIN Frame!Bodies :
          Frame!Bodies[o] = IF o \in DOMAIN Frame!RequestBodies THEN Frame!RequestBodies[o] ELSE Frame!AnswerBodies[o]
  BY DEF Frame!Bodies
<1> QED BY <1>1, <1>2

LEMMA PairsAreFinite ==
    ASSUME NEW x, NEW y, NEW z
    PROVE  IsFiniteSet({x, y}) /\ IsFiniteSet({x, y, z})
<1>1. IsFiniteSet({x})
  BY FS_Singleton
<1>2. IsFiniteSet({x} \cup {y})
  BY <1>1, FS_AddElement
<1>3. IsFiniteSet(({x} \cup {y}) \cup {z})
  BY <1>2, FS_AddElement
<1>4. {x, y} = {x} \cup {y} /\ {x, y, z} = ({x} \cup {y}) \cup {z}
  OBVIOUS
<1> QED BY <1>2, <1>3, <1>4

\* What the model's peers say are bodies this client knows.
LEMMA PayloadIs ==
    ASSUME NEW m, IsFiniteSet(DOMAIN m)
    PROVE  /\ IsFiniteSet(Frame!ToPayload(m))
           /\ \A p \in Frame!ToPayload(m) : p[1] \in DOMAIN m
           /\ \A p, q \in Frame!ToPayload(m) : p[1] = q[1] => p = q
<1> DEFINE D == {g \in DOMAIN m : g = "count" => m[g] # "None"}
           pair(f) == <<f, IF m[f] = "[b, a]" THEN "[a, b]" ELSE m[f]>>
<1>1. Frame!ToPayload(m) = {pair(f) : f \in D}
  BY DEF Frame!ToPayload
<1>2. IsFiniteSet(D)
  BY FS_Subset
<1>3. \A f : pair(f)[1] = f
  OBVIOUS
<1> HIDE DEF pair
<1>4. IsFiniteSet({pair(f) : f \in D})
  <2> DEFINE T == {pair(f) : f \in D}
             g == [f \in D |-> pair(f)]
  <2>1. g \in Surjection(D, T)
    <3> HIDE DEF D
    <3> QED BY DEF Surjection
  <2> HIDE DEF D, T, g
  <2>2. IsFiniteSet(T)
    BY <1>2, <2>1, FS_Surjection
  <2> QED BY <2>2 DEF T
<1> QED BY <1>1, <1>3, <1>4

LEMMA AnswerIs ==
    ASSUME NEW a \in Frame!Answers \cup {Frame!Hello}
    PROVE  /\ a.opcode \in DOMAIN Frame!Bodies /\ a.payload \in Payloads /\ IsFiniteSet(a.payload)
           /\ \A p \in a.payload : p[1] \in DOMAIN Frame!Bodies[a.opcode]
           /\ \A p, q \in a.payload : p[1] = q[1] => p = q
<1>1. a.payload \in Payloads
  BY DEF Payloads
<1>2. CASE a = Frame!Hello
  <2>1. a.opcode = "PONG" /\ a.payload = {<<"nonce", "7">>}
    BY <1>2 DEF Frame!Hello
  <2>2. "PONG" \in DOMAIN Frame!Bodies
    BY BodyDomains
  <2>3. "nonce" \in DOMAIN Frame!Bodies["PONG"]
    <3>1. "nonce" \in DOMAIN Frame!AnswerBodies["PONG"]
      BY DEF Frame!AnswerBodies
    <3> QED BY <3>1, BodyOfAnswer, BodyDomains
  <2>4. IsFiniteSet({<<"nonce", "7">>})
    BY FS_Singleton
  <2> QED BY <1>1, <2>1, <2>2, <2>3, <2>4
<1>3. CASE a.opcode = "SCHEMA_RESULT" /\ a.payload = {}
  BY <1>1, <1>3, BodyDomains, FS_EmptySet
<1>4. ASSUME a.opcode = "HANDSHAKE_ACK",
             a.payload = Frame!ToPayload([server_version |-> "2", features |-> "[b, a]"])
      PROVE  a.opcode \in DOMAIN Frame!Bodies /\ IsFiniteSet(a.payload)
             /\ (\A p \in a.payload : p[1] \in DOMAIN Frame!Bodies[a.opcode])
             /\ (\A p, q \in a.payload : p[1] = q[1] => p = q)
  <2> DEFINE m == [server_version |-> "2", features |-> "[b, a]"]
  <2>1. DOMAIN m = {"server_version", "features"}
    OBVIOUS
  <2>2. IsFiniteSet({"server_version", "features"})
    BY FS_EmptySet, FS_AddElement, PairsAreFinite
  <2>3. "server_version" \in DOMAIN Frame!Bodies["HANDSHAKE_ACK"] /\ "features" \in DOMAIN Frame!Bodies["HANDSHAKE_ACK"]
    <3>1. "server_version" \in DOMAIN Frame!AnswerBodies["HANDSHAKE_ACK"] /\ "features" \in DOMAIN Frame!AnswerBodies["HANDSHAKE_ACK"]
      BY DEF Frame!AnswerBodies
    <3> QED BY <3>1, BodyOfAnswer, BodyDomains
  <2> HIDE DEF m
  <2>4. IsFiniteSet(DOMAIN m)
    BY <2>1, <2>2
  <2>5. /\ IsFiniteSet(Frame!ToPayload(m))
        /\ \A p \in Frame!ToPayload(m) : p[1] \in DOMAIN m
        /\ \A p, q \in Frame!ToPayload(m) : p[1] = q[1] => p = q
    BY <2>4, PayloadIs
  <2>6. a.payload = Frame!ToPayload(m)
    BY <1>4 DEF m
  <2>7. "HANDSHAKE_ACK" \in DOMAIN Frame!Bodies
    BY BodyDomains
  <2>8. \A x \in DOMAIN m : x \in DOMAIN Frame!Bodies["HANDSHAKE_ACK"]
    BY <2>1, <2>3
  <2> QED BY <1>4, <2>5, <2>6, <2>7, <2>8
<1>5. ASSUME a.opcode = "QUERY_RESULT",
             a.payload = Frame!ToPayload([rows |-> "[r]", count |-> "3", metadata |-> "{m}"])
      PROVE  a.opcode \in DOMAIN Frame!Bodies /\ IsFiniteSet(a.payload)
             /\ (\A p \in a.payload : p[1] \in DOMAIN Frame!Bodies[a.opcode])
             /\ (\A p, q \in a.payload : p[1] = q[1] => p = q)
  <2> DEFINE m == [rows |-> "[r]", count |-> "3", metadata |-> "{m}"]
  <2>1. DOMAIN m = {"rows", "count", "metadata"}
    OBVIOUS
  <2>2. IsFiniteSet({"rows", "count", "metadata"})
    BY PairsAreFinite, FS_AddElement
  <2>3. /\ "rows" \in DOMAIN Frame!Bodies["QUERY_RESULT"] /\ "count" \in DOMAIN Frame!Bodies["QUERY_RESULT"]
        /\ "metadata" \in DOMAIN Frame!Bodies["QUERY_RESULT"]
    <3>1. /\ "rows" \in DOMAIN Frame!AnswerBodies["QUERY_RESULT"] /\ "count" \in DOMAIN Frame!AnswerBodies["QUERY_RESULT"]
          /\ "metadata" \in DOMAIN Frame!AnswerBodies["QUERY_RESULT"]
      BY DEF Frame!AnswerBodies
    <3> QED BY <3>1, BodyOfAnswer, BodyDomains
  <2> HIDE DEF m
  <2>4. IsFiniteSet(DOMAIN m)
    BY <2>1, <2>2
  <2>5. /\ IsFiniteSet(Frame!ToPayload(m))
        /\ \A p \in Frame!ToPayload(m) : p[1] \in DOMAIN m
        /\ \A p, q \in Frame!ToPayload(m) : p[1] = q[1] => p = q
    BY <2>4, PayloadIs
  <2>6. a.payload = Frame!ToPayload(m)
    BY <1>5 DEF m
  <2>7. "QUERY_RESULT" \in DOMAIN Frame!Bodies
    BY BodyDomains
  <2>8. \A x \in DOMAIN m : x \in DOMAIN Frame!Bodies["QUERY_RESULT"]
    BY <2>1, <2>3
  <2> QED BY <1>5, <2>5, <2>6, <2>7, <2>8
<1>6. \/ a = Frame!Hello
      \/ a.opcode = "SCHEMA_RESULT" /\ a.payload = {}
      \/ a.opcode = "HANDSHAKE_ACK" /\ a.payload = Frame!ToPayload([server_version |-> "2", features |-> "[b, a]"])
      \/ a.opcode = "QUERY_RESULT" /\ a.payload = Frame!ToPayload([rows |-> "[r]", count |-> "3", metadata |-> "{m}"])
  <2> DEFINE h == Frame!ToPayload([server_version |-> "2", features |-> "[b, a]"])
             q == Frame!ToPayload([rows |-> "[r]", count |-> "3", metadata |-> "{m}"])
  <2>1. \/ a = Frame!Hello
        \/ a = [opcode |-> "SCHEMA_RESULT", payload |-> {}]
        \/ a = [opcode |-> "HANDSHAKE_ACK", payload |-> h]
        \/ a = [opcode |-> "QUERY_RESULT", payload |-> q]
    BY DEF Frame!Answers
  <2> HIDE DEF h, q
  <2>2. a = [opcode |-> "SCHEMA_RESULT", payload |-> {}] => a.opcode = "SCHEMA_RESULT" /\ a.payload = {}
    OBVIOUS
  <2>3. a = [opcode |-> "HANDSHAKE_ACK", payload |-> h] => a.opcode = "HANDSHAKE_ACK" /\ a.payload = h
    OBVIOUS
  <2>4. a = [opcode |-> "QUERY_RESULT", payload |-> q] => a.opcode = "QUERY_RESULT" /\ a.payload = q
    OBVIOUS
  <2> QED BY <2>1, <2>2, <2>3, <2>4 DEF h, q
<1> QED BY <1>1, <1>2, <1>3, <1>4, <1>5, <1>6

Sending(a, odd) ==
    [opcode |-> IF odd = "opcode" THEN "?" ELSE a.opcode, payload |-> a.payload, checksum |-> fConfig.checksum,
     compression |-> IF odd = "compression" THEN "?" ELSE fConfig.compression,
     version |-> IF odd = "version" THEN 2 ELSE 1, id |-> fCount + 1]

LEMMA SendIs ==
    ASSUME NEW a \in Frame!Answers \cup {Frame!Hello}, NEW odd, fConfig.checksum \in BOOLEAN,
           fConfig.compression \in {"none", "zlib"}, fCount \in Nat
    PROVE  Sending(a, odd) \in SentFrames /\ Sending(a, odd).id = fCount + 1
<1> DEFINE o == IF odd = "opcode" THEN "?" ELSE a.opcode
           c == IF odd = "compression" THEN "?" ELSE fConfig.compression
           v == IF odd = "version" THEN 2 ELSE 1
           k == fConfig.checksum
           n == fCount + 1
           p == a.payload
           f == [opcode |-> o, payload |-> p, checksum |-> k, compression |-> c, version |-> v, id |-> n]
<1>1. o \in Opcodes /\ (o # "?" => o \in DOMAIN Frame!Bodies /\ o = a.opcode)
  BY AnswerIs DEF Opcodes, Frame!KnownOpcodes
<1>2. c \in {"none", "zlib", "?"} /\ v \in Nat /\ k \in BOOLEAN /\ n \in Nat
  OBVIOUS
<1>3. /\ p \in Payloads /\ IsFiniteSet(p) /\ \A x \in p : x[1] \in DOMAIN Frame!Bodies[a.opcode]
      /\ \A x, y \in p : x[1] = y[1] => x = y
  BY AnswerIs
<1> HIDE DEF o, c, v, k, n, p
<1>4. /\ f \in [opcode : Opcodes, payload : Payloads, checksum : BOOLEAN, compression : {"none", "zlib", "?"},
               version : Nat, id : Nat]
      /\ f.payload = p /\ f.opcode = o /\ f.id = n
  BY <1>1, <1>2, <1>3
<1> HIDE DEF f
<1>5. f \in SentFrames
  <2>1. f.opcode # "?" => f.opcode \in DOMAIN Frame!Bodies /\ Names(f) \subseteq DOMAIN Frame!Bodies[f.opcode]
    BY <1>1, <1>3, <1>4 DEF Names
  <2> QED BY <1>3, <1>4, <2>1 DEF SentFrames
<1> QED BY <1>4, <1>5 DEF Sending, f, o, c, v, k, n, p

LEMMA SizeIs ==
    ASSUME NEW f \in SentFrames
    PROVE  Size(f) \in Nat /\ Size(f) >= 2
<1>1. Size(f) \in Nat /\ Size(f) >= 2 + Len(BodyOf(f)) /\ Len(BodyOf(f)) \in Nat
  BY EncodeIs
<1> QED BY <1>1

\* One more frame at the end of the units, and a damage among them.
LEMMA FollowsLonger ==
    ASSUME fSent \in Seq(SentFrames), NEW f \in SentFrames, fSent' = Append(fSent, f),
           fDamaged' = fDamaged, fConn' = fConn,
           NEW data \in Seq(Units), NEW k \in Nat, k <= Len(fSent), Follows(data, k)
    PROVE  Follows(data \o Frame!EncodeFrame(f), k)'
<1> DEFINE n == Len(fSent)
           e == Frame!EncodeFrame(f)
           all == data \o e
<1>1. PICK ends \in [k..n -> Nat] :
        /\ ends[k] = 0 /\ ends[n] = Len(data)
        /\ \A h, i \in k..n : h <= i => ends[h] <= ends[i]
        /\ \A i \in (k + 1)..n :
              /\ ends[i] = ends[i - 1] + Size(fSent[i])
              /\ \A j \in 1..Size(fSent[i]) : Arrives(data[ends[i - 1] + j], fSent[i], j)
  BY DEF Follows
<1>2. /\ n \in Nat /\ k \in k..n /\ n \in k..n /\ Len(fSent') = n + 1 /\ fSent'[n + 1] = f
      /\ \A i \in 1..n : fSent'[i] = fSent[i] /\ fSent[i] \in SentFrames
  OBVIOUS
<1>3. e \in Seq(Units) /\ Len(e) = Size(f) /\ Size(f) \in Nat
  BY EncodeIs
<1>4. \A i \in (k + 1)..n : Size(fSent[i]) \in Nat
  <2>1. \A i \in (k + 1)..n : fSent[i] \in SentFrames
    BY <1>2
  <2> QED BY <2>1, SizeIs
<1> HIDE DEF n, e
<1>5. /\ all \in Seq(Units) /\ Len(all) = Len(data) + Size(f) /\ Len(data) \in Nat
      /\ \A i \in 1..Len(data) : all[i] = data[i]
      /\ \A i \in 1..Size(f) : all[Len(data) + i] = e[i]
  <2>1. /\ all \in Seq(Units) /\ Len(all) = Len(data) + Len(e)
        /\ \A i \in 1..(Len(data) + Len(e)) : all[i] = IF i <= Len(data) THEN data[i] ELSE e[i - Len(data)]
    BY <1>3, ConcatProperties
  <2> HIDE DEF all
  <2> QED BY <1>3, <2>1
<1> HIDE DEF all
<1> DEFINE new == [i \in k..(n + 1) |-> IF i = n + 1 THEN Len(data) + Size(f) ELSE ends[i]]
<1>6. /\ new \in [k..(n + 1) -> Nat] /\ new[n + 1] = Len(data) + Size(f) /\ new[k] = 0
      /\ \A i \in k..n : new[i] = ends[i] /\ ends[i] \in Nat /\ ends[i] <= Len(data)
  <2>1. \A i \in k..n : i # n + 1 /\ i \in k..(n + 1) /\ i <= n /\ ends[i] \in Nat /\ ends[i] <= Len(data)
    BY <1>1, <1>2
  <2>2. n + 1 \in k..(n + 1) /\ \A i \in k..(n + 1) : i = n + 1 \/ i \in k..n
    BY <1>2
  <2> QED BY <1>1, <1>2, <1>3, <1>5, <2>1, <2>2
<1> HIDE DEF new
<1>7. \A h, i \in k..(n + 1) : h <= i => new[h] <= new[i]
  <2> TAKE h, i \in k..(n + 1)
  <2>1. CASE i \in k..n
    <3>1. h <= i => h \in k..n
      BY <1>2, <2>1
    <3> QED BY <1>1, <1>6, <2>1, <3>1
  <2>2. CASE i = n + 1
    <3>1. h = n + 1 \/ h \in k..n
      BY <1>2
    <3> QED BY <1>3, <1>5, <1>6, <2>2, <3>1
  <2> QED BY <1>2, <2>1, <2>2
<1>8. ASSUME NEW i \in (k + 1)..(n + 1)
      PROVE  /\ new[i] = new[i - 1] + Size(fSent'[i])
             /\ \A j \in 1..Size(fSent'[i]) : Arrives(all[new[i - 1] + j], fSent'[i], j)
  <2>1. CASE i = n + 1
    <3>1. i - 1 = n /\ new[n] = Len(data) /\ fSent'[i] = f
      BY <1>1, <1>2, <1>6, <2>1
    <3>2. \A j \in 1..Size(f) : Arrives(all[Len(data) + j], f, j)
      BY <1>5 DEF Arrives, e
    <3> QED BY <1>6, <2>1, <3>1, <3>2
  <2>2. CASE i # n + 1
    <3>1. i \in (k + 1)..n /\ i - 1 \in k..n /\ i \in k..n /\ i \in 1..n
      BY <1>2, <2>2
    <3>2. fSent'[i] = fSent[i] /\ new[i] = ends[i] /\ new[i - 1] = ends[i - 1]
      BY <1>2, <1>6, <3>1
    <3>3. ends[i] = ends[i - 1] + Size(fSent[i]) /\ Size(fSent[i]) \in Nat /\ ends[i] <= Len(data) /\ ends[i - 1] \in Nat
      BY <1>1, <1>4, <1>6, <3>1
    <3>4. ASSUME NEW j \in 1..Size(fSent[i]) PROVE Arrives(all[ends[i - 1] + j], fSent[i], j)
      <4>1. Arrives(data[ends[i - 1] + j], fSent[i], j)
        BY <1>1, <3>1
      <4>2. ends[i - 1] + j \in 1..Len(data)
        <5> DEFINE s == Size(fSent[i])
                   a == ends[i - 1]
                   l == Len(data)
        <5>1. j \in 1..s /\ s \in Nat /\ a \in Nat /\ l \in Nat /\ a + s <= l
          BY <1>5, <3>3
        <5> HIDE DEF s, a, l
        <5>2. a + j \in 1..l
          BY <5>1
        <5> QED BY <5>2 DEF a, l
      <4> QED BY <1>5, <4>1, <4>2
    <3> QED BY <3>2, <3>3, <3>4
  <2> QED BY <2>1, <2>2
<1>9. \A g : Size(g)' = Size(g)
  BY DEF Size, BodyOf
<1>10. \A u, g, j : Arrives(u, g, j)' <=> Arrives(u, g, j)
  BY DEF Arrives
<1>11. Follows(all, k)'
  <2> DEFINE l == Len(fSent')
  <2>1. l = n + 1
    BY <1>2
  <2> HIDE DEF l
  <2>2. new \in [k..l -> Nat] /\ new[k] = 0 /\ new[l] = Len(all)
    BY <1>5, <1>6, <2>1
  <2>3. \A h, i \in k..l : h <= i => new[h] <= new[i]
    BY <1>7, <2>1
  <2>4. \A i \in (k + 1)..l :
           /\ new[i] = new[i - 1] + Size(fSent'[i])
           /\ \A j \in 1..Size(fSent'[i]) : Arrives(all[new[i - 1] + j], fSent'[i], j)
    BY <1>8, <2>1
  <2> QED BY <1>9, <1>10, <2>2, <2>3, <2>4 DEF Follows, l
<1> QED BY <1>11 DEF all, e

LEMMA FollowsDamaged ==
    ASSUME fSent \in Seq(SentFrames), fSent' = fSent, fDamaged' = fConn, fConn' = fConn,
           NEW data \in Seq(Units), NEW new \in Seq(Units), Len(new) = Len(data),
           \A i \in 1..Len(data) : new[i] = data[i] \/ new[i] = Frame!Junk,
           NEW k \in Nat, Follows(data, k)
    PROVE  Follows(new, k)'
<1> DEFINE n == Len(fSent)
<1>1. PICK ends \in [k..n -> Nat] :
        /\ ends[k] = 0 /\ ends[n] = Len(data)
        /\ \A h, i \in k..n : h <= i => ends[h] <= ends[i]
        /\ \A i \in (k + 1)..n :
              /\ ends[i] = ends[i - 1] + Size(fSent[i])
              /\ \A j \in 1..Size(fSent[i]) : Arrives(data[ends[i - 1] + j], fSent[i], j)
  BY DEF Follows
<1>2. n \in Nat
  OBVIOUS
<1>3. ASSUME NEW i \in (k + 1)..n, NEW j \in 1..Size(fSent[i])
      PROVE  Arrives(new[ends[i - 1] + j], fSent[i], j)'
  <2>1. i \in k..n /\ i - 1 \in k..n /\ n \in k..n /\ i <= n /\ i \in 1..n
    BY <1>2
  <2>2. Size(fSent[i]) \in Nat
    BY <2>1, SizeIs
  <2>3. ends[i] = ends[i - 1] + Size(fSent[i]) /\ ends[i] <= Len(data) /\ ends[i - 1] \in Nat
    BY <1>1, <2>1
  <2>4. ends[i - 1] + j \in 1..Len(data)
    <3> DEFINE s == Size(fSent[i])
               a == ends[i - 1]
               l == Len(data)
    <3>1. j \in 1..s /\ s \in Nat /\ a \in Nat /\ l \in Nat /\ a + s <= l
      BY <2>2, <2>3
    <3> HIDE DEF s, a, l
    <3>2. a + j \in 1..l
      BY <3>1
    <3> QED BY <3>2 DEF a, l
  <2>5. Arrives(data[ends[i - 1] + j], fSent[i], j)
    BY <1>1
  <2>6. new[ends[i - 1] + j] = data[ends[i - 1] + j] \/ new[ends[i - 1] + j] = Frame!Junk
    BY <2>4
  <2> QED BY <2>5, <2>6 DEF Arrives
<1>4. \A g : Size(g)' = Size(g)
  BY DEF Size, BodyOf
<1> HIDE DEF n
<1>5. n' = n
  BY DEF n
<1> QED BY <1>1, <1>3, <1>4 DEF Follows, n

LEMMA LongerIs ==
    ASSUME NEW S, NEW s \in Seq(S), NEW x \in S
    PROVE  /\ Append(s, x) \in Seq(S) /\ Len(Append(s, x)) = Len(s) + 1 /\ Append(s, x)[Len(s) + 1] = x
           /\ Append(s, x) # <<>> /\ \A i \in 1..Len(s) : Append(s, x)[i] = s[i]
<1> DEFINE a == Append(s, x)
           l == Len(s)
<1>1. a \in Seq(S) /\ Len(a) = l + 1 /\ l \in Nat /\ a[l + 1] = x /\ \A i \in 1..l : a[i] = s[i]
  BY AppendProperties
<1> HIDE DEF a, l
<1>2. Len(a) # 0
  BY <1>1
<1>3. a # <<>>
  BY <1>2
<1> QED BY <1>1, <1>3 DEF a, l

\* One more frame sent keeps everything right.
LEMMA OneSent ==
    ASSUME NEW f \in SentFrames, f.id = fCount + 1, fCount \in Nat, fOver \in Nat, fSent \in Seq(SentFrames),
           Len(fSent) <= fCount, fSent' = Append(fSent, f), fCount' = fCount + 1, fCodec' = fCodec,
           fConn' = fConn, fStatus' = fStatus, fOver' = fOver, fDamaged' = fDamaged, fStatus # "closed",
           NEW data \in Seq(Units), NEW o \in Seq(HandedFrames), Right(data, o), KnownIds(data)
    PROVE  Right(data \o Frame!EncodeFrame(f), o)' /\ KnownIds(data \o Frame!EncodeFrame(f))' /\ First' = First
<1> DEFINE e == Frame!EncodeFrame(f)
           n == Len(fSent)
           all == data \o e
<1>1. /\ e \in Seq(Units) /\ Len(e) = Size(f) /\ Size(f) \in Nat /\ Size(f) >= 2
      /\ \A i \in 1..Size(f) : i # 2 => e[i].k # "header"
      /\ e[2].meta.id = fCount + 1
  <2>1. /\ e \in Seq(Units) /\ Len(e) = Size(f) /\ e[2].meta = MetaOf(f)
        /\ \A i \in 1..Size(f) : i # 2 => e[i].k # "header"
    BY EncodeIs
  <2>2. MetaOf(f).id = fCount + 1
    BY MetaOfIs
  <2> QED BY <2>1, <2>2, SizeIs
<1> HIDE DEF e
<1>2. /\ all \in Seq(Units) /\ Len(all) = Len(data) + Size(f) /\ Len(data) \in Nat
      /\ \A i \in 1..Len(data) : all[i] = data[i]
      /\ \A i \in 1..Size(f) : all[Len(data) + i] = e[i]
  <2>1. /\ all \in Seq(Units) /\ Len(all) = Len(data) + Len(e)
        /\ \A i \in 1..(Len(data) + Len(e)) : all[i] = IF i <= Len(data) THEN data[i] ELSE e[i - Len(data)]
    BY <1>1, ConcatProperties
  <2>2. Len(e) = Size(f) /\ Size(f) \in Nat /\ Len(data) \in Nat
    BY <1>1
  <2> HIDE DEF all
  <2> QED BY <2>1, <2>2
<1> HIDE DEF all
<1>3. /\ n \in Nat /\ n <= fCount /\ Len(fSent') = n + 1 /\ fSent'[n + 1] = f /\ fSent' # <<>>
      /\ fSent' \in Seq(SentFrames) /\ \A i \in 1..n : fSent'[i] = fSent[i]
  BY LongerIs
<1>4. fSent = <<>> <=> n = 0
  OBVIOUS
<1> HIDE DEF n
<1>5. First \in Nat /\ First' = First /\ First = fCount - n + 1
  <2>1. First' = (fCount + 1) - (n + 1) + 1
    BY <1>3 DEF First
  <2>2. First = fCount - n + 1
    BY DEF First, n
  <2> QED BY <1>3, <2>1, <2>2
<1>6. \A i \in 1..Len(all) : all[i].k = "header" =>
           \/ i \in 1..Len(data) /\ data[i].k = "header" /\ all[i] = data[i]
           \/ i = Len(data) + 2 /\ all[i].meta.id = fCount + 1
  <2> TAKE i \in 1..Len(all)
  <2>1. i \in 1..Len(data) \/ (i - Len(data) \in 1..Size(f) /\ Len(data) + (i - Len(data)) = i)
    BY <1>1, <1>2
  <2> DEFINE j == i - Len(data)
  <2>2. CASE j \in 1..Size(f) /\ Len(data) + j = i
    <3>1. all[i] = e[j]
      BY <1>2, <2>2
    <3>2. j # 2 => e[j].k # "header"
      BY <1>1, <2>2
    <3>3. j = 2 => i = Len(data) + 2
      BY <2>2
    <3> QED BY <1>1, <3>1, <3>2, <3>3
  <2> QED BY <1>2, <2>1, <2>2
<1>7. \A i \in 1..Len(data) : data[i].k = "header" => data[i].meta.id <= fCount /\ data[i].meta.id \in Nat
  <2>1. \A i \in 1..Len(data) : data[i] \in Units
    OBVIOUS
  <2>2. \A i \in 1..Len(data) : data[i].k = "header" => data[i].meta.id \in Nat
    BY <2>1, UnitIs, MetaTypes
  <2> QED BY <2>2 DEF KnownIds
<1>8. KnownIds(all)'
  <2>1. ASSUME NEW i \in 1..Len(all), all[i].k = "header" PROVE all[i].meta.id <= fCount + 1
    <3>1. CASE i \in 1..Len(data) /\ data[i].k = "header" /\ all[i] = data[i]
      <4>1. data[i].meta.id <= fCount /\ data[i].meta.id \in Nat
        BY <1>7, <3>1
      <4> QED BY <3>1, <4>1
    <3> QED BY <1>6, <2>1, <3>1
  <2> QED BY <2>1 DEF KnownIds
<1>9. ASSUME fOver = 0 PROVE InOrder(o)' /\ Follows(all, Len(o))'
  <2>1. InOrder(o) /\ Follows(data, Len(o)) /\ Len(o) \in Nat
    BY <1>9 DEF Right
  <2>2. Len(o) <= n /\ \A i \in 1..Len(o) : i \in 1..n
    BY <1>3, <2>1 DEF InOrder, n
  <2>3. InOrder(o)'
    <3>1. Len(o) <= Len(fSent')
      BY <1>3, <2>1, <2>2
    <3>2. \A i \in 1..Len(o) : Fits(o[i], fSent[i]) /\ (fDamaged # fConn => Frame!Readable(fSent[i]))
      BY <2>1 DEF InOrder
    <3>3. \A x, g : (Fits(x, g)' <=> Fits(x, g)) /\ (Frame!Readable(g)' <=> Frame!Readable(g))
      BY DEF Fits, Frame!Same, Frame!Readable
    <3>4. \A i \in 1..Len(o) : fSent'[i] = fSent[i]
      BY <1>3, <2>2
    <3> QED BY <3>1, <3>2, <3>3, <3>4 DEF InOrder
  <2>4. Follows(all, Len(o))'
    <3>1. Len(o) <= Len(fSent)
      BY <2>2 DEF n
    <3> QED BY <2>1, <3>1, FollowsLonger DEF all, e
  <2> QED BY <2>3, <2>4
<1>10. ASSUME fOver > 0 PROVE (\A i \in 1..Len(o) : o[i].id # First) /\ (Before(all, o)' \/ After(all)')
  <2>1. (\A i \in 1..Len(o) : o[i].id # First) /\ (Before(data, o) \/ After(data))
    BY <1>10 DEF Right
  <2>2. CASE After(data)
    <3>1. n # 0 /\ \A i \in 2..Len(data) : data[i].k = "header" => data[i].meta.id # First
      BY <1>4, <2>2 DEF After
    <3>2. fCount + 1 # First
      BY <1>3, <1>5, <3>1
    <3>3. ASSUME NEW i \in 2..Len(all), all[i].k = "header" PROVE all[i].meta.id # First
      <4>1. i \in 1..Len(all) /\ (i \in 1..Len(data) => i \in 2..Len(data))
        BY <1>2
      <4> QED BY <1>6, <3>1, <3>2, <3>3, <4>1
    <3>4. After(all)'
      BY <1>3, <1>5, <3>3 DEF After
    <3> QED BY <2>1, <3>4
  <2>3. CASE Before(data, o)
    <3>1. /\ o = <<>> /\ fOver <= Len(data) /\ ~Takes(SubSeq(data, 1, fOver)) /\ (n = 0 => Len(data) = fOver)
          /\ \A i \in 1..Len(data) : data[i].k = "header" /\ data[i].meta.id = First => i = fOver + 2
      BY <1>4, <2>3 DEF Before
    <3>2. SubSeq(all, 1, fOver) = SubSeq(data, 1, fOver)
      <4>1. \A i \in 1..fOver : all[i] = data[i]
        BY <1>2, <3>1
      <4> QED BY <1>2, <3>1, <4>1
    <3>3. ~Takes(SubSeq(all, 1, fOver))'
      <4> PICK s : s = SubSeq(all, 1, fOver)
        OBVIOUS
      <4>1. Takes(s)' <=> Takes(s)
        BY DEF Takes, TakesHead, TakesBody, TotalOf
      <4> QED BY <3>1, <3>2, <4>1
    <3>4. ASSUME NEW i \in 1..Len(all), all[i].k = "header", all[i].meta.id = First PROVE i = fOver + 2
      <4>1. CASE i = Len(data) + 2 /\ all[i].meta.id = fCount + 1
        <5>1. n = 0
          BY <1>3, <1>5, <3>4, <4>1
        <5> QED BY <3>1, <4>1, <5>1
      <4> QED BY <1>6, <3>1, <3>4, <4>1
    <3>5. fOver <= Len(all)
      BY <1>1, <1>2, <3>1
    <3>6. Before(all, o)'
      BY <1>3, <1>5, <3>1, <3>3, <3>4, <3>5 DEF Before
    <3> QED BY <2>1, <3>6
  <2> QED BY <2>1, <2>2, <2>3
<1>11. Right(all, o)'
  BY <1>3, <1>5, <1>9, <1>10 DEF Right
<1> QED BY <1>5, <1>8, <1>11 DEF all, e

LEMMA SendKeeps ==
    ASSUME FrameInv, NEW a \in Frame!Answers \cup {Frame!Hello}, NEW odd, Frame!Send(a, odd)
    PROVE  FrameInv'
<1> PICK f : f = Sending(a, odd)
  OBVIOUS
<1> PICK d : d = Stream
  OBVIOUS
<1> PICK o : o = fOut
  OBVIOUS
<1> DEFINE e == Frame!EncodeFrame(f)
<1>1. /\ fStatus # "closed" /\ fSent' = Append(fSent, f) /\ fWire' = fWire \o e /\ fCount' = fCount + 1
      /\ fCodec' = fCodec /\ fConfig' = fConfig /\ fConn' = fConn /\ fBuffer' = fBuffer /\ fOut' = fOut
      /\ fStatus' = fStatus /\ fOver' = fOver /\ fDamaged' = fDamaged
  BY DEF Frame!Send, Sending
<1>2. FrameTypes /\ Numbered /\ Right(Stream, fOut) /\ KnownIds(Stream) /\ Stuck
  BY DEF FrameInv
<1>3. /\ fConfig.checksum \in BOOLEAN /\ fConfig.compression \in {"none", "zlib"} /\ fCount \in Nat /\ fOver \in Nat
      /\ fSent \in Seq(SentFrames) /\ fWire \in Seq(Units) /\ fBuffer \in Seq(Units) /\ fOut \in Seq(HandedFrames)
  BY <1>2 DEF FrameTypes
<1>4. f \in SentFrames /\ f.id = fCount + 1
  <2>2. fConfig.checksum \in BOOLEAN /\ fConfig.compression \in {"none", "zlib"} /\ fCount \in Nat
    BY <1>3
  <2> QED BY <2>2, SendIs
<1>5. e \in Seq(Units)
  BY <1>4, EncodeIs
<1> HIDE DEF e
<1>6. d \in Seq(Units) /\ Stream' = d \o e
  <2>1. (fBuffer \o fWire) \o e = fBuffer \o (fWire \o e)
    <3>1. fBuffer \in Seq(Units) /\ fWire \in Seq(Units)
      BY <1>3
    <3> QED BY <1>5, <3>1, Regroup, SMTT(30)
  <2>2. fBuffer \o fWire \in Seq(Units)
    BY <1>3
  <2> QED BY <1>1, <2>1, <2>2 DEF Stream
<1>7. Len(fSent) <= fCount /\ Right(d, o) /\ KnownIds(d) /\ o \in Seq(HandedFrames)
  BY <1>2, <1>3 DEF Numbered
<1>8. Right(d \o e, o)' /\ KnownIds(d \o e)' /\ First' = First
  BY <1>1, <1>3, <1>4, <1>6, <1>7, OneSent DEF e
<1>9. /\ Len(fSent) \in Nat /\ Len(fSent') = Len(fSent) + 1 /\ fSent'[Len(fSent) + 1] = f
      /\ fSent' \in Seq(SentFrames) /\ \A i \in 1..Len(fSent) : fSent'[i] = fSent[i]
  BY <1>1, <1>3, <1>4, LongerIs
<1>10. Numbered'
  <2>1. First = fCount - Len(fSent) + 1
    BY DEF First
  <2>2. \A i \in 1..Len(fSent) : fSent[i].id = First - 1 + i
    BY <1>2 DEF Numbered
  <2>3. ASSUME NEW i \in 1..Len(fSent') PROVE fSent'[i].id = First - 1 + i
    <3>1. i \in 1..Len(fSent) \/ i = Len(fSent) + 1
      BY <1>9
    <3>2. First - 1 + (Len(fSent) + 1) = fCount + 1
      BY <1>3, <1>9, <2>1
    <3> QED BY <1>4, <1>9, <2>2, <3>1, <3>2
  <2>4. Len(fSent') <= fCount'
    BY <1>1, <1>3, <1>7, <1>9
  <2> QED BY <1>8, <2>3, <2>4 DEF Numbered
<1>11. Right(Stream, fOut)' /\ KnownIds(Stream)'
  <2>1. fOut' = o /\ Stream' = d \o e
    BY <1>1, <1>6
  <2> QED BY <1>8, <2>1 DEF Right, KnownIds, e
<1>12. FrameTypes'
  <2>1. fWire' \in Seq(Units) /\ fCount' \in Nat
    BY <1>1, <1>3, <1>5
  <2> QED BY <1>1, <1>2, <1>9, <2>1 DEF FrameTypes
<1>13. Stuck'
  <2>1. (Takes(fBuffer)' <=> Takes(fBuffer)) /\ Frame!DecodeFrame(fBuffer)' = Frame!DecodeFrame(fBuffer)
    BY <1>1 DEF Takes, TakesHead, TakesBody, TotalOf, Frame!DecodeFrame, Frame!DecodeBody
  <2> QED BY <1>1, <1>2, <2>1 DEF Stuck
<1> QED BY <1>10, <1>11, <1>12, <1>13 DEF FrameInv

LEMMA DamageKeeps ==
    ASSUME FrameInv, NEW k \in 1..Len(fWire), Frame!Damage(k)
    PROVE  FrameInv'
<1> PICK d : d = Stream
  OBVIOUS
<1> PICK o : o = fOut
  OBVIOUS
<1> PICK v : v = [fWire EXCEPT ![k] = Frame!Junk]
  OBVIOUS
<1> PICK b : b = fBuffer
  OBVIOUS
<1> DEFINE new == b \o v
           at == Len(b) + k
<1>1. /\ fDamaged # fConn /\ fWire' = v /\ fDamaged' = fConn
      /\ fCodec' = fCodec /\ fConfig' = fConfig /\ fConn' = fConn /\ fCount' = fCount /\ fSent' = fSent
      /\ fBuffer' = fBuffer /\ fOut' = fOut /\ fStatus' = fStatus /\ fOver' = fOver
  BY DEF Frame!Damage
<1>2. FrameTypes /\ Numbered /\ Right(Stream, fOut) /\ KnownIds(Stream) /\ Stuck
  BY DEF FrameInv
<1>3. /\ fWire \in Seq(Units) /\ b \in Seq(Units) /\ fSent \in Seq(SentFrames) /\ fConn \in Nat /\ fOver \in Nat
  BY <1>2 DEF FrameTypes
<1>4. v \in Seq(Units) /\ Len(v) = Len(fWire) /\ v[k] = Frame!Junk /\ \A j \in 1..Len(fWire) : j # k => v[j] = fWire[j]
  BY <1>3, JunkIs
<1>5. /\ d \in Seq(Units) /\ new \in Seq(Units) /\ Len(new) = Len(d) /\ Len(d) = Len(b) + Len(fWire)
      /\ Len(b) \in Nat /\ at \in 1..Len(d) /\ at > Len(b)
      /\ new[at] = Frame!Junk /\ \A j \in 1..Len(d) : j # at => new[j] = d[j]
  <2>1. /\ new \in Seq(Units) /\ Len(new) = Len(b) + Len(v)
        /\ \A j \in 1..(Len(b) + Len(v)) : new[j] = IF j <= Len(b) THEN b[j] ELSE v[j - Len(b)]
    BY <1>3, <1>4, ConcatProperties
  <2>2. /\ d \in Seq(Units) /\ Len(d) = Len(b) + Len(fWire)
        /\ \A j \in 1..(Len(b) + Len(fWire)) : d[j] = IF j <= Len(b) THEN b[j] ELSE fWire[j - Len(b)]
    <3>1. d = b \o fWire
      BY DEF Stream
    <3> QED BY <1>3, <3>1, ConcatProperties
  <2>3. Len(b) \in Nat /\ Len(fWire) \in Nat /\ Len(v) = Len(fWire) /\ k \in Nat /\ k >= 1 /\ k <= Len(fWire)
    BY <1>3, <1>4
  <2> HIDE DEF new
  <2>4. at \in 1..(Len(b) + Len(v)) /\ at > Len(b) /\ at - Len(b) = k
    BY <2>3
  <2>5. new[at] = Frame!Junk
    <3>1. at \in 1..(Len(b) + Len(v)) /\ ~(at <= Len(b)) /\ at - Len(b) = k
      BY <2>3, <2>4
    <3> HIDE DEF at
    <3>2. new[at] = v[at - Len(b)]
      BY <2>1, <3>1
    <3> QED BY <1>4, <3>1, <3>2
  <2>6. ASSUME NEW j \in 1..Len(d), j # at PROVE new[j] = d[j]
    <3>1. j \in 1..(Len(b) + Len(fWire)) /\ j \in 1..(Len(b) + Len(v))
      BY <2>2, <2>3
    <3>2. CASE j <= Len(b)
      BY <2>1, <2>2, <3>1, <3>2
    <3>3. CASE ~(j <= Len(b))
      <4>1. j - Len(b) \in 1..Len(fWire) /\ j - Len(b) # k
        BY <2>3, <2>6, <3>1, <3>3
      <4> QED BY <1>4, <2>1, <2>2, <3>1, <3>3, <4>1
    <3> QED BY <3>2, <3>3
  <2> HIDE DEF at
  <2> QED BY <2>1, <2>2, <2>3, <2>4, <2>5, <2>6
<1>6. Right(d, o) /\ KnownIds(d) /\ o \in Seq(HandedFrames)
  BY <1>2 DEF FrameTypes
<1> HIDE DEF new, at
<1>7. \A j \in 1..Len(new) : new[j].k = "header" => j \in 1..Len(d) /\ new[j] = d[j]
  BY <1>5, JunkIs
<1>8. KnownIds(new)'
  BY <1>1, <1>6, <1>7 DEF KnownIds
<1>9. ASSUME fOver = 0 PROVE InOrder(o)' /\ (fStatus # "closed" => Follows(new, Len(o))')
  <2>1. InOrder(o) /\ (fStatus # "closed" => Follows(d, Len(o)))
    BY <1>6, <1>9 DEF Right
  <2>2. \A x, g : Fits(x, g) => Fits(x, g)'
    BY <1>1 DEF Fits, Frame!Same
  <2>3. InOrder(o)'
    BY <1>1, <2>1, <2>2 DEF InOrder
  <2>4. ASSUME fStatus # "closed" PROVE Follows(new, Len(o))'
    <3>1. \A j \in 1..Len(d) : new[j] = d[j] \/ new[j] = Frame!Junk
      BY <1>5
    <3>2. Len(o) \in Nat
      BY <1>6
    <3>3. Follows(d, Len(o))
      BY <2>1, <2>4
    <3> QED BY <1>1, <1>3, <1>5, <3>1, <3>2, <3>3, FollowsDamaged
  <2> QED BY <2>3, <2>4
<1>10. ASSUME fOver > 0
       PROVE  (\A i \in 1..Len(o) : o[i].id # First) /\ (fStatus # "closed" => Before(new, o)' \/ After(new)')
  <2>1. (\A i \in 1..Len(o) : o[i].id # First) /\ (fStatus # "closed" => Before(d, o) \/ After(d))
    BY <1>6, <1>10 DEF Right
  <2>2. First' = First
    BY <1>1 DEF First
  <2>3. CASE After(d)
    <3>1. \A j \in 2..Len(new) : j \in 1..Len(new) /\ (j \in 1..Len(d) => j \in 2..Len(d))
      BY <1>5
    <3>2. After(new)'
      BY <1>1, <1>7, <2>2, <2>3, <3>1 DEF After
    <3> QED BY <2>1, <3>2
  <2>4. CASE fStatus # "closed" /\ Before(d, o)
    <3>1. /\ o = <<>> /\ fOver <= Len(d) /\ ~Takes(SubSeq(d, 1, fOver)) /\ (fSent = <<>> => Len(d) = fOver)
          /\ \A i \in 1..Len(d) : d[i].k = "header" /\ d[i].meta.id = First => i = fOver + 2
      BY <2>4 DEF Before
    <3>2. fOver <= Len(b)
      BY <1>2, <1>10, <2>4, <3>1 DEF Stuck
    <3>3. SubSeq(new, 1, fOver) = SubSeq(d, 1, fOver)
      <4>1. \A i \in 1..fOver : i \in 1..Len(d) /\ i # at
        BY <1>3, <1>5, <3>1, <3>2
      <4>2. \A i \in 1..fOver : new[i] = d[i]
        BY <1>5, <4>1
      <4> QED BY <1>3, <1>5, <3>1, <4>2
    <3>4. ~Takes(SubSeq(new, 1, fOver))'
      <4> PICK s : s = SubSeq(new, 1, fOver)
        OBVIOUS
      <4>1. Takes(s)' <=> Takes(s)
        BY <1>1 DEF Takes, TakesHead, TakesBody, TotalOf
      <4>2. s = SubSeq(new, 1, fOver')
        BY <1>1
      <4> QED BY <1>1, <3>1, <3>3, <4>1, <4>2
    <3>5. Before(new, o)'
      BY <1>1, <1>5, <1>7, <2>2, <3>1, <3>4 DEF Before
    <3> QED BY <2>1, <3>5
  <2> QED BY <2>1, <2>3, <2>4
<1>11. Right(new, o)'
  <2>1. First' = First
    BY <1>1 DEF First
  <2>2. fSent = <<>> => o = <<>>
    BY <1>6 DEF Right
  <2> QED BY <1>1, <1>9, <1>10, <2>1, <2>2 DEF Right
<1>12. Right(Stream, fOut)' /\ KnownIds(Stream)'
  <2>1. fOut' = o /\ Stream' = new
    BY <1>1 DEF Stream, new
  <2> QED BY <1>8, <1>11, <2>1 DEF Right, KnownIds
<1>13. FrameTypes'
  <2>1. fDamaged' \in Nat /\ fDamaged' <= fConn'
    BY <1>1, <1>3
  <2> QED BY <1>1, <1>2, <1>4, <2>1 DEF FrameTypes
<1>14. Numbered'
  BY <1>1, <1>2 DEF Numbered, First
<1>15. Stuck'
  <2>1. (Takes(fBuffer)' <=> Takes(fBuffer)) /\ Frame!DecodeFrame(fBuffer)' = Frame!DecodeFrame(fBuffer)
    BY <1>1 DEF Takes, TakesHead, TakesBody, TotalOf, Frame!DecodeFrame, Frame!DecodeBody
  <2>2. fStatus # "closed"
    <3> SUFFICES ASSUME fStatus = "closed" PROVE FALSE
      OBVIOUS
    <3>1. fWire = <<>>
      BY <1>2 DEF Stuck
    <3> QED BY <3>1
  <2> QED BY <1>1, <1>2, <2>1, <2>2 DEF Stuck
<1> QED BY <1>12, <1>13, <1>14, <1>15 DEF FrameInv

LEMMA CloseKeeps ==
    ASSUME FrameInv, Frame!Close
    PROVE  FrameInv'
<1> PICK o : o = fOut
  OBVIOUS
<1> PICK b : b = fBuffer
  OBVIOUS
<1>1. /\ fStatus' = "closed" /\ fWire' = <<>>
      /\ fCodec' = fCodec /\ fConfig' = fConfig /\ fConn' = fConn /\ fCount' = fCount /\ fSent' = fSent
      /\ fBuffer' = fBuffer /\ fOut' = fOut /\ fOver' = fOver /\ fDamaged' = fDamaged
  BY DEF Frame!Close
<1>2. FrameTypes /\ Numbered /\ Right(Stream, fOut) /\ KnownIds(Stream) /\ Stuck
  BY DEF FrameInv
<1>3. fWire \in Seq(Units) /\ fBuffer \in Seq(Units)
  BY <1>2 DEF FrameTypes
<1>4. Stream' = b
  BY <1>1, <1>3 DEF Stream
<1>5. KnownIds(b)'
  <2>1. /\ Stream \in Seq(Units) /\ Len(Stream) = Len(fBuffer) + Len(fWire)
        /\ \A i \in 1..(Len(fBuffer) + Len(fWire)) : Stream[i] = IF i <= Len(fBuffer) THEN fBuffer[i] ELSE fWire[i - Len(fBuffer)]
    BY <1>3, ConcatProperties DEF Stream
  <2>2. \A i \in 1..Len(b) : i \in 1..Len(Stream) /\ Stream[i] = b[i]
    <3>1. Len(fBuffer) \in Nat /\ Len(fWire) \in Nat
      BY <1>3
    <3> QED BY <2>1, <3>1
  <2> QED BY <1>1, <1>2, <2>2 DEF KnownIds
<1>6. Right(b, o)'
  <2>1. First' = First
    BY <1>1 DEF First
  <2>2. InOrder(o)' <=> InOrder(o)
    BY <1>1 DEF InOrder, Fits, Frame!Same, Frame!Readable
  <2>3. /\ fOver = 0 => InOrder(o)
        /\ fOver > 0 => \A i \in 1..Len(o) : o[i].id # First
        /\ fSent = <<>> => o = <<>>
    BY <1>2 DEF Right
  <2> QED BY <1>1, <2>1, <2>2, <2>3 DEF Right
<1>7. Right(Stream, fOut)' /\ KnownIds(Stream)'
  BY <1>1, <1>4, <1>5, <1>6 DEF Right, KnownIds
<1>8. FrameTypes'
  <2>1. fWire' \in Seq(Units)
    BY <1>1
  <2> QED BY <1>1, <1>2, <2>1 DEF FrameTypes
<1>9. Numbered'
  BY <1>1, <1>2 DEF Numbered, First
<1>10. Stuck'
  <2>1. Takes(fBuffer)' <=> Takes(fBuffer)
    BY <1>1 DEF Takes, TakesHead, TakesBody, TotalOf
  <2>2. fStatus' # "failed" /\ fStatus' # "reading"
    BY <1>1
  <2> QED BY <1>1, <1>2, <2>1, <2>2 DEF Stuck
<1> QED BY <1>7, <1>8, <1>9, <1>10 DEF FrameInv

LEMMA ConnectKeeps ==
    ASSUME FrameInv, Frame!Connect
    PROVE  FrameInv'
<1> PICK b : b = IF fCodec = "aura" THEN fBuffer ELSE <<>>
  OBVIOUS
<1>1. /\ fStatus = "closed" /\ fConn' = fConn + 1 /\ fBuffer' = b /\ fOver' = Len(b) /\ fStatus' = "reading"
      /\ fSent' = <<>> /\ fOut' = <<>>
      /\ fCodec' = fCodec /\ fConfig' = fConfig /\ fCount' = fCount /\ fWire' = fWire /\ fDamaged' = fDamaged
  BY DEF Frame!Connect
<1>2. FrameTypes /\ Numbered /\ Right(Stream, fOut) /\ KnownIds(Stream) /\ Stuck
  BY DEF FrameInv
<1>3. /\ fBuffer \in Seq(Units) /\ fConn \in Nat /\ fDamaged \in Nat /\ fDamaged <= fConn /\ fCount \in Nat
  BY <1>2 DEF FrameTypes
<1>4. fWire = <<>> /\ Stream = fBuffer /\ ~Takes(fBuffer)
  BY <1>1, <1>2, <1>3 DEF Stuck, Stream
<1>5. b \in Seq(Units) /\ Len(b) \in Nat /\ ~Takes(b)
  <2>1. CASE fCodec = "aura"
    BY <1>3, <1>4, <2>1
  <2>2. CASE fCodec # "aura"
    <3>1. b = <<>>
      BY <2>2
    <3>2. <<>> \in Seq(Units) /\ Len(<<>>) = 0
      OBVIOUS
    <3>3. b \in Seq(Units) /\ Len(b) = 0
      BY <3>1, <3>2
    <3>4. Len(b) \in Nat /\ Len(b) < 2
      BY <3>3
    <3> QED BY <3>3, <3>4, ShortWaits
  <2> QED BY <2>1, <2>2
<1>6. Stream' = b
  BY <1>1, <1>4, <1>5 DEF Stream
<1>7. \A i \in 1..Len(b) : b[i].k = "header" => b[i].meta.id <= fCount /\ b[i].meta.id \in Nat
  <2>1. \A i \in 1..Len(b) : b[i] \in Units
    BY <1>5
  <2>2. \A i \in 1..Len(b) : b[i].k = "header" => b[i].meta.id \in Nat
    BY <2>1, UnitIs, MetaTypes
  <2>3. CASE b = fBuffer
    BY <1>2, <1>4, <2>2, <2>3 DEF KnownIds
  <2>4. CASE b = <<>>
    BY <2>4
  <2> QED BY <2>3, <2>4
<1>8. KnownIds(b)'
  BY <1>1, <1>7 DEF KnownIds
<1>9. Takes(b)' <=> Takes(b)
  BY <1>1 DEF Takes, TakesHead, TakesBody, TotalOf
<1>10. Right(b, <<>>)'
  <2>1. Len(fSent') = 0
    BY <1>1
  <2>2. ASSUME Len(b) = 0 PROVE InOrder(<<>>)' /\ Follows(b, Len(<<>>))'
    <3>1. InOrder(<<>>)'
      BY <2>1 DEF InOrder
    <3> DEFINE ends == [i \in 0..0 |-> 0]
    <3>2. ends \in [0..0 -> Nat] /\ ends[0] = 0 /\ Len(<<>>) = 0
      OBVIOUS
    <3>3. \A h, i \in 0..0 : ends[h] <= ends[i]
      BY <3>2
    <3>4. (0 + 1)..0 = {}
      OBVIOUS
    <3> HIDE DEF ends
    <3>5. Follows(b, 0)'
      BY <2>1, <2>2, <3>2, <3>3, <3>4 DEF Follows
    <3> QED BY <3>1, <3>2, <3>5
  <2>3. ASSUME Len(b) > 0 PROVE Before(b, <<>>)'
    <3>1. First' = fCount + 1
      BY <1>1, <1>3, <2>1 DEF First
    <3>2. SubSeq(b, 1, Len(b)) = b
      BY <1>5
    <3>3. ~Takes(SubSeq(b, 1, Len(b)))'
      BY <1>5, <1>9, <3>2
    <3>4. \A i \in 1..Len(b) : b[i].k = "header" => b[i].meta.id # fCount + 1
      BY <1>3, <1>7
    <3> QED BY <1>1, <1>5, <3>1, <3>3, <3>4 DEF Before
  <2>4. \A i \in 1..Len(<<>>) : FALSE
    OBVIOUS
  <2>5. Len(b) > 0 => Len(b) # 0
    OBVIOUS
  <2> QED BY <1>1, <2>2, <2>3, <2>4, <2>5 DEF Right
<1>11. Right(Stream, fOut)' /\ KnownIds(Stream)'
  BY <1>1, <1>6, <1>8, <1>10 DEF Right, KnownIds
<1>12. FrameTypes'
  <2>1. fConn' \in Nat \ {0} /\ fDamaged' <= fConn' /\ fOver' \in Nat /\ fBuffer' \in Seq(Units)
        /\ fSent' \in Seq(SentFrames) /\ fOut' \in Seq(HandedFrames) /\ fStatus' = "reading"
    BY <1>1, <1>3, <1>5
  <2> QED BY <1>1, <1>2, <2>1 DEF FrameTypes
<1>13. Numbered'
  <2>1. Len(fSent') = 0
    BY <1>1
  <2> QED BY <1>1, <1>3, <2>1 DEF Numbered
<1>14. Stuck'
  <2>1. (fOver = 0)' => (Frame!DecodeFrame(fBuffer).error = "")'
    <3> SUFFICES ASSUME Len(b) = 0 PROVE Frame!DecodeFrame(b).error = ""
      <4>1. Frame!DecodeFrame(fBuffer)' = Frame!DecodeFrame(b)
        BY <1>1 DEF Frame!DecodeFrame, Frame!DecodeBody
      <4> QED BY <1>1, <4>1
    <3>1. b \in Seq(Units) /\ Len(b) < 2
      BY <1>5
    <3> QED BY <3>1, ShortWaits
  <2>2. ~Takes(fBuffer)'
    BY <1>1, <1>5 DEF Takes, TakesHead, TakesBody, TotalOf
  <2>3. fStatus' # "failed" /\ fStatus' # "closed" /\ fOver' <= Len(fBuffer')
    BY <1>1, <1>5
  <2> QED BY <2>1, <2>2, <2>3 DEF Stuck
<1> QED BY <1>11, <1>12, <1>13, <1>14 DEF FrameInv

LEMMA StutterKeepsFrames ==
    ASSUME FrameInv, UNCHANGED Frame!vars
    PROVE  FrameInv'
<1> PICK d : d = Stream
  OBVIOUS
<1> PICK o : o = fOut
  OBVIOUS
<1>1. /\ fCodec' = fCodec /\ fConfig' = fConfig /\ fConn' = fConn /\ fCount' = fCount /\ fSent' = fSent
      /\ fWire' = fWire /\ fBuffer' = fBuffer /\ fOut' = fOut /\ fStatus' = fStatus /\ fOver' = fOver
      /\ fDamaged' = fDamaged
  BY DEF Frame!vars
<1>2. FrameTypes /\ Numbered /\ Right(d, o) /\ KnownIds(d) /\ Stuck
  BY DEF FrameInv
<1>3. FrameTypes' /\ Numbered'
  BY <1>1, <1>2 DEF FrameTypes, Numbered, First
<1>4. Right(d, o)' /\ KnownIds(d)'
  <2>1. CASE fStatus # "closed"
    BY <1>1, <1>2, <2>1, SameSaid
  <2>2. CASE fStatus = "closed"
    <3>1. First' = First
      BY <1>1 DEF First
    <3>2. InOrder(o)' <=> InOrder(o)
      BY <1>1 DEF InOrder, Fits, Frame!Same, Frame!Readable
    <3>3. /\ fOver = 0 => InOrder(o)
          /\ fOver > 0 => \A i \in 1..Len(o) : o[i].id # First
          /\ fSent = <<>> => o = <<>>
      BY <1>2 DEF Right
    <3>4. Right(d, o)'
      BY <1>1, <2>2, <3>1, <3>2, <3>3 DEF Right
    <3> QED BY <1>1, <1>2, <3>4 DEF KnownIds
  <2> QED BY <2>1, <2>2
<1>5. Right(Stream, fOut)' /\ KnownIds(Stream)'
  <2>1. fOut' = o /\ Stream' = d
    BY <1>1 DEF Stream
  <2> QED BY <1>4, <2>1 DEF Right, KnownIds
<1>6. Stuck'
  <2>1. (Takes(fBuffer)' <=> Takes(fBuffer)) /\ Frame!DecodeFrame(fBuffer)' = Frame!DecodeFrame(fBuffer)
    BY <1>1 DEF Takes, TakesHead, TakesBody, TotalOf, Frame!DecodeFrame, Frame!DecodeBody
  <2> QED BY <1>1, <1>2, <2>1 DEF Stuck
<1> QED BY <1>3, <1>5, <1>6 DEF FrameInv

\* The reader of an undamaged connection has handed out all that came, up to the first
\* frame beyond it.
LEMMA NothingStuck ==
    ASSUME FrameInv, Frame!LimitsAreLimits
    PROVE  Frame!NoFrameIsStuck
<1> DEFINE k == Len(fOut)
           n == Len(fSent)
           f == fSent[k + 1]
           good == {i \in 0..Len(fSent) : \A j \in 1..i : Frame!Readable(fSent[j])}
<1> SUFFICES ASSUME fOver = 0, fDamaged # fConn, fWire = <<>>, fStatus # "closed"
             PROVE  /\ k = CHOOSE i \in good : \A j \in good : j <= i
                    /\ fStatus = "failed" <=> k < n
  BY DEF Frame!NoFrameIsStuck
<1>1. FrameTypes /\ Right(Stream, fOut) /\ Stuck
  BY DEF FrameInv
<1>2. /\ fBuffer \in Seq(Units) /\ fSent \in Seq(SentFrames) /\ fOut \in Seq(HandedFrames)
      /\ fStatus \in {"reading", "failed", "closed"}
  BY <1>1 DEF FrameTypes
<1>3. Stream = fBuffer
  BY <1>2 DEF Stream
<1>4. /\ k \in Nat /\ n \in Nat /\ k <= n /\ Follows(fBuffer, k)
      /\ \A i \in 1..k : Frame!Readable(fSent[i])
  <2>1. InOrder(fOut) /\ Follows(fBuffer, k)
    BY <1>1, <1>3 DEF Right
  <2> QED BY <1>2, <2>1 DEF InOrder
<1>5. /\ ~Takes(fBuffer) /\ (fStatus = "failed" => Frame!DecodeFrame(fBuffer).error # "")
      /\ (fStatus = "reading" => Frame!DecodeFrame(fBuffer).error = "")
  BY <1>1 DEF Stuck
<1> HIDE DEF k, n, f
<1>6. k \in good
  BY <1>4 DEF n
<1>7. ASSUME \A i \in good : i <= k PROVE k = CHOOSE i \in good : \A j \in good : j <= i
  <2> DEFINE c == CHOOSE i \in good : \A j \in good : j <= i
  <2>1. c \in good /\ \A j \in good : j <= c
    <3> HIDE DEF good
    <3> QED BY <1>6, <1>7
  <2>2. c \in Nat
    BY <2>1
  <2> HIDE DEF good, c
  <2>3. k <= c /\ c <= k
    BY <1>6, <1>7, <2>1
  <2>4. k = c
    BY <1>4, <2>2, <2>3
  <2> QED BY <2>4 DEF c
<1>8. CASE k < n
  <2>1. f \in SentFrames
    BY <1>2, <1>4, <1>8 DEF f, n
  <2>2. Size(f) <= Len(fBuffer) /\ \A j \in 1..Size(f) : Arrives(fBuffer[j], f, j)
    BY <1>2, <1>4, <1>8, FollowsOn DEF f, n
  <2>3. Size(f) \in Nat /\ Len(fBuffer) \in Nat
    BY <1>2, <2>1, SizeIs
  <2>4. \A j \in 1..Size(f) : fBuffer[j] = Frame!EncodeFrame(f)[j]
    BY <2>2 DEF Arrives
  <2>5. Len(fBuffer) >= Size(f)
    BY <2>2, <2>3
  <2>6. ~Frame!Readable(f) /\ Frame!DecodeFrame(fBuffer).error # ""
    BY <1>2, <1>5, <2>1, <2>4, <2>5, WholeFrame
  <2>7. fStatus = "failed"
    BY <1>2, <1>5, <2>6
  <2>8. \A i \in good : i <= k
    <3>1. ASSUME NEW i \in good, ~(i <= k) PROVE FALSE
      <4>1. i \in Nat /\ k + 1 \in 1..i
        BY <1>4, <3>1
      <4>2. Frame!Readable(fSent[k + 1])
        BY <3>1, <4>1
      <4> QED BY <2>6, <4>2 DEF f
    <3> QED BY <3>1
  <2> HIDE DEF good
  <2> QED BY <1>7, <1>8, <2>7, <2>8
<1>9. CASE k = n
  <2>1. Len(fBuffer) = 0
    <3>1. PICK ends : ends[k] = 0 /\ ends[n] = Len(fBuffer)
      BY <1>4 DEF Follows, n
    <3> QED BY <1>9, <3>1
  <2>2. Frame!DecodeFrame(fBuffer).error = ""
    <3>1. Len(fBuffer) < 2
      BY <2>1
    <3> QED BY <1>2, <3>1, ShortWaits
  <2>3. fStatus # "failed" /\ ~(k < n)
    <3>1. fStatus # "failed"
      BY <1>5, <2>2
    <3>2. k \in Nat
      BY <1>4
    <3>3. ~(k < k)
      BY <3>2
    <3> QED BY <1>9, <3>1, <3>3
  <2>4. \A i \in good : i <= k
    BY <1>4, <1>9 DEF n
  <2> HIDE DEF good
  <2> QED BY <1>7, <2>3, <2>4
<1>10. k < n \/ k = n
  BY <1>4
<1> QED BY <1>8, <1>9, <1>10 DEF k, n

LEMMA FramesHold ==
    ASSUME FrameInv, Frame!LimitsAreLimits
    PROVE  Frame!FramesAreSafe
<1>1. FrameTypes /\ Numbered /\ Right(Stream, fOut)
  BY DEF FrameInv
<1>2. Frame!FramesInOrder
  <2> SUFFICES ASSUME fOver = 0 PROVE Len(fOut) <= Len(fSent) /\ \A i \in 1..Len(fOut) : Fits(fOut[i], fSent[i])
    BY DEF Frame!FramesInOrder, Fits
  <2> QED BY <1>1 DEF Right, InOrder
<1>3. Frame!LeftoversEatAFrame
  <2> SUFFICES ASSUME fOver > 0, NEW i \in 1..Len(fOut) PROVE fOut[i].id # fSent[1].id
    BY DEF Frame!LeftoversEatAFrame
  <2>1. fOut[i].id # First /\ (fSent = <<>> => fOut = <<>>)
    BY <1>1 DEF Right
  <2>2. fSent # <<>>
    <3> SUFFICES ASSUME fSent = <<>> PROVE FALSE
      OBVIOUS
    <3>1. Len(fOut) = 0
      BY <2>1
    <3> QED BY <3>1
  <2>3. fSent \in Seq(SentFrames) /\ fCount \in Nat
    BY <1>1 DEF FrameTypes
  <2>4. 1 \in 1..Len(fSent) /\ Len(fSent) \in Nat
    BY <2>2, <2>3
  <2>5. fSent[1].id = First - 1 + 1
    BY <1>1, <2>4 DEF Numbered
  <2>6. First \in Int
    BY <2>3, <2>4 DEF First
  <2> QED BY <2>1, <2>5, <2>6
<1> QED BY <1>2, <1>3, NothingStuck DEF Frame!FramesAreSafe

\* However a stream of frames is cut into chunks, and whatever is damaged on its way, a
\* connection that starts with an empty buffer hands out the frames that were sent, in
\* order and as they were; one without damage keeps none that came whole up to the first
\* beyond this client; and what a closed connection left in the buffer costs the next one
\* its first frame.  For every limit, any number of frames, connections and damages.
THEOREM FramesAreDelivered == Frame!LimitsAreLimits => (Frame!Spec => []FramesAreSafe)
<1> SUFFICES ASSUME Frame!LimitsAreLimits PROVE Frame!Spec => []FramesAreSafe
  OBVIOUS
<1>1. Frame!Init => FrameInv
  BY FramesInit
<1>2. FrameInv /\ [Frame!Next]_(Frame!vars) => FrameInv'
  <2> SUFFICES ASSUME FrameInv, [Frame!Next]_(Frame!vars) PROVE FrameInv'
    OBVIOUS
  <2>1. CASE \E answer \in Frame!Answers : Frame!Send(answer, "")
    BY <2>1, SendKeeps
  <2>2. CASE \E odd \in {"version", "opcode", "compression"} : Frame!Send(Frame!Hello, odd)
    BY <2>2, SendKeeps
  <2>3. CASE \E n \in 1..Len(fWire) : Frame!Chunk(n)
    BY <2>3, ChunkKeeps
  <2>4. CASE \E i \in 1..Len(fWire) : Frame!Damage(i)
    BY <2>4, DamageKeeps
  <2>5. CASE Frame!Close
    BY <2>5, CloseKeeps
  <2>6. CASE Frame!Connect
    BY <2>6, ConnectKeeps
  <2>7. CASE UNCHANGED Frame!vars
    BY <2>7, StutterKeepsFrames
  <2> QED BY <2>1, <2>2, <2>3, <2>4, <2>5, <2>6, <2>7 DEF Frame!Next
<1>3. FrameInv => FramesAreSafe
  BY FramesHold DEF FramesAreSafe
<1> QED BY <1>1, <1>2, <1>3, PTL DEF Frame!Spec

-----------------------------------------------------------------------------
(* Rows of a table and the places of a sort.                                  *)

LEMMA TableCardinality == \A S : Table!Cardinality(S) = Cardinality(S)
BY DEF Table!Cardinality, Cardinality

Rows == [Table!Columns -> Table!Values]
DecodedRows == {Table!Decode(r) : r \in Rows}
Tables == {t \in [RowIds -> Rows \cup {None}] : \A k \in RowIds : t[k] # None => t[k]["id"] = k}

LEMMA DecodeKeeps ==
    ASSUME NEW r \in Rows
    PROVE  /\ \A f \in Table!Columns \ {"doc"} : Table!Decode(r)[f] = r[f]
           /\ Table!Decode(r)["id"] = r["id"] /\ Table!Decode(r)["a"] = r["a"]
           /\ Table!Decode(r)["doc"] = IF r["doc"] = None THEN None ELSE r["doc"].json
BY DEF Rows, Table!Decode, Table!Columns

\* How many keys of S come before k.
Place(S, sort, k) == Cardinality({j \in S : Table!Before(sort, j, k)})

LEMMA PlacesGrow ==
    ASSUME Table!KeysAreNumbers, NEW S \in SUBSET RowIds, NEW T \in SUBSET S, NEW sort, NEW k
    PROVE  Place(T, sort, k) \in Nat /\ Place(S, sort, k) \in Nat /\ Place(T, sort, k) <= Place(S, sort, k)
<1> DEFINE s == {j \in S : Table!Before(sort, j, k)}
           t == {j \in T : Table!Before(sort, j, k)}
<1>1. IsFiniteSet(RowIds) /\ s \in SUBSET RowIds /\ t \in SUBSET s
  BY DEF Table!KeysAreNumbers, Table!IsFiniteSet, IsFiniteSet
<1> HIDE DEF s, t
<1>2. IsFiniteSet(s)
  BY <1>1, FS_Subset
<1>3. IsFiniteSet(t) /\ Cardinality(t) <= Cardinality(s)
  BY <1>1, <1>2, FS_Subset
<1>4. Cardinality(s) \in Nat /\ Cardinality(t) \in Nat
  BY <1>2, <1>3, FS_CardinalityType
<1> QED BY <1>3, <1>4 DEF Place, s, t

\* The keys of a set have the places from 0, each its own, and in the order of the sort.
LEMMA PlacesAre ==
    ASSUME Table!KeysAreNumbers, NEW S \in SUBSET RowIds, NEW sort
    PROVE  /\ Cardinality(S) \in Nat
           /\ \A k \in S : Place(S, sort, k) \in 0..(Cardinality(S) - 1)
           /\ \A j, k \in S : Place(S, sort, j) < Place(S, sort, k) => Table!Before(sort, j, k)
           /\ \A j, k \in S : Place(S, sort, j) = Place(S, sort, k) => j = k
           /\ \A i \in 0..(Cardinality(S) - 1) : \E k \in S : Place(S, sort, k) = i
<1> DEFINE n == Cardinality(S)
           below(k) == {j \in S : Table!Before(sort, j, k)}
           rank(k) == Place(S, sort, k)
           place == [k \in S |-> rank(k)]
<1>1. IsFiniteSet(S) /\ n \in Nat
  <2>1. IsFiniteSet(RowIds)
    BY DEF Table!KeysAreNumbers, Table!IsFiniteSet, IsFiniteSet
  <2>2. IsFiniteSet(S)
    BY <2>1, FS_Subset
  <2> QED BY <2>2, FS_CardinalityType
<1>2. \A j, k \in S : ~Table!Before(sort, k, k) /\ (j # k => Table!Before(sort, j, k) \/ Table!Before(sort, k, j))
  <2>1. \A j, k \in S : j \in Nat /\ k \in Nat
    BY DEF Table!KeysAreNumbers
  <2> QED BY <2>1 DEF Table!Before
<1>3. \A i, j, k \in S : Table!Before(sort, i, j) /\ Table!Before(sort, j, k) => Table!Before(sort, i, k)
  <2>1. \A j \in S : j \in Nat
    BY DEF Table!KeysAreNumbers
  <2> QED BY <2>1 DEF Table!Before
<1>4. ASSUME NEW k \in S PROVE IsFiniteSet(below(k)) /\ rank(k) \in Nat /\ rank(k) < n
  <2>1. below(k) \in SUBSET S /\ k \notin below(k)
    BY <1>2
  <2>2. rank(k) = Cardinality(below(k))
    BY DEF Place
  <2> HIDE DEF below, rank
  <2>3. IsFiniteSet(below(k)) /\ Cardinality(below(k)) <= n /\ (Cardinality(below(k)) = n => below(k) = S)
    BY <1>1, <2>1, FS_Subset
  <2>4. Cardinality(below(k)) \in Nat
    BY <2>3, FS_CardinalityType
  <2> QED BY <1>1, <2>1, <2>2, <2>3, <2>4
<1>5. ASSUME NEW j \in S, NEW k \in S, Table!Before(sort, j, k) PROVE rank(j) < rank(k)
  <2>1. below(j) \in SUBSET below(k) /\ j \in below(k) /\ j \notin below(j)
    BY <1>2, <1>3, <1>5
  <2>2. IsFiniteSet(below(k)) /\ rank(j) \in Nat /\ rank(k) \in Nat
    BY <1>4
  <2>3. rank(j) = Cardinality(below(j)) /\ rank(k) = Cardinality(below(k))
    BY DEF Place
  <2> HIDE DEF below, rank
  <2>4. Cardinality(below(j)) <= Cardinality(below(k)) /\ (Cardinality(below(j)) = Cardinality(below(k)) => below(j) = below(k))
    BY <2>1, <2>2, FS_Subset
  <2> QED BY <2>1, <2>2, <2>3, <2>4
<1> HIDE DEF rank
<1>6. ASSUME NEW j \in S, NEW k \in S PROVE /\ rank(j) = rank(k) => j = k
                                            /\ rank(j) < rank(k) => Table!Before(sort, j, k)
  <2>1. rank(j) \in Nat /\ rank(k) \in Nat
    BY <1>4
  <2>2. Table!Before(sort, j, k) => rank(j) < rank(k)
    BY <1>5
  <2>3. Table!Before(sort, k, j) => rank(k) < rank(j)
    BY <1>5
  <2> QED BY <1>2, <2>1, <2>2, <2>3
<1>7. \A k \in S : rank(k) \in 0..(n - 1)
  <2> TAKE k \in S
  <2>1. rank(k) \in Nat /\ rank(k) < n
    BY <1>4
  <2> HIDE DEF n
  <2> QED BY <1>1, <2>1
<1>8. place \in Injection(S, 0..(n - 1))
  <2>1. place \in [S -> 0..(n - 1)]
    BY <1>7
  <2>2. \A j, k \in S : place[j] = place[k] => j = k
    BY <1>6
  <2> HIDE DEF place
  <2> QED BY <2>1, <2>2 DEF Injection, IsInjective
<1>9. IsFiniteSet(0..(n - 1)) /\ Cardinality(0..(n - 1)) = n
  <2> HIDE DEF n
  <2>1. 0 \in Int /\ n - 1 \in Int
    BY <1>1
  <2>2. Cardinality(0..(n - 1)) = IF 0 > n - 1 THEN 0 ELSE n - 1 - 0 + 1
    BY <2>1, FS_Interval
  <2>3. IsFiniteSet(0..(n - 1))
    BY <2>1, FS_Interval
  <2> QED BY <1>1, <2>2, <2>3
<1>10. place \in Surjection(S, 0..(n - 1))
  <2> HIDE DEF place
  <2>1. Cardinality(S) = Cardinality(0..(n - 1)) <=> place \in Surjection(S, 0..(n - 1))
    BY <1>1, <1>8, <1>9, FS_Injection
  <2> QED BY <1>9, <2>1 DEF n
<1>11. \A i \in 0..(n - 1) : \E k \in S : rank(k) = i
  <2> TAKE i \in 0..(n - 1)
  <2>1. \E k \in S : place[k] = i
    BY <1>10 DEF Surjection
  <2> QED BY <2>1
<1> QED BY <1>1, <1>6, <1>7, <1>11 DEF rank

LEMMA SortedIs ==
    ASSUME Table!KeysAreNumbers, NEW S \in SUBSET RowIds, NEW sort
    PROVE  /\ DOMAIN Table!Sorted(S, sort) = 1..Cardinality(S)
           /\ \A i \in 1..Cardinality(S) :
                  Table!Sorted(S, sort)[i] \in S /\ Place(S, sort, Table!Sorted(S, sort)[i]) = i - 1
           /\ \A k \in S : Table!Sorted(S, sort)[Place(S, sort, k) + 1] = k
<1> DEFINE n == Cardinality(S)
           t == Table!Sorted(S, sort)
           below(k) == {j \in S : Table!Before(sort, j, k)}
<1>1. n \in Nat
  BY PlacesAre
<1>2. \A k \in S : Place(S, sort, k) \in 0..(n - 1)
  BY PlacesAre
<1>3. \A j, k \in S : Place(S, sort, j) = Place(S, sort, k) => j = k
  BY PlacesAre
<1>4. \A i \in 0..(n - 1) : \E k \in S : Place(S, sort, k) = i
  BY PlacesAre
<1>5. t = [i \in 1..n |-> CHOOSE k \in S : Table!Cardinality(below(k)) = i - 1]
  BY TableCardinality DEF Table!Sorted
<1>6. \A k : Table!Cardinality(below(k)) = Place(S, sort, k)
  BY TableCardinality DEF Place
<1> HIDE DEF n, t, below
<1>7. ASSUME NEW i \in 1..n PROVE t[i] \in S /\ Place(S, sort, t[i]) = i - 1
  <2>1. i - 1 \in 0..(n - 1)
    BY <1>1
  <2>2. \E k \in S : Place(S, sort, k) = i - 1
    BY <1>4, <2>1
  <2>3. t[i] = CHOOSE k \in S : Table!Cardinality(below(k)) = i - 1
    BY <1>5
  <2>4. \E k \in S : Table!Cardinality(below(k)) = i - 1
    BY <1>6, <2>2
  <2>5. t[i] \in S /\ Table!Cardinality(below(t[i])) = i - 1
    BY <2>3, <2>4
  <2> QED BY <1>6, <2>5
<1>8. ASSUME NEW k \in S PROVE t[Place(S, sort, k) + 1] = k
  <2> DEFINE p == Place(S, sort, k)
  <2>1. p \in 0..(n - 1)
    BY <1>2
  <2> HIDE DEF p
  <2>2. p + 1 \in 1..n /\ p + 1 - 1 = p
    BY <1>1, <2>1
  <2> DEFINE q == p + 1
  <2>3. t[q] \in S /\ Place(S, sort, t[q]) = p
    <3>1. q \in 1..n /\ q - 1 = p
      BY <1>1, <2>1, <2>2
    <3> HIDE DEF q
    <3>2. t[q] \in S /\ Place(S, sort, t[q]) = q - 1
      BY <1>7, <3>1
    <3> QED BY <3>1, <3>2
  <2>4. t[q] = k
    <3> DEFINE j == t[q]
    <3>1. j \in S /\ Place(S, sort, j) = Place(S, sort, k)
      BY <2>3 DEF p
    <3> HIDE DEF j
    <3>2. j = k
      BY <1>3, <3>1
    <3> QED BY <3>2 DEF j
  <2> QED BY <2>4 DEF p
<1> QED BY <1>5, <1>7, <1>8 DEF n, t

\* What a stream or a select shows of the table: its rows in the order of its sort.
Wanted(filter) == Table!Matching(filter)
Shown(filter, sort) ==
    [i \in 1..Cardinality(Wanted(filter)) |-> Table!Decode(tTable[Table!Sorted(Wanted(filter), sort)[i]])]

LEMMA WantedIs == \A filter : Wanted(filter) \in SUBSET RowIds /\ \A k \in Wanted(filter) : tTable[k] # None
BY DEF Wanted, Table!Matching, Table!MatchingIn

LEMMA RowsOf ==
    ASSUME tTable \in Tables, NEW k \in RowIds, tTable[k] # None
    PROVE  /\ tTable[k] \in Rows /\ Table!Decode(tTable[k]) \in DecodedRows
           /\ tTable[k]["id"] = k /\ Table!Decode(tTable[k])["id"] = k
<1>1. tTable[k] \in Rows /\ tTable[k]["id"] = k
  BY DEF Tables
<1> QED BY <1>1, DecodeKeeps DEF DecodedRows

LEMMA OneOrder == \A filter, sort : Table!ByKey(sort) => Table!OrderedRows(filter, sort) = {Shown(filter, sort)}
<1> SUFFICES ASSUME NEW filter, NEW sort, Table!ByKey(sort)
             PROVE  Table!OrderedRows(filter, sort) = {Shown(filter, sort)}
  OBVIOUS
<1>1. \A S : Table!Cardinality(S) = Cardinality(S)
  BY TableCardinality
<1>2. Table!Cardinality(Table!Matching(filter)) = Cardinality(Wanted(filter))
  BY <1>1 DEF Wanted
<1> QED BY <1>2 DEF Table!OrderedRows, Shown, Wanted

LEMMA OrderedAre ==
    ASSUME Table!KeysAreNumbers, tTable \in Tables, NEW filter, NEW sort
    PROVE  \A rows \in Table!OrderedRows(filter, sort) :
               rows \in Seq(DecodedRows) /\ Len(rows) = Cardinality(Wanted(filter))
<1> DEFINE keys == Wanted(filter)
           n == Cardinality(keys)
<1>1. n \in Nat
  BY PlacesAre, WantedIs
<1>2. Table!Cardinality(keys) = n
  BY TableCardinality
<1>3. \A k \in keys : Table!Decode(tTable[k]) \in DecodedRows
  BY WantedIs, RowsOf
<1>4. \A i \in 1..n : Table!Sorted(keys, sort)[i] \in keys
  BY SortedIs, WantedIs
<1> SUFFICES ASSUME NEW rows \in Table!OrderedRows(filter, sort) PROVE rows \in Seq(DecodedRows) /\ Len(rows) = n
  OBVIOUS
<1> HIDE DEF n
<1>5. \E order : /\ rows = [i \in 1..n |-> Table!Decode(tTable[order[i]])]
                 /\ order = Table!Sorted(keys, sort) \/ order \in [1..n -> keys]
  BY <1>2 DEF Table!OrderedRows, Wanted
<1>6. \E order : rows = [i \in 1..n |-> Table!Decode(tTable[order[i]])] /\ \A i \in 1..n : order[i] \in keys
  BY <1>4, <1>5
<1> QED BY <1>1, <1>3, <1>6

LEMMA ShownIs ==
    ASSUME Table!KeysAreNumbers, tTable \in Tables, NEW filter, NEW sort
    PROVE  /\ Shown(filter, sort) \in Seq(DecodedRows) /\ Len(Shown(filter, sort)) = Cardinality(Wanted(filter))
           /\ Cardinality(Wanted(filter)) \in Nat
           /\ \A i \in 1..Len(Shown(filter, sort)) :
                  /\ Shown(filter, sort)[i]["id"] \in Wanted(filter)
                  /\ Place(Wanted(filter), sort, Shown(filter, sort)[i]["id"]) = i - 1
           /\ \A k \in Wanted(filter) : /\ Place(Wanted(filter), sort, k) \in 0..(Len(Shown(filter, sort)) - 1)
                                       /\ Shown(filter, sort)[Place(Wanted(filter), sort, k) + 1]["id"] = k
<1> DEFINE keys == Wanted(filter)
           n == Cardinality(keys)
           t == Table!Sorted(keys, sort)
           r == Shown(filter, sort)
           place(k) == Place(keys, sort, k)
<1>1. n \in Nat /\ \A k \in keys : place(k) \in 0..(n - 1)
  BY PlacesAre, WantedIs
<1>2. /\ \A i \in 1..n : t[i] \in keys /\ place(t[i]) = i - 1
      /\ \A k \in keys : t[place(k) + 1] = k
  BY SortedIs, WantedIs
<1>3. \A k \in keys : Table!Decode(tTable[k]) \in DecodedRows /\ Table!Decode(tTable[k])["id"] = k
  BY WantedIs, RowsOf
<1>4. r = [i \in 1..n |-> Table!Decode(tTable[t[i]])]
  BY DEF Shown
<1> HIDE DEF n, t, r, place, keys
<1>5. \A i \in 1..n : r[i] \in DecodedRows /\ r[i]["id"] = t[i]
  BY <1>2, <1>3, <1>4
<1>6. r \in Seq(DecodedRows) /\ Len(r) = n
  BY <1>1, <1>4, <1>5
<1>7. \A i \in 1..n : r[i]["id"] \in keys /\ place(r[i]["id"]) = i - 1
  BY <1>2, <1>5
<1>8. \A k \in keys : r[place(k) + 1]["id"] = k
  <2> TAKE k \in keys
  <2> DEFINE p == place(k)
  <2>1. p \in 0..(n - 1) /\ t[p + 1] = k
    BY <1>1, <1>2
  <2> HIDE DEF p
  <2>2. p + 1 \in 1..n
    BY <1>1, <2>1
  <2> QED BY <1>5, <2>1, <2>2 DEF p
<1> QED BY <1>1, <1>6, <1>7, <1>8 DEF n, r, place, keys

LEMMA WindowIs ==
    ASSUME Table!NoneIsNoValue, NEW S, NEW r \in Seq(S), NEW w \in Nat, NEW o \in Nat
    PROVE  /\ Table!Window(r, w, o) = SubSeq(r, o + 1, IF o + w > Len(r) THEN Len(r) ELSE o + w)
           /\ Table!Window(r, w, o) \in Seq(S) /\ Len(Table!Window(r, w, o)) <= w
           /\ Len(Table!Window(r, w, o)) < w => o + w > Len(r)
           /\ \A i \in 1..Len(Table!Window(r, w, o)) : o + i \in 1..Len(r) /\ Table!Window(r, w, o)[i] = r[o + i]
           /\ \A j \in (o + 1)..(o + w) : j <= Len(r) =>
                  j - o \in 1..Len(Table!Window(r, w, o)) /\ Table!Window(r, w, o)[j - o] = r[j]
<1> DEFINE e == IF o + w > Len(r) THEN Len(r) ELSE o + w
           x == Table!Window(r, w, o)
<1>1. x = SubSeq(r, o + 1, e)
  <2>1. w # None
    BY DEF Table!NoneIsNoValue
  <2> QED BY <2>1 DEF Table!Window
<1> HIDE DEF x
<1>2. Len(r) \in Nat /\ e \in Nat /\ e <= Len(r) /\ e <= o + w /\ (e < o + w => e = Len(r))
  OBVIOUS
<1> HIDE DEF e
<1>3. \A i \in (o + 1)..e : r[i] \in S
  BY <1>2
<1>4. /\ x \in Seq(S) /\ Len(x) = (IF o + 1 <= e THEN e - (o + 1) + 1 ELSE 0)
      /\ \A i \in 1..(e - (o + 1) + 1) : x[i] = r[o + 1 + i - 1]
  BY <1>1, <1>2, <1>3, SubSeqProperties
<1>5. Len(x) = IF o <= e THEN e - o ELSE 0
  BY <1>2, <1>4
<1>6. ASSUME NEW i \in 1..Len(x) PROVE o + i \in 1..Len(r) /\ x[i] = r[o + i]
  <2>1. i \in 1..(e - (o + 1) + 1) /\ o + 1 + i - 1 = o + i /\ o + i <= e
    BY <1>2, <1>5
  <2>2. x[i] = r[o + i]
    BY <1>4, <2>1
  <2> QED BY <1>2, <2>1, <2>2
<1>7. Len(x) <= w /\ (Len(x) < w => o + w > Len(r))
  BY <1>2, <1>5
<1>8. ASSUME NEW j \in (o + 1)..(o + w), j <= Len(r) PROVE j - o \in 1..Len(x) /\ x[j - o] = r[j]
  <2>1. j <= e
    BY <1>2, <1>8
  <2>2. j - o \in 1..Len(x) /\ o + (j - o) = j
    BY <1>2, <1>5, <2>1
  <2> QED BY <1>6, <2>2
<1> QED BY <1>1, <1>4, <1>6, <1>7, <1>8 DEF x, e

-----------------------------------------------------------------------------
(* A stream, and one window of it.                                            *)

Streams ==
    [filter : {None, <<"a", 0>>}, sort : {"asc", "desc", "a", None}, first : Nat, offset : Nat,
     remaining : Nat \cup {None}, limit : Nat \cup {None}, batch : Nat, out : Seq(DecodedRows),
     steady : SUBSET RowIds, came : BOOLEAN, went : BOOLEAN, quiet : BOOLEAN,
     state : {"none", "open", "ended"}]

\* What remains of the limit, and where the next window starts.
Bounded(s) ==
    /\ s.limit = None <=> s.remaining = None
    /\ s.limit # None => s.remaining + Len(s.out) = s.limit
    /\ s.state = "open" => /\ s.batch > 0 /\ s.offset = s.first + Len(s.out)
                           /\ s.remaining # None => s.remaining > 0

\* An undisturbed stream has delivered r up to its offset, and in the end the whole select.
Calm(s, r) ==
    s.quiet /\ Table!ByKey(s.sort) /\ s.state # "none" =>
        IF s.state = "open"
        THEN s.out = SubSeq(r, s.first + 1, s.offset) /\ (s.offset = s.first \/ s.offset <= Len(r))
        ELSE s.out = Table!Window(r, s.limit, s.first)

\* How many of n rows a window has.
Extent(n, limit, first) ==
    IF limit = None \/ first + limit > n THEN (IF n < first THEN 0 ELSE n - first) ELSE limit

\* Whatever its sort, an undisturbed stream of n rows has in the end as many as its window.
Counted(s, n) ==
    s.quiet /\ s.state # "none" =>
        IF s.state = "open" THEN s.offset = s.first \/ s.offset <= n
        ELSE Len(s.out) = Extent(n, s.limit, s.first)

\* While no row came, none was delivered twice, and none of those still ahead.
Single(s, keys) ==
    ~s.came /\ Table!ByKey(s.sort) =>
        /\ \A i, j \in 1..Len(s.out) : s.out[i]["id"] = s.out[j]["id"] => i = j
        /\ s.state = "open" => \A k \in keys : Place(keys, s.sort, k) >= s.offset =>
                                   \A i \in 1..Len(s.out) : s.out[i]["id"] # k

\* While no row went, those that were there all along are delivered up to the offset.
Reached(s, keys) ==
    /\ s.state = "open" => s.steady \subseteq keys
    /\ ~s.went /\ Table!ByKey(s.sort) /\ s.limit = None /\ s.first = 0 /\ s.state # "none" =>
           \A k \in s.steady : s.state = "ended" \/ Place(keys, s.sort, k) < s.offset =>
               \E i \in 1..Len(s.out) : s.out[i]["id"] = k

Share(s) == IF s.remaining = None \/ s.remaining > s.batch THEN s.batch ELSE s.remaining
Moved(s, rows) ==
    [s EXCEPT !.out = @ \o rows, !.offset = @ + Share(s),
              !.remaining = IF @ = None THEN None ELSE @ - Len(rows),
              !.state = IF Len(rows) < Share(s) \/ s.remaining = Len(rows) THEN "ended" ELSE @]

LEMMA NoneIs ==
    ASSUME Table!NoneIsNoValue
    PROVE  None \notin Nat /\ None \notin Table!Words /\ None \notin Rows
           /\ \A k \in RowIds : None # Table!Text(<<k>>)
BY DEF Table!NoneIsNoValue, Rows

LEMMA WindowSizes ==
    ASSUME Table!NoneIsNoValue, NEW s \in Streams, Bounded(s), s.state = "open"
    PROVE  /\ Share(s) \in Nat /\ Share(s) > 0
           /\ s.remaining # None => s.remaining \in Nat /\ Share(s) <= s.remaining
<1>1. s.remaining \in Nat \cup {None} /\ s.batch \in Nat /\ s.batch > 0 /\ (s.remaining # None => s.remaining > 0)
  BY DEF Bounded, Streams
<1> QED BY <1>1 DEF Share

LEMMA MovedIs ==
    ASSUME Table!NoneIsNoValue, NEW s \in Streams, Bounded(s), s.state = "open", NEW rows \in Seq(DecodedRows),
           Len(rows) <= Share(s)
    PROVE  LET t == Moved(s, rows) IN
           /\ t \in Streams /\ Bounded(t) /\ t.state # "none"
           /\ t.filter = s.filter /\ t.sort = s.sort /\ t.first = s.first /\ t.limit = s.limit
           /\ t.batch = s.batch /\ t.steady = s.steady /\ t.came = s.came /\ t.went = s.went /\ t.quiet = s.quiet
           /\ t.out = s.out \o rows /\ t.offset = s.offset + Share(s)
           /\ t.state = "open" => Len(rows) = Share(s)
           /\ t.state = "ended" => Len(rows) < Share(s) \/ s.remaining = Len(rows)
<1> DEFINE t == Moved(s, rows)
           w == Share(s)
           l == Len(rows)
           m == Len(s.out)
<1>1. w \in Nat /\ w > 0 /\ (s.remaining # None => s.remaining \in Nat /\ w <= s.remaining)
  BY WindowSizes
<1>2. /\ s.out \in Seq(DecodedRows) /\ l \in Nat /\ m \in Nat /\ s.offset \in Nat /\ s.first \in Nat
      /\ s.remaining \in Nat \cup {None} /\ s.limit \in Nat \cup {None}
  BY DEF Streams
<1>3. /\ t.filter = s.filter /\ t.sort = s.sort /\ t.first = s.first /\ t.limit = s.limit
      /\ t.batch = s.batch /\ t.steady = s.steady /\ t.came = s.came /\ t.went = s.went /\ t.quiet = s.quiet
      /\ t.out = s.out \o rows /\ t.offset = s.offset + w
      /\ t.remaining = (IF s.remaining = None THEN None ELSE s.remaining - l)
      /\ t.state = (IF l < w \/ s.remaining = l THEN "ended" ELSE "open")
  BY DEF Moved, Streams
<1>4. s.out \o rows \in Seq(DecodedRows) /\ Len(s.out \o rows) = m + l
  BY <1>2, ConcatProperties
<1>5. t.remaining \in Nat \cup {None} /\ (t.remaining = None <=> s.remaining = None)
  <2>1. l <= w
    OBVIOUS
  <2>2. None \notin Nat
    BY NoneIs
  <2> HIDE DEF l, w, m, t
  <2> QED BY <1>1, <1>2, <1>3, <2>1, <2>2
<1>6. t \in Streams
  <2>1. t \in [filter : {None, <<"a", 0>>}, sort : {"asc", "desc", "a", None}, first : Nat, offset : Nat,
               remaining : {t.remaining}, limit : Nat \cup {None}, batch : Nat, out : {s.out \o rows},
               steady : SUBSET RowIds, came : BOOLEAN, went : BOOLEAN, quiet : BOOLEAN, state : {t.state}]
    <3>1. s.offset + w \in Nat
      BY <1>1, <1>2
    <3> DEFINE a == s.offset + w
               b == s.out \o rows
    <3>2. t = [s EXCEPT !.out = b, !.offset = a, !.remaining = t.remaining, !.state = t.state]
      BY DEF Moved, Streams
    <3> HIDE DEF t, a, b
    <3> QED BY <3>1, <3>2 DEF Streams, a, b
  <2> HIDE DEF t
  <2> QED BY <1>3, <1>4, <1>5, <2>1 DEF Streams
<1>7. Bounded(t)
  <2>1. l <= w
    OBVIOUS
  <2>2. None \notin Nat
    BY NoneIs
  <2>3. /\ s.limit = None <=> s.remaining = None
        /\ s.limit # None => s.remaining + m = s.limit
        /\ s.batch > 0 /\ s.offset = s.first + m
    BY DEF Bounded
  <2>4. Len(t.out) = m + l
    BY <1>3, <1>4
  <2> HIDE DEF l, w, m, t
  <2>5. t.limit = None <=> t.remaining = None
    BY <1>3, <1>5, <2>3
  <2>6. ASSUME t.limit # None PROVE t.remaining + Len(t.out) = t.limit
    <3> DEFINE all == s.limit
               left == s.remaining
    <3>1. t.limit = all /\ left \in Nat /\ left + m = all /\ t.remaining = left - l
      BY <1>1, <1>3, <2>3, <2>6
    <3> HIDE DEF all, left
    <3>2. (left - l) + (m + l) = left + m
      BY <1>2, <3>1
    <3> QED BY <2>4, <3>1, <3>2
  <2>7. ASSUME t.state = "open" PROVE t.batch > 0 /\ t.offset = t.first + Len(t.out)
    <3> DEFINE at == s.offset
               from == s.first
    <3>1. l = w /\ t.batch > 0 /\ t.offset = at + w /\ t.first = from /\ at = from + m /\ from \in Nat
      <4>1. ~(l < w)
        BY <1>3, <2>7
      <4>2. l = w
        BY <1>1, <1>2, <2>1, <4>1
      <4> QED BY <1>2, <1>3, <2>3, <4>2
    <3> HIDE DEF at, from
    <3>2. at + w = from + (m + l)
      BY <1>1, <1>2, <3>1
    <3> QED BY <2>4, <3>1, <3>2
  <2>8. t.state = "open" /\ t.remaining # None => t.remaining > 0
    BY <1>1, <1>2, <1>3, <1>5, <2>1
  <2> QED BY <2>5, <2>6, <2>7, <2>8 DEF Bounded
<1>8. /\ t.state # "none" /\ (t.state = "open" => l = w)
      /\ t.state = "ended" => l < w \/ s.remaining = l
  <2>1. l <= w
    OBVIOUS
  <2> HIDE DEF l, w, m, t
  <2> QED BY <1>1, <1>2, <1>3, <2>1
<1> QED BY <1>3, <1>6, <1>7, <1>8

LEMMA Adjoin ==
    \A S : \A q \in Seq(S) : \A f, k, n \in Nat : f <= k /\ k <= n /\ n <= Len(q) =>
        SubSeq(q, f + 1, k) \o SubSeq(q, k + 1, n) = SubSeq(q, f + 1, n)
<1> SUFFICES ASSUME NEW S, NEW q \in Seq(S), NEW f \in Nat, NEW k \in Nat, NEW n \in Nat,
                    f <= k, k <= n, n <= Len(q)
             PROVE  SubSeq(q, f + 1, k) \o SubSeq(q, k + 1, n) = SubSeq(q, f + 1, n)
  OBVIOUS
<1> DEFINE m == f + 1
<1>1. m \in 1..(Len(q) + 1) /\ k \in (m - 1)..Len(q) /\ n \in k..Len(q)
  OBVIOUS
<1> HIDE DEF m
<1>2. SubSeq(q, m, k) \o SubSeq(q, k + 1, n) = SubSeq(q, m, n)
  BY <1>1, ConcatAdjacentSubSeq
<1> QED BY <1>2 DEF m

\* A window of an undisturbed table is the next part of the select.
LEMMA MovedCalm ==
    ASSUME Table!NoneIsNoValue, NEW s \in Streams, Bounded(s), s.state = "open", NEW r \in Seq(DecodedRows), Calm(s, r)
    PROVE  Calm(Moved(s, Table!Window(r, Share(s), s.offset)), r)
<1> DEFINE w == Share(s)
           rows == Table!Window(r, w, s.offset)
           t == Moved(s, rows)
           o == s.offset
           f == s.first
           n == Len(r)
<1> SUFFICES ASSUME s.quiet, Table!ByKey(s.sort)
             PROVE  IF t.state = "open" THEN t.out = SubSeq(r, f + 1, t.offset) /\ (t.offset = f \/ t.offset <= n)
                    ELSE t.out = Table!Window(r, s.limit, f)
  <2>1. w \in Nat /\ o \in Nat
    BY WindowSizes DEF Streams
  <2>2. rows \in Seq(DecodedRows) /\ Len(rows) <= w
    BY <2>1, WindowIs
  <2>3. t.quiet = s.quiet /\ t.sort = s.sort /\ t.limit = s.limit /\ t.first = s.first
    BY <2>2, MovedIs
  <2> HIDE DEF t, rows
  <2> QED BY <2>3 DEF Calm, t, rows
<1>1. w \in Nat /\ w > 0 /\ (s.remaining # None => s.remaining \in Nat /\ w <= s.remaining)
  BY WindowSizes
<1>2. o \in Nat /\ f \in Nat /\ s.limit \in Nat \cup {None} /\ n \in Nat /\ s.out \in Seq(DecodedRows)
      /\ Len(s.out) \in Nat /\ s.remaining \in Nat \cup {None}
  BY DEF Streams
<1>3. /\ o = f + Len(s.out) /\ (s.limit = None <=> s.remaining = None)
      /\ s.limit # None => s.remaining + Len(s.out) = s.limit
  BY DEF Bounded
<1>4. s.out = SubSeq(r, f + 1, o) /\ (o = f \/ o <= n)
  BY DEF Calm
<1>5. /\ rows = SubSeq(r, o + 1, IF o + w > n THEN n ELSE o + w) /\ rows \in Seq(DecodedRows) /\ Len(rows) <= w
      /\ Len(rows) < w => o + w > n
      /\ o + w <= n => Len(rows) = w
  <2>1. /\ rows = SubSeq(r, o + 1, IF o + w > n THEN n ELSE o + w) /\ rows \in Seq(DecodedRows) /\ Len(rows) <= w
        /\ Len(rows) < w => o + w > n
    BY <1>1, <1>2, WindowIs
  <2> HIDE DEF rows, w, o, n
  <2> QED BY <1>1, <1>2, <2>1
<1>6. /\ t.out = s.out \o rows /\ t.offset = o + w /\ t.state \in {"open", "ended"}
      /\ t.state = "open" => Len(rows) = w
      /\ t.state = "ended" => Len(rows) < w \/ s.remaining = Len(rows)
  <2>1. t \in Streams /\ t.state # "none"
    BY <1>5, MovedIs
  <2>2. /\ t.out = s.out \o rows /\ t.offset = o + w
        /\ t.state = "open" => Len(rows) = w
        /\ t.state = "ended" => Len(rows) < w \/ s.remaining = Len(rows)
    BY <1>5, MovedIs
  <2> HIDE DEF t, rows, w, o
  <2>3. t.state \in {"open", "ended"}
    BY <2>1 DEF Streams
  <2> QED BY <2>2, <2>3
<1>7. s.limit = None => Table!Window(r, s.limit, f) = SubSeq(r, f + 1, n)
  BY DEF Table!Window
<1>8. s.limit # None =>
          /\ f + s.limit > n => Table!Window(r, s.limit, f) = SubSeq(r, f + 1, n)
          /\ ~(f + s.limit > n) => Table!Window(r, s.limit, f) = SubSeq(r, f + 1, f + s.limit)
  BY DEF Table!Window
<1>9. Len(rows) = w => o + w <= n
  <2>1. \A i \in 1..Len(rows) : o + i \in 1..Len(r)
    BY <1>1, <1>2, WindowIs
  <2> HIDE DEF rows, w, o, n
  <2> QED BY <1>1, <1>2, <2>1 DEF n
<1> HIDE DEF w, rows, t, o, f, n
<1>10. (o + w <= n => rows = SubSeq(r, o + 1, o + w)) /\ (~(o + w <= n) => rows = SubSeq(r, o + 1, n))
  <2>1. (o + w > n) <=> ~(o + w <= n)
    BY <1>1, <1>2
  <2> QED BY <1>5, <2>1
<1>11. ASSUME s.limit # None PROVE s.limit \in Nat /\ f + s.limit = o + s.remaining /\ f + s.limit >= o + w
  <2> DEFINE all == s.limit
             left == s.remaining
             got == Len(s.out)
  <2>1. all \in Nat /\ left \in Nat /\ got \in Nat /\ w <= left
    BY <1>1, <1>2, <1>3, <1>11
  <2>2. left + got = all /\ o = f + got
    BY <1>3, <1>11
  <2>3. f \in Nat /\ o \in Nat /\ w \in Nat
    BY <1>1, <1>2
  <2> HIDE DEF all, left, got
  <2>4. all \in Nat /\ f + all = o + left /\ f + all >= o + w
    BY <2>1, <2>2, <2>3
  <2> QED BY <2>4 DEF all, left
<1>12. CASE o + w <= n
  <2>1. t.out = SubSeq(r, f + 1, o) \o SubSeq(r, o + 1, o + w)
    BY <1>4, <1>6, <1>12, <1>10
  <2>2. f <= o /\ o <= o + w /\ o + w <= Len(r) /\ o + w \in Nat
    BY <1>1, <1>2, <1>3, <1>12 DEF n
  <2>3. t.out = SubSeq(r, f + 1, o + w)
    BY <1>2, <2>1, <2>2, Adjoin
  <2>4. CASE t.state = "open"
    BY <1>6, <1>12, <2>3, <2>4
  <2>5. CASE t.state = "ended"
    <3>1. Len(rows) = w /\ ~(w < w)
      BY <1>1, <1>5, <1>12
    <3>2. s.remaining = w
      BY <1>6, <2>5, <3>1
    <3>3. s.limit # None
      BY <1>1, <1>3, <3>2, NoneIs
    <3>4. f + s.limit = o + w
      BY <1>11, <3>2, <3>3
    <3>5. Table!Window(r, s.limit, f) = SubSeq(r, f + 1, o + w)
      <4>1. ~(o + w > n)
        BY <1>1, <1>2, <1>12
      <4> QED BY <1>8, <3>3, <3>4, <4>1
    <3> QED BY <2>3, <2>5, <3>5
  <2> QED BY <1>6, <2>4, <2>5
<1>13. CASE ~(o + w <= n)
  <2>1. t.state = "ended"
    BY <1>6, <1>9, <1>13
  <2>2. Table!Window(r, s.limit, f) = SubSeq(r, f + 1, n)
    <3>1. ASSUME s.limit # None PROVE f + s.limit > n
      <4> DEFINE end == f + s.limit
      <4>1. end >= o + w
        BY <1>11, <3>1
      <4>2. end \in Nat
        <5>1. s.limit \in Nat
          BY <1>11, <3>1
        <5> QED BY <1>2, <5>1
      <4> HIDE DEF end
      <4>3. end > n
        BY <1>1, <1>2, <1>13, <4>1, <4>2
      <4> QED BY <4>3 DEF end
    <3> QED BY <1>7, <1>8, <3>1
  <2>3. t.out = SubSeq(r, f + 1, o) \o SubSeq(r, o + 1, n)
    BY <1>4, <1>6, <1>13, <1>10
  <2>4. CASE o <= n
    <3>1. f <= o /\ n <= Len(r)
      BY <1>2, <1>3, <2>4 DEF n
    <3>2. t.out = SubSeq(r, f + 1, n)
      BY <1>2, <2>3, <2>4, <3>1, Adjoin
    <3> QED BY <2>1, <2>2, <3>2
  <2>5. CASE ~(o <= n)
    <3>1. o = f
      BY <1>4, <2>5
    <3>2. SubSeq(r, f + 1, o) = <<>> /\ SubSeq(r, o + 1, n) = <<>> /\ SubSeq(r, f + 1, n) = <<>>
      BY <1>2, <2>5, <3>1, SubSeqEmpty
    <3>3. t.out = <<>>
      BY <2>3, <3>2
    <3> QED BY <2>1, <2>2, <3>2, <3>3
  <2> QED BY <1>2, <2>4, <2>5
<1> QED BY <1>12, <1>13

LEMMA WindowExtent ==
    ASSUME Table!NoneIsNoValue, NEW r \in Seq(DecodedRows), NEW w \in Nat \cup {None}, NEW o \in Nat
    PROVE  Len(Table!Window(r, w, o)) = Extent(Len(r), w, o)
<1> DEFINE n == Len(r)
           e == IF w = None \/ o + w > n THEN n ELSE o + w
           x == SubSeq(r, o + 1, e)
<1>1. Table!Window(r, w, o) = x
  BY DEF Table!Window
<1>2. n \in Nat /\ None \notin Nat
  BY NoneIs
<1> HIDE DEF n
<1>3. e \in Nat /\ e <= n
  BY <1>2
<1>4. Len(x) = IF o + 1 <= e THEN e - (o + 1) + 1 ELSE 0
  <2> HIDE DEF e
  <2>1. \A i \in (o + 1)..e : r[i] \in DecodedRows
    BY <1>2, <1>3 DEF n
  <2> QED BY <1>2, <1>3, <2>1, SubSeqProperties
<1> HIDE DEF x
<1>5. CASE w = None \/ o + w > n
  <2>1. e = n
    BY <1>5
  <2> QED BY <1>1, <1>2, <1>4, <1>5, <2>1 DEF Extent, n
<1>6. CASE ~(w = None \/ o + w > n)
  <2>1. e = o + w /\ w \in Nat
    BY <1>6
  <2> HIDE DEF e
  <2>2. Len(x) = w
    BY <1>4, <2>1
  <2> QED BY <1>1, <1>6, <2>2 DEF Extent, n
<1> QED BY <1>5, <1>6

\* A window of an undisturbed table moves the stream on until the select is used up.
LEMMA MovedCounted ==
    ASSUME Table!NoneIsNoValue, NEW s \in Streams, Bounded(s), s.state = "open", NEW r \in Seq(DecodedRows),
           Counted(s, Len(r))
    PROVE  Counted(Moved(s, Table!Window(r, Share(s), s.offset)), Len(r))
<1> DEFINE w == Share(s)
           rows == Table!Window(r, w, s.offset)
           t == Moved(s, rows)
           o == s.offset
           f == s.first
           n == Len(r)
           m == Len(s.out)
           l == Len(rows)
<1>1. w \in Nat /\ w > 0 /\ (s.remaining # None => s.remaining \in Nat /\ w <= s.remaining)
  BY WindowSizes
<1>2. o \in Nat /\ f \in Nat /\ s.limit \in Nat \cup {None} /\ n \in Nat /\ m \in Nat /\ s.out \in Seq(DecodedRows)
  BY DEF Streams
<1>3. /\ o = f + m /\ (s.limit = None <=> s.remaining = None)
      /\ s.limit # None => s.remaining + m = s.limit
  BY DEF Bounded
<1>4. rows \in Seq(DecodedRows) /\ l <= w /\ l \in Nat
  <2>1. rows \in Seq(DecodedRows) /\ l <= w
    BY <1>1, <1>2, WindowIs
  <2> QED BY <2>1
<1>5. /\ t.out = s.out \o rows /\ t.offset = o + w /\ t.quiet = s.quiet /\ t.limit = s.limit /\ t.first = f
      /\ t.state \in {"open", "ended"}
      /\ t.state = "open" => l = w
      /\ t.state = "ended" => l < w \/ s.remaining = l
  <2>1. t \in Streams /\ t.state # "none"
    BY <1>4, MovedIs
  <2>2. /\ t.out = s.out \o rows /\ t.offset = o + w /\ t.quiet = s.quiet /\ t.limit = s.limit /\ t.first = f
        /\ t.state = "open" => l = w
        /\ t.state = "ended" => l < w \/ s.remaining = l
    BY <1>4, MovedIs
  <2>3. t.state \in {"none", "open", "ended"}
    <3> HIDE DEF t
    <3> QED BY <2>1 DEF Streams
  <2> QED BY <2>1, <2>2, <2>3
<1>6. Len(t.out) = m + l
  <2> HIDE DEF t, rows
  <2> QED BY <1>2, <1>4, <1>5, ConcatProperties
<1>7. l = IF o + w > n THEN (IF n < o THEN 0 ELSE n - o) ELSE w
  <2>1. l = Extent(n, w, o)
    BY <1>1, <1>2, WindowExtent
  <2>2. w # None
    BY <1>1, NoneIs
  <2> QED BY <2>1, <2>2 DEF Extent
<1> SUFFICES ASSUME s.quiet
             PROVE  IF t.state = "open" THEN t.offset = f \/ t.offset <= n ELSE m + l = Extent(n, s.limit, f)
  <2> HIDE DEF t, rows, w, l, m, n
  <2> QED BY <1>5, <1>6 DEF Counted, t, rows, w, n
<1>8. o = f \/ o <= n
  BY DEF Counted
<1> HIDE DEF t, rows, w, o, f, n, m, l
<1>9. CASE t.state = "open"
  <2>1. o + w <= n
    BY <1>1, <1>2, <1>5, <1>7, <1>9
  <2> QED BY <1>5, <1>9, <2>1
<1>10. CASE t.state = "ended"
  <2>1. CASE o + w > n
    <3>1. m + l = IF n < f THEN 0 ELSE n - f
      BY <1>1, <1>2, <1>3, <1>7, <1>8, <2>1
    <3>2. s.limit = None \/ f + s.limit > n
      <4> SUFFICES ASSUME s.limit # None PROVE f + s.limit > n
        OBVIOUS
      <4> DEFINE left == s.remaining
                 all == s.limit
      <4>1. left \in Nat /\ w <= left /\ left + m = all
        BY <1>1, <1>3
      <4> HIDE DEF left, all
      <4>2. f + all > n
        BY <1>1, <1>2, <1>3, <2>1, <4>1
      <4> QED BY <4>2 DEF all
    <3> QED BY <1>10, <3>1, <3>2 DEF Extent
  <2>2. CASE ~(o + w > n)
    <3>1. l = w /\ s.remaining = w
      BY <1>1, <1>5, <1>7, <1>10, <2>2
    <3>2. s.limit # None /\ s.limit = m + l
      <4>1. s.limit # None
        BY <1>1, <1>3, <3>1, NoneIs
      <4> QED BY <1>1, <1>2, <1>3, <3>1, <4>1
    <3>3. ~(f + s.limit > n)
      BY <1>1, <1>2, <1>3, <2>2, <3>1, <3>2
    <3> QED BY <1>10, <3>2, <3>3 DEF Extent
  <2> QED BY <2>1, <2>2
<1> QED BY <1>5, <1>9, <1>10

\* r has the rows of keys, each at its place.
Lines(r, keys, sort) ==
    /\ \A i \in 1..Len(r) : r[i]["id"] \in keys /\ Place(keys, sort, r[i]["id"]) = i - 1
    /\ \A k \in keys : Place(keys, sort, k) \in 0..(Len(r) - 1) /\ r[Place(keys, sort, k) + 1]["id"] = k

\* A window of the rows still ahead has none that was delivered, and none twice.
LEMMA MovedSingle ==
    ASSUME Table!NoneIsNoValue, NEW s \in Streams, Bounded(s), s.state = "open", NEW keys,
           NEW r \in Seq(DecodedRows), Lines(r, keys, s.sort), Single(s, keys)
    PROVE  Single(Moved(s, Table!Window(r, Share(s), s.offset)), keys)
<1> DEFINE w == Share(s)
           rows == Table!Window(r, w, s.offset)
           t == Moved(s, rows)
           o == s.offset
           place(k) == Place(keys, s.sort, k)
           m == Len(s.out)
           l == Len(rows)
<1>1. w \in Nat /\ w > 0
  BY WindowSizes
<1>2. o \in Nat /\ s.out \in Seq(DecodedRows) /\ m \in Nat /\ Len(r) \in Nat
  BY DEF Streams
<1>3. /\ rows \in Seq(DecodedRows) /\ l <= w
      /\ \A i \in 1..l : o + i \in 1..Len(r) /\ rows[i] = r[o + i]
  BY <1>1, <1>2, WindowIs
<1>4. t.out = s.out \o rows /\ t.offset = o + w /\ t.came = s.came /\ t.sort = s.sort
      /\ (t.state = "open" => l = w)
  BY <1>3, MovedIs
<1>5. l \in Nat
  BY <1>3
<1>6. Len(s.out \o rows) = m + l /\ \A i \in 1..(m + l) : (s.out \o rows)[i] = IF i <= m THEN s.out[i] ELSE rows[i - m]
  BY <1>2, <1>3, ConcatProperties
<1> SUFFICES ASSUME ~s.came, Table!ByKey(s.sort)
             PROVE  /\ \A i, j \in 1..Len(t.out) : t.out[i]["id"] = t.out[j]["id"] => i = j
                    /\ t.state = "open" => \A k \in keys : place(k) >= t.offset =>
                                               \A i \in 1..Len(t.out) : t.out[i]["id"] # k
  <2> HIDE DEF t, rows, place
  <2> QED BY <1>4 DEF Single, place, t, rows
<1>7. /\ \A i, j \in 1..m : s.out[i]["id"] = s.out[j]["id"] => i = j
      /\ \A k \in keys : place(k) >= o => \A i \in 1..m : s.out[i]["id"] # k
  BY DEF Single
<1>8. \A i \in 1..Len(r) : r[i]["id"] \in keys /\ place(r[i]["id"]) = i - 1
  BY DEF Lines
<1> HIDE DEF w, rows, t, o, place, m, l
<1>9. ASSUME NEW i \in 1..l PROVE rows[i]["id"] \in keys /\ place(rows[i]["id"]) = o + i - 1
  <2> DEFINE j == o + i
  <2>1. j \in 1..Len(r) /\ rows[i] = r[j]
    BY <1>3
  <2> HIDE DEF j
  <2>2. rows[i]["id"] \in keys /\ place(rows[i]["id"]) = j - 1
    BY <1>8, <2>1
  <2>3. j - 1 = o + i - 1
    BY <1>2, <1>5 DEF j
  <2> QED BY <2>2, <2>3
<1>10. ASSUME NEW i \in 1..m, NEW j \in 1..l PROVE s.out[i]["id"] # rows[j]["id"]
  <2>1. o + j - 1 >= o
    BY <1>2, <1>5
  <2> QED BY <1>7, <1>9, <2>1
<1>11. ASSUME NEW i \in 1..l, NEW j \in 1..l, rows[i]["id"] = rows[j]["id"] PROVE i = j
  <2>1. o + i - 1 = o + j - 1
    BY <1>9, <1>11
  <2> QED BY <1>2, <1>5, <2>1
<1>12. ASSUME NEW i \in 1..(m + l)
       PROVE  \/ i \in 1..m /\ t.out[i] = s.out[i]
              \/ i - m \in 1..l /\ t.out[i] = rows[i - m] /\ ~(i <= m)
  <2>1. t.out[i] = IF i <= m THEN s.out[i] ELSE rows[i - m]
    BY <1>4, <1>6
  <2>2. (i <= m => i \in 1..m) /\ (~(i <= m) => i - m \in 1..l)
    BY <1>2, <1>5
  <2> QED BY <2>1, <2>2
<1>13. ASSUME NEW i \in 1..(m + l), NEW j \in 1..(m + l), t.out[i]["id"] = t.out[j]["id"] PROVE i = j
  <2>1. CASE i \in 1..m /\ t.out[i] = s.out[i]
    <3>1. j \in 1..m /\ t.out[j] = s.out[j]
      BY <1>10, <1>12, <1>13, <2>1
    <3> QED BY <1>7, <1>13, <2>1, <3>1
  <2>2. CASE i - m \in 1..l /\ t.out[i] = rows[i - m]
    <3>1. j - m \in 1..l /\ t.out[j] = rows[j - m]
      BY <1>10, <1>12, <1>13, <2>2
    <3>2. i - m = j - m
      BY <1>11, <1>13, <2>2, <3>1
    <3> QED BY <1>2, <1>5, <3>2
  <2> QED BY <1>12, <2>1, <2>2
<1>14. ASSUME t.state = "open", NEW k \in keys, place(k) >= o + w, NEW i \in 1..(m + l) PROVE t.out[i]["id"] # k
  <2>1. CASE i \in 1..m /\ t.out[i] = s.out[i]
    <3>1. place(k) \in Nat
      BY <1>2 DEF Lines, place
    <3>2. place(k) >= o
      BY <1>1, <1>2, <1>14, <3>1
    <3> QED BY <1>7, <2>1, <3>2
  <2>2. CASE i - m \in 1..l /\ t.out[i] = rows[i - m]
    <3> DEFINE j == i - m
    <3>1. j \in 1..l /\ place(rows[j]["id"]) = o + j - 1
      BY <1>9, <2>2
    <3>2. place(k) \in Nat
      BY <1>2 DEF Lines, place
    <3> HIDE DEF j
    <3>3. l = w
      BY <1>4, <1>14
    <3>4. place(rows[j]["id"]) # place(k)
      BY <1>1, <1>2, <1>14, <3>1, <3>2, <3>3
    <3> QED BY <2>2, <3>4 DEF j
  <2> QED BY <1>12, <2>1, <2>2
<1> QED BY <1>4, <1>6, <1>13, <1>14

\* A window has the rows at its places, and the last one all that were still ahead.
LEMMA MovedReached ==
    ASSUME Table!NoneIsNoValue, NEW s \in Streams, Bounded(s), s.state = "open", NEW keys,
           NEW r \in Seq(DecodedRows), Lines(r, keys, s.sort), Reached(s, keys)
    PROVE  Reached(Moved(s, Table!Window(r, Share(s), s.offset)), keys)
<1> DEFINE w == Share(s)
           rows == Table!Window(r, w, s.offset)
           t == Moved(s, rows)
           o == s.offset
           place(k) == Place(keys, s.sort, k)
           m == Len(s.out)
           l == Len(rows)
<1>1. w \in Nat /\ w > 0
  BY WindowSizes
<1>2. o \in Nat /\ s.out \in Seq(DecodedRows) /\ m \in Nat /\ Len(r) \in Nat
  BY DEF Streams
<1>3. /\ rows \in Seq(DecodedRows) /\ l <= w /\ (l < w => o + w > Len(r))
      /\ \A j \in (o + 1)..(o + w) : j <= Len(r) => j - o \in 1..l /\ rows[j - o] = r[j]
  <2>1. rows \in Seq(DecodedRows) /\ l <= w
    BY <1>1, <1>2, WindowIs
  <2>2. l < w => o + w > Len(r)
    BY <1>1, <1>2, WindowIs
  <2>3. \A j \in (o + 1)..(o + w) : j <= Len(r) => j - o \in 1..l /\ rows[j - o] = r[j]
    BY <1>1, <1>2, WindowIs
  <2> QED BY <2>1, <2>2, <2>3
<1>4. /\ t.out = s.out \o rows /\ t.offset = o + w /\ t.went = s.went /\ t.sort = s.sort /\ t.limit = s.limit
      /\ t.first = s.first /\ t.steady = s.steady
      /\ t.state = "ended" => l < w \/ s.remaining = l
  BY <1>3, MovedIs
<1>5. l \in Nat
  BY <1>3
<1>6. Len(s.out \o rows) = m + l /\ \A i \in 1..(m + l) : (s.out \o rows)[i] = IF i <= m THEN s.out[i] ELSE rows[i - m]
  BY <1>2, <1>3, ConcatProperties
<1>7. s.steady \subseteq keys
  BY DEF Reached
<1>13. t.state # "open" \/ t.steady \subseteq keys
  BY <1>4, <1>7
<1> SUFFICES Reached(t, keys)
  OBVIOUS
<1> SUFFICES ASSUME ~s.went, Table!ByKey(s.sort), s.limit = None, s.first = 0, NEW k \in s.steady,
                    t.state = "ended" \/ place(k) < t.offset
             PROVE  \E i \in 1..Len(t.out) : t.out[i]["id"] = k
  <2> HIDE DEF t, rows, o, w
  <2> QED BY <1>4, <1>13 DEF Reached
<1>8. place(k) < o => \E i \in 1..m : s.out[i]["id"] = k
  BY DEF Reached
<1>9. place(k) \in 0..(Len(r) - 1) /\ r[place(k) + 1]["id"] = k
  BY <1>7 DEF Lines
<1>10. s.remaining = None
  BY DEF Bounded
<1> HIDE DEF w, rows, t, o, place, m, l
<1>11. CASE place(k) < o
  <2>1. PICK i \in 1..m : s.out[i]["id"] = k
    BY <1>8, <1>11
  <2>2. i \in 1..(m + l) /\ t.out[i] = s.out[i]
    BY <1>2, <1>4, <1>5, <1>6
  <2> QED BY <1>4, <1>6, <2>1, <2>2
<1>12. CASE ~(place(k) < o)
  <2> DEFINE p == place(k)
  <2>1. p \in Nat /\ p + 1 <= Len(r) /\ p >= o
    BY <1>2, <1>9, <1>12
  <2>2. p < o + w
    <3>1. CASE t.state = "ended"
      <4>1. l < w
        BY <1>4, <1>5, <1>10, <3>1, NoneIs
      <4> HIDE DEF p
      <4> QED BY <1>1, <1>2, <1>3, <2>1, <4>1
    <3> QED BY <1>4, <3>1
  <2>3. r[p + 1]["id"] = k
    BY <1>9
  <2> DEFINE j == p + 1
  <2> HIDE DEF p
  <2>4. j \in (o + 1)..(o + w) /\ j <= Len(r)
    BY <1>1, <1>2, <2>1, <2>2
  <2> HIDE DEF j
  <2>5. j - o \in 1..l /\ rows[j - o] = r[j]
    BY <1>3, <2>4
  <2> DEFINE i == m + (j - o)
  <2>6. i \in 1..(m + l) /\ ~(i <= m) /\ i - m = j - o
    BY <1>1, <1>2, <1>5, <2>4, <2>5
  <2> HIDE DEF i
  <2>7. t.out[i] = r[j]
    BY <1>4, <1>6, <2>5, <2>6
  <2> QED BY <1>4, <1>6, <2>3, <2>6, <2>7 DEF j
<1> QED BY <1>11, <1>12

-----------------------------------------------------------------------------
(* What a write does to a stream: the rows it is of were before, and are after. *)

Disturbed(s, before, after, same) ==
    [s EXCEPT !.steady = @ \cap after, !.came = @ \/ ~(after \subseteq before),
              !.went = @ \/ ~(before \subseteq after), !.quiet = @ /\ same]

LEMMA DisturbedIs ==
    ASSUME Table!NoneIsNoValue, NEW s \in Streams, Bounded(s), NEW before, NEW after, NEW same \in BOOLEAN
    PROVE  LET t == Disturbed(s, before, after, same) IN
           /\ t \in Streams /\ Bounded(t)
           /\ t.filter = s.filter /\ t.sort = s.sort /\ t.first = s.first /\ t.limit = s.limit
           /\ t.offset = s.offset /\ t.out = s.out /\ t.state = s.state
           /\ t.steady = s.steady \cap after
           /\ ~t.came => ~s.came /\ after \subseteq before
           /\ ~t.went => ~s.went /\ before \subseteq after
           /\ t.quiet => s.quiet /\ same
<1> DEFINE t == Disturbed(s, before, after, same)
           came == s.came \/ ~(after \subseteq before)
           went == s.went \/ ~(before \subseteq after)
           quiet == s.quiet /\ same
           steady == s.steady \cap after
<1>1. came \in BOOLEAN /\ went \in BOOLEAN /\ quiet \in BOOLEAN /\ steady \in SUBSET RowIds
  BY DEF Streams
<1>2. t = [s EXCEPT !.steady = steady, !.came = came, !.went = went, !.quiet = quiet]
  BY DEF Disturbed, Streams
<1>3. /\ came <=> (s.came \/ ~(after \subseteq before))
      /\ went <=> (s.went \/ ~(before \subseteq after))
      /\ quiet <=> (s.quiet /\ same)
  OBVIOUS
<1> HIDE DEF t, came, went, quiet
<1>4. /\ t.filter = s.filter /\ t.sort = s.sort /\ t.first = s.first /\ t.limit = s.limit
      /\ t.offset = s.offset /\ t.out = s.out /\ t.state = s.state /\ t.remaining = s.remaining /\ t.batch = s.batch
      /\ t.steady = steady /\ t.came = came /\ t.went = went /\ t.quiet = quiet
  BY <1>2 DEF Streams
<1>5. t \in Streams
  BY <1>1, <1>2 DEF Streams
<1>6. Bounded(t)
  BY <1>4 DEF Bounded
<1>7. /\ ~t.came => ~s.came /\ after \subseteq before
      /\ ~t.went => ~s.went /\ before \subseteq after
      /\ t.quiet => s.quiet /\ same
  BY <1>3, <1>4
<1> QED BY <1>4, <1>5, <1>6, <1>7 DEF t

\* A write moves the rows that stay only forwards while none comes, and only backwards
\* while none goes.
LEMMA DisturbedKeeps ==
    ASSUME Table!NoneIsNoValue, Table!KeysAreNumbers, NEW s \in Streams, Bounded(s), s.state # "ended",
           NEW before \in SUBSET RowIds, NEW after \in SUBSET RowIds, NEW same \in BOOLEAN,
           Single(s, before), Reached(s, before)
    PROVE  LET t == Disturbed(s, before, after, same) IN Single(t, after) /\ Reached(t, after)
<1> DEFINE t == Disturbed(s, before, after, same)
<1>1. /\ t.sort = s.sort /\ t.first = s.first /\ t.limit = s.limit
      /\ t.offset = s.offset /\ t.out = s.out /\ t.state = s.state
      /\ t.steady = s.steady \cap after
      /\ ~t.came => ~s.came /\ after \subseteq before
      /\ ~t.went => ~s.went /\ before \subseteq after
  BY DisturbedIs
<1>2. s.offset \in Nat /\ s.steady \subseteq RowIds
  BY DEF Streams
<1> HIDE DEF t
<1>3. Single(t, after)
  <2> SUFFICES ASSUME ~t.came, Table!ByKey(s.sort)
               PROVE  /\ \A i, j \in 1..Len(s.out) : s.out[i]["id"] = s.out[j]["id"] => i = j
                      /\ s.state = "open" => \A k \in after : Place(after, s.sort, k) >= s.offset =>
                                                 \A i \in 1..Len(s.out) : s.out[i]["id"] # k
    BY <1>1 DEF Single
  <2>1. ~s.came /\ after \subseteq before
    BY <1>1
  <2>2. /\ \A i, j \in 1..Len(s.out) : s.out[i]["id"] = s.out[j]["id"] => i = j
        /\ s.state = "open" => \A k \in before : Place(before, s.sort, k) >= s.offset =>
                                   \A i \in 1..Len(s.out) : s.out[i]["id"] # k
    BY <2>1 DEF Single
  <2>3. ASSUME s.state = "open", NEW k \in after, Place(after, s.sort, k) >= s.offset
        PROVE  \A i \in 1..Len(s.out) : s.out[i]["id"] # k
    <3>1. Place(after, s.sort, k) \in Nat /\ Place(before, s.sort, k) \in Nat
          /\ Place(after, s.sort, k) <= Place(before, s.sort, k)
      BY <2>1, PlacesGrow
    <3>2. Place(before, s.sort, k) >= s.offset
      BY <1>2, <2>3, <3>1
    <3> QED BY <2>1, <2>2, <2>3, <3>2
  <2> QED BY <2>2, <2>3
<1>4. Reached(t, after)
  <2>1. t.state = "open" => t.steady \subseteq after
    BY <1>1
  <2>2. ASSUME ~t.went, Table!ByKey(s.sort), s.limit = None, s.first = 0, s.state = "open", NEW k \in s.steady \cap after,
               Place(after, s.sort, k) < s.offset
        PROVE  \E i \in 1..Len(s.out) : s.out[i]["id"] = k
    <3>1. ~s.went /\ before \subseteq after
      BY <1>1, <2>2
    <3>2. Place(after, s.sort, k) \in Nat /\ Place(before, s.sort, k) \in Nat
          /\ Place(before, s.sort, k) <= Place(after, s.sort, k)
      BY <3>1, PlacesGrow
    <3>3. Place(before, s.sort, k) < s.offset
      BY <1>2, <2>2, <3>2
    <3> QED BY <2>2, <3>1, <3>3 DEF Reached
  <2>3. s.state \in {"none", "open"}
    BY DEF Streams
  <2> QED BY <1>1, <2>1, <2>2, <2>3 DEF Reached
<1> QED BY <1>3, <1>4 DEF t

-----------------------------------------------------------------------------
(* What a statement makes of the table.                                       *)

LEMMA FailedIs ==
    \A e : /\ Table!Failed(e).table = tTable /\ Table!Failed(e).error = e
           /\ Table!Failed(e).returned = <<>> /\ Table!Failed(e).count = 0
BY DEF Table!Failed

LEMMA DeletedIs ==
    ASSUME tTable \in Tables, NEW s
    PROVE  Table!Deleted(s).table \in Tables
<1> DEFINE t == [k \in RowIds |-> IF k \in Table!Matching(s.filter) THEN None ELSE tTable[k]]
<1>1. Table!Deleted(s).table = t
  BY DEF Table!Deleted
<1>2. t \in [RowIds -> Rows \cup {None}]
  BY DEF Tables
<1>3. \A k \in RowIds : t[k] # None => t[k]["id"] = k
  BY DEF Tables
<1> QED BY <1>1, <1>2, <1>3 DEF Tables

LEMMA UpdatedIs ==
    ASSUME Table!NoneIsNoValue, tTable \in Tables, NEW s, \A f \in DOMAIN s.set : s.set[f] \in Table!Values,
           "id" \in DOMAIN s.set => s.set["id"] \in RowIds
    PROVE  Table!Updated(s).table \in Tables
<1> DEFINE at == Table!Matching(s.filter)
           new(k) == [f \in Table!Columns |-> IF f \in DOMAIN s.set THEN s.set[f] ELSE tTable[k][f]]
           moved == {k \in at : new(k)["id"] # k}
           t == [k \in RowIds |-> IF \E j \in at : new(j)["id"] = k
                               THEN new(CHOOSE j \in at : new(j)["id"] = k)
                               ELSE IF k \in moved THEN None ELSE tTable[k]]
<1>1. Table!Updated(s).table = t \/ Table!Updated(s).table = tTable
  BY FailedIs DEF Table!Updated
<1>2. at \in SUBSET RowIds /\ \A k \in at : tTable[k] # None
  BY WantedIs DEF Wanted
<1>3. \A k \in at : new(k) \in Rows
  <2>1. \A k \in at : tTable[k] \in Rows
    BY <1>2, RowsOf
  <2> QED BY <2>1 DEF Rows
<1> HIDE DEF at, new, moved
<1>4. ASSUME NEW k \in RowIds PROVE t[k] \in Rows \cup {None} /\ (t[k] # None => t[k]["id"] = k)
  <2>1. CASE \E j \in at : new(j)["id"] = k
    <3> DEFINE c == CHOOSE j \in at : new(j)["id"] = k
    <3>1. c \in at /\ new(c)["id"] = k
      BY <2>1
    <3>2. t[k] = new(c)
      BY <2>1
    <3> HIDE DEF c, t
    <3> QED BY <1>3, <3>1, <3>2
  <2>2. CASE ~\E j \in at : new(j)["id"] = k
    <3>1. t[k] = None \/ t[k] = tTable[k]
      BY <2>2
    <3> HIDE DEF t
    <3> QED BY <3>1 DEF Tables
  <2> QED BY <2>1, <2>2
<1>5. DOMAIN t = RowIds /\ t = [k \in RowIds |-> t[k]]
  OBVIOUS
<1> HIDE DEF t
<1>6. t \in Tables
  BY <1>4, <1>5 DEF Tables
<1> QED BY <1>1, <1>6

\* One tuple of an INSERT fails, is stored, or leaves the row that is there.
LEMMA TupleInserted ==
    ASSUME Table!NoneIsNoValue, NEW verb, NEW d, d.table \in Tables, d.error = None, d.returned \in Seq(Rows),
           d.count \in Nat, NEW t \in Rows, t["id"] \in RowIds
    PROVE  LET e == Table!InsertTuple(verb, d, t)
               k == t["id"]
           IN  \/ /\ e = Table!Failed("constraint")
               \/ /\ d.table[k] = None \/ verb = "REPLACE"
                  /\ \E row \in Rows : /\ row["id"] = k /\ row["doc"] = t["doc"] /\ row["a"] # None
                                       /\ t["a"] # None => row = t
                                       /\ t["a"] = None => verb = "INSERT IGNORE"
                                       /\ e.table = [d.table EXCEPT ![k] = row]
                                       /\ e.returned = Append(d.returned, row)
                  /\ e.error = None /\ e.count \in Nat /\ (tDialect # "mysql" => e.count = d.count + 1)
               \/ d.table[k] # None /\ verb # "INSERT" /\ verb # "REPLACE" /\ e = d
<1> DEFINE k == t["id"]
           ignored == verb = "INSERT IGNORE" /\ t["a"] = None
           row == IF ignored THEN [t EXCEPT !["a"] = 0] ELSE t
           n == IF tDialect = "mysql" /\ d.table[k] # None THEN 2 ELSE 1
           put == [table |-> [d.table EXCEPT ![k] = row], returned |-> Append(d.returned, row),
                      count |-> d.count + n, error |-> None]
           e == Table!InsertTuple(verb, d, t)
<1>1. Table!Full(t) = t
  BY DEF Table!Full, Rows
<1> DEFINE Insert(u) ==
               LET r == IF verb = "INSERT IGNORE" /\ u["a"] = None THEN [u EXCEPT !["a"] = 0] ELSE u
               IN  IF r["a"] = None THEN Table!Failed("constraint")
                   ELSE IF d.table[k] = None \/ verb = "REPLACE"
                   THEN [table |-> [d.table EXCEPT ![k] = r], returned |-> Append(d.returned, r),
                         count |-> d.count + n, error |-> None]
                   ELSE IF verb = "INSERT" THEN Table!Failed("constraint") ELSE d
<1>6. e = Insert(Table!Full(t))
  BY DEF Table!InsertTuple
<1>7. e = Insert(t)
  <2> HIDE DEF Insert, e
  <2> QED BY <1>1, <1>6
<1>2. e = IF row["a"] = None THEN Table!Failed("constraint")
          ELSE IF d.table[k] = None \/ verb = "REPLACE" THEN put
          ELSE IF verb = "INSERT" THEN Table!Failed("constraint") ELSE d
  <2> HIDE DEF e
  <2> QED BY <1>7
<1>3. /\ row \in Rows /\ row["id"] = k /\ row["doc"] = t["doc"]
      /\ t["a"] # None => row = t
      /\ t["a"] = None /\ row["a"] # None => verb = "INSERT IGNORE"
  <2>1. CASE ignored
    <3>1. 0 \in Table!Values
      BY DEF Table!Values
    <3>2. row = [t EXCEPT !["a"] = 0]
      BY <2>1
    <3>3. row \in Rows /\ row["id"] = k /\ row["doc"] = t["doc"]
      BY <3>1, <3>2 DEF Rows, Table!Columns
    <3> QED BY <2>1, <3>3
  <2>2. CASE ~ignored
    BY <2>2
  <2> QED BY <2>1, <2>2
<1>4. /\ put.table = [d.table EXCEPT ![k] = row] /\ put.returned = Append(d.returned, row)
      /\ put.error = None /\ put.count = d.count + n
  OBVIOUS
<1>5. put.count \in Nat /\ (tDialect # "mysql" => put.count = d.count + 1)
  <2>1. n \in {1, 2} /\ (tDialect # "mysql" => n = 1)
    OBVIOUS
  <2>2. put.count = d.count + n
    OBVIOUS
  <2> DEFINE c == d.count
  <2>3. c \in Nat
    OBVIOUS
  <2> HIDE DEF n, put, c
  <2>4. c + n \in Nat /\ (tDialect # "mysql" => c + n = c + 1)
    BY <2>1, <2>3
  <2> QED BY <2>2, <2>4 DEF c
<1> HIDE DEF put, row, e, k, n
<1> QED BY <1>2, <1>3, <1>4, <1>5 DEF e, k

LEMMA StoredIs ==
    \A t \in Tables : \A k \in RowIds : \A row \in Rows : row["id"] = k => [t EXCEPT ![k] = row] \in Tables
BY DEF Tables

\* An insert of two tuples is one after the other.
LEMMA InsertedOneByOne ==
    ASSUME NEW s, Len(s.tuples) = 2
    PROVE  LET d0 == [table |-> tTable, count |-> 0, returned |-> <<>>, error |-> None] IN
           Table!Inserted(s) = Table!InsertTuple(s.verb, Table!InsertTuple(s.verb, d0, s.tuples[1]), s.tuples[2])
<1> DEFINE d0 == [table |-> tTable, count |-> 0, returned |-> <<>>, error |-> None]
           insert(d, t) == Table!InsertTuple(s.verb, d, t)
           Is(g) == g = [n \in 0..Len(s.tuples) |-> IF n = 0 THEN d0 ELSE insert(g[n - 1], s.tuples[n])]
           a == CHOOSE g : Is(g)
<1>1. Table!Inserted(s) = a[Len(s.tuples)]
  BY DEF Table!Inserted
<1> HIDE DEF d0, insert
<1>2. \E g : Is(g)
  <2> DEFINE d1 == insert(d0, s.tuples[1])
             d2 == insert(d1, s.tuples[2])
             h == [n \in 0..2 |-> IF n = 0 THEN d0 ELSE IF n = 1 THEN d1 ELSE d2]
  <2>1. \A n \in 0..2 : h[n] = IF n = 0 THEN d0 ELSE insert(h[n - 1], s.tuples[n])
    <3>1. \A n \in 0..2 : n = 0 \/ n = 1 \/ n = 2
      OBVIOUS
    <3>2. h[0] = d0 /\ h[1] = d1 /\ h[2] = d2
      OBVIOUS
    <3>3. 1 - 1 = 0 /\ 2 - 1 = 1
      OBVIOUS
    <3>4. h[0] = d0 /\ h[1] = insert(h[1 - 1], s.tuples[1]) /\ h[2] = insert(h[2 - 1], s.tuples[2])
      <4> HIDE DEF h
      <4> QED BY <3>2, <3>3
    <3> HIDE DEF h
    <3> QED BY <3>1, <3>4
  <2>2. h = [n \in 0..2 |-> h[n]]
    OBVIOUS
  <2> HIDE DEF h
  <2>3. h = [n \in 0..2 |-> IF n = 0 THEN d0 ELSE insert(h[n - 1], s.tuples[n])]
    BY <2>1, <2>2
  <2> QED BY <2>3
<1>3. Is(a)
  BY <1>2
<1> HIDE DEF a
<1>4. /\ a[0] = d0 /\ a[1] = insert(a[1 - 1], s.tuples[1]) /\ a[2] = insert(a[2 - 1], s.tuples[2])
  BY <1>3
<1>5. 1 - 1 = 0 /\ 2 - 1 = 1
  OBVIOUS
<1>6. a[2] = insert(insert(d0, s.tuples[1]), s.tuples[2])
  BY <1>4, <1>5
<1> QED BY <1>1, <1>6 DEF insert, d0

LEMMA LinkIs == \A link \in Table!Links : Table!LinkValue(link) \in {1, None}
<1> TAKE link \in Table!Links
<1>1. \/ link = None
      \/ link # None /\ link = [key |-> 1]
      \/ link # None /\ link = [id |-> 1]
      \/ link # None /\ link = [a |-> 1]
  BY DEF Table!Links
<1>2. CASE link = None
  BY <1>2 DEF Table!LinkValue
<1>3. CASE link # None /\ link = [key |-> 1]
  <2>1. DOMAIN link = {"key"} /\ link["key"] = 1
    BY <1>3
  <2> QED BY <1>3, <2>1 DEF Table!LinkValue
<1>4. CASE link # None /\ link = [id |-> 1]
  <2>1. DOMAIN link = {"id"} /\ link["id"] = 1
    BY <1>4
  <2> QED BY <1>4, <2>1 DEF Table!LinkValue
<1>5. CASE link # None /\ link = [a |-> 1]
  <2>1. DOMAIN link = {"a"}
    BY <1>5
  <2> QED BY <1>5, <2>1 DEF Table!LinkValue
<1> QED BY <1>1, <1>2, <1>3, <1>4, <1>5

LEMMA NormalizedIs ==
    ASSUME Table!NoneIsNoValue
    PROVE  /\ \A k \in RowIds, link \in Table!Links : LET u == Table!NormalizeRow(Table!Given(k, link)) IN
                     /\ DOMAIN u = Table!Columns /\ u["id"] = k /\ u["a"] = 1 /\ u["b"] \in {1, None}
                     /\ u["doc"] = Table!Text(<<k>>)
           /\ \A x : DOMAIN x \subseteq {"id", "a"} =>
                     LET u == Table!NormalizeRow(x) IN
                     DOMAIN u = DOMAIN x /\ \A f \in DOMAIN x : u[f] = x[f]
<1>1. ASSUME NEW k \in RowIds, NEW link \in Table!Links
      PROVE  LET u == Table!NormalizeRow(Table!Given(k, link)) IN
             /\ DOMAIN u = Table!Columns /\ u["id"] = k /\ u["a"] = 1 /\ u["b"] \in {1, None}
             /\ u["doc"] = Table!Text(<<k>>)
  <2> DEFINE g == Table!Given(k, link)
             u == Table!NormalizeRow(g)
  <2>1. /\ DOMAIN g = {"id", "a", "b", "doc", "posts"} /\ g["id"] = k /\ g["a"] = 1 /\ g["b"] = link /\ g["doc"] = <<k>>
    BY DEF Table!Given
  <2> HIDE DEF g
  <2>2. u = [f \in DOMAIN g \ {"posts"} |->
                CASE f = "b" -> Table!LinkValue(g[f])
                  [] f = "doc" /\ g[f] # None -> Table!Text(g[f])
                  [] OTHER -> g[f]]
    BY DEF Table!NormalizeRow
  <2>3. DOMAIN u = Table!Columns
    BY <2>1, <2>2 DEF Table!Columns
  <2>4. <<k>> # None
    BY DEF Table!NoneIsNoValue
  <2> HIDE DEF u
  <2>5. u["id"] = k /\ u["a"] = 1
    BY <2>1, <2>2
  <2>6. u["b"] \in {1, None}
    <3>1. u["b"] = Table!LinkValue(link)
      BY <2>1, <2>2
    <3>2. Table!LinkValue(link) \in {1, None}
      BY LinkIs
    <3> QED BY <3>1, <3>2
  <2>7. u["doc"] = Table!Text(<<k>>)
    BY <2>1, <2>2, <2>4
  <2> QED BY <2>3, <2>5, <2>6, <2>7 DEF u, g
<1>2. ASSUME NEW x, DOMAIN x \subseteq {"id", "a"}
      PROVE  LET u == Table!NormalizeRow(x) IN
             DOMAIN u = DOMAIN x /\ \A f \in DOMAIN x : u[f] = x[f]
  BY <1>2 DEF Table!NormalizeRow
<1> QED BY <1>1, <1>2

\* The second row of an insert, after Given(k, link).
Second(k, x) ==
    /\ DOMAIN x \subseteq {"id", "a"} /\ "id" \in DOMAIN x /\ x["id"] \in RowIds
    /\ x["id"] # k => "a" \in DOMAIN x
    /\ "a" \in DOMAIN x => x["a"] = 0

Modes == {None, "ignore", "replace"}
InsertOf(k, link, x, mode) == [operation |-> "insert", rows |-> <<Table!Given(k, link), x>>, on_conflict |-> mode]
VerbOf(verb, mode) ==
    /\ mode = None => verb = "INSERT"
    /\ mode = "ignore" => verb # "INSERT" /\ verb # "REPLACE"
    /\ mode = "replace" => verb = "REPLACE"
FirstTuple(t, k) == t \in Rows /\ t["id"] = k /\ t["a"] = 1 /\ t["doc"] = Table!Text(<<k>>)
SecondTuple(t, x) == t \in Rows /\ t["id"] = x["id"] /\ t["a"] = IF "a" \in DOMAIN x THEN 0 ELSE None
Inserting(s, k, x, mode) ==
    /\ s.verb # "UPDATE" /\ s.verb # "DELETE" /\ Len(s.tuples) = 2 /\ VerbOf(s.verb, mode)
    /\ FirstTuple(s.tuples[1], k) /\ SecondTuple(s.tuples[2], x)

\* The statement of an insert has the verb of its mode and both rows as tuples.
LEMMA InsertCompiled ==
    ASSUME Table!NoneIsNoValue, RowIds \subseteq Nat, NEW k \in RowIds, NEW link \in Table!Links, NEW x,
           Second(k, x), NEW mode \in Modes
    PROVE  LET s == Table!Compile(InsertOf(k, link, x, mode)) IN s.verb = None \/ Inserting(s, k, x, mode)
<1> USE DEF Modes
<1>0. /\ DOMAIN x \subseteq {"id", "a"} /\ "id" \in DOMAIN x /\ x["id"] \in RowIds
      /\ "a" \in DOMAIN x => x["a"] = 0
  BY DEF Second
<1> DEFINE ir == [operation |-> "insert", rows |-> <<Table!Given(k, link), x>>, on_conflict |-> mode]
           s == Table!Compile(InsertOf(k, link, x, mode))
           verb == Table!InsertConflict(mode)
           g == Table!NormalizeRow(Table!Given(k, link))
           u == Table!NormalizeRow(x)
           two == <<g, u>>
           columns == Table!InsertColumns(two)
<1>1. s = Table!CompileInsert(ir)
  BY DEF Table!Compile, InsertOf
<1>2. ir.rows = <<Table!Given(k, link), x>> /\ ir.on_conflict = mode /\ Len(ir.rows) = 2
  OBVIOUS
<1>3. [i \in 1..Len(ir.rows) |-> Table!NormalizeRow(ir.rows[i])] = two
  <2>1. \A i \in 1..2 : Table!NormalizeRow(ir.rows[i]) = two[i]
    <3>1. \A i \in 1..2 : i = 1 \/ i = 2
      OBVIOUS
    <3>2. ir.rows[1] = Table!Given(k, link) /\ ir.rows[2] = x /\ two[1] = g /\ two[2] = u
      OBVIOUS
    <3>3. Table!NormalizeRow(ir.rows[1]) = two[1] /\ Table!NormalizeRow(ir.rows[2]) = two[2]
      <4> HIDE DEF ir, two
      <4> QED BY <3>2
    <3> HIDE DEF ir, two
    <3> QED BY <3>1, <3>3
  <2>2. two = [i \in 1..2 |-> two[i]]
    OBVIOUS
  <2> HIDE DEF ir, two
  <2> QED BY <1>2, <2>1, <2>2
<1>4. two # <<>> /\ Len(two) = 2 /\ two[1] = g /\ two[2] = u
  OBVIOUS
<1> HIDE DEF ir, two, columns, g, u
<1> DEFINE Compiled(rows, v) ==
               IF rows = <<>> \/ v = None THEN Table!Refused
               ELSE [verb |-> v, tuples |-> [i \in 1..Len(rows) |-> Table!Tuple(rows[i], Table!InsertColumns(rows))]]
<1>5. s = IF verb = None THEN Table!Refused
          ELSE [verb |-> verb, tuples |-> [i \in 1..2 |-> Table!Tuple(two[i], columns)]]
  <2>1. s = Compiled([i \in 1..Len(ir.rows) |-> Table!NormalizeRow(ir.rows[i])], Table!InsertConflict(ir.on_conflict))
    BY <1>1 DEF Table!CompileInsert
  <2> HIDE DEF s, Compiled
  <2>2. s = Compiled(two, verb)
    BY <1>2, <1>3, <2>1
  <2> QED BY <1>4, <2>2 DEF columns, Compiled
<1> HIDE DEF Compiled
<1>6. /\ DOMAIN g = Table!Columns /\ g["id"] = k /\ g["a"] = 1 /\ g["b"] \in {1, None} /\ g["doc"] = Table!Text(<<k>>)
      /\ DOMAIN u = DOMAIN x /\ \A f \in DOMAIN x : u[f] = x[f]
  BY <1>0, NormalizedIs DEF g, u
<1>7. columns = Table!Columns
  <2>1. \A c \in Table!Columns : \E i \in 1..Len(two) : c \in DOMAIN two[i]
    BY <1>4, <1>6
  <2> QED BY <2>1 DEF columns, Table!InsertColumns
<1> DEFINE t1 == Table!Tuple(g, Table!Columns)
           t2 == Table!Tuple(u, Table!Columns)
<1>8. t1 \in Rows /\ t1["id"] = k /\ t1["a"] = 1 /\ t1["doc"] = Table!Text(<<k>>)
  <2>1. k \in Table!Values /\ 1 \in Table!Values /\ None \in Table!Values /\ Table!Text(<<k>>) \in Table!Values
    BY DEF Table!Values
  <2>2. \A f \in Table!Columns : g[f] \in Table!Values
    BY <1>6, <2>1 DEF Table!Columns
  <2>3. t1 = [f \in Table!Columns |-> g[f]]
    BY <1>6 DEF Table!Tuple
  <2> QED BY <1>6, <2>2, <2>3 DEF Rows, Table!Columns
<1>9. t2 \in Rows /\ t2["id"] = x["id"] /\ t2["a"] = IF "a" \in DOMAIN x THEN 0 ELSE None
  <2>1. x["id"] \in Table!Values /\ 0 \in Table!Values /\ None \in Table!Values
    BY <1>0 DEF Table!Values
  <2>2. t2 = [f \in Table!Columns |-> IF f \in DOMAIN u THEN u[f] ELSE None]
    BY DEF Table!Tuple
  <2>3. \A f \in DOMAIN u : u[f] \in Table!Values
    BY <1>0, <1>6, <2>1
  <2> QED BY <1>0, <1>6, <2>1, <2>2, <2>3 DEF Rows, Table!Columns
<1>10. verb = None \/ (verb # "UPDATE" /\ verb # "DELETE" /\ VerbOf(verb, mode))
  <2>1. /\ "INSERT" # None /\ "INSERT IGNORE" # None /\ "DO NOTHING" # None /\ "REPLACE" # None
        /\ "ignore" # None /\ "replace" # None
    BY NoneIs DEF Table!Words
  <2>2. CASE mode = None
    BY <2>1, <2>2 DEF Table!InsertConflict, VerbOf
  <2>3. CASE mode = "ignore"
    <3>1. verb = "INSERT IGNORE" \/ verb = "DO NOTHING"
      BY <2>1, <2>3 DEF Table!InsertConflict
    <3> HIDE DEF verb
    <3> QED BY <2>1, <2>3, <3>1 DEF VerbOf
  <2>4. CASE mode = "replace"
    <3>1. verb = None \/ verb = "REPLACE"
      BY <2>1, <2>4 DEF Table!InsertConflict
    <3> HIDE DEF verb
    <3> QED BY <2>1, <2>4, <3>1 DEF VerbOf
  <2> QED BY <2>2, <2>3, <2>4
<1> HIDE DEF s, t1, t2, verb
<1>11. CASE verb = None
  BY <1>5, <1>11 DEF Table!Refused, s
<1>12. CASE verb # None
  <2>1. s.verb = verb /\ s.tuples = [i \in 1..2 |-> Table!Tuple(two[i], columns)]
    BY <1>5, <1>12
  <2>2. Len(s.tuples) = 2 /\ s.tuples[1] = t1 /\ s.tuples[2] = t2
    <3>1. s.tuples[1] = Table!Tuple(two[1], columns) /\ s.tuples[2] = Table!Tuple(two[2], columns) /\ Len(s.tuples) = 2
      BY <2>1
    <3> QED BY <1>4, <1>7, <3>1 DEF t1, t2
  <2>3. FirstTuple(s.tuples[1], k) /\ SecondTuple(s.tuples[2], x)
    BY <1>8, <1>9, <2>2 DEF FirstTuple, SecondTuple
  <2> QED BY <1>10, <1>12, <2>1, <2>2, <2>3 DEF Inserting, s
<1> QED BY <1>11, <1>12

\* m is the table t with the tuple u stored or kept.
Put(verb, t, m, u) ==
    \/ /\ t[u["id"]] = None \/ verb = "REPLACE"
       /\ \E row \in Rows : /\ row["id"] = u["id"] /\ row["doc"] = u["doc"] /\ row["a"] # None
                            /\ u["a"] # None => row = u
                            /\ u["a"] = None => verb = "INSERT IGNORE"
                            /\ m = [t EXCEPT ![u["id"]] = row]
    \/ t[u["id"]] # None /\ verb # "INSERT" /\ verb # "REPLACE" /\ m = t

\* What an insert may have come to.
Outcome(d) ==
    /\ d.table \in Tables /\ d.returned \in Seq(Rows) /\ d.count \in Nat
    /\ d.error # None => d.table = tTable
    /\ d.error = None /\ tDialect # "mysql" => d.count = Len(d.returned)

LEMMA FailedOutcome ==
    ASSUME tTable \in Tables, NEW e, e # None
    PROVE  Outcome(Table!Failed(e)) /\ Table!Failed(e).error # None
<1> DEFINE d == Table!Failed(e)
<1>1. d.table = tTable /\ d.error = e /\ d.returned = <<>> /\ d.count = 0
  BY FailedIs
<1> HIDE DEF d
<1>2. d.returned \in Seq(Rows) /\ d.count \in Nat
  BY <1>1
<1> QED BY <1>1, <1>2 DEF Outcome, d

LEMMA TuplePut ==
    ASSUME Table!NoneIsNoValue, tTable \in Tables, NEW verb, NEW d, Outcome(d), NEW t \in Rows, t["id"] \in RowIds
    PROVE  LET e == Table!InsertTuple(verb, d, t) IN
           Outcome(e) /\ (e.error = None => d.error = None /\ Put(verb, d.table, e.table, t))
<1> DEFINE e == Table!InsertTuple(verb, d, t)
           k == t["id"]
<1>1. CASE d.error # None
  <2>1. e = d
    BY <1>1 DEF Table!InsertTuple
  <2> QED BY <1>1, <2>1
<1>2. CASE d.error = None
  <2>1. d.table \in Tables /\ d.returned \in Seq(Rows) /\ d.count \in Nat
    BY DEF Outcome
  <2>2. \/ e = Table!Failed("constraint")
        \/ /\ d.table[k] = None \/ verb = "REPLACE"
           /\ \E row \in Rows : /\ row["id"] = k /\ row["doc"] = t["doc"] /\ row["a"] # None
                                /\ t["a"] # None => row = t
                                /\ t["a"] = None => verb = "INSERT IGNORE"
                                /\ e.table = [d.table EXCEPT ![k] = row]
                                /\ e.returned = Append(d.returned, row)
           /\ e.error = None /\ e.count \in Nat /\ (tDialect # "mysql" => e.count = d.count + 1)
        \/ d.table[k] # None /\ verb # "INSERT" /\ verb # "REPLACE" /\ e = d
    BY <1>2, <2>1, TupleInserted
  <2> HIDE DEF e
  <2>3. CASE e = Table!Failed("constraint")
    <3>1. "constraint" # None
      BY NoneIs DEF Table!Words
    <3> QED BY <2>3, <3>1, FailedOutcome DEF e
  <2>4. CASE /\ d.table[k] = None \/ verb = "REPLACE"
             /\ \E row \in Rows : /\ row["id"] = k /\ row["doc"] = t["doc"] /\ row["a"] # None
                                  /\ t["a"] # None => row = t
                                  /\ t["a"] = None => verb = "INSERT IGNORE"
                                  /\ e.table = [d.table EXCEPT ![k] = row]
                                  /\ e.returned = Append(d.returned, row)
             /\ e.error = None /\ e.count \in Nat /\ (tDialect # "mysql" => e.count = d.count + 1)
    <3>1. PICK row \in Rows : /\ row["id"] = k /\ row["doc"] = t["doc"] /\ row["a"] # None
                              /\ t["a"] # None => row = t
                              /\ t["a"] = None => verb = "INSERT IGNORE"
                              /\ e.table = [d.table EXCEPT ![k] = row]
                              /\ e.returned = Append(d.returned, row)
      BY <2>4
    <3>2. e.table \in Tables
      <4> DEFINE old == d.table
      <4>1. old \in Tables /\ k \in RowIds /\ e.table = [old EXCEPT ![k] = row] /\ row["id"] = k
        BY <2>1, <3>1
      <4> HIDE DEF old, k
      <4> QED BY <4>1, StoredIs
    <3>3. e.returned \in Seq(Rows) /\ Len(e.returned) = Len(d.returned) + 1
      <4> DEFINE old == d.returned
      <4>1. old \in Seq(Rows) /\ e.returned = Append(old, row)
        BY <2>1, <3>1
      <4> HIDE DEF old
      <4>2. e.returned \in Seq(Rows) /\ Len(e.returned) = Len(old) + 1
        BY <4>1, AppendProperties
      <4> QED BY <4>2 DEF old
    <3>7. e.error = None /\ e.count \in Nat /\ (tDialect # "mysql" => e.count = d.count + 1)
      BY <2>4
    <3>8. tDialect # "mysql" => d.count = Len(d.returned)
      BY <1>2 DEF Outcome
    <3>4. tDialect # "mysql" => e.count = Len(e.returned)
      BY <3>3, <3>7, <3>8
    <3>5. Outcome(e)
      BY <3>2, <3>3, <3>4, <3>7 DEF Outcome
    <3>6. Put(verb, d.table, e.table, t)
      BY <2>4, <3>1 DEF Put
    <3> QED BY <1>2, <3>5, <3>6 DEF e
  <2>5. CASE d.table[k] # None /\ verb # "INSERT" /\ verb # "REPLACE" /\ e = d
    BY <1>2, <2>5 DEF Put, e
  <2> QED BY <2>2, <2>3, <2>4, <2>5
<1> QED BY <1>1, <1>2

\* InsertStoresOrKeeps of one insert and one key: rows on the table before, which is after it.
KeyKept(rows, mode, before, after, k) ==
    LET given == {i \in 1..Len(rows) : rows[i]["id"] = k}
        replaces == mode = "replace"
    IN  IF given = {} THEN after[k] = before[k]
        ELSE /\ after[k] # None
             /\ before[k] # None => mode # None
             /\ before[k] # None /\ mode = "ignore" => after[k] = before[k]
             /\ replaces \/ before[k] = None =>
                  \A i \in given : (\A j \in given : IF replaces THEN j <= i ELSE i <= j) =>
                      \A f \in {"a", "doc"} \cap DOMAIN rows[i] : Table!Decode(after[k])[f] = rows[i][f]
StoresOrKeeps(ir, before, after, answer) ==
    IF answer.error # None THEN after = before
    ELSE /\ \A k \in RowIds : KeyKept(ir.rows, ir.on_conflict, before, after, k)
         /\ Table!SupportsReturning => answer.affected = Len(answer.rows)

\* The table after both tuples has what KeyKept says of each key.
LEMMA BothPut ==
    ASSUME Table!NoneIsNoValue, RowIds \subseteq Nat, NEW T \in Tables, NEW m \in Tables, NEW U \in Tables,
           NEW verb, NEW t1, NEW t2, NEW k \in RowIds, NEW link, NEW x, Second(k, x), NEW mode \in Modes,
           FirstTuple(t1, k), SecondTuple(t2, x), VerbOf(verb, mode),
           Put(verb, T, m, t1), Put(verb, m, U, t2), NEW q \in RowIds
    PROVE  KeyKept(<<Table!Given(k, link), x>>, mode, T, U, q)
<1> USE DEF Modes
<1>0. /\ DOMAIN x \subseteq {"id", "a"} /\ "id" \in DOMAIN x /\ x["id"] \in RowIds
      /\ x["id"] # k => "a" \in DOMAIN x
      /\ "a" \in DOMAIN x => x["a"] = 0
      /\ t1 \in Rows /\ t1["id"] = k /\ t1["a"] = 1 /\ t1["doc"] = Table!Text(<<k>>)
      /\ t2 \in Rows /\ t2["id"] = x["id"] /\ t2["a"] = IF "a" \in DOMAIN x THEN 0 ELSE None
      /\ mode = None => verb = "INSERT"
      /\ mode = "ignore" => verb # "INSERT" /\ verb # "REPLACE"
      /\ mode = "replace" => verb = "REPLACE"
  BY DEF Second, FirstTuple, SecondTuple, VerbOf
<1> DEFINE rows == <<Table!Given(k, link), x>>
           given == {i \in 1..Len(rows) : rows[i]["id"] = q}
           replaces == mode = "replace"
           y == x["id"]
<1>1. Len(rows) = 2 /\ rows[1] = Table!Given(k, link) /\ rows[2] = x
  OBVIOUS
<1>2. rows[1]["id"] = k /\ rows[1]["a"] = 1 /\ rows[1]["doc"] = <<k>>
  BY <1>1 DEF Table!Given
<1>3. \A i : i \in given <=> (i = 1 /\ q = k) \/ (i = 2 /\ q = y)
  <2>1. \A i : i \in 1..2 <=> i = 1 \/ i = 2
    OBVIOUS
  <2> HIDE DEF rows
  <2> QED BY <1>1, <1>2, <2>1
<1>4. 0 # None /\ 1 # None /\ "ignore" # None /\ "replace" # None /\ None \notin Rows /\ t1 # None /\ t2 # None
  <2>1. None \notin Nat /\ None \notin Table!Words /\ None \notin Rows
    BY NoneIs
  <2>2. "ignore" # None /\ "replace" # None
    BY <2>1 DEF Table!Words
  <2>3. 0 # None /\ 1 # None
    <3>1. 0 \in Nat /\ 1 \in Nat
      OBVIOUS
    <3> QED BY <2>1, <3>1
  <2>4. t1 # None /\ t2 # None
    <3>1. t1 \in Rows /\ t2 \in Rows
      BY <1>0
    <3> QED BY <2>1, <3>1
  <2> QED BY <2>1, <2>2, <2>3, <2>4
<1>5. PICK r1 : \/ (T[k] = None \/ verb = "REPLACE") /\ r1 = t1 /\ m = [T EXCEPT ![k] = r1]
                \/ T[k] # None /\ verb # "INSERT" /\ verb # "REPLACE" /\ m = T
  BY <1>0, <1>4 DEF Put
<1>6. PICK r2 : \/ /\ (m[y] = None \/ verb = "REPLACE") /\ r2 \in Rows /\ m \in Tables /\ U = [m EXCEPT ![y] = r2]
                   /\ "a" \in DOMAIN x => r2 = t2
                   /\ "a" \notin DOMAIN x => verb = "INSERT IGNORE"
                \/ m[y] # None /\ verb # "INSERT" /\ verb # "REPLACE" /\ U = m
  <2>1. PICK r \in Rows \cup {None} :
             \/ /\ m[y] = None \/ verb = "REPLACE"
                /\ r \in Rows /\ r["id"] = y /\ r["doc"] = t2["doc"] /\ r["a"] # None
                /\ t2["a"] # None => r = t2
                /\ t2["a"] = None => verb = "INSERT IGNORE"
                /\ U = [m EXCEPT ![y] = r]
             \/ m[y] # None /\ verb # "INSERT" /\ verb # "REPLACE" /\ U = m
    BY <1>0 DEF Put
  <2> QED BY <1>0, <1>4, <2>1
<1>7. DOMAIN T = RowIds /\ DOMAIN m = RowIds
  BY DEF Tables
\* The table is the old one, or has one of the two rows.
<1>8. /\ q # k /\ q # y => U[q] = T[q]
      /\ q = k /\ q # y => IF T[k] = None \/ verb = "REPLACE" THEN U[q] = t1 ELSE U[q] = T[q] /\ verb # "INSERT"
      /\ q = y /\ q # k => IF T[q] = None \/ verb = "REPLACE" THEN U[q] = t2 ELSE U[q] = T[q] /\ verb # "INSERT"
      /\ q = y /\ q = k => IF verb = "REPLACE" THEN U[q] = t2 /\ "a" \in DOMAIN x
                           ELSE verb # "INSERT" /\ IF T[k] = None THEN U[q] = t1 ELSE U[q] = T[q]
  <2> HIDE DEF y
  <2>1. q # k => m[q] = T[q]
    BY <1>5, <1>7
  <2>2. q # y => U[q] = m[q]
    BY <1>6, <1>7
  <2>3. q = k => IF T[k] = None \/ verb = "REPLACE" THEN m[q] = t1 ELSE m[q] = T[q] /\ verb # "INSERT"
    BY <1>5, <1>7
  <2>4. q = y => IF m[q] = None \/ verb = "REPLACE"
                 THEN ("a" \in DOMAIN x => U[q] = t2) /\ ("a" \notin DOMAIN x => verb = "INSERT IGNORE")
                 ELSE U[q] = m[q] /\ verb # "INSERT"
    BY <1>6, <1>7
  <2>5. q = y /\ q # k => "a" \in DOMAIN x
    BY <1>0 DEF y
  <2> QED BY <1>4, <2>1, <2>2, <2>3, <2>4, <2>5
<1>9. /\ Table!Decode(t1)["a"] = 1 /\ Table!Decode(t1)["doc"] = <<k>>
      /\ "a" \in DOMAIN x => Table!Decode(t2)["a"] = x["a"]
  <2>1. Table!Text(<<k>>) # None /\ Table!Text(<<k>>).json = <<k>>
    BY NoneIs DEF Table!Text
  <2> QED BY <1>0, <2>1, DecodeKeeps
<1>10. U[q] # None \/ given = {}
  BY <1>0, <1>3, <1>4, <1>8
<1>11. given = {} => U[q] = T[q]
  BY <1>0, <1>3, <1>8
<1>12. given # {} /\ T[q] # None => mode # None
  BY <1>0, <1>3, <1>8
<1>13. given # {} /\ T[q] # None /\ mode = "ignore" => U[q] = T[q]
  BY <1>0, <1>3, <1>8
<1>14. ASSUME replaces \/ T[q] = None, NEW i \in given, \A j \in given : IF replaces THEN j <= i ELSE i <= j,
              NEW f \in {"a", "doc"} \cap DOMAIN rows[i]
       PROVE  Table!Decode(U[q])[f] = rows[i][f]
  <2>1. CASE q = k /\ q = y
    <3>1. 1 \in given /\ 2 \in given
      BY <1>3, <2>1
    <3>2. CASE replaces
      <4>1. i = 2
        BY <1>3, <1>14, <3>1, <3>2
      <4>2. U[q] = t2 /\ "a" \in DOMAIN x
        BY <1>0, <1>8, <2>1, <3>2
      <4>3. f = "a" /\ rows[i] = x
        BY <1>0, <1>1, <1>14, <4>1
      <4> QED BY <1>9, <4>2, <4>3
    <3>3. CASE ~replaces
      <4>1. i = 1
        BY <1>3, <1>14, <3>1, <3>3
      <4>2. U[q] = t1
        BY <1>0, <1>8, <1>14, <2>1, <3>3
      <4>3. rows[i]["a"] = 1 /\ rows[i]["doc"] = <<k>>
        BY <1>2, <4>1
      <4> HIDE DEF rows, replaces
      <4> QED BY <1>9, <4>2, <4>3
    <3> QED BY <3>2, <3>3
  <2>2. CASE q = k /\ q # y
    <3>1. i = 1
      BY <1>3, <2>2
    <3>2. U[q] = t1
      BY <1>0, <1>8, <1>14, <2>2
    <3>3. rows[i]["a"] = 1 /\ rows[i]["doc"] = <<k>>
      BY <1>2, <3>1
    <3> HIDE DEF rows, replaces
    <3> QED BY <1>9, <3>2, <3>3
  <2>3. CASE q # k
    <3>1. i = 2 /\ q = y
      BY <1>3, <2>3
    <3>2. U[q] = t2
      BY <1>0, <1>8, <1>14, <2>3, <3>1
    <3>3. f = "a" /\ rows[i] = x /\ "a" \in DOMAIN x
      BY <1>0, <1>1, <1>14, <3>1
    <3> HIDE DEF rows, replaces
    <3> QED BY <1>9, <3>2, <3>3
  <2> QED BY <2>1, <2>2, <2>3
<1> HIDE DEF rows, given, replaces
<1>15. IF given = {} THEN U[q] = T[q]
       ELSE /\ U[q] # None
            /\ T[q] # None => mode # None
            /\ T[q] # None /\ mode = "ignore" => U[q] = T[q]
            /\ replaces \/ T[q] = None =>
                 \A i \in given : (\A j \in given : IF replaces THEN j <= i ELSE i <= j) =>
                     \A f \in {"a", "doc"} \cap DOMAIN rows[i] : Table!Decode(U[q])[f] = rows[i][f]
  BY <1>10, <1>11, <1>12, <1>13, <1>14
<1> QED BY <1>15 DEF rows, given, replaces, KeyKept

-----------------------------------------------------------------------------
(* Writes.                                                                    *)

\* What the statement of ir comes to.
Done(ir) ==
    LET s == Table!Compile(ir) IN IF s.verb = None THEN Table!Failed("refused") ELSE Table!RunWrite(s)

LEMMA AnswerTells ==
    \A d : /\ Table!Answer(d).error = d.error /\ Table!Answer(d).affected = d.count
           /\ d.returned \in Seq(Rows) /\ Table!SupportsReturning =>
                  Len(Table!Answer(d).rows) = Len(d.returned)
BY DEF Table!Answer

LEMMA RefusedIs ==
    ASSUME Table!NoneIsNoValue, tTable \in Tables
    PROVE  Outcome(Table!Failed("refused")) /\ Table!Failed("refused").error # None
<1>1. "refused" # None
  BY NoneIs DEF Table!Words
<1> QED BY <1>1, FailedOutcome

LEMMA DeleteDone ==
    ASSUME Table!NoneIsNoValue, tTable \in Tables, NEW filter
    PROVE  Done([operation |-> "delete", filter |-> filter]).table \in Tables
<1> DEFINE ir == [operation |-> "delete", filter |-> filter]
           s == Table!Compile(ir)
<1>1. s = [verb |-> "DELETE", filter |-> filter]
  BY DEF Table!Compile, Table!CompileDelete
<1>2. s.verb = "DELETE" /\ "DELETE" # None
  <2>1. None \notin Table!Words
    BY NoneIs
  <2> HIDE DEF s
  <2> QED BY <1>1, <2>1 DEF Table!Words
<1> HIDE DEF s
<1>3. Done(ir) = Table!Deleted(s)
  BY <1>2 DEF Done, Table!RunWrite, s
<1> QED BY <1>3, DeletedIs

LEMMA UpdateDone ==
    ASSUME Table!NoneIsNoValue, RowIds \subseteq Nat, tTable \in Tables, NEW filter,
           NEW set \in {[a |-> 1], [doc |-> None]} \cup {[id |-> k] : k \in RowIds}
    PROVE  Done([operation |-> "update", filter |-> filter, set |-> set]).table \in Tables
<1> DEFINE ir == [operation |-> "update", filter |-> filter, set |-> set]
           u == Table!NormalizeRow(set)
           s == Table!Compile(ir)
<1>1. (\A f \in DOMAIN u : u[f] \in Table!Values) /\ ("id" \in DOMAIN u => u["id"] \in RowIds)
  <2>1. CASE set = [a |-> 1]
    <3>1. DOMAIN set = {"a"} /\ set["a"] = 1
      BY <2>1
    <3> HIDE DEF u
    <3>2. DOMAIN u = {"a"} /\ u["a"] = 1
      BY <3>1, NormalizedIs DEF u
    <3> QED BY <3>2 DEF Table!Values
  <2>2. CASE set = [doc |-> None]
    <3>1. DOMAIN set = {"doc"} /\ set["doc"] = None
      BY <2>2
    <3>2. DOMAIN u = {"doc"} /\ u["doc"] = None
      BY <3>1 DEF Table!NormalizeRow
    <3> HIDE DEF u
    <3> QED BY <3>2 DEF Table!Values
  <2>3. CASE set \in {[id |-> k] : k \in RowIds}
    <3>1. PICK k \in RowIds : set = [id |-> k]
      BY <2>3
    <3>2. DOMAIN set = {"id"} /\ set["id"] = k
      BY <3>1
    <3>3. DOMAIN u = {"id"} /\ u["id"] = k
      BY <3>2, NormalizedIs DEF u
    <3>4. k \in Table!Values
      BY DEF Table!Values
    <3> HIDE DEF u
    <3> QED BY <3>3, <3>4
  <2> QED BY <2>1, <2>2, <2>3
<1>2. s = IF DOMAIN u = {} THEN Table!Refused ELSE [verb |-> "UPDATE", set |-> u, filter |-> filter]
  BY DEF Table!Compile, Table!CompileUpdate
<1> HIDE DEF u, s
<1>3. CASE DOMAIN u = {}
  <2>1. s.verb = None
    BY <1>2, <1>3 DEF Table!Refused
  <2>2. Done(ir) = Table!Failed("refused")
    BY <2>1 DEF Done, s
  <2> QED BY <2>2, RefusedIs DEF Outcome
<1>4. CASE DOMAIN u # {}
  <2>1. s.verb = "UPDATE" /\ s.set = u
    BY <1>2, <1>4
  <2>2. "UPDATE" # None
    BY NoneIs DEF Table!Words
  <2>3. Done(ir) = Table!Updated(s)
    BY <2>1, <2>2 DEF Done, Table!RunWrite, s
  <2>4. Table!Updated(s).table \in Tables
    BY <1>1, <2>1, UpdatedIs
  <2> QED BY <2>3, <2>4
<1> QED BY <1>3, <1>4

LEMMA InsertDone ==
    ASSUME Table!NoneIsNoValue, RowIds \subseteq Nat, tTable \in Tables,
           NEW k \in RowIds, NEW link \in Table!Links, NEW x, Second(k, x), NEW mode \in Modes
    PROVE  LET d == Done(InsertOf(k, link, x, mode)) IN
           d.table \in Tables /\ StoresOrKeeps(InsertOf(k, link, x, mode), tTable, d.table, Table!Answer(d))
<1> DEFINE ir == InsertOf(k, link, x, mode)
           s == Table!Compile(ir)
           d == Done(ir)
<1>1. s.verb = None \/ Inserting(s, k, x, mode)
  BY InsertCompiled
<1>2. ir.rows = <<Table!Given(k, link), x>> /\ ir.on_conflict = mode
  BY DEF InsertOf
<1> HIDE DEF ir, s
<1>3. CASE s.verb = None
  <2>1. d = Table!Failed("refused")
    BY <1>3 DEF Done, s
  <2> HIDE DEF d
  <2>2. d.table = tTable /\ d.error # None
    BY <2>1, RefusedIs, FailedIs
  <2>3. Table!Answer(d).error # None
    BY <2>2, AnswerTells
  <2> QED BY <2>2, <2>3 DEF StoresOrKeeps, d, ir
<1>4. CASE s.verb # None
  <2> DEFINE v == s.verb
             t1 == s.tuples[1]
             t2 == s.tuples[2]
             d0 == [table |-> tTable, count |-> 0, returned |-> <<>>, error |-> None]
             d1 == Table!InsertTuple(v, d0, t1)
             d2 == Table!InsertTuple(v, d1, t2)
  <2>1. d = Table!RunWrite(s)
    BY <1>4 DEF Done, s
  <2>2. v # "UPDATE" /\ v # "DELETE" /\ Len(s.tuples) = 2 /\ VerbOf(v, mode) /\ FirstTuple(t1, k) /\ SecondTuple(t2, x)
    BY <1>1, <1>4 DEF Inserting
  <2>4. t1 \in Rows /\ t2 \in Rows /\ t1["id"] \in RowIds /\ t2["id"] \in RowIds
    BY <2>2 DEF FirstTuple, SecondTuple, Second
  <2>5. d = Table!Inserted(s)
    <3> HIDE DEF d
    <3> QED BY <2>1, <2>2 DEF Table!RunWrite
  <2>3. d = d2
    <3> HIDE DEF d
    <3> QED BY <2>2, <2>5, InsertedOneByOne
  <2>6. d0.table = tTable /\ d0.error = None /\ Outcome(d0)
    <3>1. d0.table = tTable /\ d0.error = None /\ d0.returned = <<>> /\ d0.count = 0
      OBVIOUS
    <3> HIDE DEF d0
    <3>2. d0.returned \in Seq(Rows) /\ d0.count \in Nat /\ d0.count = Len(d0.returned)
      BY <3>1
    <3> QED BY <3>1, <3>2 DEF Outcome
  <2> HIDE DEF d, d0, t1, t2, v
  <2>7. Outcome(d1) /\ (d1.error = None => Put(v, tTable, d1.table, t1))
    BY <2>4, <2>6, TuplePut
  <2> HIDE DEF d1
  <2>8. Outcome(d) /\ (d.error = None => d1.error = None /\ Put(v, d1.table, d.table, t2))
    BY <2>3, <2>4, <2>7, TuplePut
  <2>9. Table!Answer(d).error = d.error /\ Table!Answer(d).affected = d.count
        /\ (Table!SupportsReturning => Len(Table!Answer(d).rows) = Len(d.returned))
    BY <2>8, AnswerTells DEF Outcome
  <2>10. CASE d.error # None
    BY <2>8, <2>9, <2>10 DEF Outcome, StoresOrKeeps, d, ir
  <2>11. CASE d.error = None
    <3> DEFINE m == d1.table
               U == d.table
    <3>2. m \in Tables /\ U \in Tables /\ Put(v, tTable, m, t1) /\ Put(v, m, U, t2)
      BY <2>7, <2>8, <2>11 DEF Outcome
    <3> HIDE DEF m
    <3>3. \A q \in RowIds : KeyKept(<<Table!Given(k, link), x>>, mode, tTable, U, q)
      <4> HIDE DEF U
      <4> TAKE q \in RowIds
      <4> QED BY <2>2, <3>2, BothPut
    <3>4. Table!SupportsReturning => Table!Answer(d).affected = Len(Table!Answer(d).rows)
      BY <2>8, <2>9, <2>11 DEF Outcome, Table!SupportsReturning
    <3>5. StoresOrKeeps(ir, tTable, U, Table!Answer(d))
      <4> HIDE DEF U
      <4> QED BY <1>2, <2>9, <2>11, <3>3, <3>4 DEF StoresOrKeeps
    <3> QED BY <3>2, <3>5 DEF d, ir
  <2> QED BY <2>10, <2>11
<1> QED BY <1>3, <1>4

LEMMA DoneIs ==
    ASSUME Table!NoneIsNoValue, RowIds \subseteq Nat, tTable \in Tables, NEW ir \in Table!Mutations
    PROVE  /\ Done(ir).table \in Tables
           /\ ir.operation = "insert" => StoresOrKeeps(ir, tTable, Done(ir).table, Table!Answer(Done(ir)))
<1> DEFINE first(k, j) == <<Table!Given(k, [id |-> 1]), Table!Row(j, 0)>>
           second(k, link) == <<Table!Given(k, link), [id |-> k]>>
           doubles == {first(k, j) : k \in RowIds, j \in RowIds}
                      \cup {second(k, link) : k \in RowIds, link \in Table!Links}
           filters == {<<"id", k>> : k \in RowIds} \cup {<<"a", 0>>}
           sets == {[a |-> 1], [doc |-> None]} \cup {[id |-> k] : k \in RowIds}
<1>1. \/ \E mode \in Modes, rows \in doubles : ir = [operation |-> "insert", rows |-> rows, on_conflict |-> mode]
      \/ \E filter \in filters, set \in sets : ir = [operation |-> "update", filter |-> filter, set |-> set]
      \/ \E filter \in filters : ir = [operation |-> "delete", filter |-> filter]
  <2>1. Table!Mutations =
            {[operation |-> "insert", rows |-> rows, on_conflict |-> mode] : mode \in Modes, rows \in doubles}
            \cup {[operation |-> "update", filter |-> filter, set |-> set] : filter \in filters, set \in sets}
            \cup {[operation |-> "delete", filter |-> filter] : filter \in filters}
    BY DEF Table!Mutations, Modes
  <2> HIDE DEF doubles, filters, sets
  <2> QED BY <2>1
<1> HIDE DEF doubles
<1>2. CASE \E mode \in Modes, rows \in doubles : ir = [operation |-> "insert", rows |-> rows, on_conflict |-> mode]
  <2>1. PICK mode \in Modes, rows \in doubles : ir = [operation |-> "insert", rows |-> rows, on_conflict |-> mode]
    BY <1>2
  <2>2. ASSUME NEW k \in RowIds, NEW link \in Table!Links, NEW x, rows = <<Table!Given(k, link), x>>, Second(k, x)
        PROVE  Done(ir).table \in Tables /\ StoresOrKeeps(ir, tTable, Done(ir).table, Table!Answer(Done(ir)))
    <3>1. ir = InsertOf(k, link, x, mode)
      BY <2>1, <2>2 DEF InsertOf
    <3> QED BY <2>2, <3>1, InsertDone
  <2>0. \/ \E k \in RowIds, j \in RowIds : rows = <<Table!Given(k, [id |-> 1]), Table!Row(j, 0)>>
        \/ \E k \in RowIds, link \in Table!Links : rows = <<Table!Given(k, link), [id |-> k]>>
    <3> HIDE DEF first, second
    <3>1. \/ \E k \in RowIds, j \in RowIds : rows = first(k, j)
          \/ \E k \in RowIds, link \in Table!Links : rows = second(k, link)
      BY DEF doubles
    <3> QED BY <3>1 DEF first, second
  <2>3. CASE \E k \in RowIds, j \in RowIds : rows = <<Table!Given(k, [id |-> 1]), Table!Row(j, 0)>>
    <3>1. PICK k \in RowIds, j \in RowIds : rows = <<Table!Given(k, [id |-> 1]), Table!Row(j, 0)>>
      BY <2>3
    <3> DEFINE x == Table!Row(j, 0)
    <3>2. DOMAIN x = {"id", "a"} /\ x["id"] = j /\ x["a"] = 0
      BY DEF Table!Row
    <3>3. rows = <<Table!Given(k, [id |-> 1]), x>>
      BY <3>1
    <3> HIDE DEF x
    <3>4. Second(k, x)
      BY <3>2 DEF Second
    <3>5. [id |-> 1] \in Table!Links
      BY DEF Table!Links
    <3> QED BY <2>2, <3>3, <3>4, <3>5
  <2>4. CASE \E k \in RowIds, link \in Table!Links : rows = <<Table!Given(k, link), [id |-> k]>>
    <3>1. PICK k \in RowIds, link \in Table!Links : rows = <<Table!Given(k, link), [id |-> k]>>
      BY <2>4
    <3> DEFINE x == [id |-> k]
    <3>2. DOMAIN x = {"id"} /\ x["id"] = k
      OBVIOUS
    <3>3. rows = <<Table!Given(k, link), x>>
      BY <3>1
    <3> HIDE DEF x
    <3>4. Second(k, x)
      BY <3>2 DEF Second
    <3> QED BY <2>2, <3>3, <3>4
  <2> QED BY <2>0, <2>3, <2>4
<1>3. CASE \E filter \in filters, set \in sets : ir = [operation |-> "update", filter |-> filter, set |-> set]
  <2>1. PICK filter \in filters, set \in sets : ir = [operation |-> "update", filter |-> filter, set |-> set]
    BY <1>3
  <2>2. ir.operation # "insert"
    BY <2>1
  <2>3. Done([operation |-> "update", filter |-> filter, set |-> set]).table \in Tables
    BY UpdateDone
  <2> QED BY <2>1, <2>2, <2>3
<1>4. CASE \E filter \in filters : ir = [operation |-> "delete", filter |-> filter]
  <2>1. PICK filter \in filters : ir = [operation |-> "delete", filter |-> filter]
    BY <1>4
  <2>2. ir.operation # "insert"
    BY <2>1
  <2>3. Done([operation |-> "delete", filter |-> filter]).table \in Tables
    BY DeleteDone
  <2> QED BY <2>1, <2>2, <2>3
<1> QED BY <1>1, <1>2, <1>3, <1>4

-----------------------------------------------------------------------------
(* The invariant, and the steps.                                              *)

LastInsert ==
    tLast # None /\ tLast.ir.operation = "insert" => StoresOrKeeps(tLast.ir, tLast.before, tTable, tLast.answer)

TableTypes ==
    /\ tTable \in Tables /\ tDialect \in Table!Dialects /\ tWrites \in 0..MaxWrites /\ tStream \in Streams

TableInv ==
    /\ TableTypes /\ LastInsert
    /\ Bounded(tStream)
    /\ Calm(tStream, Shown(tStream.filter, tStream.sort))
    /\ Single(tStream, Wanted(tStream.filter))
    /\ Reached(tStream, Wanted(tStream.filter))
    /\ Counted(tStream, Cardinality(Wanted(tStream.filter)))

LEMMA NoStreamIs ==
    ASSUME Table!NoneIsNoValue
    PROVE  Table!NoStream \in Streams
<1>1. <<>> \in Seq(DecodedRows) /\ {} \in SUBSET RowIds
  OBVIOUS
<1> QED BY <1>1 DEF Table!NoStream, Streams

LEMMA TableInit == Table!KeysAreNumbers /\ Table!NoneIsNoValue /\ Table!Init => TableInv
<1> SUFFICES ASSUME Table!KeysAreNumbers, Table!NoneIsNoValue, Table!Init PROVE TableInv
  OBVIOUS
<1>1. tTable \in Tables
  <2>1. PICK kept \in {RowIds, RowIds \ {1}} : tTable = [k \in RowIds |-> IF k \in kept THEN Table!Full(Table!Row(k, 0)) ELSE None]
    BY DEF Table!Init
  <2>2. ASSUME NEW k \in RowIds PROVE Table!Full(Table!Row(k, 0)) \in Rows /\ Table!Full(Table!Row(k, 0))["id"] = k
    <3> DEFINE x == Table!Row(k, 0)
    <3>1. DOMAIN x = {"id", "a"} /\ x["id"] = k /\ x["a"] = 0
      BY DEF Table!Row
    <3>2. k \in Table!Values /\ 0 \in Table!Values /\ None \in Table!Values
      BY DEF Table!Values, Table!KeysAreNumbers
    <3> HIDE DEF x
    <3> QED BY <3>1, <3>2 DEF Table!Full, Rows, Table!Columns, x
  <2> DEFINE row(k) == Table!Full(Table!Row(k, 0))
  <2>3. \A k \in RowIds : row(k) \in Rows /\ row(k)["id"] = k
    BY <2>2
  <2>4. tTable = [k \in RowIds |-> IF k \in kept THEN row(k) ELSE None]
    BY <2>1
  <2> HIDE DEF row
  <2>5. tTable \in [RowIds -> Rows \cup {None}]
    BY <2>3, <2>4
  <2>6. \A k \in RowIds : tTable[k] # None => tTable[k]["id"] = k
    BY <2>3, <2>4
  <2> QED BY <2>5, <2>6 DEF Tables
<1>2. TableTypes
  <2>1. tWrites \in 0..MaxWrites
    BY DEF Table!Init, Table!KeysAreNumbers
  <2>2. tStream \in Streams
    BY NoStreamIs DEF Table!Init
  <2> QED BY <1>1, <2>1, <2>2 DEF TableTypes, Table!Init
<1>3. LastInsert
  BY DEF LastInsert, Table!Init
<1>4. /\ tStream.state = "none" /\ tStream.out = <<>> /\ tStream.limit = None /\ tStream.remaining = None
      /\ tStream.sort = None
  BY DEF Table!Init, Table!NoStream
<1>5. Bounded(tStream)
  BY <1>4 DEF Bounded
<1>6. Calm(tStream, Shown(tStream.filter, tStream.sort)) /\ Single(tStream, Wanted(tStream.filter))
      /\ Reached(tStream, Wanted(tStream.filter)) /\ Counted(tStream, Cardinality(Wanted(tStream.filter)))
  <2>1. ~Table!ByKey(None)
    BY NoneIs DEF Table!ByKey, Table!Words
  <2> QED BY <1>4, <2>1 DEF Calm, Single, Reached, Counted
<1> QED BY <1>2, <1>3, <1>5, <1>6 DEF TableInv

LEMMA SameRows ==
    tTable' = tTable => \A f, o : Shown(f, o)' = Shown(f, o) /\ Wanted(f)' = Wanted(f)
BY DEF Shown, Wanted, Table!Matching, Table!MatchingIn

\* The rows a write of ir leaves.
WantedThen(ir, filter) == Table!MatchingIn(Done(ir).table, filter)

LEMMA WriteIs ==
    ASSUME Table!Write
    PROVE  /\ tWrites < MaxWrites /\ tStream.state # "ended" /\ tWrites' = tWrites + 1 /\ tDialect' = tDialect
           /\ \E ir \in Table!Mutations :
                /\ tTable' = Done(ir).table
                /\ tLast' = [ir |-> ir, before |-> tTable, answer |-> Table!Answer(Done(ir))]
                /\ tStream' = Disturbed(tStream, Wanted(tStream.filter), WantedThen(ir, tStream.filter), Done(ir).table = tTable)
BY DEF Table!Write, Done, Disturbed, Wanted, WantedThen

LEMMA WriteKeeps ==
    ASSUME Table!KeysAreNumbers, Table!NoneIsNoValue, TableInv, Table!Write
    PROVE  TableInv'
<1> DEFINE s == tStream
<1>1. /\ tTable \in Tables /\ tDialect \in Table!Dialects /\ tWrites \in 0..MaxWrites /\ s \in Streams /\ Bounded(s)
      /\ Calm(s, Shown(s.filter, s.sort)) /\ Single(s, Wanted(s.filter)) /\ Reached(s, Wanted(s.filter))
      /\ Counted(s, Cardinality(Wanted(s.filter)))
  BY DEF TableInv, TableTypes
<1>2. tWrites < MaxWrites /\ s.state # "ended" /\ tWrites' = tWrites + 1 /\ tDialect' = tDialect
  BY WriteIs
<1>3. PICK ir \in Table!Mutations :
          /\ tTable' = Done(ir).table
          /\ tLast' = [ir |-> ir, before |-> tTable, answer |-> Table!Answer(Done(ir))]
          /\ tStream' = Disturbed(s, Wanted(s.filter), WantedThen(ir, s.filter), Done(ir).table = tTable)
  BY WriteIs
<1>4. RowIds \subseteq Nat /\ MaxWrites \in Nat
  BY DEF Table!KeysAreNumbers
<1>5. Done(ir).table \in Tables
      /\ (ir.operation = "insert" => StoresOrKeeps(ir, tTable, Done(ir).table, Table!Answer(Done(ir))))
  BY <1>1, <1>4, DoneIs
<1> DEFINE before == Wanted(s.filter)
           after == WantedThen(ir, s.filter)
           same == Done(ir).table = tTable
           t == Disturbed(s, before, after, same)
<1>6. before \in SUBSET RowIds /\ after \in SUBSET RowIds /\ same \in BOOLEAN
  BY WantedIs DEF WantedThen, Table!MatchingIn
<1>7. \A f : Wanted(f)' = WantedThen(ir, f)
  BY <1>3 DEF Wanted, WantedThen, Table!Matching, Table!MatchingIn
<1>8. same => \A f, o : Shown(f, o)' = Shown(f, o)
  <2> SUFFICES ASSUME same PROVE \A f, o : Shown(f, o)' = Shown(f, o)
    OBVIOUS
  <2>1. tTable' = tTable
    BY <1>3
  <2> QED BY <2>1 DEF Shown, Wanted, Table!Matching, Table!MatchingIn
<1>9. tStream' = t
  BY <1>3
<1> HIDE DEF before, after, same
<1>10. /\ t \in Streams /\ Bounded(t)
       /\ t.filter = s.filter /\ t.sort = s.sort /\ t.first = s.first /\ t.limit = s.limit
       /\ t.offset = s.offset /\ t.out = s.out /\ t.state = s.state
       /\ t.quiet => s.quiet /\ same
  BY <1>1, <1>6, DisturbedIs
<1>11. Single(t, after) /\ Reached(t, after)
  BY <1>1, <1>2, <1>6, DisturbedKeeps DEF before
<1>12. Calm(t, Shown(s.filter, s.sort)) /\ Counted(t, Cardinality(before))
  BY <1>1, <1>10 DEF Calm, Counted, before
<1> HIDE DEF t
<1>13. Wanted(tStream.filter)' = after
  BY <1>7, <1>9, <1>10 DEF after
<1>14. Single(tStream, Wanted(tStream.filter))' /\ Reached(tStream, Wanted(tStream.filter))'
  <2>1. Single(t, Wanted(tStream.filter)') /\ Reached(t, Wanted(tStream.filter)')
    BY <1>11, <1>13
  <2> QED BY <1>9, <2>1 DEF Single, Reached, Place
<1>15. Calm(tStream, Shown(tStream.filter, tStream.sort))'
  <2>1. CASE same
    <3>1. Shown(tStream.filter, tStream.sort)' = Shown(s.filter, s.sort)
      BY <1>8, <1>9, <1>10, <2>1
    <3>2. Calm(t, Shown(tStream.filter, tStream.sort)')
      BY <1>12, <3>1
    <3> QED BY <1>9, <3>2 DEF Calm
  <2>2. CASE ~same
    BY <1>9, <1>10, <2>2 DEF Calm
  <2> QED BY <2>1, <2>2
<1>16. Counted(tStream, Cardinality(Wanted(tStream.filter)))'
  <2>1. CASE same
    <3>1. Wanted(tStream.filter)' = before
      <4>1. tTable' = tTable
        BY <1>3, <2>1 DEF same
      <4> QED BY <1>9, <1>10, <4>1, SameRows DEF before
    <3>2. Counted(t, Cardinality(Wanted(tStream.filter)'))
      BY <1>12, <3>1
    <3> QED BY <1>9, <3>2 DEF Counted
  <2>2. CASE ~same
    BY <1>9, <1>10, <2>2 DEF Counted
  <2> QED BY <2>1, <2>2
<1>17. Bounded(tStream)'
  BY <1>9, <1>10 DEF Bounded
<1>18. TableTypes'
  <2>1. tWrites' \in 0..MaxWrites
    BY <1>1, <1>2, <1>4
  <2> QED BY <1>1, <1>2, <1>3, <1>5, <1>9, <1>10, <2>1 DEF TableTypes
<1>19. LastInsert'
  <2> DEFINE l == [ir |-> ir, before |-> tTable, answer |-> Table!Answer(Done(ir))]
  <2>1. tLast' = l /\ l.ir = ir /\ l.before = tTable /\ l.answer = Table!Answer(Done(ir))
    BY <1>3
  <2>2. tDialect' = tDialect
    BY <1>2
  <2> HIDE DEF l
  <2>3. ir.operation = "insert" => StoresOrKeeps(ir, tTable, tTable', l.answer)
    BY <1>3, <1>5, <2>1
  <2> QED BY <2>1, <2>2, <2>3 DEF LastInsert, StoresOrKeeps, Table!SupportsReturning
<1> QED BY <1>14, <1>15, <1>17, <1>18, <1>19, <1>16 DEF TableInv

LEMMA StreamIs ==
    ASSUME Table!Stream
    PROVE  /\ tStream.state = "none" /\ tLast' = None /\ UNCHANGED <<tDialect, tTable, tWrites>>
           /\ \E sort \in {"asc", "desc", "a", None}, filter \in {None, <<"a", 0>>}, offset \in Offsets,
                 limit \in Limits \cup {None}, batch \in Batches :
                tStream' = [Table!NoStream EXCEPT !.filter = filter, !.sort = sort, !.first = offset, !.offset = offset,
                                !.remaining = limit, !.limit = limit, !.batch = batch,
                                !.steady = Wanted(filter), !.state = IF limit = 0 THEN "ended" ELSE "open"]
<1> DEFINE opened(sort, filter, offset, limit, batch) ==
               tStream' = [Table!NoStream EXCEPT !.filter = filter, !.sort = sort, !.first = offset, !.offset = offset,
                               !.remaining = limit, !.limit = limit, !.batch = batch,
                               !.steady = Wanted(filter), !.state = IF limit = 0 THEN "ended" ELSE "open"]
           tried(sort, filter) == sort \in IF filter = None THEN {"asc", "a"} ELSE {"asc", "desc", None}
<1>1. /\ tStream.state = "none"
      /\ \E sort \in {"asc", "desc", "a", None}, filter \in {None, <<"a", 0>>}, offset \in Offsets,
            limit \in Limits \cup {None}, batch \in Batches :
           tried(sort, filter) /\ opened(sort, filter, offset, limit, batch)
      /\ tLast' = None /\ UNCHANGED <<tDialect, tTable, tWrites>>
  BY DEF Table!Stream, Wanted
<1> HIDE DEF opened, tried
<1>2. \E sort \in {"asc", "desc", "a", None}, filter \in {None, <<"a", 0>>}, offset \in Offsets,
         limit \in Limits \cup {None}, batch \in Batches : opened(sort, filter, offset, limit, batch)
  BY <1>1
<1> QED BY <1>1, <1>2 DEF opened

LEMMA StreamKeeps ==
    ASSUME Table!KeysAreNumbers, Table!WindowsAreLegal, Table!NoneIsNoValue, TableInv, Table!Stream
    PROVE  TableInv'
<1>1. PICK sort \in {"asc", "desc", "a", None}, filter \in {None, <<"a", 0>>}, offset \in Offsets,
           limit \in Limits \cup {None}, batch \in Batches :
          tStream' = [Table!NoStream EXCEPT !.filter = filter, !.sort = sort, !.first = offset, !.offset = offset,
                          !.remaining = limit, !.limit = limit, !.batch = batch,
                          !.steady = Wanted(filter), !.state = IF limit = 0 THEN "ended" ELSE "open"]
  BY StreamIs
<1>2. tLast' = None /\ tDialect' = tDialect /\ tTable' = tTable /\ tWrites' = tWrites
  BY StreamIs
<1> DEFINE keys == Wanted(filter)
           r == Shown(filter, sort)
           t == [Table!NoStream EXCEPT !.filter = filter, !.sort = sort, !.first = offset, !.offset = offset,
                     !.remaining = limit, !.limit = limit, !.batch = batch, !.steady = keys,
                     !.state = IF limit = 0 THEN "ended" ELSE "open"]
<1>3. tStream' = t
  BY <1>1
<1>4. keys \in SUBSET RowIds
  BY WantedIs
<1> HIDE DEF keys, r
<1>5. t \in Streams
  <2>1. offset \in Nat /\ limit \in Nat \cup {None} /\ batch \in Nat /\ filter \in {None, <<"a", 0>>}
    BY DEF Table!WindowsAreLegal
  <2> QED BY <1>4, <2>1, NoStreamIs DEF Streams
<1>6. /\ t.filter = filter /\ t.sort = sort /\ t.first = offset /\ t.offset = offset /\ t.remaining = limit
      /\ t.limit = limit /\ t.batch = batch /\ t.steady = keys /\ t.out = <<>>
      /\ t.state = (IF limit = 0 THEN "ended" ELSE "open")
      /\ t.came = FALSE /\ t.went = FALSE
  BY DEF Table!NoStream
<1> HIDE DEF t
<1>7. Bounded(t)
  <2>1. offset \in Nat /\ batch > 0 /\ (limit = None \/ limit \in Nat) /\ Len(<<>>) = 0
    BY DEF Table!WindowsAreLegal
  <2>2. None \notin Nat
    BY NoneIs
  <2>3. t.state = "open" /\ limit # None => limit > 0
    BY <1>6, <2>1
  <2>4. t.limit # None => t.remaining + Len(t.out) = t.limit
    BY <1>6, <2>1
  <2>5. t.offset = t.first + Len(t.out)
    BY <1>6, <2>1
  <2> QED BY <1>6, <2>1, <2>3, <2>4, <2>5 DEF Bounded
<1>8. Calm(t, r)
  <2> SUFFICES ASSUME Table!ByKey(sort)
               PROVE  IF t.state = "open" THEN t.out = SubSeq(r, t.first + 1, t.offset)
                      ELSE t.out = Table!Window(r, t.limit, t.first)
    BY <1>6 DEF Calm
  <2>1. offset \in Nat /\ r \in Seq(DecodedRows)
    <3>1. tTable \in Tables
      BY DEF TableInv, TableTypes
    <3> QED BY <3>1, ShownIs DEF Table!WindowsAreLegal, r
  <2>2. \A n \in Nat : n < offset + 1 => SubSeq(r, offset + 1, n) = <<>>
    BY <2>1, SubSeqEmpty
  <2>3. SubSeq(r, offset + 1, offset) = <<>>
    BY <2>1, <2>2
  <2>4. CASE limit = 0
    <3>1. t.state = "ended" /\ Table!Window(r, t.limit, t.first) = Table!Window(r, 0, offset)
      BY <1>6, <2>4
    <3>2. Table!Window(r, 0, offset) = <<>>
      <4> DEFINE l == Len(r)
                 n == IF offset + 0 > l THEN l ELSE offset + 0
      <4>1. Table!Window(r, 0, offset) = SubSeq(r, offset + 1, n)
        <5>1. 0 # None
          BY NoneIs
        <5> QED BY <5>1 DEF Table!Window
      <4>2. l \in Nat
        BY <2>1
      <4> HIDE DEF l
      <4>3. n \in Nat /\ n < offset + 1
        BY <2>1, <4>2
      <4> HIDE DEF n
      <4> QED BY <2>2, <4>1, <4>3
    <3> QED BY <1>6, <3>1, <3>2
  <2>5. CASE limit # 0
    BY <1>6, <2>3, <2>5
  <2> QED BY <2>4, <2>5
<1>9. Len(t.out) = 0
  BY <1>6
<1>10. Counted(t, Cardinality(keys))
  <2>1. Cardinality(keys) \in Nat /\ offset \in Nat
    BY <1>4, PlacesAre DEF Table!WindowsAreLegal
  <2> DEFINE n == Cardinality(keys)
  <2> HIDE DEF n
  <2>2. Extent(n, 0, offset) = 0
    BY <2>1, NoneIs DEF Extent, n
  <2> QED BY <1>6, <1>9, <2>2 DEF Counted, n
<1>11. Single(t, keys)
  BY <1>9 DEF Single
<1>12. Reached(t, keys)
  <2> SUFFICES ASSUME t.limit = None, t.first = 0, NEW k \in t.steady,
                      t.state = "ended" \/ Place(keys, t.sort, k) < t.offset
               PROVE  FALSE
    BY <1>6 DEF Reached
  <2>1. Place(keys, sort, k) \in Nat
    BY <1>4, <1>6, PlacesGrow
  <2>2. Place(keys, sort, k) < 0
    <3>1. None # 0
      BY NoneIs
    <3>2. t.state = "open"
      BY <1>6, <3>1
    <3> QED BY <1>6, <3>2
  <2> QED BY <2>1, <2>2
<1>13. Shown(tStream.filter, tStream.sort)' = r /\ Wanted(tStream.filter)' = keys
  BY <1>2, <1>3, <1>6, SameRows DEF r, keys
<1>14. Calm(tStream, Shown(tStream.filter, tStream.sort))'
  <2>1. Calm(t, Shown(tStream.filter, tStream.sort)')
    BY <1>8, <1>13
  <2> QED BY <1>3, <2>1 DEF Calm
<1>15. Single(tStream, Wanted(tStream.filter))' /\ Reached(tStream, Wanted(tStream.filter))'
  <2>1. Single(t, Wanted(tStream.filter)') /\ Reached(t, Wanted(tStream.filter)')
    BY <1>11, <1>12, <1>13
  <2> QED BY <1>3, <2>1 DEF Single, Reached, Place
<1>16. Bounded(tStream)'
  BY <1>3, <1>7 DEF Bounded
<1>17. TableTypes'
  BY <1>2, <1>3, <1>5 DEF TableInv, TableTypes
<1>18. LastInsert'
  BY <1>2 DEF LastInsert
<1>19. Counted(tStream, Cardinality(Wanted(tStream.filter)))'
  <2>1. Counted(t, Cardinality(Wanted(tStream.filter)'))
    BY <1>13, <1>10
  <2> QED BY <1>3, <2>1 DEF Counted
<1> QED BY <1>14, <1>15, <1>16, <1>17, <1>18, <1>19 DEF TableInv

LEMMA FetchIs ==
    ASSUME Table!NoneIsNoValue, TableInv, Table!Fetch
    PROVE  /\ tStream.state = "open" /\ tLast' = None /\ UNCHANGED <<tDialect, tTable, tWrites>>
           /\ \E r \in Table!OrderedRows(tStream.filter, tStream.sort) :
                tStream' = Moved(tStream, Table!Window(r, Share(tStream), tStream.offset))
<1> DEFINE s == tStream
<1>1. Table!WindowSize = Share(s)
  BY DEF Table!WindowSize, Share
<1>2. Share(s) # None
  <2>1. s.state = "open"
    BY DEF Table!Fetch
  <2>2. Share(s) \in Nat
    BY <2>1, WindowSizes DEF TableInv, TableTypes
  <2> QED BY <2>2, NoneIs
<1>3. Table!SelectRows(s.filter, s.sort, Share(s), s.offset) =
          {Table!Window(rows, Share(s), s.offset) : rows \in Table!OrderedRows(s.filter, s.sort)}
  BY <1>2 DEF Table!SelectRows, Table!Refuses
<1>4. /\ s.state = "open" /\ tLast' = None /\ UNCHANGED <<tDialect, tTable, tWrites>>
      /\ \E rows \in Table!SelectRows(s.filter, s.sort, Share(s), s.offset) : tStream' = Moved(s, rows)
  BY <1>1 DEF Table!Fetch, Moved
<1> QED BY <1>3, <1>4

LEMMA FetchKeeps ==
    ASSUME Table!KeysAreNumbers, Table!NoneIsNoValue, TableInv, Table!Fetch
    PROVE  TableInv'
<1> DEFINE s == tStream
           keys == Wanted(s.filter)
<1>1. /\ tTable \in Tables /\ s \in Streams /\ Bounded(s)
      /\ Calm(s, Shown(s.filter, s.sort)) /\ Single(s, keys) /\ Reached(s, keys)
      /\ Counted(s, Cardinality(keys))
  BY DEF TableInv, TableTypes
<1>2. s.state = "open" /\ tLast' = None /\ tDialect' = tDialect /\ tTable' = tTable /\ tWrites' = tWrites
  BY FetchIs
<1>3. PICK r \in Table!OrderedRows(s.filter, s.sort) :
          tStream' = Moved(s, Table!Window(r, Share(s), s.offset))
  BY FetchIs
<1> DEFINE rows == Table!Window(r, Share(s), s.offset)
           t == Moved(s, rows)
<1>4. r \in Seq(DecodedRows) /\ Len(r) = Cardinality(keys)
  BY <1>1, OrderedAre
<1>5. Share(s) \in Nat /\ s.offset \in Nat
  BY <1>1, <1>2, WindowSizes DEF Streams
<1>6. rows \in Seq(DecodedRows) /\ Len(rows) <= Share(s)
  BY <1>4, <1>5, WindowIs
<1>7. tStream' = t
  BY <1>3
<1>8. /\ t \in Streams /\ Bounded(t) /\ t.filter = s.filter /\ t.sort = s.sort
  <2> HIDE DEF rows
  <2> QED BY <1>1, <1>2, <1>6, MovedIs
<1>9. Table!ByKey(s.sort) => r = Shown(s.filter, s.sort)
  BY OneOrder
<1>10. Table!ByKey(s.sort) => Lines(r, keys, s.sort)
  <2> SUFFICES ASSUME Table!ByKey(s.sort) PROVE Lines(r, keys, s.sort)
    OBVIOUS
  <2>1. r = Shown(s.filter, s.sort)
    BY <1>9
  <2>2. Lines(Shown(s.filter, s.sort), Wanted(s.filter), s.sort)
    BY <1>1, ShownIs DEF Lines
  <2> QED BY <2>1, <2>2
<1>11. Calm(t, Shown(s.filter, s.sort))
  <2>1. CASE Table!ByKey(s.sort)
    BY <1>1, <1>2, <1>4, <1>9, <2>1, MovedCalm
  <2>2. CASE ~Table!ByKey(s.sort)
    <3> HIDE DEF t
    <3> QED BY <1>8, <2>2 DEF Calm
  <2> QED BY <2>1, <2>2
<1>12. Single(t, keys)
  <2>1. CASE Table!ByKey(s.sort)
    BY <1>1, <1>2, <1>4, <1>10, <2>1, MovedSingle
  <2>2. CASE ~Table!ByKey(s.sort)
    <3> HIDE DEF t
    <3> QED BY <1>8, <2>2 DEF Single
  <2> QED BY <2>1, <2>2
<1>13. Reached(t, keys)
  <2>1. CASE Table!ByKey(s.sort)
    BY <1>1, <1>2, <1>4, <1>10, <2>1, MovedReached
  <2>2. CASE ~Table!ByKey(s.sort)
    <3>1. s.steady \subseteq keys /\ t.steady = s.steady
      <4> HIDE DEF rows
      <4> QED BY <1>1, <1>2, <1>6, MovedIs DEF Reached
    <3> HIDE DEF t
    <3> QED BY <1>8, <2>2, <3>1 DEF Reached
  <2> QED BY <2>1, <2>2
<1>14. Counted(t, Cardinality(keys))
  <2>1. Counted(s, Len(r))
    BY <1>1, <1>4
  <2>2. Counted(t, Len(r))
    BY <1>1, <1>2, <1>4, <2>1, MovedCounted
  <2> HIDE DEF t
  <2> QED BY <1>4, <2>2
<1> HIDE DEF t, keys
<1>15. Shown(tStream.filter, tStream.sort)' = Shown(s.filter, s.sort) /\ Wanted(tStream.filter)' = keys
  BY <1>2, <1>7, <1>8, SameRows DEF keys
<1>16. Calm(tStream, Shown(tStream.filter, tStream.sort))'
  <2>1. Calm(t, Shown(tStream.filter, tStream.sort)')
    BY <1>11, <1>15
  <2> QED BY <1>7, <2>1 DEF Calm
<1>17. Single(tStream, Wanted(tStream.filter))' /\ Reached(tStream, Wanted(tStream.filter))'
  <2>1. Single(t, Wanted(tStream.filter)') /\ Reached(t, Wanted(tStream.filter)')
    BY <1>12, <1>13, <1>15
  <2> QED BY <1>7, <2>1 DEF Single, Reached, Place
<1>18. Bounded(tStream)'
  BY <1>7, <1>8 DEF Bounded
<1>19. TableTypes'
  BY <1>2, <1>7, <1>8 DEF TableInv, TableTypes
<1>20. LastInsert'
  BY <1>2 DEF LastInsert
<1>21. Counted(tStream, Cardinality(Wanted(tStream.filter)))'
  <2>1. Counted(t, Cardinality(Wanted(tStream.filter)'))
    BY <1>15, <1>14
  <2> QED BY <1>7, <2>1 DEF Counted
<1> QED BY <1>16, <1>17, <1>18, <1>19, <1>20, <1>21 DEF TableInv

LEMMA StutterKeepsTable ==
    ASSUME TableInv, UNCHANGED Table!vars
    PROVE  TableInv'
<1>1. tDialect' = tDialect /\ tTable' = tTable /\ tWrites' = tWrites /\ tLast' = tLast /\ tStream' = tStream
  BY DEF Table!vars
<1>2. \A f, o : Shown(f, o)' = Shown(f, o) /\ Wanted(f)' = Wanted(f)
  BY <1>1, SameRows
<1>3. Shown(tStream.filter, tStream.sort)' = Shown(tStream.filter, tStream.sort)
      /\ Wanted(tStream.filter)' = Wanted(tStream.filter)
  BY <1>1, <1>2
<1>4. TableTypes' /\ LastInsert' /\ Bounded(tStream)'
  BY <1>1 DEF TableInv, TableTypes, LastInsert, Bounded, StoresOrKeeps, Table!SupportsReturning
<1>5. Calm(tStream, Shown(tStream.filter, tStream.sort))'
  <2>1. Calm(tStream, Shown(tStream.filter, tStream.sort)')
    BY <1>3 DEF TableInv
  <2> QED BY <1>1, <2>1 DEF Calm
<1>6. Single(tStream, Wanted(tStream.filter))' /\ Reached(tStream, Wanted(tStream.filter))'
  <2>1. Single(tStream, Wanted(tStream.filter)') /\ Reached(tStream, Wanted(tStream.filter)')
    BY <1>3 DEF TableInv
  <2> QED BY <1>1, <2>1 DEF Single, Reached, Place
<1>7. Counted(tStream, Cardinality(Wanted(tStream.filter)))'
  <2>1. Counted(tStream, Cardinality(Wanted(tStream.filter)'))
    BY <1>3 DEF TableInv
  <2> QED BY <1>1, <2>1 DEF Counted
<1> QED BY <1>4, <1>5, <1>6, <1>7 DEF TableInv

-----------------------------------------------------------------------------
(* What the invariant gives.                                                  *)

LEMMA QuietHolds == Table!KeysAreNumbers /\ Table!NoneIsNoValue /\ TableInv => Table!QuietStreamIsSelect
<1> SUFFICES ASSUME Table!KeysAreNumbers, Table!NoneIsNoValue, TableInv, tStream.state = "ended", tStream.quiet,
                    NEW rows \in Table!OrderedRows(tStream.filter, tStream.sort)
             PROVE  /\ Len(tStream.out) = Len(Table!Window(rows, tStream.limit, tStream.first))
                    /\ Table!ByKey(tStream.sort) => tStream.out = Table!Window(rows, tStream.limit, tStream.first)
  BY DEF Table!QuietStreamIsSelect
<1>1. Table!ByKey(tStream.sort) => rows = Shown(tStream.filter, tStream.sort)
  BY OneOrder
<1>2. Table!ByKey(tStream.sort) => tStream.out = Table!Window(rows, tStream.limit, tStream.first)
  BY <1>1 DEF TableInv, Calm
<1>3. rows \in Seq(DecodedRows) /\ Len(rows) = Cardinality(Wanted(tStream.filter))
  BY OrderedAre DEF TableInv, TableTypes
<1>4. tStream.limit \in Nat \cup {None} /\ tStream.first \in Nat
  BY DEF TableInv, TableTypes, Streams
<1>5. Len(Table!Window(rows, tStream.limit, tStream.first)) = Extent(Len(rows), tStream.limit, tStream.first)
  BY <1>3, <1>4, WindowExtent
<1>6. Len(tStream.out) = Extent(Len(rows), tStream.limit, tStream.first)
  BY <1>3 DEF TableInv, Counted
<1> QED BY <1>2, <1>5, <1>6

LEMMA MovesHold == Table!NoneIsNoValue /\ TableInv => Table!StreamMovesWithWrites
<1> SUFFICES ASSUME Table!NoneIsNoValue, TableInv PROVE Table!StreamMovesWithWrites
  OBVIOUS
<1> DEFINE s == tStream
<1>1. s \in Streams /\ Bounded(s) /\ Single(s, Wanted(s.filter)) /\ Reached(s, Wanted(s.filter))
  BY DEF TableInv, TableTypes
<1>2. s.limit # None => Len(s.out) <= s.limit
  <2> SUFFICES ASSUME s.limit # None PROVE Len(s.out) <= s.limit
    OBVIOUS
  <2>1. s.remaining # None /\ s.remaining + Len(s.out) = s.limit
    BY <1>1 DEF Bounded
  <2>2. s.remaining \in Nat /\ Len(s.out) \in Nat
    BY <1>1, <2>1 DEF Streams
  <2> QED BY <2>1, <2>2
<1>3. ASSUME s.state = "ended", Table!ByKey(s.sort), NEW k \in s.steady, Table!Times(k) = {}
      PROVE  s.went \/ s.limit # None \/ s.first # 0
  <2> SUFFICES ASSUME ~s.went, s.limit = None, s.first = 0 PROVE FALSE
    BY <1>1 DEF Streams
  <2>1. \E i \in 1..Len(s.out) : s.out[i]["id"] = k
    BY <1>1, <1>3 DEF Reached
  <2> QED BY <1>3, <2>1 DEF Table!Times
<1>4. ASSUME s.state = "ended", Table!ByKey(s.sort), NEW k \in RowIds, NEW i \in Table!Times(k), NEW j \in Table!Times(k), i # j
      PROVE  s.came
  <2> SUFFICES ASSUME ~s.came PROVE FALSE
    BY <1>1 DEF Streams
  <2>1. i \in 1..Len(s.out) /\ j \in 1..Len(s.out) /\ s.out[i]["id"] = s.out[j]["id"]
    BY DEF Table!Times
  <2> QED BY <1>1, <1>4, <2>1 DEF Single
<1> QED BY <1>2, <1>3, <1>4 DEF Table!StreamMovesWithWrites

LEMMA InsertsHold == TableInv => Table!InsertStoresOrKeeps
<1> SUFFICES ASSUME TableInv, tLast # None, tLast.ir.operation = "insert"
             PROVE  IF tLast.answer.error # None THEN tTable = tLast.before
                    ELSE /\ \A k \in RowIds : KeyKept(tLast.ir.rows, tLast.ir.on_conflict, tLast.before, tTable, k)
                         /\ Table!SupportsReturning => tLast.answer.affected = Len(tLast.answer.rows)
  BY DEF Table!InsertStoresOrKeeps, KeyKept
<1> QED BY DEF TableInv, LastInsert, StoresOrKeeps

LEMMA ReadsHold == Table!KeysAreNumbers /\ Table!WindowsAreLegal /\ Table!NoneIsNoValue /\ TableInv => Table!ReadsAgree
<1> SUFFICES ASSUME Table!KeysAreNumbers, Table!WindowsAreLegal, Table!NoneIsNoValue, TableInv,
                    NEW filter, NEW rows \in Table!OrderedRows(filter, "asc")
             PROVE  /\ Table!CountRows(filter) = Len(rows)
                    /\ Table!ExistsRow(filter) = IF rows = <<>> THEN 0 ELSE 1
                    /\ \A n \in Offsets \cup Limits :
                         /\ \A first \in Table!SelectRows(filter, "asc", n, 0),
                               rest \in Table!SelectRows(filter, "asc", None, n) : first \o rest = rows
                         /\ Table!SelectRows(filter, "asc", n, 0) # {}
                         /\ Table!SelectRows(filter, "asc", None, n) = {} => tDialect = "postgres" /\ n # 0
  BY DEF Table!ReadsAgree
<1>1. rows = Shown(filter, "asc") /\ Table!OrderedRows(filter, "asc") = {rows}
  BY OneOrder DEF Table!ByKey
<1>2. tTable \in Tables
  BY DEF TableInv, TableTypes
<1>3. /\ rows \in Seq(DecodedRows) /\ Len(rows) = Cardinality(Wanted(filter))
      /\ \A i \in 1..Len(rows) : rows[i]["id"] \in Wanted(filter)
      /\ \A k \in Wanted(filter) : Place(Wanted(filter), "asc", k) \in 0..(Len(rows) - 1)
  BY <1>1, <1>2, ShownIs
<1>4. Table!CountRows(filter) = Len(rows)
  BY <1>3, TableCardinality DEF Table!CountRows, Wanted
<1>5. Table!ExistsRow(filter) = IF rows = <<>> THEN 0 ELSE 1
  <2>1. rows = <<>> <=> Len(rows) = 0
    BY <1>3
  <2>2. Len(rows) \in Nat
    BY <1>3
  <2>3. Len(rows) = 0 => Wanted(filter) = {}
    BY <1>3
  <2>4. Len(rows) # 0 => Wanted(filter) # {}
    <3>1. Len(rows) # 0 => 1 \in 1..Len(rows)
      BY <2>2
    <3> QED BY <1>3, <3>1
  <2> QED BY <2>1, <2>3, <2>4 DEF Table!ExistsRow, Wanted
<1>6. ASSUME NEW n \in Offsets \cup Limits PROVE Table!Window(rows, n, 0) \o Table!Window(rows, None, n) = rows
  <2> DEFINE l == Len(rows)
  <2>1. l \in Nat /\ n \in Nat /\ n # None
    <3>1. n \in Nat
      BY DEF Table!WindowsAreLegal
    <3> QED BY <1>3, <3>1, NoneIs
  <2>2. Table!Window(rows, n, 0) = SubSeq(rows, 0 + 1, IF 0 + n > l THEN l ELSE 0 + n)
    BY <2>1 DEF Table!Window
  <2>3. Table!Window(rows, None, n) = SubSeq(rows, n + 1, l)
    BY DEF Table!Window
  <2>4. SubSeq(rows, 1, l) = rows
    BY <1>3, SubSeqFull
  <2>5. rows \o <<>> = rows
    BY <1>3, ConcatEmptySeq
  <2> HIDE DEF l
  <2>6. 0 + 1 = 1 /\ 0 + n = n /\ 0 \in Nat /\ 0 <= n
    BY <2>1
  <2>7. CASE n > l
    <3>1. SubSeq(rows, n + 1, l) = <<>>
      BY <2>1, <2>7, SubSeqEmpty
    <3> QED BY <2>2, <2>3, <2>4, <2>5, <2>6, <2>7, <3>1
  <2>8. CASE ~(n > l)
    <3>1. n <= l
      BY <2>1, <2>8
    <3>2. SubSeq(rows, 0 + 1, n) \o SubSeq(rows, n + 1, l) = SubSeq(rows, 0 + 1, l)
      <4>1. rows \in Seq(DecodedRows) /\ l <= Len(rows) /\ l \in Nat /\ n \in Nat
        BY <1>3, <2>1 DEF l
      <4>2. \A f, k, m \in Nat : f <= k /\ k <= m /\ m <= Len(rows) =>
                SubSeq(rows, f + 1, k) \o SubSeq(rows, k + 1, m) = SubSeq(rows, f + 1, m)
        BY <4>1, Adjoin
      <4> QED BY <2>6, <3>1, <4>1, <4>2
    <3> QED BY <2>2, <2>3, <2>4, <2>6, <2>8, <3>2
  <2> QED BY <2>7, <2>8
<1>7. ASSUME NEW limit, NEW offset
      PROVE  Table!SelectRows(filter, "asc", limit, offset) =
                 IF Table!Refuses(limit, offset) THEN {} ELSE {Table!Window(rows, limit, offset)}
  BY <1>1 DEF Table!SelectRows
<1>8. ASSUME NEW n \in Offsets \cup Limits PROVE ~Table!Refuses(n, 0)
  BY DEF Table!Refuses
<1>9. ASSUME NEW n, Table!Refuses(None, n) PROVE tDialect = "postgres" /\ n # 0
  BY <1>9 DEF Table!Refuses
<1>10. ASSUME NEW n \in Offsets \cup Limits
       PROVE  /\ \A first \in Table!SelectRows(filter, "asc", n, 0), rest \in Table!SelectRows(filter, "asc", None, n) :
                     first \o rest = rows
              /\ Table!SelectRows(filter, "asc", n, 0) # {}
              /\ Table!SelectRows(filter, "asc", None, n) = {} => tDialect = "postgres" /\ n # 0
  <2>1. Table!SelectRows(filter, "asc", n, 0) = {Table!Window(rows, n, 0)}
    BY <1>7, <1>8
  <2>2. CASE Table!Refuses(None, n)
    <3>1. Table!SelectRows(filter, "asc", None, n) = {}
      BY <1>7, <2>2
    <3> QED BY <1>9, <2>1, <2>2, <3>1
  <2>3. CASE ~Table!Refuses(None, n)
    <3>1. Table!SelectRows(filter, "asc", None, n) = {Table!Window(rows, None, n)}
      BY <1>7, <2>3
    <3> QED BY <1>6, <2>1, <3>1
  <2> QED BY <2>2, <2>3
<1> QED BY <1>4, <1>5, <1>10

LEMMA TableTypesHold == TableInv => Table!TypeOK
<1> SUFFICES ASSUME TableInv PROVE Table!TypeOK
  OBVIOUS
<1>1. tTable \in Tables /\ tWrites \in 0..MaxWrites /\ tStream \in Streams
  BY DEF TableInv, TableTypes
<1>2. \A k \in RowIds : tTable[k] # None => DOMAIN tTable[k] = Table!Columns /\ tTable[k]["id"] = k
  BY <1>1 DEF Tables, Rows
<1>3. tStream.state \in {"none", "open", "ended"}
  BY <1>1 DEF Streams
<1> QED BY <1>1, <1>2, <1>3 DEF Table!TypeOK

\* Whatever is written to a table while a stream walks over it: the stream of a table nobody
\* writes delivers as many rows as the select it is of has, and sorted by the primary key those
\* rows, while ties of another sort may make it repeat some and miss others; no stream exceeds
\* its limit; one sorted by the primary key misses a row that was there all along only if a row
\* went, and delivers one twice only if one came; an insert stores each of its rows or keeps the
\* one there, or fails and stores none; count and exists agree with the select, and so do
\* windows where the database answers them, which only PostgreSQL does not, and only an OFFSET
\* without a LIMIT.  For any finite set of keys, any number of writes and any offset, limit and
\* batch size.
THEOREM StreamsFollowTheTable ==
    Table!KeysAreNumbers /\ Table!WindowsAreLegal /\ Table!NoneIsNoValue => (Table!Spec => []StreamsAndInserts)
<1> SUFFICES ASSUME Table!KeysAreNumbers, Table!WindowsAreLegal, Table!NoneIsNoValue PROVE Table!Spec => []StreamsAndInserts
  OBVIOUS
<1>1. Table!Init => TableInv
  BY TableInit
<1>2. TableInv /\ [Table!Next]_(Table!vars) => TableInv'
  <2> SUFFICES ASSUME TableInv, [Table!Next]_(Table!vars) PROVE TableInv'
    OBVIOUS
  <2>1. CASE Table!Write
    BY <2>1, WriteKeeps
  <2>2. CASE Table!Stream
    BY <2>2, StreamKeeps
  <2>3. CASE Table!Fetch
    BY <2>3, FetchKeeps
  <2>4. CASE UNCHANGED Table!vars
    BY <2>4, StutterKeepsTable
  <2> QED BY <2>1, <2>2, <2>3, <2>4 DEF Table!Next
<1>3. TableInv => StreamsAndInserts
  BY TableTypesHold, QuietHolds, MovesHold, InsertsHold, ReadsHold DEF StreamsAndInserts, Table!StreamsAndInserts
<1> QED BY <1>1, <1>2, <1>3, PTL DEF Table!Spec
=============================================================================
