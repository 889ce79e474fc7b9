-------------------------- MODULE SerializerProofs --------------------------
(***************************************************************************)
(* Proofs about Serializer, for every number of values of a byte that is   *)
(* even, every length of the waveforms and every content of a message.     *)
(*                                                                         *)
(* First the numbers: the bytes of a number, read as unsigned and cast,    *)
(* are the number, whatever its width. Then the fields: what was written   *)
(* of a field is read back, and is found to be there exactly if all of its *)
(* bytes arrived. Then the layouts: fields that may be missing stand only  *)
(* at the end of a command. Last the invariant: the reader is in step with *)
(* the trail of the writer, or on the defaults of an older sender's        *)
(* command, or behind the head of a command that lost its end.             *)
(***************************************************************************)
EXTENDS Serializer, SequenceTheorems, TLAPS

LEMMA Division ==
  ASSUME NEW x \in Int, NEW s \in Nat \ {0}
  PROVE  /\ x \div s \in Int
         /\ x % s \in 0 .. s - 1
         /\ x = s * (x \div s) + (x % s)
OBVIOUS

LEMMA ProductMonotone ==
  ASSUME NEW a \in Int, NEW b \in Int, a <= b, NEW s \in Nat
  PROVE  s * a <= s * b
OBVIOUS

LEMMA RemainderUnique ==
  ASSUME NEW x \in Int, NEW s \in Nat \ {0}, NEW q \in Int, NEW r \in 0 .. s - 1,
         x = s * q + r
  PROVE  x % s = r /\ x \div s = q
<1> DEFINE p == x \div s
<1>1. p \in Int /\ x % s \in 0 .. s - 1 /\ x = s * p + (x % s)
  BY Division
<1>2. s * p + (x % s) = s * q + r
  BY <1>1
<1>3. CASE p <= q - 1
  <2>1. s * p <= s * (q - 1)
    BY <1>1, <1>3, ProductMonotone
  <2>2. s * (q - 1) = s * q - s
    OBVIOUS
  <2> QED BY <1>1, <1>2, <2>1, <2>2
<1>4. CASE q <= p - 1
  <2>1. s * q <= s * (p - 1)
    BY <1>1, <1>4, ProductMonotone
  <2>2. s * (p - 1) = s * p - s
    BY <1>1
  <2> QED BY <1>1, <1>2, <2>1, <2>2
<1>5. CASE p = q
  BY <1>1, <1>2, <1>5
<1> QED BY <1>1, <1>3, <1>4, <1>5

LEMMA TwoDigits ==
  ASSUME NEW x \in Int, NEW s \in Nat \ {0}
  PROVE  ((x \div s) % s) * s + (x % s) = x % (s * s)
<1> DEFINE q == x \div s
           r == x % s
           p == q \div s
           h == q % s
<1>1. q \in Int /\ r \in 0 .. s - 1 /\ x = s * q + r
  BY Division
<1>2. p \in Int /\ h \in 0 .. s - 1 /\ q = s * p + h
  BY <1>1, Division
<1> HIDE DEF q, r, p, h
<1>3. s * s \in Nat \ {0}
  OBVIOUS
<1>4. h * s + r \in 0 .. s * s - 1
  <2>1. s * h <= s * (s - 1)
    BY <1>2, ProductMonotone
  <2>2. s * (s - 1) = s * s - s
    OBVIOUS
  <2>3. s * 0 <= s * h
    BY <1>2, ProductMonotone
  <2>4. h * s = s * h
    BY <1>2
  <2> QED BY <1>1, <1>2, <2>1, <2>2, <2>3, <2>4
<1>5. x = (s * s) * p + (h * s + r)
  <2>1. s * q = s * (s * p) + s * h
    BY <1>2
  <2>2. s * (s * p) = (s * s) * p
    BY <1>2
  <2>3. s * h = h * s
    BY <1>2
  <2> QED BY <1>1, <1>2, <2>1, <2>2, <2>3
<1>6. x % (s * s) = h * s + r
  BY <1>2, <1>3, <1>4, <1>5, RemainderUnique
<1> QED BY <1>6 DEF q, r, h

-----------------------------------------------------------------------------
LEMMA Spans ==
  /\ ByteValues \in Nat \ {0}
  /\ Span2 \in Nat \ {0} /\ Span4 \in Nat \ {0} /\ Span8 \in Nat \ {0}
<1>1. ByteValues \in Nat \ {0}
  BY SerializerAssumption
<1>2. ASSUME NEW s \in Nat \ {0}
      PROVE  s * s \in Nat \ {0}
  OBVIOUS
<1>3. Span2 \in Nat \ {0}
  BY <1>1, <1>2 DEF Span2
<1>4. Span4 \in Nat \ {0}
  BY <1>3, <1>2 DEF Span4
<1>5. Span8 \in Nat \ {0}
  BY <1>4, <1>2 DEF Span8
<1> QED BY <1>1, <1>3, <1>4, <1>5

LEMMA Bytes1Type ==
  ASSUME NEW x \in Int
  PROVE  /\ Bytes1(x) \in Seq(Byte)
         /\ Len(Bytes1(x)) = 1
         /\ Bytes1(x)[1] = x % ByteValues
<1>1. x % ByteValues \in Byte
  BY Spans, Division DEF Byte
<1> QED BY <1>1 DEF Bytes1

LEMMA Bytes2Type ==
  ASSUME NEW x \in Int
  PROVE  /\ Bytes2(x) \in Seq(Byte)
         /\ Len(Bytes2(x)) = 2
         /\ Bytes2(x)[1] = (x \div ByteValues) % ByteValues
         /\ Bytes2(x)[2] = x % ByteValues
<1>1. x \div ByteValues \in Int
  BY Spans, Division
<1>2. /\ Bytes1(x \div ByteValues) \in Seq(Byte) /\ Len(Bytes1(x \div ByteValues)) = 1
      /\ Bytes1(x) \in Seq(Byte) /\ Len(Bytes1(x)) = 1
  BY <1>1, Bytes1Type
<1>3. /\ Bytes2(x) \in Seq(Byte)
      /\ Len(Bytes2(x)) = 2
      /\ Bytes2(x)[1] = Bytes1(x \div ByteValues)[1]
      /\ Bytes2(x)[2] = Bytes1(x)[1]
  BY <1>2 DEF Bytes2
<1> QED BY <1>1, <1>3, Bytes1Type

LEMMA Bytes4Type ==
  ASSUME NEW x \in Int
  PROVE  /\ Bytes4(x) \in Seq(Byte)
         /\ Len(Bytes4(x)) = 4
         /\ \A i \in 1 .. 2 : Bytes4(x)[i] = Bytes2(x \div Span2)[i]
         /\ \A i \in 1 .. 2 : Bytes4(x)[2 + i] = Bytes2(x)[i]
<1>1. x \div Span2 \in Int
  BY Spans, Division
<1>2. /\ Bytes2(x \div Span2) \in Seq(Byte) /\ Len(Bytes2(x \div Span2)) = 2
      /\ Bytes2(x) \in Seq(Byte) /\ Len(Bytes2(x)) = 2
  BY <1>1, Bytes2Type
<1> DEFINE high  == Bytes2(x \div Span2)
           low   == Bytes2(x)
           bytes == Bytes4(x)
<1>3. bytes = high \o low
  BY DEF Bytes4
<1>4. high \in Seq(Byte) /\ Len(high) = 2 /\ low \in Seq(Byte) /\ Len(low) = 2
  BY <1>2
<1> HIDE DEF high, low, bytes
<1>5. /\ bytes \in Seq(Byte)
      /\ Len(bytes) = Len(high) + Len(low)
      /\ \A i \in 1 .. Len(high) + Len(low) :
           bytes[i] = IF i <= Len(high) THEN high[i] ELSE low[i - Len(high)]
  BY <1>3, <1>4, ConcatProperties
<1>6. /\ Len(bytes) = 4
      /\ \A i \in 1 .. 2 : bytes[i] = high[i]
      /\ \A i \in 1 .. 2 : bytes[2 + i] = low[i]
  BY <1>4, <1>5
<1> QED BY <1>5, <1>6 DEF high, low, bytes

LEMMA Bytes8Type ==
  ASSUME NEW x \in Int
  PROVE  /\ Bytes8(x) \in Seq(Byte)
         /\ Len(Bytes8(x)) = 8
         /\ \A i \in 1 .. 4 : Bytes8(x)[i] = Bytes4(x \div Span4)[i]
         /\ \A i \in 1 .. 4 : Bytes8(x)[4 + i] = Bytes4(x)[i]
<1>1. x \div Span4 \in Int
  BY Spans, Division
<1>2. /\ Bytes4(x \div Span4) \in Seq(Byte) /\ Len(Bytes4(x \div Span4)) = 4
      /\ Bytes4(x) \in Seq(Byte) /\ Len(Bytes4(x)) = 4
  BY <1>1, Bytes4Type
<1> DEFINE high  == Bytes4(x \div Span4)
           low   == Bytes4(x)
           bytes == Bytes8(x)
<1>3. bytes = high \o low
  BY DEF Bytes8
<1>4. high \in Seq(Byte) /\ Len(high) = 4 /\ low \in Seq(Byte) /\ Len(low) = 4
  BY <1>2
<1> HIDE DEF high, low, bytes
<1>5. /\ bytes \in Seq(Byte)
      /\ Len(bytes) = Len(high) + Len(low)
      /\ \A i \in 1 .. Len(high) + Len(low) :
           bytes[i] = IF i <= Len(high) THEN high[i] ELSE low[i - Len(high)]
  BY <1>3, <1>4, ConcatProperties
<1>6. /\ Len(bytes) = 8
      /\ \A i \in 1 .. 4 : bytes[i] = high[i]
      /\ \A i \in 1 .. 4 : bytes[4 + i] = low[i]
  BY <1>4, <1>5
<1> QED BY <1>5, <1>6 DEF high, low, bytes

(* Reading what was written returns the low bytes of the number. *)
LEMMA Reads1 ==
  ASSUME NEW x \in Int, NEW bytes, NEW at \in Nat,
         \A i \in 1 .. 1 : bytes[at + i] = Bytes1(x)[i]
  PROVE  Unsigned1(bytes, at) = x % ByteValues
BY Bytes1Type DEF Unsigned1

LEMMA Reads2 ==
  ASSUME NEW x \in Int, NEW bytes, NEW at \in Nat,
         \A i \in 1 .. 2 : bytes[at + i] = Bytes2(x)[i]
  PROVE  Unsigned2(bytes, at) = x % Span2
<1>1. bytes[at + 1] = (x \div ByteValues) % ByteValues /\ bytes[at + 2] = x % ByteValues
  BY Bytes2Type
<1>2. (at + 1) + 1 = at + 2
  OBVIOUS
<1>3. Unsigned2(bytes, at) = ((x \div ByteValues) % ByteValues) * ByteValues + (x % ByteValues)
  BY <1>1, <1>2 DEF Unsigned2, Unsigned1
<1> QED BY <1>3, Spans, TwoDigits DEF Span2

LEMMA Reads4 ==
  ASSUME NEW x \in Int, NEW bytes, NEW at \in Nat,
         \A i \in 1 .. 4 : bytes[at + i] = Bytes4(x)[i]
  PROVE  Unsigned4(bytes, at) = x % Span4
<1>1. x \div Span2 \in Int
  BY Spans, Division
<1>2. \A i \in 1 .. 2 : bytes[at + i] = Bytes2(x \div Span2)[i]
  BY Bytes4Type
<1>3. \A i \in 1 .. 2 : bytes[(at + 2) + i] = Bytes2(x)[i]
  <2> TAKE i \in 1 .. 2
  <2>1. 2 + i \in 1 .. 4 /\ (at + 2) + i = at + (2 + i)
    OBVIOUS
  <2> QED BY <2>1, Bytes4Type
<1>4. Unsigned2(bytes, at) = (x \div Span2) % Span2
  BY <1>1, <1>2, Reads2
<1>5. Unsigned2(bytes, at + 2) = x % Span2
  BY <1>3, Reads2
<1>6. Unsigned4(bytes, at) = ((x \div Span2) % Span2) * Span2 + (x % Span2)
  BY <1>4, <1>5 DEF Unsigned4
<1> QED BY <1>6, Spans, TwoDigits DEF Span4

LEMMA Reads8 ==
  ASSUME NEW x \in Int, NEW bytes, NEW at \in Nat,
         \A i \in 1 .. 8 : bytes[at + i] = Bytes8(x)[i]
  PROVE  Unsigned8(bytes, at) = x % Span8
<1>1. x \div Span4 \in Int
  BY Spans, Division
<1>2. \A i \in 1 .. 4 : bytes[at + i] = Bytes4(x \div Span4)[i]
  <2> TAKE i \in 1 .. 4
  <2>1. i \in 1 .. 8
    OBVIOUS
  <2> QED BY <2>1, Bytes8Type
<1>3. \A i \in 1 .. 4 : bytes[(at + 4) + i] = Bytes4(x)[i]
  <2> TAKE i \in 1 .. 4
  <2>1. 4 + i \in 1 .. 8 /\ (at + 4) + i = at + (4 + i)
    OBVIOUS
  <2> QED BY <2>1, Bytes8Type
<1>4. Unsigned4(bytes, at) = (x \div Span4) % Span4
  BY <1>1, <1>2, Reads4
<1>5. Unsigned4(bytes, at + 4) = x % Span4
  BY <1>3, Reads4
<1>6. Unsigned8(bytes, at) = ((x \div Span4) % Span4) * Span4 + (x % Span4)
  BY <1>4, <1>5 DEF Unsigned8
<1> QED BY <1>6, Spans, TwoDigits DEF Span8

-----------------------------------------------------------------------------
Scalars == Types \ {"string"}

LEMMA ScalarWidth ==
  ASSUME NEW type \in Scalars
  PROVE  Width[type] \in {1, 2, 4, 8}
BY DEF Scalars, Types, Width

LEMMA SpanType ==
  ASSUME NEW w \in {1, 2, 4, 8}
  PROVE  Span(w) \in Nat \ {0}
BY Spans DEF Span

(* A number of w bytes is written to w bytes, and they read as its low part. *)
LEMMA ReadsUnsigned ==
  ASSUME NEW w \in {1, 2, 4, 8}, NEW x \in Int, NEW bytes, NEW at \in Nat
  PROVE  /\ BigEndian(w, x) \in Seq(Byte)
         /\ Len(BigEndian(w, x)) = w
         /\ (\A i \in 1 .. w : bytes[at + i] = BigEndian(w, x)[i])
              => Unsigned(w, bytes, at) = x % Span(w)
<1>1. CASE w = 1
  BY <1>1, Bytes1Type, Reads1 DEF BigEndian, Unsigned, Span
<1>2. CASE w = 2
  BY <1>2, Bytes2Type, Reads2 DEF BigEndian, Unsigned, Span
<1>3. CASE w = 4
  <2>1. BigEndian(w, x) = Bytes4(x) /\ Unsigned(w, bytes, at) = Unsigned4(bytes, at) /\ Span(w) = Span4
    BY <1>3 DEF BigEndian, Unsigned, Span
  <2>2. (\A i \in 1 .. 4 : bytes[at + i] = Bytes4(x)[i]) => Unsigned4(bytes, at) = x % Span4
    BY Reads4
  <2>3. Bytes4(x) \in Seq(Byte) /\ Len(Bytes4(x)) = 4
    BY Bytes4Type
  <2> QED BY <1>3, <2>1, <2>2, <2>3
<1>4. CASE w = 8
  <2>1. BigEndian(w, x) = Bytes8(x) /\ Unsigned(w, bytes, at) = Unsigned8(bytes, at) /\ Span(w) = Span8
    BY <1>4 DEF BigEndian, Unsigned, Span
  <2>2. (\A i \in 1 .. 8 : bytes[at + i] = Bytes8(x)[i]) => Unsigned8(bytes, at) = x % Span8
    BY Reads8
  <2>3. Bytes8(x) \in Seq(Byte) /\ Len(Bytes8(x)) = 8
    BY Bytes8Type
  <2> QED BY <1>4, <2>1, <2>2, <2>3
<1> QED BY <1>1, <1>2, <1>3, <1>4

(* The low part of a number of the type casts to the number. *)
LEMMA CastBack ==
  ASSUME NEW type \in Scalars, NEW v \in Numbers(type)
  PROVE  v \in Int /\ Cast(type, v % Span(Width[type])) = v
<1> DEFINE s == Span(Width[type])
<1>1. s \in Nat \ {0}
  BY ScalarWidth, SpanType
<1>2. s \div 2 \in Nat /\ 2 * (s \div 2) <= s /\ s < 2 * (s \div 2) + 2
  <2> HIDE DEF s
  <2> QED BY <1>1
<1>3. CASE type = "bool"
  <2>1. s = ByteValues /\ ByteValues \in Nat /\ ByteValues >= 2
    BY <1>3, SerializerAssumption DEF Span, Width
  <2>2. v \in 0 .. 1
    BY <1>3 DEF Numbers, Lowest, Highest, SignedTypes
  <2>3. v % s = v
    <3> HIDE DEF s
    <3> QED BY <2>1, <2>2
  <2> QED BY <1>3, <2>2, <2>3 DEF Cast, SignedTypes
<1>4. CASE type \in SignedTypes
  <2>1. v \in -(s \div 2) .. (s \div 2) - 1
    BY <1>4 DEF Numbers, Lowest, Highest, SignedTypes
  <2>2. CASE v >= 0
    <3>1. v % s = v /\ v < s \div 2
      <4> HIDE DEF s
      <4> QED BY <1>1, <1>2, <2>1, <2>2
    <3> QED BY <1>1, <1>2, <1>4, <2>1, <3>1 DEF Cast, SignedTypes
  <2>3. CASE v < 0
    <3>1. v % s = v + s /\ v + s >= s \div 2
      <4> HIDE DEF s
      <4>1. v + s \in 0 .. s - 1 /\ v = s * (-1) + (v + s) /\ v + s >= s \div 2
        BY <1>1, <1>2, <2>1, <2>3
      <4> QED BY <1>1, <2>1, <4>1, RemainderUnique
    <3> QED BY <1>1, <1>2, <1>4, <2>1, <3>1 DEF Cast, SignedTypes
  <2> QED BY <1>2, <2>1, <2>2, <2>3
<1>5. CASE type # "bool" /\ type \notin SignedTypes
  <2>1. v \in 0 .. s - 1
    BY <1>5 DEF Numbers, Lowest, Highest
  <2>2. v % s = v
    <3> HIDE DEF s
    <3> QED BY <1>1, <2>1
  <2> QED BY <1>5, <2>1, <2>2 DEF Cast
<1> QED BY <1>3, <1>4, <1>5

-----------------------------------------------------------------------------
LEMMA FieldType ==
  ASSUME NEW f \in Fields
  PROVE  /\ Type(f) \in Types
         /\ Type(f) = "string" <=> f = "string"
         /\ f # "string" => Type(f) \in Scalars
BY DEF Fields, Types, Vectors, AddedFields, Type, Scalars, Width

(* What a number in a field is. *)
LEMMA HoldsNumber ==
  ASSUME NEW f \in Fields, f # "string", NEW v, Holds(f, v)
  PROVE  v \in Numbers(Type(f)) /\ v \in Int
<1>1. v \in Numbers(Type(f))
  BY DEF Holds, Fields, Types, Vectors, AddedFields, Type, Width
<1> QED BY <1>1, FieldType, CastBack

(* And characters. *)
LEMMA HoldsString ==
  ASSUME NEW v, Holds("string", v)
  PROVE  v \in Seq(Byte) /\ Len(v) \in 0 .. Span4 - 1
<1>1. v \in Seq(Byte) /\ Len(v) < Span4
  BY DEF Holds, Vectors
<1> QED BY <1>1, Spans

LEMMA StringEncoding ==
  ASSUME NEW v, Holds("string", v)
  PROVE  /\ Encoding("string", v) \in Seq(Byte)
         /\ Len(Encoding("string", v)) = 4 + Len(v)
         /\ \A i \in 1 .. 4 : Encoding("string", v)[i] = Bytes4(Len(v))[i]
         /\ \A i \in 1 .. Len(v) : Encoding("string", v)[4 + i] = v[i]
<1>1. v \in Seq(Byte) /\ Len(v) \in Nat
  BY HoldsString, Spans
<1>2. Bytes4(Len(v)) \in Seq(Byte) /\ Len(Bytes4(Len(v))) = 4
  BY <1>1, Bytes4Type
<1> DEFINE count == Bytes4(Len(v))
<1>3. Encoding("string", v) = count \o v
  BY DEF Encoding
<1>4. /\ count \o v \in Seq(Byte)
      /\ Len(count \o v) = Len(count) + Len(v)
      /\ \A i \in 1 .. Len(count) + Len(v) :
           (count \o v)[i] = IF i <= Len(count) THEN count[i] ELSE v[i - Len(count)]
  BY <1>1, <1>2, ConcatProperties
<1> HIDE DEF count
<1>5. Len(count) = 4
  BY <1>2 DEF count
<1>6. /\ \A i \in 1 .. 4 : (count \o v)[i] = count[i]
      /\ \A i \in 1 .. Len(v) : (count \o v)[4 + i] = v[i]
  BY <1>1, <1>4, <1>5
<1> QED BY <1>3, <1>4, <1>5, <1>6 DEF count

LEMMA EncodingType ==
  ASSUME NEW f \in Fields, NEW v, Holds(f, v)
  PROVE  Encoding(Type(f), v) \in Seq(Byte)
<1>1. CASE f = "string"
  BY <1>1, FieldType, StringEncoding
<1>2. CASE f # "string"
  <2>1. Encoding(Type(f), v) = BigEndian(Width[Type(f)], v)
    BY <1>2, FieldType DEF Encoding
  <2> QED BY <1>2, <2>1, FieldType, HoldsNumber, ScalarWidth, ReadsUnsigned
<1> QED BY <1>1, <1>2

(* bytes are P, or they end earlier or go on. *)
Agree(bytes, P) ==
  /\ bytes \in Seq(Byte) /\ P \in Seq(Byte)
  /\ \A i \in 1 .. Len(bytes) : i <= Len(P) => bytes[i] = P[i]

(* The encoding of v in field f stands in P after at bytes. *)
Stands(f, v, P, at) ==
  /\ at + Len(Encoding(Type(f), v)) <= Len(P)
  /\ \A i \in 1 .. Len(Encoding(Type(f), v)) : P[at + i] = Encoding(Type(f), v)[i]

LEMMA NumberReadBack ==
  ASSUME NEW f \in Fields, f # "string", NEW v, Holds(f, v),
         NEW bytes, NEW P, Agree(bytes, P), NEW at \in Nat, Stands(f, v, P, at)
  PROVE  LET type == Type(f)
             size == Len(Encoding(type, v))
         IN  /\ Fits(type, bytes, at) <=> at + size <= Len(bytes)
             /\ Fits(type, bytes, at) =>
                  Size(type, bytes, at) = size /\ Decoding(type, bytes, at) = v
<1> DEFINE type == Type(f)
           w    == Width[type]
           enc  == Encoding(type, v)
<1>1. type \in Scalars /\ type # "string" /\ w \in {1, 2, 4, 8}
  BY FieldType, ScalarWidth DEF Scalars
<1>2. v \in Numbers(type) /\ v \in Int
  BY HoldsNumber
<1>3. enc = BigEndian(w, v)
  BY <1>1 DEF Encoding
<1>4. enc \in Seq(Byte) /\ Len(enc) = w
  BY <1>1, <1>2, <1>3, ReadsUnsigned
<1>5. Size(type, bytes, at) = w
  BY <1>1 DEF Size
<1>6. Fits(type, bytes, at) <=> at + w <= Len(bytes)
  BY <1>5 DEF Fits
<1>7. ASSUME at + w <= Len(bytes)
      PROVE  Decoding(type, bytes, at) = v
  <2>1. \A i \in 1 .. w : bytes[at + i] = BigEndian(w, v)[i]
    <3> TAKE i \in 1 .. w
    <3>1. P[at + i] = enc[i] /\ at + w <= Len(P)
      BY <1>4 DEF Stands
    <3>2. at + i \in 1 .. Len(bytes) /\ at + i <= Len(P)
      BY <1>1, <1>7, <3>1 DEF Agree
    <3> QED BY <1>3, <3>1, <3>2 DEF Agree
  <2>2. Unsigned(w, bytes, at) = v % Span(w)
    BY <1>1, <1>2, <2>1, ReadsUnsigned
  <2>3. Cast(type, v % Span(w)) = v
    BY <1>1, <1>2, CastBack
  <2> QED BY <1>1, <2>2, <2>3 DEF Decoding
<1> QED BY <1>4, <1>5, <1>6, <1>7

LEMMA StringReadBack ==
  ASSUME NEW v, Holds("string", v),
         NEW bytes, NEW P, Agree(bytes, P), NEW at \in Nat, Stands("string", v, P, at)
  PROVE  LET size == Len(Encoding("string", v))
         IN  /\ Fits("string", bytes, at) <=> at + size <= Len(bytes)
             /\ Fits("string", bytes, at) =>
                  /\ Size("string", bytes, at) = size
                  /\ Decoding("string", bytes, at) = v
<1> DEFINE enc == Encoding("string", v)
<1>1. v \in Seq(Byte) /\ Len(v) \in 0 .. Span4 - 1 /\ Span4 \in Nat
  BY HoldsString, Spans
<1>2. /\ enc \in Seq(Byte) /\ Len(enc) = 4 + Len(v)
      /\ \A i \in 1 .. 4 : enc[i] = Bytes4(Len(v))[i]
      /\ \A i \in 1 .. Len(v) : enc[4 + i] = v[i]
  BY StringEncoding
<1>3. /\ at + Len(enc) <= Len(P)
      /\ \A i \in 1 .. Len(enc) : P[at + i] = enc[i]
  BY DEF Stands, Type, Types, Width
<1>4. Width["string"] = 4
  BY DEF Width
<1>5. Len(bytes) \in Nat /\ Len(P) \in Nat
  BY DEF Agree
<1> HIDE DEF enc
<1>6. \A i \in 1 .. Len(enc) : at + i <= Len(bytes) => bytes[at + i] = enc[i]
  <2> SUFFICES ASSUME NEW i \in 1 .. Len(enc), at + i <= Len(bytes)
               PROVE  bytes[at + i] = enc[i]
    OBVIOUS
  <2>1. at + i \in 1 .. Len(bytes) /\ at + i <= Len(P)
    BY <1>2, <1>3, <1>5
  <2> QED BY <1>3, <2>1 DEF Agree
<1>7. ASSUME at + 4 <= Len(bytes)
      PROVE  Unsigned4(bytes, at) = Len(v)
  <2>1. \A i \in 1 .. 4 : bytes[at + i] = Bytes4(Len(v))[i]
    <3> TAKE i \in 1 .. 4
    <3>1. i \in 1 .. Len(enc) /\ at + i <= Len(bytes)
      BY <1>1, <1>2, <1>5, <1>7
    <3> QED BY <1>2, <1>6, <3>1
  <2>2. Unsigned4(bytes, at) = Len(v) % Span4
    BY <1>1, <2>1, Reads4
  <2> QED BY <1>1, <2>2
<1>8. Fits("string", bytes, at) <=> at + Len(enc) <= Len(bytes)
  <2>1. Fits("string", bytes, at) <=>
          at + 4 <= Len(bytes) /\ at + (4 + Unsigned4(bytes, at)) <= Len(bytes)
    BY <1>4 DEF Fits, Size
  <2> QED BY <1>1, <1>2, <1>5, <1>7, <2>1
<1>9. ASSUME at + Len(enc) <= Len(bytes)
      PROVE  Size("string", bytes, at) = Len(enc) /\ Decoding("string", bytes, at) = v
  <2>1. at + 4 <= Len(bytes)
    BY <1>1, <1>2, <1>5, <1>9
  <2>2. Size("string", bytes, at) = Len(enc)
    BY <1>2, <1>4, <1>7, <2>1 DEF Size
  <2>3. Decoding("string", bytes, at) = SubSeq(bytes, at + 5, at + 4 + Len(v))
    BY <1>7, <2>1 DEF Decoding
  <2>4. \A i \in 1 .. Len(v) : bytes[at + 5 + i - 1] = v[i]
    <3> TAKE i \in 1 .. Len(v)
    <3>1. 4 + i \in 1 .. Len(enc) /\ at + (4 + i) <= Len(bytes) /\ at + 5 + i - 1 = at + (4 + i)
      BY <1>1, <1>2, <1>5, <1>9
    <3> QED BY <1>2, <1>6, <3>1
  <2>5. SubSeq(bytes, at + 5, at + 4 + Len(v)) = v
    <3> DEFINE sub == SubSeq(bytes, at + 5, at + 4 + Len(v))
    <3>1. \A i \in at + 5 .. at + 4 + Len(v) : bytes[i] \in Byte
      <4> TAKE i \in at + 5 .. at + 4 + Len(v)
      <4>1. i \in 1 .. Len(bytes)
        BY <1>1, <1>2, <1>5, <1>9
      <4> QED BY <4>1 DEF Agree
    <3>2. /\ sub \in Seq(Byte)
          /\ Len(sub) = Len(v)
          /\ \A i \in 1 .. Len(v) : sub[i] = bytes[at + 5 + i - 1]
      BY <1>1, <3>1, SubSeqProperties
    <3> HIDE DEF sub
    <3>3. sub = v
      BY <1>1, <2>4, <3>2, SeqEqual
    <3> QED BY <3>3 DEF sub
  <2> QED BY <2>2, <2>3, <2>5
<1> QED BY <1>8, <1>9 DEF enc

(* Where a value was written, it is read, if its bytes arrived. *)
THEOREM ReadBack ==
  ASSUME NEW f \in Fields, NEW v, Holds(f, v),
         NEW bytes, NEW P, Agree(bytes, P), NEW at \in Nat, Stands(f, v, P, at)
  PROVE  LET type == Type(f)
             size == Len(Encoding(type, v))
         IN  /\ Fits(type, bytes, at) <=> at + size <= Len(bytes)
             /\ Fits(type, bytes, at) =>
                  Size(type, bytes, at) = size /\ Decoding(type, bytes, at) = v
<1>1. CASE f = "string"
  <2>1. Type(f) = "string"
    BY <1>1, FieldType
  <2> QED BY <1>1, <2>1, StringReadBack
<1>2. CASE f # "string"
  BY <1>2, NumberReadBack
<1> QED BY <1>1, <1>2

-----------------------------------------------------------------------------
(* The fields that no version of the format lacks. *)
Required == Fields \ AddedFields

LEMMA TimesType ==
  ASSUME NEW n \in Nat, NEW type \in Types
  PROVE  Times(n, type) \in Seq(Required)
<1>1. type \in Required
  BY DEF Required, Fields, Types, Width, AddedFields
<1> QED BY <1>1 DEF Times

LEMMA CopiesType ==
  ASSUME NEW S, NEW n \in Nat, NEW group \in Seq(S), group # << >>
  PROVE  Copies(n, group) \in Seq(S)
<1> DEFINE size == Len(group)
<1>1. size \in Nat \ {0}
  BY EmptySeq, LenProperties
<1>2. n * size \in Nat
  <2> HIDE DEF size
  <2> QED BY <1>1
<1>3. \A i \in 1 .. n * size : group[((i - 1) % size) + 1] \in S
  <2> TAKE i \in 1 .. n * size
  <2>1. i - 1 \in Int
    BY <1>2
  <2>2. (i - 1) % size \in 0 .. size - 1
    <3> HIDE DEF size
    <3> QED BY <1>1, <2>1, Division
  <2>3. ((i - 1) % size) + 1 \in 1 .. size
    <3> HIDE DEF size
    <3> QED BY <1>1, <2>2
  <2> QED BY <2>3, ElementOfSeq
<1> DEFINE length == n * size
<1>4. Copies(n, group) = [i \in 1 .. length |-> group[((i - 1) % size) + 1]]
  BY DEF Copies
<1>5. length \in Nat /\ \A i \in 1 .. length : group[((i - 1) % size) + 1] \in S
  BY <1>2, <1>3
<1> HIDE DEF length, size
<1>6. [i \in 1 .. length |-> group[((i - 1) % size) + 1]] \in Seq(S)
  BY <1>5
<1> QED BY <1>4, <1>6

LEMMA GroupType ==
  ASSUME NEW f \in Vectors
  PROVE  /\ Group(f) \in Seq(Fields) /\ Group(f) # << >>
         /\ f \in Required => Group(f) \in Seq(Required)
<1>1. /\ {"f32", "string", "i32", "u8", "parameters"} \subseteq Required
      /\ {"f32", "string", "i32", "u8", "parameters"} \cup AddedFields \subseteq Fields
  BY DEF Required, Fields, Types, Width, Vectors, AddedFields
<1>2. CASE f = "parameters"
  BY <1>1, <1>2 DEF Group
<1>3. CASE f = "faces"
  <2>1. Group(f) = Times(5, "f32")
    BY <1>3 DEF Group
  <2>2. Times(5, "f32") \in Seq(Required) /\ Len(Times(5, "f32")) = 5
    BY <1>1 DEF Times
  <2>3. Times(5, "f32") \in Seq(Fields)
    BY <1>1 DEF Times
  <2>4. Times(5, "f32") # << >>
    BY <2>2
  <2> QED BY <2>1, <2>2, <2>3, <2>4
<1>4. CASE f = "paths"
  BY <1>1, <1>4 DEF Group
<1>5. CASE f \in {"motors", "step_motors"}
  BY <1>1, <1>5 DEF Group, Motor
<1>6. CASE f = "steps"
  <2>1. Group(f) = Step
    BY <1>6 DEF Group
  <2>2. Step \in Seq(Fields) /\ Step # << >>
    BY <1>1 DEF Step, AddedFields
  <2>3. f \notin Required
    BY <1>6 DEF Required, AddedFields
  <2> QED BY <2>1, <2>2, <2>3
<1> QED BY <1>2, <1>3, <1>4, <1>5, <1>6 DEF Vectors

(* What a field brings are fields, and only a field of a later version *)
(* brings such fields.                                                 *)
LEMMA FollowType ==
  ASSUME NEW f \in Fields, NEW v, f \in Vectors \cup {"steps", "step_motors"} => v \in Int
  PROVE  /\ Follow(f, v) \in Seq(Fields)
         /\ f \in Required => Follow(f, v) \in Seq(Required)
<1>1. CASE f = "motors" /\ v = -1
  <2>1. Follow(f, v) = << "parameters" >>
    BY <1>1 DEF Follow
  <2>2. "parameters" \in Required /\ "parameters" \in Fields
    BY DEF Required, Fields, Types, Width, Vectors, AddedFields
  <2> QED BY <2>1, <2>2
<1>2. CASE ~(f = "motors" /\ v = -1) /\ f \in Vectors /\ v > 0
  <2>1. Follow(f, v) = Copies(v, Group(f))
    BY <1>2 DEF Follow
  <2>2. v \in Nat
    BY <1>2
  <2>3. f \in Vectors
    BY <1>2
  <2>4. Group(f) \in Seq(Fields) /\ Group(f) # << >> /\ (f \in Required => Group(f) \in Seq(Required))
    BY <2>3, GroupType
  <2> QED BY <2>1, <2>2, <2>4, CopiesType
<1>3. CASE ~(f = "motors" /\ v = -1) /\ ~(f \in Vectors /\ v > 0)
  BY <1>3 DEF Follow
<1> QED BY <1>1, <1>2, <1>3

LEMMA ExtensionType ==
  /\ Extension \in Seq(AddedFields) /\ Extension \in Seq(Fields)
  /\ Len(Extension) = 4 /\ Extension # << >>
  /\ Extension \notin Seq(Required)
<1>1. /\ Extension \in Seq(AddedFields) /\ Extension \in Seq(Fields)
      /\ Len(Extension) = 4 /\ Extension # << >>
  BY DEF Extension, AddedFields, Fields
<1>2. Extension[1] \notin Required
  BY DEF Extension, Required, AddedFields
<1> QED BY <1>1, <1>2, ElementOfSeq

-----------------------------------------------------------------------------
LEMMA RequiredFields ==
  /\ Required \subseteq Fields
  /\ Types \cup {"parameters", "faces", "paths", "motors"} = Required
  /\ {"string", "bool", "u8", "u16", "u32", "u64", "i16", "i32", "i64", "f32"} = Types
BY DEF Required, Fields, Types, Width, Vectors, AddedFields

(* The layouts of the messages. *)
LEMMA LayoutTypes ==
  ASSUME NEW k \in Kinds \ {"ActionGroup"}
  PROVE  Layouts[k] \in Seq(Required)
<1>1. Header \in Seq(Required)
  BY RequiredFields DEF Header
<1>2. \A n \in Nat, type \in Types : Times(n, type) \in Seq(Required)
  BY TimesType
<1>3. WaveLength \in Nat
  BY SerializerAssumption
<1>4. \A s, t \in Seq(Required) : s \o t \in Seq(Required)
  BY ConcatProperties
<1>5. VitalData \in Seq(Required)
  BY <1>1, <1>2, <1>3, <1>4, RequiredFields DEF VitalData
<1>6. EmotionDetResult \in Seq(Required)
  BY <1>1, <1>2, <1>3, <1>4, RequiredFields DEF EmotionDetResult
<1>7. EmotionIntention \in Seq(Required)
  BY <1>1, <1>2, <1>3, <1>4, RequiredFields DEF EmotionIntention
<1>8. ButtonStatusEvent \in Seq(Required)
  BY <1>1, <1>2, <1>3, <1>4, RequiredFields DEF ButtonStatusEvent
<1>9. VitalVisData \in Seq(Required)
  BY <1>1, <1>2, <1>3, <1>4, RequiredFields DEF VitalVisData
<1>10. Heartbeat \in Seq(Required)
  BY <1>1, <1>2, <1>3, <1>4, RequiredFields DEF Heartbeat
<1>11. MotorControl \in Seq(Required)
  BY <1>1, <1>2, <1>3, <1>4, RequiredFields DEF MotorControl
<1>12. TempControl \in Seq(Required)
  BY <1>1, <1>2, <1>3, <1>4, RequiredFields DEF TempControl
<1>13. PowerControl \in Seq(Required)
  BY <1>1, <1>2, <1>3, <1>4, RequiredFields DEF PowerControl
<1>14. RawTouchStatus \in Seq(Required)
  BY <1>1, <1>2, <1>3, <1>4, RequiredFields DEF RawTouchStatus
<1>15. RawTouchEvent \in Seq(Required)
  BY <1>1, <1>2, <1>3, <1>4, RequiredFields DEF RawTouchEvent
<1>16. TouchStatus \in Seq(Required)
  BY <1>1, <1>2, <1>3, <1>4, RequiredFields DEF TouchStatus
<1>17. MotorStatus \in Seq(Required)
  BY <1>1, <1>2, <1>3, <1>4, RequiredFields DEF MotorStatus
<1>18. TempStatus \in Seq(Required)
  BY <1>1, <1>2, <1>3, <1>4, RequiredFields DEF TempStatus
<1>19. ImuStatus \in Seq(Required)
  BY <1>1, <1>2, <1>3, <1>4, RequiredFields DEF ImuStatus
<1>20. SysStatus \in Seq(Required)
  BY <1>1, <1>2, <1>3, <1>4, RequiredFields DEF SysStatus
<1>21. VisualFeature \in Seq(Required)
  BY <1>1, <1>2, <1>3, <1>4, RequiredFields DEF VisualFeature
<1>22. EyeballDisplay \in Seq(Required)
  BY <1>1, <1>2, <1>3, <1>4, RequiredFields DEF EyeballDisplay
<1>23. AudioPlay \in Seq(Required)
  BY <1>1, <1>2, <1>3, <1>4, RequiredFields DEF AudioPlay
<1>24. LedControl \in Seq(Required)
  BY <1>1, <1>2, <1>3, <1>4, RequiredFields DEF LedControl
<1>25. AdtsStreamControl \in Seq(Required)
  BY <1>1, <1>2, <1>3, <1>4, RequiredFields DEF AdtsStreamControl
<1>26. AdtsStreamData \in Seq(Required)
  BY <1>1, <1>2, <1>3, <1>4, RequiredFields DEF AdtsStreamData
<1>27. SystemStatInfo \in Seq(Required)
  BY <1>1, <1>2, <1>3, <1>4, RequiredFields DEF SystemStatInfo
<1>28. SoundLocalization \in Seq(Required)
  BY <1>1, <1>2, <1>3, <1>4, RequiredFields DEF SoundLocalization
<1>29. k \in {"VitalData", "EmotionDetResult", "EmotionIntention",
             "ButtonStatusEvent", "VitalVisData", "Heartbeat", "MotorControl",
             "TempControl", "PowerControl", "RawTouchStatus", "RawTouchEvent",
             "TouchStatus", "MotorStatus", "TempStatus", "ImuStatus", "SysStatus",
             "VisualFeature", "EyeballDisplay", "AudioPlay", "LedControl",
             "AdtsStreamControl", "AdtsStreamData", "SystemStatInfo",
             "SoundLocalization"}
  BY DEF Kinds, Layouts
<1>30. CASE k \in {"VitalData", "EmotionDetResult", "EmotionIntention",
                 "ButtonStatusEvent", "VitalVisData", "Heartbeat"}
  BY <1>30, <1>5, <1>6, <1>7, <1>8, <1>9, <1>10 DEF Layouts
<1>31. CASE k \in {"MotorControl", "TempControl", "PowerControl", "RawTouchStatus",
                 "RawTouchEvent", "TouchStatus"}
  BY <1>31, <1>11, <1>12, <1>13, <1>14, <1>15, <1>16 DEF Layouts
<1>32. CASE k \in {"MotorStatus", "TempStatus", "ImuStatus", "SysStatus",
                 "VisualFeature", "EyeballDisplay"}
  BY <1>32, <1>17, <1>18, <1>19, <1>20, <1>21, <1>22 DEF Layouts
<1>33. CASE k \in {"AudioPlay", "LedControl", "AdtsStreamControl", "AdtsStreamData",
                 "SystemStatInfo", "SoundLocalization"}
  BY <1>33, <1>23, <1>24, <1>25, <1>26, <1>27, <1>28 DEF Layouts
<1> QED BY <1>29, <1>30, <1>31, <1>32, <1>33

LEMMA ActionGroupLayout ==
  /\ Layouts["ActionGroup"] \in Seq(Fields)
  /\ \E s \in Seq(Required) : Layouts["ActionGroup"] = s \o Extension
<1> DEFINE s == Header \o << "string", "f32", "bool", "motors" >>
<1>1. Header \in Seq(Required) /\ << "string", "f32", "bool", "motors" >> \in Seq(Required)
  BY RequiredFields DEF Header
<1>2. s \in Seq(Required)
  BY <1>1, ConcatProperties
<1>3. Layouts["ActionGroup"] = s \o Extension
  BY DEF Layouts, ActionGroup
<1> HIDE DEF s
<1>4. s \in Seq(Fields)
  BY <1>2, RequiredFields, SeqMonotonic
<1> QED BY <1>2, <1>3, <1>4, ExtensionType, ConcatProperties

-----------------------------------------------------------------------------
(* The inductive invariant. *)

Datum == Int \cup Seq(Byte)

(* Value j was the next one of its message, and its bytes are in the payload. *)
Written(t, s, P, j) ==
  LET f == Head(t[j].fields)
  IN  /\ t[j].fields # << >>
      /\ Holds(f, s[j])
      /\ t[j + 1].fields = Follow(f, s[j]) \o Tail(t[j].fields)
      /\ t[j + 1].off = t[j].off + Len(Encoding(Type(f), s[j]))
      /\ Stands(f, s[j], P, t[j].off)

TrailInv ==
  /\ sent \in Seq(Datum)
  /\ trail[1] = [fields |-> Layouts[kind], off |-> 0]
  /\ trail[Len(trail)].off = Len(payload)
  /\ \A j \in 1 .. Len(sent) : Written(trail, sent, payload, j)

(* What is written ends with the added fields, and only in a command. *)
BeforeExtension(fields) == \E s \in Seq(Required) : fields = s \o Extension

Planned(k, t, j) ==
  IF k = "ActionGroup"
    THEN BeforeExtension(t[j].fields) \/ \E h \in 1 .. j : t[h].fields = Extension
    ELSE t[j].fields \in Seq(Required)

PlanInv == \A j \in 1 .. Len(trail) : Planned(kind, trail, j)

(* What arrived is the payload of a message, cut or extended. *)
ArrivalInv ==
  IF phase = "writing" THEN data = << >> /\ received = << >>
  ELSE /\ ToWrite \in {<< >>, Extension}
       /\ Agree(data, payload)
       /\ Len(data) > Len(payload) => ToWrite = << >>

(* The reader has done what the writer did ... *)
InStep ==
  LET n == Len(received)
  IN  /\ n <= Len(sent)
      /\ \A i \in 1 .. n : received[i] = sent[i]
      /\ due = trail[n + 1].fields
      /\ off = trail[n + 1].off

(* ... or is at the end of the message of an older sender ... *)
Defaults == << 0, 0, 1, 0 >>

OnDefaults ==
  /\ phase # "writing"
  /\ ToWrite = Extension
  /\ Len(data) = Len(payload) /\ off = Len(data)
  /\ \E m \in 0 .. 4 :
       /\ due = SubSeq(Extension, m + 1, 4)
       /\ Len(received) = Len(sent) + m
       /\ \A i \in 1 .. Len(sent) : received[i] = sent[i]
       /\ \A i \in 1 .. m : received[Len(sent) + i] = Defaults[i]

(* ... or has read the head of a command that lost its end. *)
HeadRead ==
  \E n \in 0 .. Len(sent) :
    /\ trail[n + 1].fields = Extension
    /\ n <= Len(received)
    /\ \A i \in 1 .. n : received[i] = sent[i]

BehindHead ==
  /\ phase # "writing"
  /\ kind = "ActionGroup" /\ Len(data) < Len(payload)
  /\ HeadRead

ReaderInv ==
  /\ received \in Seq(Datum)
  /\ InStep \/ OnDefaults \/ BehindHead

OutcomeInv ==
  /\ phase = "delivered" => due = << >>
  /\ phase = "refused" => Len(data) < Len(payload)

IInv ==
  TypeOK /\ TrailInv /\ PlanInv /\ ArrivalInv /\ ReaderInv /\ OutcomeInv

LEMMA LayoutPlan ==
  ASSUME NEW k \in Kinds, NEW t, t[1].fields = Layouts[k]
  PROVE  Layouts[k] \in Seq(Fields) /\ Planned(k, t, 1)
<1>1. CASE k = "ActionGroup"
  BY <1>1, ActionGroupLayout DEF Planned, BeforeExtension
<1>2. CASE k # "ActionGroup"
  <2>1. Layouts[k] \in Seq(Required)
    BY <1>2, LayoutTypes
  <2>2. Layouts[k] \in Seq(Fields)
    BY <2>1, RequiredFields, SeqMonotonic
  <2> QED BY <1>2, <2>1, <2>2 DEF Planned
<1> QED BY <1>1, <1>2

LEMMA InitInvariant == Init => IInv
<1> SUFFICES ASSUME Init PROVE IInv
  OBVIOUS
<1>1. /\ kind \in Kinds /\ phase = "writing" /\ sent = << >> /\ payload = << >>
      /\ trail = << [fields |-> Layouts[kind], off |-> 0] >>
      /\ data = << >> /\ due = Layouts[kind] /\ off = 0 /\ received = << >>
  BY DEF Init
<1>2. Layouts[kind] \in Seq(Fields) /\ Planned(kind, trail, 1)
  BY <1>1, LayoutPlan
<1>3. TypeOK
  BY <1>1, <1>2 DEF TypeOK
<1>4. TrailInv
  BY <1>1 DEF TrailInv
<1>5. PlanInv
  BY <1>1, <1>2 DEF PlanInv
<1>6. ArrivalInv /\ OutcomeInv
  BY <1>1 DEF ArrivalInv, OutcomeInv
<1>7. ReaderInv
  BY <1>1 DEF ReaderInv, InStep
<1> QED BY <1>3, <1>4, <1>5, <1>6, <1>7 DEF IInv

-----------------------------------------------------------------------------
(* Writing. *)

LEMMA HoldsDatum ==
  ASSUME NEW f \in Fields, NEW v, Holds(f, v)
  PROVE  /\ v \in Datum
         /\ f \in Vectors \cup {"steps", "step_motors"} => v \in Int
<1>1. CASE f = "string"
  BY <1>1, HoldsString DEF Datum, Vectors
<1>2. CASE f # "string"
  BY <1>2, HoldsNumber DEF Datum
<1> QED BY <1>1, <1>2

LEMMA ConcatExtension ==
  ASSUME NEW a \in Seq(Fields), NEW b \in Seq(Fields)
  PROVE  a \o (b \o Extension) = (a \o b) \o Extension
<1>1. Extension \in Seq(Fields)
  BY ExtensionType
<1> QED BY <1>1, ConcatAssociative

(* The plan of a command is followed by one whose end is still to come, or *)
(* the added fields have been reached.                                     *)
LEMMA NextPlan ==
  ASSUME NEW k \in Kinds, NEW t, NEW j \in Nat \ {0}, Planned(k, t, j),
         NEW fields \in Seq(Fields), fields = t[j].fields, fields # << >>,
         NEW v, Holds(Head(fields), v),
         t[j + 1].fields = Follow(Head(fields), v) \o Tail(fields)
  PROVE  Planned(k, t, j + 1)
<1> DEFINE f == Head(fields)
<1>1. f \in Fields /\ Tail(fields) \in Seq(Fields)
  BY HeadTailProperties
<1>2. Follow(f, v) \in Seq(Fields) /\ (f \in Required => Follow(f, v) \in Seq(Required))
  BY <1>1, HoldsDatum, FollowType
<1>3. CASE k # "ActionGroup"
  <2>1. fields \in Seq(Required)
    BY <1>3 DEF Planned
  <2>2. f \in Required /\ Tail(fields) \in Seq(Required)
    BY <2>1, HeadTailProperties
  <2>3. Follow(f, v) \o Tail(fields) \in Seq(Required)
    BY <1>2, <2>2, ConcatProperties
  <2> QED BY <1>3, <2>3 DEF Planned
<1>4. CASE k = "ActionGroup" /\ \E h \in 1 .. j : t[h].fields = Extension
  BY <1>4 DEF Planned
<1>5. CASE k = "ActionGroup" /\ BeforeExtension(fields)
  <2>1. PICK s \in Seq(Required) : fields = s \o Extension
    BY <1>5 DEF BeforeExtension
  <2>2. CASE s = << >>
    <3>1. fields = Extension
      BY <2>1, <2>2, ExtensionType, ConcatEmptySeq
    <3>2. \E h \in 1 .. j + 1 : t[h].fields = Extension
      <4>1. j \in 1 .. j + 1 /\ t[j].fields = Extension
        BY <3>1
      <4> QED BY <4>1
    <3> QED BY <1>5, <3>2 DEF Planned
  <2>3. CASE s # << >>
    <3>1. Head(s) \in Required /\ Tail(s) \in Seq(Required)
      BY <2>3, HeadTailProperties
    <3>2. s \in Seq(Fields) /\ Tail(s) \in Seq(Fields)
      BY <2>1, <3>1, RequiredFields, SeqMonotonic
    <3>3. f = Head(s) /\ Tail(fields) = Tail(s) \o Extension
      BY <2>1, <2>3, <3>2, ExtensionType
    <3>4. Follow(f, v) \in Seq(Required)
      BY <1>2, <3>1, <3>3
    <3>5. Follow(f, v) \o Tail(fields) = (Follow(f, v) \o Tail(s)) \o Extension
      <4>2. Follow(f, v) \in Seq(Fields) /\ Tail(s) \in Seq(Fields)
        BY <1>2, <3>2
      <4>3. Follow(f, v) \o (Tail(s) \o Extension) = (Follow(f, v) \o Tail(s)) \o Extension
        BY <4>2, ConcatExtension
      <4> QED BY <3>3, <4>3
    <3>6. Follow(f, v) \o Tail(s) \in Seq(Required)
      BY <3>1, <3>4, ConcatProperties
    <3> QED BY <1>5, <3>5, <3>6 DEF Planned, BeforeExtension
  <2> QED BY <2>2, <2>3
<1> QED BY <1>3, <1>4, <1>5 DEF Planned

(* What was written stays where it is. *)
LEMMA StaysWritten ==
  ASSUME NEW t, NEW s, NEW P \in Seq(Byte), NEW j \in Nat \ {0}, Written(t, s, P, j),
         t[j].off \in Nat, t[j].fields \in Seq(Fields),
         NEW t2, t2[j] = t[j], t2[j + 1] = t[j + 1],
         NEW s2, s2[j] = s[j],
         NEW bytes \in Seq(Byte)
  PROVE  Written(t2, s2, P \o bytes, j)
<1> DEFINE f   == Head(t[j].fields)
           enc == Encoding(Type(f), s[j])
<1>1. enc \in Seq(Byte) /\ Len(enc) \in Nat
  <2>1. f \in Fields /\ Holds(f, s[j])
    BY HeadTailProperties DEF Written
  <2> QED BY <2>1, EncodingType, LenProperties
<1>2. t[j].off + Len(enc) <= Len(P) /\ \A i \in 1 .. Len(enc) : P[t[j].off + i] = enc[i]
  BY DEF Written, Stands
<1>3. /\ Len(P \o bytes) = Len(P) + Len(bytes)
      /\ \A i \in 1 .. Len(P) : (P \o bytes)[i] = P[i]
  BY ConcatProperties, LenProperties
<1>4. Len(P) \in Nat /\ Len(bytes) \in Nat
  BY LenProperties
<1>5. Stands(f, s[j], P \o bytes, t[j].off)
  <2>1. t[j].off + Len(enc) <= Len(P \o bytes)
    BY <1>1, <1>2, <1>3, <1>4
  <2>2. \A i \in 1 .. Len(enc) : (P \o bytes)[t[j].off + i] = enc[i]
    <3> TAKE i \in 1 .. Len(enc)
    <3>1. t[j].off + i \in 1 .. Len(P)
      BY <1>1, <1>2, <1>4
    <3> QED BY <1>2, <1>3, <3>1
  <2> QED BY <2>1, <2>2 DEF Stands
<1> QED BY <1>5 DEF Written

LEMMA WriteInvariant ==
  ASSUME IInv, NEW v, Write(v)
  PROVE  IInv'
<1> DEFINE n      == Len(sent)
           fields == trail[n + 1].fields
           f      == Head(fields)
           enc    == Encoding(Type(f), v)
           next   == [fields |-> Follow(f, v) \o Tail(fields), off |-> Len(payload')]
<1>1. /\ sent \in Seq(Datum) /\ n \in Nat
      /\ Len(trail) = n + 1 /\ payload \in Seq(Byte) /\ Len(payload) \in Nat
      /\ trail \in Seq([fields : Seq(Fields), off : 0 .. Len(payload)])
      /\ trail[n + 1].off = Len(payload)
      /\ \A j \in 1 .. n : Written(trail, sent, payload, j)
  BY LenProperties DEF IInv, TypeOK, TrailInv
<1>2. /\ phase = "writing" /\ fields # << >> /\ Holds(f, v)
      /\ sent' = Append(sent, v) /\ payload' = payload \o enc /\ trail' = Append(trail, next)
      /\ UNCHANGED << kind, content, phase, data, due, off, received >>
  BY <1>1 DEF Write, ToWrite, reader
<1> DEFINE Old == [fields : Seq(Fields), off : 0 .. Len(payload)]
<1>3. /\ \A j \in 1 .. n + 1 : trail[j] \in Old
      /\ fields \in Seq(Fields)
  <2>1. \A j \in 1 .. n + 1 : trail[j] \in Old
    <3> HIDE DEF Old, n
    <3>1. trail \in Seq(Old) /\ Len(trail) = n + 1
      BY <1>1 DEF Old
    <3> QED BY <3>1, ElementOfSeq
  <2>2. n + 1 \in 1 .. n + 1
    BY <1>1
  <2> QED BY <2>1, <2>2
<1>4. f \in Fields /\ Tail(fields) \in Seq(Fields)
  BY <1>2, <1>3, HeadTailProperties
<1>5. v \in Datum /\ Follow(f, v) \in Seq(Fields) /\ enc \in Seq(Byte) /\ Len(enc) \in Nat
  BY <1>2, <1>4, HoldsDatum, FollowType, EncodingType, LenProperties
<1>6. Follow(f, v) \o Tail(fields) \in Seq(Fields)
  BY <1>4, <1>5, ConcatProperties
<1>7. /\ payload' \in Seq(Byte) /\ Len(payload') = Len(payload) + Len(enc)
      /\ \A i \in 1 .. Len(enc) : payload'[Len(payload) + i] = enc[i]
  <2>1. /\ payload \o enc \in Seq(Byte) /\ Len(payload \o enc) = Len(payload) + Len(enc)
        /\ \A i \in 1 .. Len(payload) + Len(enc) :
             (payload \o enc)[i] = IF i <= Len(payload) THEN payload[i] ELSE enc[i - Len(payload)]
    BY <1>1, <1>5, ConcatProperties
  <2> QED BY <1>1, <1>2, <1>5, <2>1
<1> DEFINE Entry == [fields : Seq(Fields), off : 0 .. Len(payload')]
<1>8. /\ \A j \in 1 .. n + 1 : trail[j] \in Entry
      /\ next \in Entry
  BY <1>1, <1>3, <1>5, <1>6, <1>7
<1>9. /\ sent' \in Seq(Datum) /\ Len(sent') = n + 1
      /\ \A j \in 1 .. n : sent'[j] = sent[j]
      /\ sent'[n + 1] = v
  BY <1>1, <1>2, <1>5, AppendProperties
<1>10. /\ trail' \in Seq(Entry) /\ Len(trail') = n + 2
       /\ \A j \in 1 .. n + 1 : trail'[j] = trail[j]
       /\ trail'[n + 2] = next
  <2>1. Old \subseteq Entry
    BY <1>1, <1>5, <1>7
  <2> HIDE DEF Old, Entry, n, fields, f, enc, next
  <2>2. trail \in Seq(Entry)
    BY <1>1, <2>1, SeqMonotonic DEF Old
  <2> QED BY <1>1, <1>2, <1>8, <2>2, AppendProperties, SMTT(20)
<1> HIDE DEF n, fields, f, enc, next, Old, Entry
<1>11. TypeOK'
  <2>1. trail' \in Seq([fields : Seq(Fields), off : 0 .. Len(payload')])
    BY <1>10 DEF Entry
  <2>2. /\ kind' \in Kinds /\ phase' \in {"writing", "reading", "delivered", "refused"}
        /\ data' \in Seq(Byte) /\ due' \in Seq(Fields) /\ off' \in 0 .. Len(data')
    BY <1>2 DEF IInv, TypeOK
  <2>3. payload' \in Seq(Byte) /\ Len(trail') = Len(sent') + 1
    BY <1>1, <1>7, <1>9, <1>10
  <2> QED BY <2>1, <2>2, <2>3 DEF TypeOK
<1>12. TrailInv'
  <2>1. trail'[1] = [fields |-> Layouts[kind'], off |-> 0]
    BY <1>1, <1>2, <1>10 DEF IInv, TrailInv
  <2>2. trail'[Len(trail')].off = Len(payload')
    BY <1>1, <1>10 DEF next
  <2>3. ASSUME NEW j \in 1 .. n
        PROVE  Written(trail', sent', payload', j)
    <3>1. Written(trail, sent, payload, j) /\ j \in Nat \ {0}
      BY <1>1
    <3>2. trail[j].off \in Nat /\ trail[j].fields \in Seq(Fields)
      BY <1>1, <1>3 DEF Old
    <3>3. trail'[j] = trail[j] /\ trail'[j + 1] = trail[j + 1] /\ sent'[j] = sent[j]
      <4>1. j \in 1 .. n /\ j \in 1 .. n + 1 /\ j + 1 \in 1 .. n + 1
        BY <1>1
      <4> QED BY <1>9, <1>10, <4>1
    <3>4. Written(trail', sent', payload \o enc, j)
      BY <1>1, <1>5, <3>1, <3>2, <3>3, StaysWritten
    <3> QED BY <1>2, <3>4
  <2>4. Written(trail', sent', payload', n + 1)
    <3>1. /\ trail'[n + 1].fields = fields /\ trail'[n + 1].off = Len(payload)
          /\ trail'[(n + 1) + 1].fields = Follow(f, v) \o Tail(fields)
          /\ trail'[(n + 1) + 1].off = Len(payload')
      <4>1. n + 1 \in 1 .. n + 1 /\ (n + 1) + 1 = n + 2
        BY <1>1
      <4>2. trail'[n + 1] = trail[n + 1] /\ trail'[(n + 1) + 1] = next
        BY <1>10, <4>1
      <4>3. next.fields = Follow(f, v) \o Tail(fields) /\ next.off = Len(payload')
        BY DEF next
      <4>4. trail[n + 1].fields = fields
        BY DEF fields
      <4> QED BY <1>1, <4>2, <4>3, <4>4
    <3>2. Stands(f, v, payload', Len(payload))
      <4>1. Len(payload) + Len(enc) <= Len(payload')
        BY <1>1, <1>5, <1>7
      <4> QED BY <1>7, <4>1 DEF Stands, enc
    <3>3. Head(trail'[n + 1].fields) = f /\ sent'[n + 1] = v
      BY <1>9, <3>1 DEF f
    <3>4. trail'[(n + 1) + 1].off = trail'[n + 1].off + Len(Encoding(Type(f), v))
      BY <1>7, <3>1 DEF enc
    <3> QED BY <1>2, <3>1, <3>2, <3>3, <3>4 DEF Written
  <2>5. \A j \in 1 .. n + 1 : Written(trail', sent', payload', j)
    BY <1>1, <2>3, <2>4
  <2> QED BY <1>9, <2>1, <2>2, <2>5 DEF TrailInv
<1>13. PlanInv'
  <2>1. \A j \in 1 .. n + 1 : Planned(kind, trail, j)
    BY <1>1 DEF IInv, PlanInv
  <2>2. ASSUME NEW j \in 1 .. n + 1
        PROVE  Planned(kind, trail', j)
    <3>1. \A h \in 1 .. j : trail'[h] = trail[h]
      BY <1>1, <1>10
    <3>2. trail'[j] = trail[j]
      BY <1>10
    <3> QED BY <2>1, <3>1, <3>2 DEF Planned
  <2>3. Planned(kind, trail', (n + 1) + 1)
    <3>1. /\ trail'[n + 1].fields = fields
          /\ trail'[(n + 1) + 1].fields = Follow(f, v) \o Tail(fields)
      <4>1. n + 1 \in 1 .. n + 1 /\ (n + 1) + 1 = n + 2
        BY <1>1
      <4>2. trail'[n + 1] = trail[n + 1] /\ trail'[(n + 1) + 1] = next
        BY <1>10, <4>1
      <4>3. trail[n + 1].fields = fields
        BY DEF fields
      <4>4. next.fields = Follow(f, v) \o Tail(fields)
        BY DEF next
      <4> QED BY <4>2, <4>3, <4>4
    <3>2. Planned(kind, trail', n + 1) /\ kind \in Kinds /\ n + 1 \in Nat \ {0}
      BY <1>1, <2>2 DEF IInv, TypeOK
    <3>3. fields # << >> /\ Holds(Head(fields), v)
      BY <1>2 DEF f
    <3>4. trail'[(n + 1) + 1].fields = Follow(Head(fields), v) \o Tail(fields)
      BY <3>1 DEF f
    <3> QED BY <1>3, <3>1, <3>2, <3>3, <3>4, NextPlan
  <2>4. \A j \in 1 .. n + 2 : Planned(kind, trail', j)
    BY <1>1, <2>2, <2>3
  <2> QED BY <1>2, <1>10, <2>4 DEF PlanInv
<1>14. ArrivalInv' /\ OutcomeInv'
  BY <1>2 DEF IInv, ArrivalInv, OutcomeInv
<1>15. ReaderInv'
  <2>1. received \in Seq(Datum) /\ received = << >>
    BY <1>2 DEF IInv, ReaderInv, ArrivalInv
  <2>2. InStep
    BY <1>2 DEF IInv, ReaderInv, OnDefaults, BehindHead
  <2>3. due = trail[1].fields /\ off = trail[1].off
    BY <2>1, <2>2 DEF InStep
  <2>4. due' = trail'[1].fields /\ off' = trail'[1].off /\ received' = << >>
    BY <1>1, <1>2, <1>10, <2>1, <2>3
  <2>5. InStep'
    BY <1>1, <1>9, <2>4 DEF InStep
  <2> QED BY <1>2, <2>1, <2>5 DEF ReaderInv
<1> QED BY <1>11, <1>12, <1>13, <1>14, <1>15 DEF IInv

-----------------------------------------------------------------------------
(* Between the two ends: what arrives agrees with the payload. *)

LEMMA ArriveInvariant ==
  ASSUME IInv, NEW bytes, Arrive(bytes), Agree(bytes, payload),
         ToWrite \in {<< >>, Extension}, Len(bytes) > Len(payload) => ToWrite = << >>
  PROVE  IInv'
<1>1. /\ phase = "writing" /\ phase' = "reading" /\ data' = bytes
      /\ UNCHANGED << kind, content, sent, payload, trail, due, off, received >>
  BY DEF Arrive, writer, reader
<1>2. data = << >> /\ received = << >>
  BY <1>1 DEF IInv, ArrivalInv
<1>3. InStep /\ received \in Seq(Datum)
  BY <1>1 DEF IInv, ReaderInv, OnDefaults, BehindHead
<1>4. off = 0
  BY <1>2, <1>3 DEF IInv, TrailInv, InStep
<1>5. bytes \in Seq(Byte) /\ 0 \in 0 .. Len(bytes)
  BY LenProperties DEF Agree
<1>6. TypeOK'
  BY <1>1, <1>4, <1>5 DEF IInv, TypeOK
<1>7. TrailInv' /\ PlanInv'
  BY <1>1 DEF IInv, TrailInv, PlanInv
<1>8. ArrivalInv' /\ OutcomeInv'
  BY <1>1 DEF ArrivalInv, OutcomeInv, ToWrite
<1>9. ReaderInv'
  BY <1>1, <1>3 DEF ReaderInv, InStep
<1> QED BY <1>6, <1>7, <1>8, <1>9 DEF IInv

LEMMA PublishInvariant == IInv /\ Publish => IInv'
<1> SUFFICES ASSUME IInv, Publish PROVE IInv'
  OBVIOUS
<1>1. payload \in Seq(Byte) /\ Len(payload) \in Nat
  BY LenProperties DEF IInv, TypeOK
<1>2. Agree(payload, payload) /\ ~(Len(payload) > Len(payload))
  BY <1>1 DEF Agree
<1> QED BY <1>2, ArriveInvariant DEF Publish

LEMMA PublishShortInvariant ==
  ASSUME IInv, NEW n \in 0 .. Len(payload) - 1, PublishShort(n)
  PROVE  IInv'
<1> DEFINE bytes == SubSeq(payload, 1, n)
<1>1. payload \in Seq(Byte) /\ Len(payload) \in Nat
  BY LenProperties DEF IInv, TypeOK
<1>2. /\ bytes \in Seq(Byte) /\ Len(bytes) = n
      /\ \A i \in 1 .. n : bytes[i] = payload[i]
  BY <1>1
<1>3. Agree(bytes, payload) /\ ~(Len(bytes) > Len(payload))
  BY <1>1, <1>2 DEF Agree
<1> HIDE DEF bytes
<1>4. Arrive(bytes) /\ ToWrite \in {<< >>, Extension}
  BY DEF PublishShort, bytes
<1> QED BY <1>3, <1>4, ArriveInvariant

LEMMA PublishLongInvariant ==
  ASSUME IInv, NEW byte \in Byte, PublishLong(byte)
  PROVE  IInv'
<1> DEFINE bytes == Append(payload, byte)
<1>1. payload \in Seq(Byte) /\ Len(payload) \in Nat
  BY LenProperties DEF IInv, TypeOK
<1>2. /\ bytes \in Seq(Byte) /\ Len(bytes) = Len(payload) + 1
      /\ \A i \in 1 .. Len(payload) : bytes[i] = payload[i]
  BY <1>1, AppendProperties
<1>3. Agree(bytes, payload)
  BY <1>1, <1>2 DEF Agree
<1> HIDE DEF bytes
<1>4. Arrive(bytes) /\ ToWrite = << >>
  BY DEF PublishLong, bytes
<1> QED BY <1>3, <1>4, ArriveInvariant

-----------------------------------------------------------------------------
(* Reading: the types. *)

LEMMA WidthType ==
  ASSUME NEW f \in Fields
  PROVE  Width[Type(f)] \in Nat \ {0}
<1>1. Type(f) \in Types
  BY FieldType
<1> QED BY <1>1 DEF Types, Width

LEMMA UnsignedType ==
  ASSUME NEW bytes \in Seq(Byte), NEW at \in Nat
  PROVE  /\ at + 1 <= Len(bytes) => Unsigned1(bytes, at) \in Nat
         /\ at + 2 <= Len(bytes) => Unsigned2(bytes, at) \in Nat
         /\ at + 4 <= Len(bytes) => Unsigned4(bytes, at) \in Nat
         /\ at + 8 <= Len(bytes) => Unsigned8(bytes, at) \in Nat
<1>1. Len(bytes) \in Nat
  BY LenProperties
<1>2. ASSUME NEW k \in Nat, k + 1 <= Len(bytes)
      PROVE  Unsigned1(bytes, k) \in Nat
  <2>1. bytes[k + 1] \in Byte
    BY <1>1, <1>2, ElementOfSeq
  <2>2. Byte \subseteq Nat
    BY Spans DEF Byte
  <2> QED BY <2>1, <2>2 DEF Unsigned1
<1>3. ASSUME NEW a \in Nat, NEW b \in Nat, NEW s \in Nat \ {0}
      PROVE  a * s + b \in Nat
  OBVIOUS
<1>4. ASSUME NEW k \in Nat, k + 2 <= Len(bytes)
      PROVE  Unsigned2(bytes, k) \in Nat
  <2>1. k + 1 \in Nat /\ k + 1 <= Len(bytes) /\ (k + 1) + 1 <= Len(bytes)
    BY <1>1, <1>4
  <2>2. Unsigned1(bytes, k) \in Nat /\ Unsigned1(bytes, k + 1) \in Nat
    BY <1>2, <2>1
  <2> QED BY <1>3, <2>2, Spans DEF Unsigned2
<1>5. ASSUME NEW k \in Nat, k + 4 <= Len(bytes)
      PROVE  Unsigned4(bytes, k) \in Nat
  <2>1. k + 2 \in Nat /\ k + 2 <= Len(bytes) /\ (k + 2) + 2 <= Len(bytes)
    BY <1>1, <1>5
  <2>2. Unsigned2(bytes, k) \in Nat /\ Unsigned2(bytes, k + 2) \in Nat
    BY <1>4, <2>1
  <2> QED BY <1>3, <2>2, Spans DEF Unsigned4
<1>6. ASSUME NEW k \in Nat, k + 8 <= Len(bytes)
      PROVE  Unsigned8(bytes, k) \in Nat
  <2>1. k + 4 \in Nat /\ k + 4 <= Len(bytes) /\ (k + 4) + 4 <= Len(bytes)
    BY <1>1, <1>6
  <2>2. Unsigned4(bytes, k) \in Nat /\ Unsigned4(bytes, k + 4) \in Nat
    BY <1>5, <2>1
  <2> QED BY <1>3, <2>2, Spans DEF Unsigned8
<1> QED BY <1>2, <1>4, <1>5, <1>6

(* Whatever bytes are read: a value, and no byte past the end. *)
LEMMA DecodingType ==
  ASSUME NEW f \in Fields, NEW bytes \in Seq(Byte), NEW at \in Nat, Fits(Type(f), bytes, at)
  PROVE  /\ Decoding(Type(f), bytes, at) \in Datum
         /\ f # "string" => Decoding(Type(f), bytes, at) \in Int
         /\ at + Size(Type(f), bytes, at) \in 0 .. Len(bytes)
<1> DEFINE type == Type(f)
<1>1. Len(bytes) \in Nat /\ Width[type] \in Nat \ {0}
  BY LenProperties, WidthType
<1>2. at + Width[type] <= Len(bytes) /\ at + Size(type, bytes, at) <= Len(bytes)
  BY DEF Fits
<1>3. CASE f = "string"
  <2>1. type = "string" /\ Width[type] = 4
    BY <1>3, FieldType DEF Width
  <2>2. Unsigned4(bytes, at) \in Nat
    BY <1>2, <2>1, UnsignedType
  <2>3. Size(type, bytes, at) = 4 + Unsigned4(bytes, at)
    BY <2>1 DEF Size
  <2>4. Decoding(type, bytes, at) = SubSeq(bytes, at + 5, at + 4 + Unsigned4(bytes, at))
    BY <2>1 DEF Decoding
  <2>5. SubSeq(bytes, at + 5, at + 4 + Unsigned4(bytes, at)) \in Seq(Byte)
    <3>1. \A i \in at + 5 .. at + 4 + Unsigned4(bytes, at) : bytes[i] \in Byte
      BY <1>1, <1>2, <2>2, <2>3, ElementOfSeq
    <3> QED BY <2>2, <3>1, SubSeqProperties
  <2>6. at + Size(type, bytes, at) \in 0 .. Len(bytes)
    BY <1>1, <1>2, <2>2, <2>3
  <2>7. Decoding(type, bytes, at) \in Datum
    BY <2>4, <2>5 DEF Datum
  <2> QED BY <1>3, <2>6, <2>7
<1>4. CASE f # "string"
  <2>1. type \in Scalars /\ type # "string" /\ Width[type] \in {1, 2, 4, 8}
    BY <1>4, FieldType, ScalarWidth DEF Scalars
  <2>2. Unsigned(Width[type], bytes, at) \in Nat
    BY <1>2, <2>1, UnsignedType DEF Unsigned
  <2>3. Span(Width[type]) \in Nat
    BY <2>1, SpanType
  <2>4. Cast(type, Unsigned(Width[type], bytes, at)) \in Int
    BY <2>2, <2>3 DEF Cast
  <2>5. Size(type, bytes, at) = Width[type]
    BY <1>1, <2>1 DEF Size
  <2>6. Decoding(type, bytes, at) = Cast(type, Unsigned(Width[type], bytes, at))
    BY <2>1 DEF Decoding
  <2> QED BY <1>1, <1>2, <2>4, <2>5, <2>6 DEF Datum
<1> QED BY <1>3, <1>4

-----------------------------------------------------------------------------
(* Reading: where the reader is. *)

LEMMA InvariantTypes ==
  ASSUME IInv
  PROVE  /\ payload \in Seq(Byte) /\ Len(payload) \in Nat
         /\ data \in Seq(Byte) /\ Len(data) \in Nat
         /\ Len(sent) \in Nat /\ Len(trail) = Len(sent) + 1
         /\ received \in Seq(Datum) /\ Len(received) \in Nat
         /\ due \in Seq(Fields) /\ off \in 0 .. Len(data)
         /\ \A j \in 1 .. Len(trail) :
              trail[j].fields \in Seq(Fields) /\ trail[j].off \in 0 .. Len(payload)
<1>1. /\ payload \in Seq(Byte) /\ Len(payload) \in Nat
      /\ data \in Seq(Byte) /\ Len(data) \in Nat
      /\ Len(sent) \in Nat /\ Len(trail) = Len(sent) + 1
      /\ received \in Seq(Datum) /\ Len(received) \in Nat
      /\ due \in Seq(Fields) /\ off \in 0 .. Len(data)
      /\ trail \in Seq([fields : Seq(Fields), off : 0 .. Len(payload)])
  BY LenProperties DEF IInv, TypeOK, TrailInv, ReaderInv
<1>2. \A j \in 1 .. Len(trail) : trail[j] \in [fields : Seq(Fields), off : 0 .. Len(payload)]
  BY <1>1, ElementOfSeq
<1> QED BY <1>1, <1>2

(* No field that the writer has filled is in doubt, if its bytes arrived. *)
LEMMA WrittenIsReadable ==
  ASSUME NEW f \in Fields, NEW v, Holds(f, v)
  PROVE  ~BadCount(f, v)
<1>1. CASE f = "string"
  BY <1>1 DEF BadCount
<1>2. CASE f # "string"
  <2>1. v \in Int
    BY <1>2, HoldsNumber
  <2>2. f \in {"parameters", "faces", "paths"} => v >= 0
    BY DEF Holds, Vectors
  <2>3. f = "motors" => v = -1 \/ v > 0
    BY DEF Holds, Vectors
  <2> QED BY <2>1, <2>2, <2>3 DEF BadCount
<1> QED BY <1>1, <1>2

LEMMA NextInStep ==
  ASSUME IInv, phase # "writing", InStep, Len(received) < Len(sent)
  PROVE  LET n == Len(received)
             f == Head(due)
             v == sent[n + 1]
         IN  /\ due # << >> /\ f \in Fields /\ Holds(f, v)
             /\ Follow(f, v) \o Tail(due) = trail[n + 2].fields
             /\ trail[n + 2].off \in Nat /\ trail[n + 2].off <= Len(payload)
             /\ Fits(Type(f), data, off) <=> trail[n + 2].off <= Len(data)
             /\ Fits(Type(f), data, off) =>
                  /\ Decoding(Type(f), data, off) = v
                  /\ off + Size(Type(f), data, off) = trail[n + 2].off
                  /\ Readable(f)
<1> DEFINE n == Len(received)
           f == Head(due)
           v == sent[n + 1]
<1>1. /\ n \in Nat /\ Len(sent) \in Nat /\ n + 1 \in 1 .. Len(sent) /\ n + 2 \in 1 .. Len(trail)
      /\ (n + 1) + 1 = n + 2
  BY InvariantTypes
<1>2. due = trail[n + 1].fields /\ off = trail[n + 1].off
  BY DEF InStep
<1>3. Written(trail, sent, payload, n + 1)
  BY <1>1 DEF IInv, TrailInv
<1>4. /\ due # << >> /\ Holds(f, v)
      /\ trail[n + 2].fields = Follow(f, v) \o Tail(due)
      /\ trail[n + 2].off = off + Len(Encoding(Type(f), v))
      /\ Stands(f, v, payload, off)
  BY <1>1, <1>2, <1>3 DEF Written
<1>5. f \in Fields /\ off \in Nat
  BY <1>4, InvariantTypes, HeadTailProperties
<1>6. trail[n + 2].off \in Nat /\ trail[n + 2].off <= Len(payload)
  BY <1>1, InvariantTypes
<1>7. Agree(data, payload)
  BY DEF IInv, ArrivalInv
<1>8. /\ Fits(Type(f), data, off) <=> off + Len(Encoding(Type(f), v)) <= Len(data)
      /\ Fits(Type(f), data, off) =>
           /\ Size(Type(f), data, off) = Len(Encoding(Type(f), v))
           /\ Decoding(Type(f), data, off) = v
  BY <1>4, <1>5, <1>7, ReadBack
<1>9. ~BadCount(f, v)
  BY <1>4, <1>5, WrittenIsReadable
<1> HIDE DEF n, f, v
<1>10. Fits(Type(f), data, off) => Readable(f)
  BY <1>8, <1>9 DEF Readable
<1> QED BY <1>4, <1>5, <1>6, <1>8, <1>10 DEF n, f, v

(* Nothing is missing from a message of a fixed layout, and of a command *)
(* only what follows its head.                                           *)
LEMMA AddedFieldIsBehindHead ==
  ASSUME IInv, InStep, due # << >>, Head(due) \in AddedFields
  PROVE  kind = "ActionGroup" /\ HeadRead
<1> DEFINE n == Len(received)
<1>1. /\ n \in Nat /\ Len(sent) \in Nat /\ n <= Len(sent) /\ n + 1 \in 1 .. Len(trail)
      /\ due = trail[n + 1].fields
  BY InvariantTypes DEF InStep
<1>2. Planned(kind, trail, n + 1)
  BY <1>1 DEF IInv, PlanInv
<1>3. Head(due) \notin Required
  BY DEF Required
<1>4. kind = "ActionGroup"
  <2> SUFFICES ASSUME kind # "ActionGroup" PROVE FALSE
    OBVIOUS
  <2>1. due \in Seq(Required)
    BY <1>1, <1>2 DEF Planned
  <2> QED BY <1>3, <2>1, HeadTailProperties
<1>5. \E h \in 1 .. n + 1 : trail[h].fields = Extension
  <2>1. CASE BeforeExtension(due)
    <3>1. PICK s \in Seq(Required) : due = s \o Extension
      BY <2>1 DEF BeforeExtension
    <3>2. s = << >>
      <4> SUFFICES ASSUME s # << >> PROVE FALSE
        OBVIOUS
      <4>1. Head(s) \in Required
        BY HeadTailProperties
      <4>2. Head(due) = Head(s)
        <5>1. s \in Seq(Fields) /\ Extension \in Seq(Fields)
          BY RequiredFields, SeqMonotonic, ExtensionType
        <5> QED BY <3>1, <5>1
      <4> QED BY <1>3, <4>1, <4>2
    <3>3. due = Extension
      BY <3>1, <3>2, ExtensionType, ConcatEmptySeq
    <3>4. n + 1 \in 1 .. n + 1 /\ trail[n + 1].fields = Extension
      BY <1>1, <3>3
    <3> QED BY <3>4
  <2> QED BY <1>1, <1>2, <1>4, <2>1 DEF Planned
<1>6. PICK h \in 1 .. n + 1 : trail[h].fields = Extension
  BY <1>5
<1>7. h - 1 \in 0 .. Len(sent) /\ h - 1 <= n /\ (h - 1) + 1 = h
  BY <1>1
<1>8. \A i \in 1 .. h - 1 : received[i] = sent[i]
  BY <1>1, <1>7 DEF InStep
<1>9. HeadRead
  BY <1>6, <1>7, <1>8 DEF HeadRead
<1> QED BY <1>4, <1>9

(* At the end of what was written there is nothing to read, or the defaults. *)
LEMMA LastInStep ==
  ASSUME IInv, phase # "writing", InStep, Len(received) = Len(sent)
  PROVE  /\ due = ToWrite /\ off = Len(payload)
         /\ Len(data) >= Len(payload)
         /\ due # << >> => OnDefaults
<1>1. due = ToWrite /\ off = Len(payload)
  BY InvariantTypes DEF IInv, TrailInv, InStep, ToWrite
<1>2. Len(data) >= Len(payload)
  BY <1>1, InvariantTypes
<1>3. ASSUME due # << >>
      PROVE  OnDefaults
  <2>1. ToWrite = Extension /\ Len(data) <= Len(payload)
    BY <1>1, <1>3, InvariantTypes DEF IInv, ArrivalInv
  <2>2. due = SubSeq(Extension, 0 + 1, 4)
    BY <1>1, <2>1 DEF Extension
  <2>3. /\ Len(received) = Len(sent) + 0
        /\ \A i \in 1 .. Len(sent) : received[i] = sent[i]
        /\ \A i \in 1 .. 0 : received[Len(sent) + i] = Defaults[i]
    BY InvariantTypes DEF InStep
  <2>4. Len(data) = Len(payload) /\ off = Len(data) /\ 0 \in 0 .. 4
    BY <1>1, <1>2, <2>1, InvariantTypes
  <2> QED BY <2>1, <2>2, <2>3, <2>4 DEF OnDefaults
<1> QED BY <1>1, <1>2, <1>3

LEMMA DefaultsAhead ==
  ASSUME NEW m \in 0 .. 3
  PROVE  LET rest == SubSeq(Extension, m + 1, 4)
         IN  /\ rest # << >> /\ Head(rest) \in AddedFields
             /\ Tail(rest) = SubSeq(Extension, m + 2, 4)
             /\ Default(Head(rest)) = Defaults[m + 1]
<1>1. CASE m = 0
  BY <1>1 DEF Extension, AddedFields, Default, Defaults
<1>2. CASE m = 1
  BY <1>2 DEF Extension, AddedFields, Default, Defaults
<1>3. CASE m = 2
  BY <1>3 DEF Extension, AddedFields, Default, Defaults
<1>4. CASE m = 3
  BY <1>4 DEF Extension, AddedFields, Default, Defaults
<1> QED BY <1>1, <1>2, <1>3, <1>4

(* On the defaults every field is missing, until there is none. *)
LEMMA OnDefaultsIsMissing ==
  ASSUME IInv, OnDefaults, due # << >>
  PROVE  Missing(Head(due)) /\ ~Readable(Head(due))
<1>1. PICK m \in 0 .. 4 : due = SubSeq(Extension, m + 1, 4)
  BY DEF OnDefaults
<1>2. m # 4
  BY <1>1 DEF Extension
<1>3. Head(due) \in AddedFields /\ Head(due) \in Fields
  BY <1>1, <1>2, DefaultsAhead DEF Fields
<1>4. Width[Type(Head(due))] \in Nat \ {0}
  BY <1>3, WidthType
<1>5. off = Len(data) /\ Len(data) \in Nat
  BY InvariantTypes DEF OnDefaults
<1>6. ~Fits(Type(Head(due)), data, off)
  BY <1>4, <1>5 DEF Fits
<1> QED BY <1>3, <1>6 DEF Missing, Readable

-----------------------------------------------------------------------------
(* Reading: the steps. *)

(* What reading leaves alone. *)
LEMMA ReaderFrame ==
  ASSUME IInv, phase = "reading", phase' = "reading",
         UNCHANGED << kind, content, writer, data >>,
         due' \in Seq(Fields), off' \in 0 .. Len(data)
  PROVE  TypeOK' /\ TrailInv' /\ PlanInv' /\ ArrivalInv' /\ OutcomeInv'
<1>1. UNCHANGED << kind, sent, payload, trail, data >>
  BY DEF writer
<1> QED BY <1>1 DEF IInv, TypeOK, TrailInv, PlanInv, ArrivalInv, OutcomeInv, ToWrite

(* The head of a command, once read, stays read. *)
LEMMA HeadStaysRead ==
  ASSUME IInv, BehindHead, phase' # "writing", UNCHANGED << kind, content, writer, data >>,
         NEW v \in Datum, received' = Append(received, v)
  PROVE  BehindHead'
<1>1. UNCHANGED << kind, sent, payload, trail, data >>
  BY DEF writer
<1>2. /\ Len(received') = Len(received) + 1
      /\ \A i \in 1 .. Len(received) : received'[i] = received[i]
      /\ Len(received) \in Nat /\ Len(sent) \in Nat
  BY InvariantTypes, AppendProperties
<1>3. PICK n \in 0 .. Len(sent) : /\ trail[n + 1].fields = Extension
                                 /\ n <= Len(received)
                                 /\ \A i \in 1 .. n : received[i] = sent[i]
  BY DEF BehindHead, HeadRead
<1>4. /\ n \in 0 .. Len(sent') /\ trail'[n + 1].fields = Extension
      /\ n <= Len(received')
      /\ \A i \in 1 .. n : received'[i] = sent'[i]
  BY <1>1, <1>2, <1>3
<1>5. HeadRead'
  BY <1>4 DEF HeadRead
<1> QED BY <1>1, <1>5 DEF BehindHead

LEMMA ReadInvariant == IInv /\ Read => IInv'
<1> SUFFICES ASSUME IInv, Read PROVE IInv'
  OBVIOUS
<1> DEFINE f == Head(due)
           v == Decoding(Type(f), data, off)
           n == Len(received)
<1>1. /\ phase = "reading" /\ phase' = "reading" /\ due # << >> /\ Readable(f)
      /\ due' = Follow(f, v) \o Tail(due)
      /\ off' = off + Size(Type(f), data, off)
      /\ received' = Append(received, v)
      /\ UNCHANGED << kind, content, writer, data >>
  BY DEF Read
<1>2. Fits(Type(f), data, off)
  BY <1>1 DEF Readable
<1>3. f \in Fields /\ Tail(due) \in Seq(Fields) /\ off \in Nat
  BY <1>1, InvariantTypes, HeadTailProperties
<1>4. v \in Datum /\ (f # "string" => v \in Int) /\ off' \in 0 .. Len(data)
  BY <1>1, <1>2, <1>3, InvariantTypes, DecodingType
<1>5. Follow(f, v) \in Seq(Fields)
  <2>1. f \in Vectors \cup {"steps", "step_motors"} => v \in Int
    BY <1>4 DEF Vectors
  <2> QED BY <1>3, <2>1, FollowType
<1>6. due' \in Seq(Fields)
  BY <1>1, <1>3, <1>5, ConcatProperties
<1>7. /\ received' \in Seq(Datum) /\ Len(received') = n + 1 /\ n \in Nat
      /\ \A i \in 1 .. n : received'[i] = received[i]
      /\ received'[n + 1] = v
  BY <1>1, <1>4, InvariantTypes, AppendProperties
<1>8. TypeOK' /\ TrailInv' /\ PlanInv' /\ ArrivalInv' /\ OutcomeInv'
  BY <1>1, <1>4, <1>6, ReaderFrame
<1>9. CASE InStep /\ n < Len(sent)
  <2>1. /\ v = sent[n + 1] /\ off' = trail[n + 2].off
        /\ due' = trail[n + 2].fields
    BY <1>1, <1>2, <1>9, NextInStep
  <2>2. Len(sent) \in Nat /\ UNCHANGED << sent, trail >>
    BY <1>1, InvariantTypes DEF writer
  <2>3. \A i \in 1 .. n + 1 : received'[i] = sent'[i]
    BY <1>7, <1>9, <2>1, <2>2 DEF InStep
  <2>4. InStep'
    BY <1>7, <1>9, <2>1, <2>2, <2>3 DEF InStep
  <2> QED BY <1>7, <1>8, <2>4 DEF IInv, ReaderInv
<1>10. CASE (InStep /\ ~(n < Len(sent))) \/ OnDefaults
  <2>1. OnDefaults
    BY <1>1, <1>10, InvariantTypes, LastInStep DEF InStep
  <2> QED BY <1>1, <2>1, OnDefaultsIsMissing
<1>11. CASE BehindHead
  <2>1. BehindHead'
    BY <1>1, <1>4, <1>11, HeadStaysRead
  <2> QED BY <1>7, <1>8, <2>1 DEF IInv, ReaderInv
<1> QED BY <1>9, <1>10, <1>11 DEF IInv, ReaderInv

LEMMA SkipInvariant == IInv /\ Skip => IInv'
<1> SUFFICES ASSUME IInv, Skip PROVE IInv'
  OBVIOUS
<1> DEFINE f == Head(due)
           n == Len(received)
<1>1. /\ phase = "reading" /\ phase' = "reading" /\ due # << >> /\ Missing(f)
      /\ due' = Tail(due) /\ off' = off
      /\ received' = Append(received, Default(f))
      /\ UNCHANGED << kind, content, writer, data >>
  BY DEF Skip
<1>2. f \in AddedFields /\ ~Fits(Type(f), data, off)
  BY <1>1 DEF Missing
<1>3. Tail(due) \in Seq(Fields) /\ off \in 0 .. Len(data) /\ Default(f) \in Datum
  BY <1>1, InvariantTypes, HeadTailProperties DEF Default, Datum
<1>4. /\ received' \in Seq(Datum) /\ Len(received') = n + 1 /\ n \in Nat
      /\ \A i \in 1 .. n : received'[i] = received[i]
      /\ received'[n + 1] = Default(f)
  BY <1>1, <1>3, InvariantTypes, AppendProperties
<1>5. TypeOK' /\ TrailInv' /\ PlanInv' /\ ArrivalInv' /\ OutcomeInv'
  BY <1>1, <1>3, ReaderFrame
<1>6. CASE BehindHead
  <2>1. BehindHead'
    BY <1>1, <1>3, <1>6, HeadStaysRead
  <2> QED BY <1>4, <1>5, <2>1 DEF IInv, ReaderInv
<1>7. CASE InStep /\ n < Len(sent)
  <2>1. trail[n + 2].off <= Len(payload) /\ trail[n + 2].off \in Nat
        /\ ~(trail[n + 2].off <= Len(data))
    BY <1>1, <1>2, <1>7, NextInStep
  <2>2. Len(data) < Len(payload)
    BY <2>1, InvariantTypes
  <2>3. BehindHead
    BY <1>1, <1>2, <1>7, <2>2, AddedFieldIsBehindHead DEF BehindHead
  <2> QED BY <1>6, <2>3
<1>8. CASE (InStep /\ ~(n < Len(sent))) \/ OnDefaults
  <2>1. OnDefaults
    BY <1>1, <1>8, InvariantTypes, LastInStep DEF InStep
  <2>2. UNCHANGED << sent, payload, trail, data >> /\ Len(sent) \in Nat
    BY <1>1, InvariantTypes DEF writer
  <2>3. PICK m \in 0 .. 4 :
          /\ due = SubSeq(Extension, m + 1, 4)
          /\ Len(received) = Len(sent) + m
          /\ \A i \in 1 .. Len(sent) : received[i] = sent[i]
          /\ \A i \in 1 .. m : received[Len(sent) + i] = Defaults[i]
    BY <2>1 DEF OnDefaults
  <2>4. m \in 0 .. 3
    BY <1>1, <2>3 DEF Extension
  <2>5. due' = SubSeq(Extension, m + 2, 4) /\ Default(f) = Defaults[m + 1]
    BY <1>1, <2>3, <2>4, DefaultsAhead
  <2>6. m + 1 \in 0 .. 4 /\ (m + 1) + 1 = m + 2
    BY <2>4
  <2>7. Len(received') = Len(sent') + (m + 1)
    BY <1>4, <2>2, <2>3, <2>4
  <2>8. \A i \in 1 .. Len(sent') : received'[i] = sent'[i]
    BY <1>4, <2>2, <2>3, <2>4
  <2>9. \A i \in 1 .. m + 1 : received'[Len(sent') + i] = Defaults[i]
    <3> TAKE i \in 1 .. m + 1
    <3>1. CASE i = m + 1
      <4>1. Len(sent') + i = n + 1
        BY <2>2, <2>3, <2>4, <3>1
      <4> QED BY <1>4, <2>5, <3>1, <4>1
    <3>2. CASE i \in 1 .. m
      BY <1>4, <2>2, <2>3, <2>4, <3>2
    <3> QED BY <2>4, <3>1, <3>2
  <2>10. /\ phase' # "writing" /\ ToWrite' = Extension
         /\ Len(data') = Len(payload') /\ off' = Len(data')
    BY <1>1, <2>1, <2>2 DEF OnDefaults, ToWrite
  <2>11. due' = SubSeq(Extension, (m + 1) + 1, 4)
    BY <2>5, <2>6
  <2>12. OnDefaults'
    BY <2>6, <2>7, <2>8, <2>9, <2>10, <2>11 DEF OnDefaults
  <2> QED BY <1>4, <1>5, <2>12 DEF IInv, ReaderInv
<1> QED BY <1>6, <1>7, <1>8 DEF IInv, ReaderInv

LEMMA ThrowInvariant == IInv /\ Throw => IInv'
<1> SUFFICES ASSUME IInv, Throw PROVE IInv'
  OBVIOUS
<1> DEFINE f == Head(due)
<1>1. /\ phase = "reading" /\ phase' = "refused" /\ due # << >>
      /\ ~Readable(f) /\ ~Missing(f)
      /\ UNCHANGED << kind, content, sent, payload, trail, data, due, off, received >>
  BY DEF Throw, writer, reader
<1>2. Len(data) < Len(payload)
  <2>1. CASE InStep /\ Len(received) < Len(sent)
    <3>1. /\ trail[Len(received) + 2].off <= Len(payload) /\ trail[Len(received) + 2].off \in Nat
          /\ ~(trail[Len(received) + 2].off <= Len(data))
      BY <1>1, <2>1, NextInStep
    <3> QED BY <3>1, InvariantTypes
  <2>2. CASE (InStep /\ ~(Len(received) < Len(sent))) \/ OnDefaults
    <3>1. OnDefaults
      BY <1>1, <2>2, InvariantTypes, LastInStep DEF InStep
    <3> QED BY <1>1, <3>1, OnDefaultsIsMissing
  <2>3. CASE BehindHead
    BY <2>3 DEF BehindHead
  <2> QED BY <2>1, <2>2, <2>3 DEF IInv, ReaderInv
<1>3. TypeOK' /\ TrailInv' /\ PlanInv' /\ ArrivalInv' /\ OutcomeInv'
  BY <1>1, <1>2 DEF IInv, TypeOK, TrailInv, PlanInv, ArrivalInv, OutcomeInv, ToWrite
<1>4. ReaderInv'
  BY <1>1 DEF IInv, ReaderInv, InStep, OnDefaults, BehindHead, HeadRead, ToWrite
<1> QED BY <1>3, <1>4 DEF IInv

LEMMA ReturnInvariant == IInv /\ Return => IInv'
<1> SUFFICES ASSUME IInv, Return PROVE IInv'
  OBVIOUS
<1>1. /\ phase = "reading" /\ phase' = "delivered" /\ due = << >>
      /\ UNCHANGED << kind, content, sent, payload, trail, data, due, off, received >>
  BY DEF Return, writer, reader
<1>2. TypeOK' /\ TrailInv' /\ PlanInv' /\ ArrivalInv' /\ OutcomeInv'
  BY <1>1 DEF IInv, TypeOK, TrailInv, PlanInv, ArrivalInv, OutcomeInv, ToWrite
<1>3. ReaderInv'
  BY <1>1 DEF IInv, ReaderInv, InStep, OnDefaults, BehindHead, HeadRead, ToWrite
<1> QED BY <1>2, <1>3 DEF IInv

LEMMA StutterInvariant == IInv /\ UNCHANGED vars => IInv'
<1> SUFFICES ASSUME IInv, UNCHANGED vars PROVE IInv'
  OBVIOUS
<1>1. UNCHANGED << kind, content, phase, sent, payload, trail, data, due, off, received >>
  BY DEF vars, writer, reader
<1>2. TypeOK' /\ TrailInv' /\ PlanInv' /\ ArrivalInv' /\ OutcomeInv'
  BY <1>1 DEF IInv, TypeOK, TrailInv, PlanInv, ArrivalInv, OutcomeInv, ToWrite
<1>3. ReaderInv'
  BY <1>1 DEF IInv, ReaderInv, InStep, OnDefaults, BehindHead, HeadRead, ToWrite
<1> QED BY <1>2, <1>3 DEF IInv

LEMMA StepInvariant == IInv /\ [Next]_vars => IInv'
<1> SUFFICES ASSUME IInv, [Next]_vars PROVE IInv'
  OBVIOUS
<1>1. ASSUME NEW v, Write(v) PROVE IInv'
  BY <1>1, WriteInvariant
<1>2. CASE Publish
  BY <1>2, PublishInvariant
<1>3. ASSUME NEW n \in 0 .. Len(payload) - 1, PublishShort(n) PROVE IInv'
  BY <1>3, PublishShortInvariant
<1>4. ASSUME NEW byte \in Byte, PublishLong(byte) PROVE IInv'
  BY <1>4, PublishLongInvariant
<1>5. CASE Read
  BY <1>5, ReadInvariant
<1>6. CASE Skip
  BY <1>6, SkipInvariant
<1>7. CASE Throw
  BY <1>7, ThrowInvariant
<1>8. CASE Return
  BY <1>8, ReturnInvariant
<1>9. CASE UNCHANGED vars
  BY <1>9, StutterInvariant
<1> QED BY <1>1, <1>2, <1>3, <1>4, <1>5, <1>6, <1>7, <1>8, <1>9 DEF Next

(* The inductive invariant holds in every state. *)
THEOREM Invariant == Spec => []IInv
<1>1. Init => IInv
  BY InitInvariant
<1>2. IInv /\ [Next]_vars => IInv'
  BY StepInvariant
<1> QED BY <1>1, <1>2, PTL DEF Spec

-----------------------------------------------------------------------------
(* Every variable has values of its type, and the reader never goes past   *)
(* the end of the bytes it was given: the deserialize functions check each *)
(* length before they read.                                                *)
THEOREM TypeCorrect == Spec => []TypeOK
<1>1. IInv => TypeOK
  BY DEF IInv
<1> QED BY <1>1, Invariant, PTL

(* Where a whole message ends: in step with its writer, or on the defaults. *)
LEMMA WholeIsDelivered ==
  ASSUME IInv, Ended, Whole
  PROVE  phase = "delivered" /\ due = << >> /\ (InStep \/ OnDefaults)
<1>1. ~(Len(data) < Len(payload))
  BY InvariantTypes DEF Whole
<1>2. phase = "delivered" /\ due = << >>
  BY <1>1 DEF Ended, IInv, OutcomeInv
<1>3. InStep \/ OnDefaults
  BY <1>1 DEF IInv, ReaderInv, BehindHead
<1> QED BY <1>2, <1>3

(* A delivered message in step with its writer was read to its end. *)
LEMMA InStepAtEnd ==
  ASSUME IInv, phase = "delivered", InStep
  PROVE  Len(received) = Len(sent) /\ Len(data) >= Len(payload) /\ ToWrite = << >>
<1>1. due = << >>
  BY DEF IInv, OutcomeInv
<1>2. ~(Len(received) < Len(sent))
  BY <1>1, NextInStep
<1>3. Len(received) = Len(sent)
  BY <1>2, InvariantTypes DEF InStep
<1> QED BY <1>1, <1>3, LastInStep

(* Every message of the header arrives as it was sent, each field with its *)
(* value, for every content, every width of a byte that is even and every  *)
(* length of the waveforms.                                                *)
THEOREM RoundTripCorrect == Spec => []RoundTrip
<1>1. IInv => RoundTrip
  <2> SUFFICES ASSUME IInv, Ended, Whole, ToWrite = << >>
               PROVE  phase = "delivered" /\ received = sent
    BY DEF RoundTrip
  <2>1. phase = "delivered" /\ InStep
    BY WholeIsDelivered, ExtensionType DEF OnDefaults
  <2>2. Len(received) = Len(sent)
    BY <2>1, InStepAtEnd
  <2>3. sent \in Seq(Datum) /\ received \in Seq(Datum)
    BY DEF IInv, TrailInv, ReaderInv
  <2>4. received = sent
    BY <2>1, <2>2, <2>3, SeqEqual DEF InStep
  <2> QED BY <2>1, <2>4
<1> QED BY <1>1, Invariant, PTL

(* A message of a fixed layout that lost any part of its end is refused: *)
(* the exceptions of the deserialize functions leave no way to deliver   *)
(* a part of it.                                                         *)
THEOREM ShortCorrect == Spec => []ShortIsRefused
<1>1. IInv => ShortIsRefused
  <2> SUFFICES ASSUME IInv, Ended, ~Whole, kind # "ActionGroup", phase = "delivered"
               PROVE  FALSE
    BY DEF ShortIsRefused, Ended
  <2>1. Len(data) < Len(payload)
    BY InvariantTypes DEF Whole
  <2>2. InStep
    BY <2>1, InvariantTypes DEF IInv, ReaderInv, OnDefaults, BehindHead
  <2> QED BY <2>1, <2>2, InvariantTypes, InStepAtEnd
<1> QED BY <1>1, Invariant, PTL

(* A command for the motors that lost some of its end has its head as sent: *)
(* ActionGroupMessage skips a field only behind the motors.                 *)
THEOREM HeadCorrect == Spec => []HeadIsWhole
<1>1. IInv => HeadIsWhole
  <2> SUFFICES ASSUME IInv, phase = "delivered", ~Whole, kind = "ActionGroup"
               PROVE  HeadRead
    BY DEF HeadIsWhole, HeadRead
  <2>1. Len(data) < Len(payload)
    BY InvariantTypes DEF Whole
  <2>2. ~InStep
    BY <2>1, InvariantTypes, InStepAtEnd
  <2>3. BehindHead
    BY <2>1, <2>2, InvariantTypes DEF IInv, ReaderInv, OnDefaults
  <2> QED BY <2>3 DEF BehindHead
<1> QED BY <1>1, Invariant, PTL

(* A command of a sender that knows none of the added fields is understood, *)
(* and they have the defaults of the struct.                                *)
THEOREM OldSenderCorrect == Spec => []OldSenderUnderstood
<1>1. IInv => OldSenderUnderstood
  <2> SUFFICES ASSUME IInv, Ended, Whole, ToWrite = Extension
               PROVE  phase = "delivered" /\ received = sent \o << 0, 0, 1, 0 >>
    BY DEF OldSenderUnderstood
  <2>1. phase = "delivered" /\ due = << >> /\ (InStep \/ OnDefaults)
    BY WholeIsDelivered
  <2>2. OnDefaults
    BY <2>1, InStepAtEnd, ExtensionType
  <2>3. PICK m \in 0 .. 4 :
          /\ due = SubSeq(Extension, m + 1, 4)
          /\ Len(received) = Len(sent) + m
          /\ \A i \in 1 .. Len(sent) : received[i] = sent[i]
          /\ \A i \in 1 .. m : received[Len(sent) + i] = Defaults[i]
    BY <2>2 DEF OnDefaults
  <2>4. m = 4
    BY <2>1, <2>3, DefaultsAhead
  <2>5. /\ sent \in Seq(Datum) /\ received \in Seq(Datum) /\ Len(sent) \in Nat
        /\ Defaults \in Seq(Datum) /\ Len(Defaults) = 4
    BY InvariantTypes DEF IInv, TrailInv, ReaderInv, Defaults, Datum
  <2> DEFINE whole == sent \o Defaults
  <2>6. /\ whole \in Seq(Datum) /\ Len(whole) = Len(sent) + 4
        /\ \A i \in 1 .. Len(sent) + 4 :
             whole[i] = IF i <= Len(sent) THEN sent[i] ELSE Defaults[i - Len(sent)]
    <3>1. /\ whole \in Seq(Datum) /\ Len(whole) = Len(sent) + Len(Defaults)
          /\ \A i \in 1 .. Len(sent) + Len(Defaults) :
               whole[i] = IF i <= Len(sent) THEN sent[i] ELSE Defaults[i - Len(sent)]
      BY <2>5, ConcatProperties
    <3> HIDE DEF whole
    <3> QED BY <2>5, <3>1
  <2> HIDE DEF whole
  <2>7. ASSUME NEW i \in 1 .. Len(sent) + 4
        PROVE  received[i] = whole[i]
    <3>1. CASE i <= Len(sent)
      <4>1. i \in 1 .. Len(sent)
        BY <2>5, <3>1
      <4>2. received[i] = sent[i]
        BY <2>3, <4>1
      <4> QED BY <2>6, <3>1, <4>2
    <3>2. CASE i > Len(sent)
      <4>1. i - Len(sent) \in 1 .. m /\ Len(sent) + (i - Len(sent)) = i /\ ~(i <= Len(sent))
        <5>1. Len(sent) \in Nat
          BY <2>5
        <5> QED BY <2>4, <3>2, <5>1
      <4>2. received[i] = Defaults[i - Len(sent)]
        BY <2>3, <4>1
      <4>3. whole[i] = Defaults[i - Len(sent)]
        <5>1. whole[i] = IF i <= Len(sent) THEN sent[i] ELSE Defaults[i - Len(sent)]
          BY <2>6
        <5> QED BY <4>1, <5>1
      <4> QED BY <4>2, <4>3
    <3> QED BY <2>5, <3>1, <3>2
  <2>8. received = whole
    BY <2>3, <2>4, <2>5, <2>6, <2>7, SeqEqual
  <2> QED BY <2>1, <2>8 DEF whole, Defaults
<1> QED BY <1>1, Invariant, PTL

=============================================================================
