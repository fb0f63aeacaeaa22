------------------------------ MODULE MmdbProofs ------------------------------
(***************************************************************************)
(* The reader of GeoIP databases finds the record of every address, in     *)
(* trees of any size and depth, and reads in it what was written there.    *)
(*                                                                         *)
(* From the bytes up: numbers and their digits; the records of a node; the *)
(* tree, and the walk of an address through it; the headers of values, the *)
(* pointers, what is skipped, the maps; whole databases.                   *)
(***************************************************************************)
EXTENDS GeoLookup, SequenceTheorems, WellFoundedInduction, TLAPS

-----------------------------------------------------------------------------
(* Numbers and nodes.                                                      *)

(* Induction up to a number.                                               *)
LEMMA UpTo ==
  ASSUME NEW n \in Nat, NEW S, 0 \in S, \A k \in 1 .. n : k - 1 \in S => k \in S
  PROVE  n \in S
<1> SUFFICES ASSUME n \notin S PROVE FALSE
  OBVIOUS
<1> DEFINE T == {k \in 0 .. n : k \notin S}
           R == {p \in Nat \X Nat : p[1] < p[2]}
<1>1. IsWellFoundedOn(R, Nat)
  BY NatLessThanWellFounded, Zenon DEF OpToRel
<1>2. T \subseteq Nat /\ T # {}
  OBVIOUS
<1>3. PICK k \in T : \A j \in T : ~(<<j, k>> \in R)
  <2> HIDE DEF R, T
  <2> QED
    BY <1>1, <1>2, WFMin, Zenon
<1>4. k \in 1 .. n /\ k - 1 \in 0 .. n /\ <<k - 1, k>> \in R
  OBVIOUS
<1> QED
  BY <1>3, <1>4

(* The bytes of a number, one after the other.                             *)
LEMMA ValueSteps ==
  ASSUME NEW n \in Nat, NEW bytes, Len(bytes) = n
  PROVE  \E value : /\ Value(bytes) = value[n] /\ value[0] = 0
                    /\ \A k \in 1 .. n : value[k] = value[k - 1] * Byte + bytes[k]
<1> DEFINE F(f, m) == f = [k \in 0 .. m |-> IF k = 0 THEN 0 ELSE f[k - 1] * Byte + bytes[k]]
           S == {m \in 0 .. n : \E f : F(f, m)}
           f0 == [k \in 0 .. 0 |-> 0]
<1>1. 0 \in S
  <2>1. F(f0, 0)
    OBVIOUS
  <2> HIDE DEF F, f0
  <2> QED
    BY <2>1
<1>2. ASSUME NEW m \in 1 .. n, m - 1 \in S PROVE m \in S
  <2>1. PICK f : F(f, m - 1)
    BY <1>2
  <2> DEFINE g == [k \in 0 .. m |-> IF k = m THEN f[m - 1] * Byte + bytes[m] ELSE f[k]]
  <2>2. F(g, m)
    <3>1. \A k \in 0 .. m : g[k] = IF k = 0 THEN 0 ELSE g[k - 1] * Byte + bytes[k]
      <4> SUFFICES ASSUME NEW k \in 0 .. m
                   PROVE g[k] = IF k = 0 THEN 0 ELSE g[k - 1] * Byte + bytes[k]
        OBVIOUS
      <4>1. CASE k = m
        BY <4>1
      <4>2. CASE k = 0
        BY <4>2, <2>1
      <4>3. CASE k # m /\ k # 0
        <5>1. k \in 0 .. m - 1 /\ g[k] = f[k] /\ g[k - 1] = f[k - 1]
          BY <4>3
        <5>2. f[k] = f[k - 1] * Byte + bytes[k]
          BY <2>1, <5>1, <4>3
        <5> QED BY <4>3, <5>1, <5>2
      <4> QED
        BY <4>1, <4>2, <4>3
    <3>2. g = [k \in 0 .. m |-> g[k]]
      OBVIOUS
    <3> HIDE DEF g
    <3> QED
      BY <3>1, <3>2
  <2> HIDE DEF F, g
  <2> QED
    BY <2>2
<1>3. n \in S
  <2> HIDE DEF S
  <2> QED
    BY <1>1, <1>2, UpTo
<1> DEFINE value == CHOOSE f : F(f, n)
<1>4. F(value, n)
  <2>1. \E f : F(f, n)
    BY <1>3
  <2> HIDE DEF F
  <2> QED
    BY <2>1
<1>5. Value(bytes) = value[n]
  BY DEF Value
<1> HIDE DEF value
<1>6. value[0] = 0 /\ \A k \in 1 .. n : value[k] = value[k - 1] * Byte + bytes[k]
  BY <1>4
<1> QED
  BY <1>5, <1>6
(* The numbers in one to four bytes.                                       *)
LEMMA ShortValues ==
  ASSUME NEW bytes, NEW n \in Nat, Len(bytes) = n, \A i \in 1 .. n : bytes[i] \in Nat
  PROVE  /\ n = 1 => Value(bytes) = bytes[1]
         /\ n = 2 => Value(bytes) = bytes[1] * Byte + bytes[2]
         /\ n = 3 => Value(bytes) = (bytes[1] * Byte + bytes[2]) * Byte + bytes[3]
         /\ n = 4 => Value(bytes) = ((bytes[1] * Byte + bytes[2]) * Byte + bytes[3]) * Byte + bytes[4]
<1>1. PICK value : /\ Value(bytes) = value[n] /\ value[0] = 0
                   /\ \A k \in 1 .. n : value[k] = value[k - 1] * Byte + bytes[k]
  BY ValueSteps
<1>2. n = 1 => value[1] = bytes[1]
  BY <1>1, SMT DEF Byte
<1>3. n = 2 => value[2] = bytes[1] * Byte + bytes[2]
  BY <1>1, SMT DEF Byte
<1>4. n = 3 => value[3] = (bytes[1] * Byte + bytes[2]) * Byte + bytes[3]
  BY <1>1, SMT DEF Byte
<1>5. n = 4 => value[4] = ((bytes[1] * Byte + bytes[2]) * Byte + bytes[3]) * Byte + bytes[4]
  BY <1>1, SMT DEF Byte
<1> QED
  BY <1>1, <1>2, <1>3, <1>4, <1>5

(* Bytes are a number.                                                     *)
LEMMA ValueType ==
  ASSUME NEW bytes \in Seq(Nat)
  PROVE  Value(bytes) \in Nat
<1> DEFINE n == Len(bytes)
<1>1. n \in Nat /\ \A i \in 1 .. n : bytes[i] \in Nat
  BY LenProperties, ElementOfSeq
<1>2. PICK value : /\ Value(bytes) = value[n] /\ value[0] = 0
                   /\ \A k \in 1 .. n : value[k] = value[k - 1] * Byte + bytes[k]
  BY <1>1, ValueSteps
<1> DEFINE S == {k \in 0 .. n : value[k] \in Nat}
<1>3. 0 \in S
  BY <1>1, <1>2
<1>4. ASSUME NEW k \in 1 .. n, k - 1 \in S PROVE k \in S
  <2>1. value[k - 1] \in Nat /\ bytes[k] \in Nat /\ value[k] = value[k - 1] * Byte + bytes[k]
    BY <1>1, <1>2, <1>4
  <2>2. value[k] \in Nat
    BY <2>1, SMT DEF Byte
  <2> QED
    BY <1>1, <2>2
<1>5. n \in S
  <2> HIDE DEF S, n
  <2> QED
    BY <1>1, <1>3, <1>4, UpTo
<1> QED
  BY <1>2, <1>5

(* The digits of a number.                                                 *)
LEMMA DigitsAre ==
  ASSUME NEW n \in 1 .. 4, NEW v \in Nat
  PROVE  /\ Digits(n, v) \in Seq(Nat) /\ Len(Digits(n, v)) = n
         /\ \A i \in 1 .. n : Digits(n, v)[i] \in Nat
         /\ Digits(n, v)[n] = v % Byte
         /\ n > 1 => Digits(n, v)[n - 1] = (v \div Byte) % Byte
         /\ n > 2 => Digits(n, v)[n - 2] = (v \div Weight[3]) % Byte
         /\ n > 3 => Digits(n, v)[n - 3] = (v \div Weight[4]) % Byte
<1> DEFINE digit(k) == (v \div Weight[n - k + 1]) % Byte
<1>1. \A k \in 1 .. 4 : Weight[k] \in {1, Byte, 65536, 16777216}
  BY SMT DEF Weight
<1>2. \A d \in {1, Byte, 65536, 16777216} : (v \div d) % Byte \in Nat
  BY SMT DEF Byte
<1>3. \A k \in 1 .. n : digit(k) \in Nat
  <2> SUFFICES ASSUME NEW k \in 1 .. n PROVE digit(k) \in Nat
    OBVIOUS
  <2>1. n - k + 1 \in 1 .. 4
    OBVIOUS
  <2> QED
    BY <1>1, <1>2, <2>1, SMT
<1>4. Digits(n, v) = [k \in 1 .. n |-> digit(k)]
  BY SMT DEF Digits
<1>5. /\ digit(n) = v % Byte
      /\ n > 1 => digit(n - 1) = (v \div Byte) % Byte
      /\ n > 2 => digit(n - 2) = (v \div Weight[3]) % Byte
      /\ n > 3 => digit(n - 3) = (v \div Weight[4]) % Byte
  BY SMT DEF Weight
<1> HIDE DEF digit
<1>6. Digits(n, v) \in Seq(Nat) /\ Len(Digits(n, v)) = n
  BY <1>3, <1>4
<1>7. \A i \in 1 .. n : Digits(n, v)[i] = digit(i)
  BY <1>4
<1>8. /\ n \in 1 .. n /\ (n > 1 => n - 1 \in 1 .. n)
      /\ (n > 2 => n - 2 \in 1 .. n) /\ (n > 3 => n - 3 \in 1 .. n)
  OBVIOUS
<1>9. /\ Digits(n, v)[n] = digit(n)
      /\ n > 1 => Digits(n, v)[n - 1] = digit(n - 1)
      /\ n > 2 => Digits(n, v)[n - 2] = digit(n - 2)
      /\ n > 3 => Digits(n, v)[n - 3] = digit(n - 3)
  BY <1>7, <1>8
<1>10. \A i \in 1 .. n : Digits(n, v)[i] \in Nat
  BY <1>3, <1>7
<1> QED
  BY <1>5, <1>6, <1>9, <1>10, Zenon

LEMMA DigitsValue ==
  ASSUME NEW v \in Nat
  PROVE  /\ Value(Digits(1, v)) = v % Byte
         /\ v < Weight[3] => Value(Digits(2, v)) = v
         /\ (v \div Weight[4]) * Weight[4] + Value(Digits(3, v)) = v
         /\ v \div Weight[4] < Byte => Value(Digits(4, v)) = v
<1> DEFINE a == v % Byte
           b == (v \div Byte) % Byte
           c == (v \div Weight[3]) % Byte
           d == (v \div Weight[4]) % Byte
<1>1. /\ v < Weight[3] => b * Byte + a = v
      /\ (v \div Weight[4]) * Weight[4] + ((c * Byte + b) * Byte + a) = v
      /\ v \div Weight[4] < Byte => ((d * Byte + c) * Byte + b) * Byte + a = v
  BY SMT DEF Weight, Byte
<1>2. \A n \in 1 .. 4 :
        /\ Len(Digits(n, v)) = n /\ \A i \in 1 .. n : Digits(n, v)[i] \in Nat
        /\ Digits(n, v)[n] = a
        /\ n > 1 => Digits(n, v)[n - 1] = b
        /\ n > 2 => Digits(n, v)[n - 2] = c
        /\ n > 3 => Digits(n, v)[n - 3] = d
  <2>1. \A n \in 1 .. 4 :
          /\ Len(Digits(n, v)) = n /\ \A i \in 1 .. n : Digits(n, v)[i] \in Nat
          /\ Digits(n, v)[n] = v % Byte
          /\ n > 1 => Digits(n, v)[n - 1] = (v \div Byte) % Byte
          /\ n > 2 => Digits(n, v)[n - 2] = (v \div Weight[3]) % Byte
          /\ n > 3 => Digits(n, v)[n - 3] = (v \div Weight[4]) % Byte
    BY DigitsAre
  <2> QED
    BY <2>1
<1> HIDE DEF a, b, c, d
<1>3. Value(Digits(1, v)) = a
  <2>1. /\ Len(Digits(1, v)) = 1 /\ \A i \in 1 .. 1 : Digits(1, v)[i] \in Nat
        /\ Digits(1, v)[1] = a
    BY <1>2
  <2> QED
    BY <2>1, ShortValues
<1>4. Value(Digits(2, v)) = b * Byte + a
  <2>1. /\ Len(Digits(2, v)) = 2 /\ \A i \in 1 .. 2 : Digits(2, v)[i] \in Nat
        /\ Digits(2, v)[2] = a /\ Digits(2, v)[1] = b
    BY <1>2
  <2> QED
    BY <2>1, ShortValues
<1>5. Value(Digits(3, v)) = (c * Byte + b) * Byte + a
  <2>1. /\ Len(Digits(3, v)) = 3 /\ \A i \in 1 .. 3 : Digits(3, v)[i] \in Nat
        /\ Digits(3, v)[3] = a /\ Digits(3, v)[2] = b /\ Digits(3, v)[1] = c
    BY <1>2
  <2> QED
    BY <2>1, ShortValues
<1>6. Value(Digits(4, v)) = ((d * Byte + c) * Byte + b) * Byte + a
  <2>1. /\ Len(Digits(4, v)) = 4 /\ \A i \in 1 .. 4 : Digits(4, v)[i] \in Nat
        /\ Digits(4, v)[4] = a /\ Digits(4, v)[3] = b
        /\ Digits(4, v)[2] = c /\ Digits(4, v)[1] = d
    BY <1>2
  <2>2. Value(Digits(4, v))
          = ((Digits(4, v)[1] * Byte + Digits(4, v)[2]) * Byte + Digits(4, v)[3]) * Byte
              + Digits(4, v)[4]
    BY <2>1, ShortValues
  <2> QED
    BY <2>1, <2>2
<1> QED
  BY <1>1, <1>3, <1>4, <1>5, <1>6, Zenon DEF a
(* A part of a sequence is known by its elements.                          *)
LEMMA Part ==
  ASSUME NEW s \in Seq(Nat), NEW off \in Nat, NEW b \in Seq(Nat), off + Len(b) <= Len(s),
         \A i \in 1 .. Len(b) : s[off + i] = b[i]
  PROVE  Bytes(s, off, Len(b)) = b
<1>1. Len(b) \in Nat /\ Len(s) \in Nat
  BY LenProperties
<1> DEFINE p == SubSeq(s, off + 1, off + Len(b))
<1>2. \A i \in off + 1 .. off + Len(b) : s[i] \in Nat
  BY <1>1, ElementOfSeq
<1>3. /\ p \in Seq(Nat)
      /\ Len(p) = IF off + 1 <= off + Len(b) THEN off + Len(b) - (off + 1) + 1 ELSE 0
      /\ \A i \in 1 .. off + Len(b) - (off + 1) + 1 : p[i] = s[off + 1 + i - 1]
  <2>1. off + 1 \in Int /\ off + Len(b) \in Int
    BY <1>1
  <2> QED
    BY <1>2, <2>1, SubSeqProperties
<1> HIDE DEF p
<1>4. Len(p) = Len(b)
  BY <1>1, <1>3
<1>5. ASSUME NEW i \in 1 .. Len(b) PROVE p[i] = b[i]
  <2>1. i \in 1 .. off + Len(b) - (off + 1) + 1 /\ off + 1 + i - 1 = off + i
    BY <1>1
  <2> QED
    BY <1>3, <2>1
<1>6. p = b
  BY <1>3, <1>4, <1>5, SeqEqual
<1> QED
  BY <1>6 DEF Bytes, p

(* Two sequences in one.                                                   *)
LEMMA Joined ==
  ASSUME NEW m \in Nat, NEW n \in Nat,
         NEW x \in Seq(Nat), Len(x) = m, NEW y \in Seq(Nat), Len(y) = n,
         NEW z, z = x \o y
  PROVE  /\ z \in Seq(Nat) /\ Len(z) = m + n
         /\ \A i \in 1 .. m : z[i] = x[i]
         /\ \A i \in 1 .. n : z[m + i] = y[i]
         /\ SubSeq(z, 1, m) = x /\ SubSeq(z, m + 1, m + n) = y
<1>1. /\ x \o y \in Seq(Nat) /\ Len(x \o y) = Len(x) + Len(y)
      /\ \A i \in 1 .. Len(x) + Len(y) :
           (x \o y)[i] = IF i <= Len(x) THEN x[i] ELSE y[i - Len(x)]
  BY ConcatProperties, Zenon
<1>2. /\ z \in Seq(Nat) /\ Len(z) = m + n
      /\ \A i \in 1 .. m : z[i] = x[i] /\ z[0 + i] = x[i]
      /\ \A i \in 1 .. n : z[m + i] = y[i]
  BY <1>1
<1>3. Bytes(z, 0, Len(x)) = x
  <2>1. 0 + Len(x) <= Len(z)
    BY <1>2
  <2> QED
    BY <1>2, <2>1, Part
<1>4. Bytes(z, m, Len(y)) = y
  <2>1. m + Len(y) <= Len(z)
    BY <1>2
  <2> QED
    BY <1>2, <2>1, Part
<1>5. SubSeq(z, 1, m) = x
  BY <1>3 DEF Bytes
<1>6. SubSeq(z, m + 1, m + n) = y
  BY <1>4 DEF Bytes
<1> QED
  BY <1>2, <1>5, <1>6

(* Both records of a node are read back.                                   *)
LEMMA Unpacked ==
  ASSUME NEW size \in {24, 28, 32}, NEW l \in Nat, NEW r \in Nat,
         HasBits(size, l), HasBits(size, r)
  PROVE  /\ Packed(size, l, r) \in Seq(Nat) /\ Len(Packed(size, l, r)) = size \div 4
         /\ RecordOf(size, Packed(size, l, r), 0) = l
         /\ RecordOf(size, Packed(size, l, r), 1) = r
<1> DEFINE node == Packed(size, l, r)
<1>0. \A n \in 1 .. 4, v \in Nat : Digits(n, v) \in Seq(Nat) /\ Len(Digits(n, v)) = n
  BY DigitsAre
<1>1. CASE size = 24 \/ size = 32
  <2>1. PICK n \in {3, 4} : n = size \div 8 /\ 2 * n = size \div 4 /\ n \in 1 .. 4
    BY <1>1
  <2>2. node = Digits(n, l) \o Digits(n, r)
    BY <1>1, <2>1 DEF Packed
  <2>3. /\ Digits(n, l) \in Seq(Nat) /\ Len(Digits(n, l)) = n
        /\ Digits(n, r) \in Seq(Nat) /\ Len(Digits(n, r)) = n
    BY <1>0, <2>1
  <2> HIDE DEF node
  <2>4. /\ node \in Seq(Nat) /\ Len(node) = n + n
        /\ SubSeq(node, 1, n) = Digits(n, l) /\ SubSeq(node, n + 1, n + n) = Digits(n, r)
    BY <2>2, <2>3, Joined, SMTT(60)
  <2>6. Value(Digits(n, l)) = l /\ Value(Digits(n, r)) = r
    <3>1. CASE n = 3
      <4>1. size = 24
        BY <1>1, <2>1, <3>1
      <4>2. l \div Weight[4] < 1 /\ r \div Weight[4] < 1
        BY <4>1 DEF HasBits
      <4>3. l \div Weight[4] = 0 /\ r \div Weight[4] = 0
        BY <4>2, SMT DEF Weight
      <4>4. /\ (l \div Weight[4]) * Weight[4] + Value(Digits(3, l)) = l
            /\ (r \div Weight[4]) * Weight[4] + Value(Digits(3, r)) = r
        BY DigitsValue
      <4>5. Weight[4] \in Int /\ Value(Digits(3, l)) \in Int /\ Value(Digits(3, r)) \in Int
        BY <1>0, ValueType, SMT DEF Weight
      <4> QED
        BY <3>1, <4>3, <4>4, <4>5
    <3>2. CASE n = 4
      <4>1. size = 32
        BY <1>1, <2>1, <3>2
      <4>2. l \div Weight[4] < Byte /\ r \div Weight[4] < Byte
        BY <4>1 DEF HasBits
      <4> QED
        BY <3>2, <4>2, DigitsValue
    <3> QED
      BY <2>1, <3>1, <3>2
  <2>7. /\ RecordOf(size, node, 0) = Value(SubSeq(node, 1, n))
        /\ RecordOf(size, node, 1) = Value(SubSeq(node, n + 1, n + n))
    BY <1>1, <2>1 DEF RecordOf
  <2> QED
    <3>1. n + n = size \div 4
      BY <2>1
    <3> QED
      BY <2>4, <2>6, <2>7, <3>1 DEF node
<1>2. CASE size = 28
  <2> DEFINE x == Digits(3, l)
             y == Digits(3, r)
             m == 16 * (l \div Weight[4]) + r \div Weight[4]
  <2>1. node = (x \o <<m>>) \o y
    BY <1>2 DEF Packed
  <2>2. l \div Weight[4] \in 0 .. 15 /\ r \div Weight[4] \in 0 .. 15
    <3>1. l \div Weight[4] < 16 /\ r \div Weight[4] < 16
      BY <1>2 DEF HasBits
    <3> QED
      BY <3>1, SMT DEF Weight
  <2>3. m \in Nat /\ m \div 16 = l \div Weight[4] /\ m % 16 = r \div Weight[4]
    BY <2>2
  <2>4. /\ (l \div Weight[4]) * Weight[4] + Value(x) = l
        /\ (r \div Weight[4]) * Weight[4] + Value(y) = r
    BY DigitsValue
  <2>5. x \in Seq(Nat) /\ Len(x) = 3 /\ y \in Seq(Nat) /\ Len(y) = 3
    BY <1>0
  <2> HIDE DEF x, y, m, node
  <2>6. PICK w : w = <<m>> /\ w \in Seq(Nat) /\ Len(w) = 1 /\ w[1] = m
    <3>1. m \in Nat
      BY <2>3
    <3>2. <<m>> \in Seq(Nat) /\ Len(<<m>>) = 1 /\ <<m>>[1] = m
      BY <3>1
    <3> QED
      BY <3>2
  <2>7. PICK z : z = x \o w
    OBVIOUS
  <2>8. /\ z \in Seq(Nat) /\ Len(z) = 4 /\ z[4] = m
        /\ \A i \in 1 .. 3 : z[i] = x[i]
    <3>1. PICK p \in Nat, q \in Nat : p = 3 /\ q = 1
      OBVIOUS
    <3>2. /\ z \in Seq(Nat) /\ Len(z) = p + q
          /\ \A i \in 1 .. p : z[i] = x[i]
          /\ \A i \in 1 .. q : z[p + i] = w[i]
      <4>1. /\ x \in Seq(Nat) /\ Len(x) = p /\ w \in Seq(Nat) /\ Len(w) = q
            /\ z = x \o w
        BY <2>5, <2>6, <2>7, <3>1
      <4> QED
        BY <4>1, Joined, SMTT(60)
    <3> QED
      BY <2>6, <3>1, <3>2
  <2>9. /\ node \in Seq(Nat) /\ Len(node) = 7
        /\ \A i \in 1 .. 4 : node[i] = z[i]
        /\ SubSeq(node, 5, 7) = y
    <3>1. node = z \o y
      BY <2>1, <2>6, <2>7
    <3>2. PICK p \in Nat, q \in Nat : p = 4 /\ q = 3
      OBVIOUS
    <3>3. /\ node \in Seq(Nat) /\ Len(node) = p + q
          /\ \A i \in 1 .. p : node[i] = z[i]
          /\ SubSeq(node, p + 1, p + q) = y
      <4>1. /\ z \in Seq(Nat) /\ Len(z) = p /\ y \in Seq(Nat) /\ Len(y) = q
            /\ node = z \o y
        BY <2>5, <2>8, <3>1, <3>2
      <4> QED
        <5>1. PICK u : u = z \o y
          OBVIOUS
        <5>2. u \in Seq(Nat) /\ Len(u) = p + q
          BY <4>1, <5>1, Joined
        <5>3. \A i \in 1 .. p : u[i] = z[i]
          BY <4>1, <5>1, Joined
        <5>4. SubSeq(u, p + 1, p + q) = y
          BY <4>1, <5>1, Joined, SMTT(60)
        <5> QED
          BY <4>1, <5>1, <5>2, <5>3, <5>4
    <3> QED
      BY <3>2, <3>3
  <2>10. node[4] = m
    BY <2>8, <2>9
  <2>11. SubSeq(node, 1, 3) = x
    <3>1. Bytes(node, 0, Len(x)) = x
      <4>1. 0 + Len(x) <= Len(node) /\ \A i \in 1 .. Len(x) : node[0 + i] = x[i]
        BY <2>5, <2>8, <2>9
      <4> QED
        BY <2>5, <2>9, <4>1, Part
    <3> QED
      BY <2>5, <3>1 DEF Bytes
  <2>12. RecordOf(size, node, 0) = (m \div 16) * Weight[4] + Value(x)
    BY <1>2, <2>10, <2>11 DEF RecordOf
  <2>13. RecordOf(size, node, 1) = (m % 16) * Weight[4] + Value(y)
    <3>1. RecordOf(size, node, 1) = (node[4] % 16) * Weight[4] + Value(SubSeq(node, 5, 7))
      BY <1>2 DEF RecordOf
    <3> QED
      BY <2>9, <2>10, <3>1, Zenon
  <2>14. RecordOf(size, node, 0) = l /\ RecordOf(size, node, 1) = r
    BY <2>3, <2>4, <2>12, <2>13, Zenon
  <2> QED
    BY <1>2, <2>9, <2>14 DEF node
<1> QED
  BY <1>1, <1>2

(* The reader (mmdb.go) gets both records of a node back, of any size.     *)
THEOREM ReadsNodes == NodesAreRead
  BY NodesAssumption, Unpacked DEF NodesAreRead

-----------------------------------------------------------------------------
(* Prefixes.                                                               *)

Bits == {0, 1}

(* The first bits of a sequence.                                           *)
LEMMA FirstBits ==
  ASSUME NEW s \in Seq(Bits), NEW k \in 0 .. Len(s)
  PROVE  /\ SubSeq(s, 1, k) \in Seq(Bits) /\ Len(SubSeq(s, 1, k)) = k
         /\ \A i \in 1 .. k : SubSeq(s, 1, k)[i] = s[i]
<1>1. \A i \in 1 .. k : s[i] \in Bits
  BY ElementOfSeq
<1> QED
  BY <1>1, SubSeqProperties

(* A prefix agrees with what it is a prefix of.                            *)
LEMMA PrefixAgrees ==
  ASSUME NEW s \in Seq(Bits), NEW p \in Seq(Bits)
  PROVE  p \in Seqs!Prefixes(s)
           <=> Len(p) <= Len(s) /\ \A i \in 1 .. Len(p) : p[i] = s[i]
<1>1. Len(s) \in Nat /\ Len(p) \in Nat
  BY LenProperties
<1>2. ASSUME p \in Seqs!Prefixes(s)
      PROVE  Len(p) <= Len(s) /\ \A i \in 1 .. Len(p) : p[i] = s[i]
  <2>1. PICK k \in 0 .. Len(s) : p = SubSeq(s, 1, k)
    BY <1>2 DEF Seqs!Prefixes
  <2> QED
    BY <1>1, <2>1, FirstBits
<1>3. ASSUME Len(p) <= Len(s), \A i \in 1 .. Len(p) : p[i] = s[i]
      PROVE  p \in Seqs!Prefixes(s)
  <2>1. Len(p) \in 0 .. Len(s)
    BY <1>1, <1>3
  <2>2. /\ SubSeq(s, 1, Len(p)) \in Seq(Bits) /\ Len(SubSeq(s, 1, Len(p))) = Len(p)
        /\ \A i \in 1 .. Len(p) : SubSeq(s, 1, Len(p))[i] = s[i]
    BY <2>1, FirstBits
  <2>3. SubSeq(s, 1, Len(p)) = p
    BY <1>3, <2>2, SeqEqual
  <2> QED
    BY <2>1, <2>3 DEF Seqs!Prefixes
<1> QED
  BY <1>2, <1>3

(* The prefixes of a sequence are prefixes of one another.                 *)
LEMMA PrefixesAgree ==
  ASSUME NEW s \in Seq(Bits), NEW p \in Seqs!Prefixes(s), NEW q \in Seqs!Prefixes(s)
  PROVE  /\ p \in Seq(Bits) /\ q \in Seq(Bits)
         /\ p \in Seqs!Prefixes(q) \/ q \in Seqs!Prefixes(p)
<1>1. p \in Seq(Bits) /\ q \in Seq(Bits)
  BY FirstBits DEF Seqs!Prefixes
<1>2. Len(p) \in Nat /\ Len(q) \in Nat
  BY <1>1, LenProperties
<1>3. CASE Len(p) <= Len(q)
  BY <1>1, <1>2, <1>3, PrefixAgrees
<1>4. CASE Len(q) <= Len(p)
  BY <1>1, <1>2, <1>4, PrefixAgrees
<1> QED
  BY <1>1, <1>2, <1>3, <1>4

-----------------------------------------------------------------------------
(* The tree.                                                               *)

(* The networks of a tree are sequences of bits.                           *)
Sound(db, networks, at) ==
  /\ db.nodes \in Nat /\ db.size \in {24, 28, 32}
  /\ DOMAIN networks \subseteq Seq(Bits)
  /\ Represents(db, networks, at)

(* At most one network holds a sequence of bits.                           *)
LEMMA OneHolder ==
  ASSUME NEW db, NEW networks, NEW at, Sound(db, networks, at),
         NEW s \in Seq(Bits), NEW p \in Holders(networks, s)
  PROVE  TheHolder(networks, s) = p
<1>1. \A q \in Holders(networks, s) : q = p
  BY PrefixesAgree DEF Sound, Represents, Holders
<1> QED
  BY <1>1 DEF TheHolder

(* Where bits lead is a number.                                            *)
LEMMA PlaceType ==
  ASSUME NEW db, NEW networks, NEW at, Sound(db, networks, at), NEW s \in Seq(Bits)
  PROVE  Place(db, networks, at, s) \in Nat
<1>1. CASE Holders(networks, s) # {}
  <2>1. TheHolder(networks, s) \in DOMAIN networks
    BY <1>1 DEF TheHolder, Holders
  <2>2. networks[TheHolder(networks, s)] \in Nat /\ db.nodes \in Nat
    BY <2>1 DEF Sound, Represents
  <2> QED
    BY <1>1, <2>2 DEF Place, Separator
<1>2. CASE Holders(networks, s) = {}
  BY <1>2 DEF Place, Sound, Represents
<1> QED
  BY <1>1, <1>2

(* One bit more: the reader's step leads from the place of a prefix to the *)
(* place of the next one.                                                  *)
LEMMA NextPlace ==
  ASSUME NEW db, NEW networks, NEW at, Sound(db, networks, at),
         NEW path \in Seq(Bits), NEW k \in 1 .. Len(path)
  PROVE  Place(db, networks, at, SubSeq(path, 1, k))
           = Follow(db, Place(db, networks, at, SubSeq(path, 1, k - 1)), path[k])
<1> DEFINE x == SubSeq(path, 1, k - 1)
           y == SubSeq(path, 1, k)
<1>1. Len(path) \in Nat /\ path[k] \in Bits
  BY LenProperties, ElementOfSeq
<1>2. /\ x \in Seq(Bits) /\ Len(x) = k - 1 /\ \A i \in 1 .. k - 1 : x[i] = path[i]
      /\ y \in Seq(Bits) /\ Len(y) = k /\ \A i \in 1 .. k : y[i] = path[i]
  <2>1. k - 1 \in 0 .. Len(path) /\ k \in 0 .. Len(path)
    BY <1>1
  <2> QED
    BY <2>1, FirstBits
<1> HIDE DEF x, y
<1>3. y = Append(x, path[k])
  <2>1. /\ Append(x, path[k]) \in Seq(Bits) /\ Len(Append(x, path[k])) = k
        /\ \A i \in 1 .. k : Append(x, path[k])[i] = IF i <= k - 1 THEN x[i] ELSE path[k]
    BY <1>1, <1>2
  <2>2. \A i \in 1 .. k : Append(x, path[k])[i] = y[i]
    BY <1>2, <2>1
  <2> QED
    BY <1>2, <2>1, <2>2, SeqEqual
<1>4. x \in Seqs!Prefixes(x) /\ x \in Seqs!Prefixes(y) /\ x # y /\ y # <<>>
  <2>1. y # <<>>
    BY <1>2
  <2> QED
    BY <1>2, <2>1, PrefixAgrees
<1>5. \A q \in Seq(Bits) : q \in Seqs!Prefixes(y) <=> q \in Seqs!Prefixes(x) \/ q = y
  <2>1. ASSUME NEW q \in Seq(Bits), q \in Seqs!Prefixes(y), q # y PROVE q \in Seqs!Prefixes(x)
    <3>1. Len(q) \in Nat /\ Len(q) <= k /\ \A i \in 1 .. Len(q) : q[i] = y[i]
      BY <1>2, <2>1, PrefixAgrees, LenProperties
    <3>2. Len(q) # k
      BY <1>2, <2>1, <3>1, SeqEqual
    <3>3. Len(q) <= Len(x) /\ \A i \in 1 .. Len(q) : q[i] = x[i]
      BY <1>2, <3>1, <3>2
    <3> QED
      BY <1>2, <3>3, PrefixAgrees
  <2>2. ASSUME NEW q \in Seq(Bits), q \in Seqs!Prefixes(x) PROVE q \in Seqs!Prefixes(y)
    <3>1. Len(q) \in Nat /\ Len(q) <= k - 1 /\ \A i \in 1 .. Len(q) : q[i] = x[i]
      BY <1>2, <2>2, PrefixAgrees, LenProperties
    <3>2. Len(q) <= Len(y) /\ \A i \in 1 .. Len(q) : q[i] = y[i]
      BY <1>2, <3>1
    <3> QED
      BY <1>2, <3>2, PrefixAgrees
  <2>3. y \in Seqs!Prefixes(y)
    BY <1>2, PrefixAgrees
  <2> QED
    BY <2>1, <2>2, <2>3
<1>6. DOMAIN networks \subseteq Seq(Bits)
  BY DEF Sound
<1>7. CASE Holders(networks, x) # {}
  <2>1. PICK p \in Holders(networks, x) : TRUE
    BY <1>7
  <2>2. p \in Holders(networks, y)
    BY <1>5, <1>6, <2>1 DEF Holders
  <2>3. TheHolder(networks, x) = p /\ TheHolder(networks, y) = p
    BY <1>2, <2>1, <2>2, OneHolder
  <2>4. networks[p] \in Nat
    BY <2>1 DEF Sound, Represents, Holders
  <2>5. Place(db, networks, at, x) = db.nodes + Separator + networks[p]
    BY <1>7, <2>3 DEF Place
  <2>6. Place(db, networks, at, y) = db.nodes + Separator + networks[p]
    BY <2>2, <2>3 DEF Place
  <2>7. Place(db, networks, at, x) >= db.nodes
    BY <2>4, <2>5 DEF Sound, Separator
  <2> QED
    BY <2>5, <2>6, <2>7 DEF Follow, x, y
<1>8. CASE Holders(networks, x) = {} /\ x \in Inner(networks)
  <2>1. Place(db, networks, at, x) = at[x]
    BY <1>8 DEF Place
  <2>2. Follow(db, at[x], path[k]) = Place(db, networks, at, y)
    <3> DEFINE left == Place(db, networks, at, Append(x, 0))
               right == Place(db, networks, at, Append(x, 1))
               width == db.size \div 4
    <3>1. /\ HasBits(db.size, left) /\ HasBits(db.size, right)
          /\ Bytes(db.tree, at[x] * width, width) = Packed(db.size, left, right)
          /\ at[x] \in 0 .. db.nodes - 1 /\ db.nodes \in Nat /\ db.size \in {24, 28, 32}
      BY <1>8 DEF Sound, Represents
    <3>2. left \in Nat /\ right \in Nat
      <4>1. Append(x, 0) \in Seq(Bits) /\ Append(x, 1) \in Seq(Bits)
        BY <1>2 DEF Bits
      <4> QED
        BY <4>1, PlaceType
    <3> HIDE DEF left, right
    <3>3. Follow(db, at[x], path[k]) = RecordOf(db.size, Packed(db.size, left, right), path[k])
      BY <3>1 DEF Follow
    <3>4. RecordOf(db.size, Packed(db.size, left, right), path[k])
            = IF path[k] = 0 THEN left ELSE right
      BY <1>1, <3>1, <3>2, Unpacked DEF Bits
    <3> QED
      BY <1>1, <1>3, <3>3, <3>4 DEF left, right, Bits
  <2> QED
    BY <2>1, <2>2 DEF x, y
<1>9. CASE Holders(networks, x) = {} /\ x \notin Inner(networks)
  <2>1. y \notin DOMAIN networks
    BY <1>4, <1>9 DEF Inner
  <2>2. Holders(networks, y) = {}
    BY <1>5, <1>6, <1>9, <2>1 DEF Holders
  <2>3. y \notin Inner(networks)
    <3>1. SUFFICES ASSUME NEW p \in DOMAIN networks, y \in Seqs!Prefixes(p) PROVE FALSE
      BY <1>4 DEF Inner
    <3>2. x \in Seqs!Prefixes(p)
      <4>1. Len(p) \in Nat /\ k <= Len(p) /\ \A i \in 1 .. k : y[i] = p[i]
        BY <1>2, <1>6, <3>1, PrefixAgrees, LenProperties
      <4>2. Len(x) <= Len(p) /\ \A i \in 1 .. Len(x) : x[i] = p[i]
        BY <1>2, <4>1
      <4> QED
        BY <1>2, <1>6, <4>2, PrefixAgrees
    <3>3. x # p
      BY <1>4, <1>9 DEF Holders
    <3> QED
      BY <1>9, <3>2, <3>3 DEF Inner
  <2>4. Place(db, networks, at, x) = db.nodes /\ Place(db, networks, at, y) = db.nodes
    BY <1>9, <2>2, <2>3 DEF Place
  <2> QED
    BY <2>4 DEF Follow, Sound, x, y
<1> QED
  BY <1>7, <1>8, <1>9

-----------------------------------------------------------------------------
(* The walk.                                                               *)

(* A recursive function is the one that satisfies its equation.            *)
Steps(value, db, root, bits) ==
  value = [k \in 0 .. Len(bits) |-> IF k = 0 THEN root ELSE Follow(db, value[k - 1], bits[k])]

(* The reader's walk is any sequence of numbers that follows the bits.     *)
LEMMA Walked ==
  ASSUME NEW db, NEW root, NEW bits, Len(bits) \in Nat, NEW value, Steps(value, db, root, bits)
  PROVE  Traverse(db, root, bits) = value[Len(bits)]
<1> DEFINE F(f) == f = [k \in 0 .. Len(bits) |->
                          IF k = 0 THEN root ELSE Follow(db, f[k - 1], bits[k])]
           walk == CHOOSE f : F(f)
           n == Len(bits)
<1>1. Traverse(db, root, bits) = walk[n]
  BY DEF Traverse
<1>2. F(walk) /\ F(value)
  <2>1. F(value)
    BY DEF Steps
  <2> HIDE DEF F
  <2> QED
    BY <2>1
<1> HIDE DEF walk
<1> DEFINE Same == {k \in 0 .. n : walk[k] = value[k]}
<1>3. 0 \in Same
  BY <1>2
<1>4. \A k \in 1 .. n : k - 1 \in Same => k \in Same
  BY <1>2
<1>5. n \in Same
  <2>1. n \in Nat
    OBVIOUS
  <2> HIDE DEF Same, n, F
  <2> QED
    BY <2>1, <1>3, <1>4, UpTo
<1> QED
  BY <1>1, <1>5

(* Whoever starts at the place of the first bits of a path and follows the *)
(* others ends at the place of the path.                                   *)
LEMMA WalkEnds ==
  ASSUME NEW db, NEW networks, NEW at, Sound(db, networks, at),
         NEW path \in Seq(Bits), NEW m \in 0 .. Len(path),
         NEW bits, Len(bits) = Len(path) - m, \A k \in 1 .. Len(bits) : bits[k] = path[m + k]
  PROVE  Traverse(db, Place(db, networks, at, SubSeq(path, 1, m)), bits)
           = Place(db, networks, at, path)
<1> DEFINE P(k) == Place(db, networks, at, SubSeq(path, 1, k))
           value == [k \in 0 .. Len(bits) |-> P(m + k)]
<1>1. Len(path) \in Nat /\ Len(bits) \in Nat
  BY LenProperties
<1>2. \A k \in 1 .. Len(path) : P(k) = Follow(db, P(k - 1), path[k])
  BY NextPlace
<1> HIDE DEF P
<1>3. \A k \in 1 .. Len(bits) : value[k] = Follow(db, value[k - 1], bits[k])
  <2> SUFFICES ASSUME NEW k \in 1 .. Len(bits) PROVE value[k] = Follow(db, value[k - 1], bits[k])
    OBVIOUS
  <2>1. m + k \in 1 .. Len(path) /\ m + k - 1 = m + (k - 1)
    BY <1>1
  <2>2. P(m + k) = Follow(db, P(m + (k - 1)), path[m + k])
    BY <1>2, <2>1
  <2>3. value[k] = P(m + k) /\ value[k - 1] = P(m + (k - 1))
    BY <1>1
  <2> QED
    BY <2>2, <2>3
<1>4. value[0] = P(m) /\ m + 0 = m
  BY <1>1
<1>5. Steps(value, db, P(m), bits)
  <2> DEFINE F(k) == IF k = 0 THEN P(m) ELSE Follow(db, value[k - 1], bits[k])
  <2>1. \A k \in 0 .. Len(bits) : P(m + k) = F(k)
    <3> SUFFICES ASSUME NEW k \in 0 .. Len(bits) PROVE P(m + k) = F(k)
      OBVIOUS
    <3>1. CASE k = 0
      BY <1>4, <3>1
    <3>2. CASE k # 0
      <4>1. k \in 1 .. Len(bits) /\ value[k] = P(m + k)
        BY <3>2
      <4> HIDE DEF value
      <4> QED
        BY <1>3, <3>2, <4>1
    <3> QED
      BY <3>1, <3>2
  <2>2. value = [k \in 0 .. Len(bits) |-> F(k)]
    <3> HIDE DEF F
    <3> QED
      BY <2>1
  <2> HIDE DEF value
  <2> QED
    BY <2>2 DEF Steps
<1>6. value[Len(bits)] = P(Len(path))
  BY <1>1
<1>7. P(Len(path)) = Place(db, networks, at, path)
  BY SubSeqFull DEF P
<1>8. Traverse(db, P(m), bits) = P(Len(path))
  <2> HIDE DEF value
  <2> QED
    BY <1>1, <1>5, <1>6, Walked
<1> QED
  BY <1>7, <1>8 DEF P

(* A walk from the root starts at the place of no bits,                    *)
LEMMA Root ==
  ASSUME NEW db, NEW networks, NEW at, Sound(db, networks, at)
  PROVE  Place(db, networks, at, <<>>) = 0
<1>1. Seqs!Prefixes(<<>>) \subseteq {<<>>}
  <2>1. \A k \in 0 .. Len(<<>>) : SubSeq(<<>>, 1, k) = <<>>
    BY SubSeqEmpty
  <2> QED
    BY <2>1 DEF Seqs!Prefixes
<1>2. Holders(networks, <<>>) = {}
  BY <1>1 DEF Sound, Represents, Holders
<1> QED
  BY <1>2 DEF Place, Inner, Sound, Represents

(* and ends at the place of all of them.                                   *)
LEMMA WholeWalk ==
  ASSUME NEW db, NEW networks, NEW at, Sound(db, networks, at), NEW path \in Seq(Bits)
  PROVE  Traverse(db, 0, path) = Place(db, networks, at, path)
<1>1. Len(path) \in Nat /\ 0 \in 0 .. Len(path) /\ SubSeq(path, 1, 0) = <<>>
  BY LenProperties, SubSeqEmpty
<1>2. Place(db, networks, at, SubSeq(path, 1, 0)) = 0
  BY <1>1, Root
<1>3. Len(path) = Len(path) - 0 /\ \A k \in 1 .. Len(path) : path[k] = path[0 + k]
  BY <1>1
<1> QED
  BY <1>1, <1>2, <1>3, WalkEnds

-----------------------------------------------------------------------------
(* Files and addresses.                                                    *)

(* A walk reads the nodes, whatever is noted beside them.                  *)
LEMMA NodesDecide ==
  ASSUME NEW db, NEW old, NEW networks, NEW at, NEW bits,
         old.nodes = db.nodes, old.size = db.size, old.tree = db.tree, old.data = db.data
  PROVE  /\ Place(old, networks, at, bits) = Place(db, networks, at, bits)
         /\ Sound(db, networks, at) => Sound(old, networks, at)
<1>1. \A v, bit : Follow(old, v, bit) = Follow(db, v, bit)
  BY DEF Follow
<1>2. \A b : Place(old, networks, at, b) = Place(db, networks, at, b)
  BY DEF Place
<1> QED
  BY <1>1, <1>2 DEF Sound, Represents

(* The zeros above the addresses of IPv4 are bits.                         *)
LEMMA ZerosType == Zeros \in Seq(Bits) /\ Len(Zeros) = V6Bits - V4Bits
<1>1. V6Bits - V4Bits \in Nat
  BY BitsAssumption
<1> QED
  BY <1>1 DEF Zeros, Bits

(* A file that was opened represents its networks, and knows where the     *)
(* addresses of IPv4 begin.                                                *)
LEMMA Opening ==
  ASSUME NEW t \in Trees,
         NEW db, db = Opened(t.body, t.nodes, t.size, t.version)[1]
  PROVE  /\ Sound(db, t.networks, t.at)
         /\ t.version \in {4, 6} /\ db.version = t.version
         /\ Len(db.data) \in Nat
         /\ db.v4 = IF t.version = 6 THEN Place(db, t.networks, t.at, Zeros) ELSE 0
<1> DEFINE tree == (t.nodes * t.size) \div 4
           old == [nodes |-> t.nodes, size |-> t.size, version |-> t.version, v4 |-> 0,
                   tree |-> Bytes(t.body, 0, tree),
                   data |-> SubSeq(t.body, tree + Separator + 1, Len(t.body))]
           v4 == IF t.version = 6 THEN Traverse(old, 0, Zeros) ELSE 0
<1>1. /\ t.body \in Seq(0 .. 255) /\ t.nodes \in Nat /\ DOMAIN t.networks \subseteq Seq(Bits)
      /\ Opened(t.body, t.nodes, t.size, t.version) # Fails
      /\ Represents(db, t.networks, t.at)
  BY TreesAssumption DEF Bits
<1>2. /\ t.size \in {24, 28, 32} /\ t.version \in {4, 6}
      /\ Opened(t.body, t.nodes, t.size, t.version) = <<[old EXCEPT !.v4 = v4]>>
  BY <1>1 DEF Opened
<1>3. db = [old EXCEPT !.v4 = v4]
  <2> HIDE DEF old, v4
  <2> QED
    BY <1>2
<1>4. /\ old.nodes = db.nodes /\ old.size = db.size /\ old.tree = db.tree /\ old.data = db.data
      /\ db.nodes = t.nodes /\ db.version = t.version /\ db.v4 = v4
  <2> HIDE DEF v4
  <2> QED
    BY <1>3
<1>5. Sound(db, t.networks, t.at)
  BY <1>1, <1>2, <1>4 DEF Sound
<1>6. Len(db.data) \in Nat
  <2>1. tree \in Nat /\ Len(t.body) \in Nat
    BY <1>1, <1>2
  <2>2. \A i \in tree + Separator + 1 .. Len(t.body) : t.body[i] \in 0 .. 255
    <3> HIDE DEF tree
    <3> SUFFICES ASSUME NEW i \in tree + Separator + 1 .. Len(t.body) PROVE t.body[i] \in 0 .. 255
      OBVIOUS
    <3>1. i \in 1 .. Len(t.body)
      BY <2>1 DEF Separator
    <3> QED
      BY <1>1, <3>1, ElementOfSeq
  <2>3. SubSeq(t.body, tree + Separator + 1, Len(t.body)) \in Seq(0 .. 255)
    <3>1. tree + Separator + 1 \in Int /\ Len(t.body) \in Int
      BY <2>1 DEF Separator
    <3> HIDE DEF tree
    <3> QED
      BY <2>2, <3>1, SubSeqProperties
  <2>4. old.data = SubSeq(t.body, tree + Separator + 1, Len(t.body))
    OBVIOUS
  <2> QED
    BY <1>4, <2>3, <2>4, LenProperties
<1>7. t.version = 6 => v4 = Place(db, t.networks, t.at, Zeros)
  <2> HIDE DEF old
  <2>1. Sound(old, t.networks, t.at)
    BY <1>4, <1>5, NodesDecide
  <2>2. Traverse(old, 0, Zeros) = Place(old, t.networks, t.at, Zeros)
    BY <2>1, ZerosType, WholeWalk
  <2> QED
    BY <1>4, <2>2, NodesDecide
<1> QED
  BY <1>2, <1>4, <1>5, <1>6, <1>7

(* The bits of an address.                                                 *)
LEMMA UnmappedType ==
  ASSUME NEW address \in Addresses
  PROVE  Unmapped(address) \in Seq(Bits) /\ Len(Unmapped(address)) \in {V4Bits, V6Bits}
<1>1. address \in Seq(Bits) /\ Len(address) \in {V4Bits, V6Bits}
  BY BitsAssumption DEF Addresses, Bits
<1>2. CASE Unmapped(address) = address
  BY <1>1, <1>2
<1>3. CASE Unmapped(address) # address
  <2>1. Len(address) = V6Bits /\ Unmapped(address) = SubSeq(address, Len(Mapped) + 1, V6Bits)
    BY <1>3 DEF Unmapped
  <2>2. Len(Mapped) = V6Bits - V4Bits
    BY BitsAssumption
  <2>3. \A i \in Len(Mapped) + 1 .. V6Bits : address[i] \in Bits
    BY <1>1, <2>1, <2>2, BitsAssumption, ElementOfSeq
  <2>4. /\ SubSeq(address, Len(Mapped) + 1, V6Bits) \in Seq(Bits)
        /\ Len(SubSeq(address, Len(Mapped) + 1, V6Bits))
             = IF Len(Mapped) + 1 <= V6Bits THEN V6Bits - (Len(Mapped) + 1) + 1 ELSE 0
    <3>1. Len(Mapped) + 1 \in Int /\ V6Bits \in Int
      BY <2>2, BitsAssumption
    <3> QED
      BY <2>3, <3>1, SubSeqProperties
  <2> QED
    BY <2>1, <2>2, <2>4, BitsAssumption
<1> QED
  BY <1>2, <1>3

(* The walk of an address in a tree of its version ends at its place.      *)
LEMMA AddressWalk ==
  ASSUME NEW t \in Trees, NEW address \in Addresses,
         NEW db, db = Opened(t.body, t.nodes, t.size, t.version)[1],
         t.version = 6 \/ Len(Unmapped(address)) = V4Bits
  PROVE  /\ InTree(t.version, address) \in Seq(Bits)
         /\ Traverse(db, IF Len(Unmapped(address)) = V4Bits THEN db.v4 ELSE 0, Unmapped(address))
              = Place(db, t.networks, t.at, InTree(t.version, address))
<1> DEFINE bits == Unmapped(address)
           path == InTree(t.version, address)
<1>1. bits \in Seq(Bits) /\ Len(bits) \in {V4Bits, V6Bits}
  BY UnmappedType
<1>2. /\ Sound(db, t.networks, t.at) /\ t.version \in {4, 6}
      /\ db.v4 = IF t.version = 6 THEN Place(db, t.networks, t.at, Zeros) ELSE 0
  BY Opening
<1>3. CASE t.version = 6 /\ Len(bits) = V4Bits
  <2>0. PICK m \in Nat : m = V6Bits - V4Bits
    BY BitsAssumption
  <2>1. path = Zeros \o bits
    BY <1>3 DEF InTree
  <2> HIDE DEF path, bits
  <2>2. /\ path \in Seq(Bits) /\ Len(path) = m + Len(bits)
        /\ \A i \in 1 .. m + Len(bits) : path[i] = IF i <= m THEN Zeros[i] ELSE bits[i - m]
    <3>1. /\ Zeros \o bits \in Seq(Bits) /\ Len(Zeros \o bits) = Len(Zeros) + Len(bits)
          /\ \A i \in 1 .. Len(Zeros) + Len(bits) : (Zeros \o bits)[i] =
               IF i <= Len(Zeros) THEN Zeros[i] ELSE bits[i - Len(Zeros)]
      BY <1>1, ZerosType, ConcatProperties, Zenon
    <3>2. Len(Zeros) = m
      BY <2>0, ZerosType
    <3> QED
      BY <2>1, <3>1, <3>2, Zenon
  <2>3. m \in 0 .. Len(path) /\ Len(bits) \in Nat
    BY <1>3, <2>2, BitsAssumption
  <2>4. SubSeq(path, 1, m) = Zeros
    <3>1. /\ SubSeq(path, 1, m) \in Seq(Bits) /\ Len(SubSeq(path, 1, m)) = m
          /\ \A i \in 1 .. m : SubSeq(path, 1, m)[i] = path[i]
      BY <2>2, <2>3, FirstBits
    <3>2. \A i \in 1 .. m : path[i] = Zeros[i]
      BY <2>2, <2>3
    <3>3. Len(Zeros) = m
      BY <2>0, ZerosType
    <3> QED
      BY <3>1, <3>2, <3>3, ZerosType, SeqEqual
  <2>5. Len(bits) = Len(path) - m /\ \A k \in 1 .. Len(bits) : bits[k] = path[m + k]
    BY <2>2, <2>3
  <2>6. Traverse(db, Place(db, t.networks, t.at, SubSeq(path, 1, m)), bits)
          = Place(db, t.networks, t.at, path)
    <3>1. Sound(db, t.networks, t.at) /\ path \in Seq(Bits) /\ m \in 0 .. Len(path)
      BY <1>2, <2>2, <2>3
    <3> QED
      BY <2>5, <3>1, WalkEnds, SMTT(60)
  <2> QED
    BY <1>2, <1>3, <2>2, <2>4, <2>6 DEF path, bits
<1>4. CASE ~(t.version = 6 /\ Len(bits) = V4Bits)
  <2>1. path = bits
    BY <1>4 DEF InTree
  <2>2. (IF Len(bits) = V4Bits THEN db.v4 ELSE 0) = 0
    BY <1>2, <1>4
  <2> QED
    BY <1>1, <1>2, <2>1, <2>2, WholeWalk
<1> QED
  BY <1>3, <1>4

(* recordOffset (mmdb.go) finds the record of the network that holds an    *)
(* address, for trees of any depth and number of nodes, and nothing for    *)
(* an address that no network holds.                                       *)
THEOREM FindsRecords == RecordsAreFound
<1> SUFFICES ASSUME NEW t \in Trees, NEW address \in Addresses,
                    NEW db, db = Opened(t.body, t.nodes, t.size, t.version)[1]
             PROVE  RecordAt(db, address) = Found(t.networks, t.version, address)
  BY DEF RecordsAreFound
<1> DEFINE bits == Unmapped(address)
           path == InTree(t.version, address)
           leaf == Traverse(db, IF Len(bits) = V4Bits THEN db.v4 ELSE 0, bits)
<1>1. /\ Sound(db, t.networks, t.at)
      /\ t.version \in {4, 6} /\ db.version = t.version
      /\ Len(db.data) \in Nat
  BY Opening
<1>2. CASE t.version = 4 /\ Len(bits) # V4Bits
  <2>1. path = bits
    BY <1>2 DEF InTree
  <2>2. RecordAt(db, address) = Fails
    BY <1>1, <1>2 DEF RecordAt
  <2>3. Found(t.networks, t.version, address) = Fails
    <3> HIDE DEF bits
    <3> QED
      BY <1>2, <2>1 DEF Found
  <2> QED
    BY <2>2, <2>3
<1>3. CASE t.version = 6 \/ Len(bits) = V4Bits
  <2>1. path \in Seq(Bits) /\ leaf = Place(db, t.networks, t.at, path)
    BY <1>3, AddressWalk
  <2>2. ~(Len(bits) # V4Bits /\ t.version = 4)
    BY <1>3
  <2>3. RecordAt(db, address) =
          IF leaf < db.nodes + Separator \/ leaf - db.nodes - Separator >= Len(db.data)
          THEN Fails ELSE <<leaf - db.nodes - Separator>>
    BY <1>1, <2>2 DEF RecordAt
  <2>4. Found(t.networks, t.version, address) =
          IF Holders(t.networks, path) = {} THEN Fails
          ELSE <<t.networks[TheHolder(t.networks, path)]>>
    <3>1. t.version = 4 => path = bits
      BY DEF InTree
    <3> QED
      BY <2>2, <3>1 DEF Found
  <2> HIDE DEF leaf, path
  <2>5. CASE Holders(t.networks, path) # {}
    <3>1. TheHolder(t.networks, path) \in DOMAIN t.networks
      BY <2>5 DEF TheHolder, Holders
    <3>2. t.networks[TheHolder(t.networks, path)] \in 0 .. Len(db.data) - 1
      BY <1>1, <3>1 DEF Sound, Represents
    <3>3. leaf = db.nodes + Separator + t.networks[TheHolder(t.networks, path)]
      BY <2>1, <2>5 DEF Place
    <3>4. db.nodes \in Nat
      BY <1>1 DEF Sound
    <3>5. /\ ~(leaf < db.nodes + Separator) /\ ~(leaf - db.nodes - Separator >= Len(db.data))
          /\ leaf - db.nodes - Separator = t.networks[TheHolder(t.networks, path)]
      <4> DEFINE offset == t.networks[TheHolder(t.networks, path)]
                 end == Len(db.data)
      <4>1. offset \in 0 .. end - 1 /\ end \in Nat /\ leaf = db.nodes + 16 + offset
        BY <1>1, <3>2, <3>3 DEF Separator
      <4> HIDE DEF offset, end
      <4>2. ~(leaf < db.nodes + 16) /\ ~(leaf - db.nodes - 16 >= end) /\ leaf - db.nodes - 16 = offset
        BY <3>4, <4>1
      <4> QED
        BY <4>2 DEF Separator, offset, end
    <3> QED
      BY <2>3, <2>4, <2>5, <3>5
  <2>6. CASE Holders(t.networks, path) = {}
    <3>1. leaf = IF path \in Inner(t.networks) THEN t.at[path] ELSE db.nodes
      BY <2>1, <2>6 DEF Place
    <3>2. leaf < db.nodes + Separator
      BY <1>1, <3>1 DEF Sound, Represents, Separator
    <3> QED
      BY <2>3, <2>4, <2>6, <3>2
  <2> QED
    BY <2>5, <2>6
<1> QED
  BY <1>1, <1>2, <1>3

-----------------------------------------------------------------------------
(* Headers.                                                                *)

(* A part of a sequence has its elements.                                  *)
LEMMA Seen ==
  ASSUME NEW s \in Seq(Nat), NEW off \in Nat, NEW n \in Nat, off + n <= Len(s)
  PROVE  /\ Bytes(s, off, n) \in Seq(Nat) /\ Len(Bytes(s, off, n)) = n
         /\ \A i \in 1 .. n : Bytes(s, off, n)[i] = s[off + i]
<1>1. Len(s) \in Nat
  BY LenProperties
<1>2. \A i \in off + 1 .. off + n : s[i] \in Nat
  BY <1>1, ElementOfSeq
<1>3. /\ SubSeq(s, off + 1, off + n) \in Seq(Nat)
      /\ Len(SubSeq(s, off + 1, off + n))
           = IF off + 1 <= off + n THEN off + n - (off + 1) + 1 ELSE 0
      /\ \A i \in 1 .. off + n - (off + 1) + 1 :
           SubSeq(s, off + 1, off + n)[i] = s[off + 1 + i - 1]
  <2>1. off + 1 \in Int /\ off + n \in Int
    OBVIOUS
  <2> QED
    BY <1>2, <2>1, SubSeqProperties
<1>4. \A i \in 1 .. n : i \in 1 .. off + n - (off + 1) + 1 /\ off + 1 + i - 1 = off + i
  OBVIOUS
<1>5. \A i \in 1 .. n : Bytes(s, off, n)[i] = s[off + i]
  BY <1>3, <1>4 DEF Bytes
<1>6. (IF off + 1 <= off + n THEN off + n - (off + 1) + 1 ELSE 0) = n
  OBVIOUS
<1> QED
  BY <1>3, <1>5, <1>6 DEF Bytes

(* What is written in two parts is read in two.                            *)
Parts(z, x, m, y, n) ==
  /\ m \in Nat /\ n \in Nat /\ Len(z) = m + n
  /\ y \in Seq(Nat) /\ Len(y) = n
  /\ \A i \in 1 .. m : z[i] = x[i]
  /\ \A i \in 1 .. n : z[m + i] = y[i]

LEMMA TwoParts ==
  ASSUME NEW m \in Nat, NEW n \in Nat,
         NEW x \in Seq(Nat), Len(x) = m, NEW y \in Seq(Nat), Len(y) = n
  PROVE  Parts(x \o y, x, m, y, n)
<1>1. PICK z : z = x \o y
  OBVIOUS
<1>2. \A i \in 1 .. m : z[i] = x[i]
  BY <1>1, Joined
<1>3. \A i \in 1 .. n : z[m + i] = y[i]
  BY <1>1, Joined
<1>4. Len(z) = m + n
  <2>1. Len(x \o y) = Len(x) + Len(y)
    BY ConcatProperties, Zenon
  <2> QED
    BY <1>1, <2>1
<1>5. Parts(z, x, m, y, n)
  BY <1>2, <1>3, <1>4 DEF Parts
<1> QED
  BY <1>1, <1>5

InParts(s, off, z, x, m, y, n) ==
  /\ Len(z) = m + n /\ off + (m + n) <= Len(s)
  /\ \A i \in 1 .. m : s[off + i] = x[i]
  /\ Bytes(s, off + m, n) = y

LEMMA Cut ==
  ASSUME NEW s \in Seq(Nat), NEW off \in Nat,
         NEW z, NEW x, NEW m, NEW y, NEW n, Parts(z, x, m, y, n), BytesAre(s, off, z)
  PROVE  InParts(s, off, z, x, m, y, n)
<1>1. m \in Nat /\ n \in Nat /\ Len(z) = m + n /\ y \in Seq(Nat) /\ Len(y) = n
  BY DEF Parts
<1>2. (\A i \in 1 .. m : z[i] = x[i]) /\ \A i \in 1 .. n : z[m + i] = y[i]
  BY DEF Parts
<1>3. off + (m + n) <= Len(s) /\ Bytes(s, off, m + n) = z
  BY <1>1 DEF BytesAre, Has
<1>4. m + n \in Nat /\ Len(s) \in Nat
  BY <1>1, LenProperties
<1>5. \A i \in 1 .. m + n : Bytes(s, off, m + n)[i] = s[off + i]
  BY <1>3, <1>4, Seen
<1>6. \A i \in 1 .. m + n : z[i] = s[off + i]
  BY <1>3, <1>5
<1>7. ASSUME NEW i \in 1 .. m PROVE s[off + i] = x[i]
  <2>1. i \in 1 .. m + n
    BY <1>1
  <2>2. z[i] = s[off + i] /\ z[i] = x[i]
    BY <1>2, <1>6, <2>1
  <2> QED
    BY <2>2
<1>8. ASSUME NEW i \in 1 .. n PROVE s[(off + m) + i] = y[i]
  <2>1. m + i \in 1 .. m + n /\ off + (m + i) = (off + m) + i
    BY <1>1
  <2>2. z[m + i] = s[off + (m + i)] /\ z[m + i] = y[i]
    BY <1>2, <1>6, <2>1
  <2> QED
    BY <2>1, <2>2
<1>9. PICK at : at = off + m
  OBVIOUS
<1>10. at \in Nat /\ at + Len(y) <= Len(s) /\ \A i \in 1 .. Len(y) : s[at + i] = y[i]
  BY <1>1, <1>3, <1>4, <1>8, <1>9
<1>11. Bytes(s, at, Len(y)) = y
  BY <1>1, <1>10, Part
<1> QED
  BY <1>1, <1>3, <1>7, <1>9, <1>11 DEF InParts

(* A number with a first byte that holds less than a byte.                 *)
LEMMA HighAndDigits ==
  ASSUME NEW width \in 1 .. 4, NEW v, Fits(width, v)
  PROVE  Value(<<HighOf(width, v)>> \o Digits(width, v)) = v
<1> DEFINE h == HighOf(width, v)
           y == Digits(width, v)
           a == v % Byte
           b == (v \div Byte) % Byte
           c == (v \div Weight[3]) % Byte
           d == (v \div Weight[4]) % Byte
<1>1. v \in Nat
  BY DEF Fits
<1>2. h \in Nat
  <2>1. CASE width = 4
    BY <2>1 DEF HighOf
  <2>2. CASE width # 4
    <3>1. width + 1 \in {2, 3, 4}
      BY <2>2
    <3>2. v \div Weight[2] \in Nat /\ v \div Weight[3] \in Nat /\ v \div Weight[4] \in Nat
      BY <1>1, SMT DEF Weight, Byte
    <3>3. h = v \div Weight[width + 1]
      BY <2>2 DEF HighOf
    <3> QED
      BY <3>1, <3>2, <3>3
  <2> QED
    BY <2>1, <2>2
<1>3. /\ y \in Seq(Nat) /\ Len(y) = width
      /\ \A i \in 1 .. width : y[i] \in Nat
      /\ y[width] = a
      /\ width > 1 => y[width - 1] = b
      /\ width > 2 => y[width - 2] = c
      /\ width > 3 => y[width - 3] = d
  BY <1>1, DigitsAre
<1>4. /\ width = 1 => (v \div Weight[2]) * Byte + a = v
      /\ width = 2 => ((v \div Weight[3]) * Byte + b) * Byte + a = v
      /\ width = 3 => (((v \div Weight[4]) * Byte + c) * Byte + b) * Byte + a = v
      /\ v \div Weight[4] < Byte => (((0 * Byte + d) * Byte + c) * Byte + b) * Byte + a = v
  BY <1>1, SMT DEF Weight, Byte
<1>5. /\ width = 1 => h = v \div Weight[2]
      /\ width = 2 => h = v \div Weight[3]
      /\ width = 3 => h = v \div Weight[4]
      /\ width = 4 => h = 0 /\ v \div Weight[4] < Byte
  BY DEF HighOf, Fits
<1> HIDE DEF a, b, c, d, y, h
<1>6. PICK x : x = <<h>> /\ x \in Seq(Nat) /\ Len(x) = 1 /\ x[1] = h
  <2>1. <<h>> \in Seq(Nat) /\ Len(<<h>>) = 1 /\ <<h>>[1] = h
    BY <1>2
  <2> QED
    BY <2>1
<1>7. PICK one \in Nat : one = 1
  OBVIOUS
<1>0. PICK bytes : bytes = x \o y
  OBVIOUS
<1>8. /\ bytes \in Seq(Nat) /\ Len(bytes) = one + width
      /\ \A i \in 1 .. one : bytes[i] = x[i]
      /\ \A i \in 1 .. width : bytes[one + i] = y[i]
  <2>1. Len(x) = one /\ width \in Nat
    BY <1>6, <1>7
  <2>2. bytes \in Seq(Nat) /\ Len(bytes) = one + width
    BY <1>0, <1>3, <1>6, <2>1, Joined
  <2>3. \A i \in 1 .. one : bytes[i] = x[i]
    BY <1>0, <1>3, <1>6, <2>1, Joined
  <2>4. \A i \in 1 .. width : bytes[one + i] = y[i]
    BY <1>0, <1>3, <1>6, <2>1, Joined
  <2> QED
    BY <2>2, <2>3, <2>4
<1>9. /\ bytes[1] = h
      /\ \A i \in 1 .. width : bytes[1 + i] = y[i]
  BY <1>6, <1>7, <1>8
<1>10. PICK value : /\ Value(bytes) = value[width + 1] /\ value[0] = 0
                    /\ \A k \in 1 .. width + 1 : value[k] = value[k - 1] * Byte + bytes[k]
  <2>1. PICK n \in Nat : n = width + 1
    OBVIOUS
  <2>2. Len(bytes) = n
    BY <1>7, <1>8, <2>1
  <2>3. \E value : /\ Value(bytes) = value[n] /\ value[0] = 0
                   /\ \A k \in 1 .. n : value[k] = value[k - 1] * Byte + bytes[k]
    BY <2>2, ValueSteps
  <2> QED
    BY <2>1, <2>3
<1>11. value[1] = h
  <2>1. 1 \in 1 .. width + 1 /\ value[1] = value[0] * Byte + bytes[1]
    BY <1>10
  <2>2. 0 * Byte + h = h
    BY <1>2, SMT DEF Byte
  <2> QED
    BY <1>9, <1>10, <2>1, <2>2
<1>12. \A k \in 1 .. width : value[k + 1] = value[k] * Byte + y[k]
  <2> SUFFICES ASSUME NEW k \in 1 .. width PROVE value[k + 1] = value[k] * Byte + y[k]
    OBVIOUS
  <2>1. k + 1 \in 1 .. width + 1 /\ (k + 1) - 1 = k /\ 1 + k = k + 1
    OBVIOUS
  <2> QED
    BY <1>9, <1>10, <2>1
<1> SUFFICES Value(bytes) = v
  BY <1>0, <1>6 DEF h, y
<1>13. CASE width = 1
  <2>1. value[2] = value[1] * Byte + y[1]
    BY <1>12, <1>13
  <2> QED
    BY <1>3, <1>4, <1>5, <1>10, <1>11, <1>13, <2>1
<1>14. CASE width = 2
  <2>1. value[2] = value[1] * Byte + y[1] /\ value[3] = value[2] * Byte + y[2]
    BY <1>12, <1>14
  <2> QED
    BY <1>3, <1>4, <1>5, <1>10, <1>11, <1>14, <2>1
<1>15. CASE width = 3
  <2>1. /\ value[2] = value[1] * Byte + y[1] /\ value[3] = value[2] * Byte + y[2]
        /\ value[4] = value[3] * Byte + y[3]
    BY <1>12, <1>15
  <2> QED
    BY <1>3, <1>4, <1>5, <1>10, <1>11, <1>15, <2>1
<1>16. CASE width = 4
  <2>1. /\ value[2] = value[1] * Byte + y[1] /\ value[3] = value[2] * Byte + y[2]
        /\ value[4] = value[3] * Byte + y[3] /\ value[5] = value[4] * Byte + y[4]
    BY <1>12, <1>16
  <2> QED
    BY <1>3, <1>4, <1>5, <1>10, <1>11, <1>16, <2>1
<1> QED
  BY <1>13, <1>14, <1>15, <1>16

(* The parts of a header: the bytes with the type, and those of the size.  *)
LEMMA ControlIs ==
  ASSUME NEW type \in 2 .. 15, NEW size \in Nat, size < SizeBias[3] + Weight[4]
  PROVE  \E x \in Seq(Nat), y \in Seq(Nat), raw \in 0 .. 31, more \in 0 .. 3 :
           /\ Control(type, size) = x \o y
           /\ Len(y) = more /\ more = IF raw < 29 THEN 0 ELSE raw - 28
           /\ IF type > 7 THEN Len(x) = 2 /\ x[1] = raw /\ x[2] = type - 7
              ELSE Len(x) = 1 /\ x[1] = 32 * type + raw
           /\ size = IF more = 0 THEN raw ELSE SizeBias[more] + Value(y)
<1> DEFINE more == SizeBytes(size)
           raw == IF more = 0 THEN size ELSE 28 + more
           x == IF type > 7 THEN <<raw, type - 7>> ELSE <<32 * type + raw>>
           y == IF more = 0 THEN <<>> ELSE Digits(more, size - SizeBias[more])
<1>1. Control(type, size) = x \o y
  BY DEF Control
<1>2. more \in 0 .. 3
  BY DEF SizeBytes
<1>3. more = 0 => size < 29
  BY DEF SizeBytes, SizeBias
<1>4. raw \in 0 .. 31 /\ more = IF raw < 29 THEN 0 ELSE raw - 28
  <2>1. CASE more = 0
    BY <1>3, <2>1
  <2>2. CASE more # 0
    <3>1. more \in 1 .. 3 /\ raw = 28 + more
      BY <1>2, <2>2
    <3> QED
      BY <2>2, <3>1
  <2> QED
    BY <2>1, <2>2
<1>5. /\ x \in Seq(Nat)
      /\ IF type > 7 THEN Len(x) = 2 /\ x[1] = raw /\ x[2] = type - 7
         ELSE Len(x) = 1 /\ x[1] = 32 * type + raw
  <2> HIDE DEF raw
  <2> QED
    BY <1>4
<1>6. /\ y \in Seq(Nat) /\ Len(y) = more
      /\ size = IF more = 0 THEN raw ELSE SizeBias[more] + Value(y)
  <2>1. CASE more = 0
    BY <2>1
  <2>2. CASE more # 0
    <3> DEFINE v == size - SizeBias[more]
    <3>1. more \in {1, 2, 3} /\ more \in 1 .. 4
      BY <1>2, <2>2
    <3>2. /\ more = 1 => v \in 0 .. 255 /\ SizeBias[1] \in Nat
          /\ more = 2 => v \in Nat /\ v < Weight[3] /\ SizeBias[2] \in Nat
          /\ more = 3 => v \in Nat /\ v \div Weight[4] = 0 /\ SizeBias[3] \in Nat
      BY SMT DEF SizeBytes, SizeBias, Weight
    <3>3. v \in Nat
      BY <3>1, <3>2
    <3>4. y = Digits(more, v)
      BY <2>2
    <3>5. size = SizeBias[more] + v
      BY <3>1, <3>2
    <3> HIDE DEF v, y, more
    <3>6. y \in Seq(Nat) /\ Len(y) = more
      BY <3>1, <3>3, <3>4, DigitsAre
    <3>7. Value(y) = v
      <4>1. CASE more = 1
        <5>1. Value(Digits(1, v)) = v % Byte
          BY <3>3, DigitsValue
        <5>2. v % Byte = v
          BY <3>2, <4>1, SMT DEF Byte
        <5> QED
          BY <3>4, <4>1, <5>1, <5>2
      <4>2. CASE more = 2
        <5>1. Value(Digits(2, v)) = v
          BY <3>2, <3>3, <4>2, DigitsValue
        <5> QED
          BY <3>4, <4>2, <5>1
      <4>3. CASE more = 3
        <5>1. (v \div Weight[4]) * Weight[4] + Value(Digits(3, v)) = v
          BY <3>3, DigitsValue
        <5>2. Value(Digits(3, v)) \in Nat
          BY <3>3, <3>4, <3>6, <4>3, ValueType
        <5>3. 0 * Weight[4] = 0
          BY SMT DEF Weight
        <5>4. v \div Weight[4] = 0
          BY <3>2, <4>3
        <5> QED
          BY <3>4, <4>3, <5>1, <5>2, <5>3, <5>4
      <4> QED
        BY <3>1, <4>1, <4>2, <4>3
    <3> QED
      BY <2>2, <3>5, <3>6, <3>7
  <2> QED
    BY <2>1, <2>2
<1> HIDE DEF x, y, raw, more
<1> QED
  BY <1>1, <1>2, <1>4, <1>5, <1>6

(* The parts of a pointer.                                                 *)
LEMMA PointerIs ==
  ASSUME NEW width \in 1 .. 4, NEW target, Fits(width, target - PointerBias[width])
  PROVE  \E control \in 0 .. 255, y \in Seq(Nat) :
           /\ PointerTo(width, target) = <<control>> \o y
           /\ Len(y) = width
           /\ control \div 32 = Pointer /\ (((control % 32) \div 8) % 4) + 1 = width
           /\ Value(<<IF width = 4 THEN 0 ELSE (control % 32) % 8>> \o y)
                = target - PointerBias[width]
<1> DEFINE v == target - PointerBias[width]
           high == HighOf(width, v)
           control == 32 * Pointer + 8 * (width - 1) + high
           y == Digits(width, v)
<1>1. v \in Nat /\ Fits(width, v)
  BY DEF Fits
<1>2. high \in 0 .. 7 /\ (width = 4 => high = 0)
  <2>1. CASE width = 4
    BY <2>1 DEF HighOf
  <2>2. CASE width # 4
    <3>1. high = v \div Weight[width + 1] /\ high < 8 /\ width + 1 \in {2, 3, 4}
      BY <1>1, <2>2 DEF HighOf, Fits
    <3>2. v \div Weight[2] \in Nat /\ v \div Weight[3] \in Nat /\ v \div Weight[4] \in Nat
      BY <1>1, SMT DEF Weight, Byte
    <3> HIDE DEF high
    <3>3. high \in Nat
      BY <3>1, <3>2
    <3> QED
      BY <2>2, <3>1, <3>3
  <2> QED
    BY <2>1, <2>2
<1>3. PointerTo(width, target) = <<control>> \o y
  BY DEF PointerTo
<1>4. y \in Seq(Nat) /\ Len(y) = width
  BY <1>1, DigitsAre
<1>5. Value(<<high>> \o y) = v
  BY <1>1, HighAndDigits
<1> HIDE DEF v, high, y
<1>6. /\ control \in 0 .. 255 /\ control \div 32 = Pointer
      /\ (((control % 32) \div 8) % 4) + 1 = width /\ (control % 32) % 8 = high
  BY <1>2 DEF Pointer
<1>7. high = IF width = 4 THEN 0 ELSE (control % 32) % 8
  BY <1>2, <1>6
<1> HIDE DEF control
<1>8. Value(<<IF width = 4 THEN 0 ELSE (control % 32) % 8>> \o y) = target - PointerBias[width]
  BY <1>5, <1>7 DEF v
<1> QED
  BY <1>3, <1>4, <1>6, <1>8

(* Sections that were written are sequences of numbers.                    *)
LEMMA WrittenType ==
  ASSUME NEW s, NEW values, Written(s, values)
  PROVE  s \in Seq(Nat) /\ Len(s) \in Nat /\ \A off \in DOMAIN values : WrittenAt(s, values, off)
<1>1. s \in Seq(0 .. 255) /\ \A off \in DOMAIN values : WrittenAt(s, values, off)
  BY DEF Written
<1>2. s \in Seq(Nat)
  <2>1. 0 .. 255 \subseteq Nat
    OBVIOUS
  <2>2. PICK S : S = 0 .. 255
    OBVIOUS
  <2> QED
    BY <1>1, <2>1, <2>2, SeqMonotonic
<1> QED
  BY <1>1, <1>2, LenProperties

(* The header of a value that is not a pointer is read as it was written.  *)
LEMMA ControlRead ==
  ASSUME NEW s \in Seq(Nat), NEW off \in Nat, NEW type \in 2 .. 15, NEW size \in Nat,
         HasSize(size), BytesAre(s, off, Control(type, size))
  PROVE  Header(s, off) = <<type, size, off + Len(Control(type, size))>>
<1> DEFINE z == Control(type, size)
           n == Len(z)
<1>0. BytesAre(s, off, z)
  OBVIOUS
<1>1. PICK x \in Seq(Nat), y \in Seq(Nat), raw \in 0 .. 31, more \in 0 .. 3 :
        /\ Control(type, size) = x \o y
        /\ Len(y) = more /\ more = IF raw < 29 THEN 0 ELSE raw - 28
        /\ IF type > 7 THEN Len(x) = 2 /\ x[1] = raw /\ x[2] = type - 7
           ELSE Len(x) = 1 /\ x[1] = 32 * type + raw
        /\ size = IF more = 0 THEN raw ELSE SizeBias[more] + Value(y)
  BY ControlIs DEF HasSize
<1>2. z = x \o y /\ Len(y) = more
  BY <1>1
<1>3. more = IF raw < 29 THEN 0 ELSE raw - 28
  BY <1>1
<1> HIDE DEF z
<1>4. PICK m \in 1 .. 2 : /\ Len(x) = m /\ m = IF type > 7 THEN 2 ELSE 1
                          /\ x[1] = IF type > 7 THEN raw ELSE 32 * type + raw
                          /\ type > 7 => x[2] = type - 7
  <2>1. IF type > 7 THEN Len(x) = 2 /\ x[1] = raw /\ x[2] = type - 7
        ELSE Len(x) = 1 /\ x[1] = 32 * type + raw
    BY <1>1
  <2> QED
    BY <2>1
<1>5. size = IF more = 0 THEN raw ELSE SizeBias[more] + Value(y)
  BY <1>1
<1>6. Parts(z, x, m, y, more)
  <2>1. m \in Nat /\ more \in Nat
    OBVIOUS
  <2> QED
    BY <1>2, <1>4, <2>1, TwoParts
<1>8. InParts(s, off, z, x, m, y, more)
  BY <1>0, <1>6, Cut
<1>9. n = m + more /\ off + (m + more) <= Len(s)
  BY <1>8 DEF InParts
<1>11. \A i \in 1 .. m : s[off + i] = x[i]
  BY <1>8 DEF InParts
<1>12. Bytes(s, off + m, more) = y
  BY <1>8 DEF InParts
<1>13. s[off + 1] = x[1] /\ (type > 7 => s[off + 2] = x[2])
  BY <1>4, <1>11
<1> DEFINE control == s[off + 1]
           extended == control \div 32 = 0
<1>14. /\ control % 32 = raw /\ (extended <=> type > 7)
       /\ type = IF extended THEN 7 + s[off + 2] ELSE control \div 32
  <2>1. CASE type > 7
    <3>1. control = raw /\ s[off + 2] = type - 7
      BY <1>4, <1>13, <2>1
    <3> HIDE DEF control
    <3> QED
      BY <2>1, <3>1 DEF extended
  <2>2. CASE ~(type > 7)
    <3>1. control = 32 * type + raw
      BY <1>4, <1>13, <2>2
    <3>2. control % 32 = raw /\ control \div 32 = type
      <4> HIDE DEF control
      <4> QED
        BY <2>2, <3>1
    <3> HIDE DEF control
    <3> QED
      BY <2>2, <3>2 DEF extended
  <2> QED
    BY <2>1, <2>2
<1> HIDE DEF control, extended
<1>15. /\ Has(s, off, 1) /\ (extended => Has(s, off, 2)) /\ Has(s, off + m, more)
       /\ m = IF extended THEN 2 ELSE 1
  <2>1. Len(s) \in Nat
    BY LenProperties
  <2>2. m = IF extended THEN 2 ELSE 1
    BY <1>4, <1>14
  <2>3. extended => off + 2 <= Len(s)
    BY <1>9, <2>1, <2>2
  <2>4. off + 1 <= Len(s) /\ (off + m) + more <= Len(s)
    BY <1>9, <2>1
  <2> QED
    BY <2>2, <2>3, <2>4 DEF Has
<1>16. type # Pointer
  BY DEF Pointer
<1>17. Header(s, off) = <<type, IF more = 0 THEN raw
                                ELSE SizeBias[more] + Value(Bytes(s, off + m, more)),
                          (off + m) + more>>
  BY <1>3, <1>14, <1>15, <1>16 DEF Header, control, extended
<1>18. (off + m) + more = off + n
  BY <1>9
<1> QED
  BY <1>5, <1>12, <1>17, <1>18 DEF z

(* So is a pointer.                                                        *)
LEMMA PointerRead ==
  ASSUME NEW s \in Seq(Nat), NEW off \in Nat, NEW width \in 1 .. 4, NEW target \in Nat,
         Fits(width, target - PointerBias[width]), target < Len(s),
         BytesAre(s, off, PointerTo(width, target))
  PROVE  Header(s, off) = <<Pointer, target, off + Len(PointerTo(width, target))>>
<1> DEFINE z == PointerTo(width, target)
           n == Len(z)
<1>0. BytesAre(s, off, z)
  OBVIOUS
<1>1. PICK control \in 0 .. 255, y \in Seq(Nat) :
        /\ PointerTo(width, target) = <<control>> \o y
        /\ Len(y) = width
        /\ control \div 32 = Pointer /\ (((control % 32) \div 8) % 4) + 1 = width
        /\ Value(<<IF width = 4 THEN 0 ELSE (control % 32) % 8>> \o y)
             = target - PointerBias[width]
  BY PointerIs
<1>2. PICK x : x = <<control>> /\ x \in Seq(Nat) /\ Len(x) = 1 /\ x[1] = control
  <2>1. <<control>> \in Seq(Nat) /\ Len(<<control>>) = 1 /\ <<control>>[1] = control
    OBVIOUS
  <2> QED
    BY <2>1
<1>3. PICK m \in Nat : m = 1
  OBVIOUS
<1>4. x \in Seq(Nat) /\ Len(x) = m /\ Len(y) = width /\ z = x \o y
  BY <1>1, <1>2, <1>3
<1> HIDE DEF z
<1>6. Parts(z, x, m, y, width)
  <2>1. width \in Nat
    OBVIOUS
  <2> QED
    BY <1>4, <2>1, TwoParts
<1>7. InParts(s, off, z, x, m, y, width)
  BY <1>0, <1>6, Cut
<1>8. n = m + width /\ off + (m + width) <= Len(s)
  BY <1>7 DEF InParts
<1>10. \A i \in 1 .. m : s[off + i] = x[i]
  BY <1>7 DEF InParts
<1>11. Bytes(s, off + m, width) = y
  BY <1>7 DEF InParts
<1>12. control \div 32 = Pointer /\ (((control % 32) \div 8) % 4) + 1 = width
  BY <1>1
<1>13. s[off + 1] = control
  BY <1>2, <1>3, <1>10
<1>14. Has(s, off, 1) /\ Has(s, off + 1, width) /\ ~(control \div 32 = 0)
  <2>1. Len(s) \in Nat
    BY LenProperties
  <2> QED
    BY <1>3, <1>8, <1>12, <2>1 DEF Has, Pointer
<1>15. Header(s, off) = PointerAt(s, control % 32, off + 1)
  BY <1>12, <1>13, <1>14 DEF Header
<1> DEFINE high == IF width = 4 THEN 0 ELSE (control % 32) % 8
<1>16. Value(<<high>> \o Bytes(s, off + 1, width)) + PointerBias[width] = target
  <2>1. PointerBias[width] \in Nat
    BY DEF PointerBias
  <2>2. Value(<<high>> \o y) = target - PointerBias[width]
    BY <1>1
  <2>3. Bytes(s, off + 1, width) = y
    BY <1>3, <1>11
  <2> QED
    BY <2>1, <2>2, <2>3
<1> DEFINE read == Value(<<high>> \o Bytes(s, off + 1, width)) + PointerBias[width]
<1>17. PointerAt(s, control % 32, off + 1)
         = IF ~Has(s, off + 1, width) THEN Fails
           ELSE IF read >= Len(s) THEN Fails ELSE <<Pointer, read, (off + 1) + width>>
  BY <1>12, Zenon DEF PointerAt
<1> HIDE DEF high, read
<1>18. PointerAt(s, control % 32, off + 1) = <<Pointer, target, (off + 1) + width>>
  <2>1. read = target
    BY <1>16 DEF read
  <2>2. Len(s) \in Nat
    BY LenProperties
  <2>3. ~(read >= Len(s))
    BY <2>1, <2>2
  <2> QED
    BY <1>14, <1>17, <2>1, <2>3
<1>19. (off + 1) + width = off + n
  BY <1>3, <1>8
<1> QED
  BY <1>15, <1>18, <1>19 DEF z

(* What the layout of a section says of a value.                           *)
LEMMA ValueFacts ==
  ASSUME NEW s, NEW values, Written(s, values), NEW off \in DOMAIN values,
         NEW v, v = values[off]
  PROVE  /\ off \in Nat /\ v.size \in Nat /\ v.type \in 1 .. 15
         /\ v.level \in 0 .. MaxDepth + 1 /\ v.hops \in 0 .. MaxHops
         /\ v.behind \in DOMAIN values
         /\ BytesAre(s, off, HeadOf(v))
         /\ v.type = Pointer => IsPointer(values, v)
         /\ v.type # Pointer => /\ v.behind = off /\ v.hops = 0 /\ HasSize(v.size)
                                /\ v.type \in 2 .. 15
         /\ v.type \in {Pointer, BoolType} => v.end = ContentAt(values, off)
         /\ v.type \in Flat => v.end = ContentAt(values, off) + v.size /\ v.end <= Len(s)
         /\ v.type \in {MapType, ArrayType} => IsContainer(values, off, v)
         /\ v.type \in {Pointer, BoolType, MapType, ArrayType} \cup Flat
<1>1. WrittenAt(s, values, off)
  BY DEF Written
<1>2. /\ off \in Nat /\ v.size \in Nat
      /\ v.level \in 0 .. MaxDepth + 1 /\ v.hops \in 0 .. MaxHops
      /\ v.behind \in DOMAIN values
      /\ BytesAre(s, off, HeadOf(v))
  BY <1>1 DEF WrittenAt
<1>3. \/ IsPointer(values, v) /\ v.end = ContentAt(values, off)
      \/ /\ v.behind = off /\ v.hops = 0 /\ HasSize(v.size)
         /\ \/ v.type = BoolType /\ v.end = ContentAt(values, off)
            \/ v.type \in Flat /\ v.end = ContentAt(values, off) + v.size /\ v.end <= Len(s)
            \/ IsContainer(values, off, v)
  BY <1>1 DEF WrittenAt
<1>4. IsPointer(values, v) => v.type = Pointer
  BY DEF IsPointer
<1>5. IsContainer(values, off, v) => v.type \in {MapType, ArrayType}
  BY DEF IsContainer
<1> QED
  BY <1>2, <1>3, <1>4, <1>5 DEF Pointer, BoolType, MapType, ArrayType, Flat

(* Headers are not empty.                                                  *)
LEMMA PointerLength ==
  ASSUME NEW width \in 1 .. 4, NEW target, Fits(width, target - PointerBias[width])
  PROVE  Len(PointerTo(width, target)) \in Nat \ {0}
<1>1. PICK control \in 0 .. 255, y \in Seq(Nat) :
        /\ PointerTo(width, target) = <<control>> \o y
        /\ Len(y) = width
        /\ control \div 32 = Pointer /\ (((control % 32) \div 8) % 4) + 1 = width
        /\ Value(<<IF width = 4 THEN 0 ELSE (control % 32) % 8>> \o y)
             = target - PointerBias[width]
  BY PointerIs
<1>2. PICK m \in Nat, n \in Nat : m = 1 /\ n = width
  OBVIOUS
<1>3. <<control>> \in Seq(Nat) /\ Len(<<control>>) = m
  BY <1>2
<1>4. Len(y) = n
  BY <1>1, <1>2
<1>5. Parts(<<control>> \o y, <<control>>, m, y, n)
  BY <1>3, <1>4, TwoParts
<1>6. Len(<<control>> \o y) = m + n
  BY <1>5 DEF Parts
<1> QED
  BY <1>1, <1>2, <1>6

LEMMA ControlLength ==
  ASSUME NEW type \in 2 .. 15, NEW size \in Nat, HasSize(size)
  PROVE  Len(Control(type, size)) \in Nat \ {0}
<1>1. PICK x \in Seq(Nat), y \in Seq(Nat), raw \in 0 .. 31, more \in 0 .. 3 :
        /\ Control(type, size) = x \o y
        /\ Len(y) = more /\ more = IF raw < 29 THEN 0 ELSE raw - 28
        /\ IF type > 7 THEN Len(x) = 2 /\ x[1] = raw /\ x[2] = type - 7
           ELSE Len(x) = 1 /\ x[1] = 32 * type + raw
        /\ size = IF more = 0 THEN raw ELSE SizeBias[more] + Value(y)
  BY ControlIs DEF HasSize
<1>2. PICK m \in {1, 2} : m = Len(x)
  BY <1>1
<1>3. m \in Nat /\ more \in Nat /\ Len(x) = m
  BY <1>2
<1>4. Len(y) = more
  BY <1>1
<1>5. Parts(x \o y, x, m, y, more)
  BY <1>3, <1>4, TwoParts
<1>6. Len(x \o y) = m + more
  BY <1>5 DEF Parts
<1>7. m + more \in Nat \ {0}
  <2>1. m > 0 /\ more >= 0
    BY <1>2
  <2> QED
    BY <1>3, <2>1
<1> QED
  BY <1>1, <1>6, <1>7

LEMMA HeadLength ==
  ASSUME NEW s, NEW values, Written(s, values), NEW off \in DOMAIN values
  PROVE  Len(HeadOf(values[off])) \in Nat \ {0}
<1> DEFINE v == values[off]
<1>1. CASE v.type = Pointer
  <2>1. v.width \in 1 .. 4 /\ Fits(v.width, v.size - PointerBias[v.width])
    BY <1>1, ValueFacts DEF IsPointer
  <2> QED
    BY <1>1, <2>1, PointerLength DEF HeadOf
<1>2. CASE v.type # Pointer
  <2>1. v.size \in Nat /\ v.type \in 2 .. 15 /\ HasSize(v.size)
    BY <1>2, ValueFacts
  <2> QED
    BY <1>2, <2>1, ControlLength DEF HeadOf
<1> QED
  BY <1>1, <1>2

(* Every header is read as it was written.                                 *)
LEMMA HeaderRead ==
  ASSUME NEW s, NEW values, Written(s, values), NEW off \in DOMAIN values
  PROVE  Header(s, off) = <<values[off].type, values[off].size, ContentAt(values, off)>>
<1> DEFINE v == values[off]
<1>1. s \in Seq(Nat) /\ Len(s) \in Nat /\ off \in Nat /\ v.size \in Nat
  BY WrittenType, ValueFacts
<1>2. BytesAre(s, off, HeadOf(v))
  BY ValueFacts
<1>3. CASE v.type = Pointer
  <2>1. /\ v.width \in 1 .. 4 /\ Fits(v.width, v.size - PointerBias[v.width])
        /\ v.size \in DOMAIN values
    BY <1>3, ValueFacts DEF IsPointer
  <2>2. v.size < Len(s)
    <3>1. Len(HeadOf(values[v.size])) \in Nat \ {0} /\ BytesAre(s, v.size, HeadOf(values[v.size]))
      BY <2>1, ValueFacts, HeadLength
    <3> QED
      BY <1>1, <3>1 DEF BytesAre, Has
  <2>3. HeadOf(v) = PointerTo(v.width, v.size)
    BY <1>3 DEF HeadOf
  <2>4. Header(s, off) = <<Pointer, v.size, off + Len(PointerTo(v.width, v.size))>>
    BY <1>1, <1>2, <2>1, <2>2, <2>3, PointerRead
  <2> QED
    BY <1>3, <2>3, <2>4 DEF ContentAt
<1>4. CASE v.type # Pointer
  <2>1. v.type \in 2 .. 15 /\ HasSize(v.size)
    BY <1>4, ValueFacts
  <2>2. HeadOf(v) = Control(v.type, v.size)
    BY <1>4 DEF HeadOf
  <2>3. Header(s, off) = <<v.type, v.size, off + Len(Control(v.type, v.size))>>
    BY <1>1, <1>2, <2>1, <2>2, ControlRead
  <2> QED
    BY <2>2, <2>3 DEF ContentAt
<1> QED
  BY <1>3, <1>4

-----------------------------------------------------------------------------
(* Pointers, texts, numbers, and what is behind a value.                   *)

(* The headers along a chain of pointers, one after the other.             *)
LEMMA ResolveSteps ==
  ASSUME NEW s, NEW off
  PROVE  \E header :
           /\ Resolve(s, off) = IF header[MaxHops] = Fails THEN Fails
                                ELSE IF header[MaxHops][1] = Pointer THEN Fails
                                ELSE header[MaxHops]
           /\ header[0] = Header(s, off)
           /\ \A k \in 1 .. MaxHops :
                header[k] = IF header[k - 1] = Fails THEN Fails
                            ELSE IF header[k - 1][1] = Pointer THEN Header(s, header[k - 1][2])
                            ELSE header[k - 1]
<1> DEFINE Follows(h) == Then(h, LAMBDA g : IF g[1] = Pointer THEN Header(s, g[2]) ELSE g)
           F(f, m) == f = [k \in 0 .. m |-> IF k = 0 THEN Header(s, off) ELSE Follows(f[k - 1])]
           S == {m \in 0 .. MaxHops : \E f : F(f, m)}
           f0 == [k \in 0 .. 0 |-> Header(s, off)]
<1>0. \A h : Follows(h) = IF h = Fails THEN Fails
                          ELSE IF h[1] = Pointer THEN Header(s, h[2]) ELSE h
  BY Zenon DEF Then
<1>1. 0 \in S
  <2>1. F(f0, 0)
    <3> HIDE DEF Follows
    <3> QED
      OBVIOUS
  <2> HIDE DEF F, f0
  <2> QED
    BY <2>1 DEF MaxHops
<1>2. ASSUME NEW m \in 1 .. MaxHops, m - 1 \in S PROVE m \in S
  <2>0. m \in 1 .. 4
    BY DEF MaxHops
  <2>1. PICK f : F(f, m - 1)
    BY <1>2
  <2> HIDE DEF Follows
  <2> DEFINE g == [k \in 0 .. m |-> IF k = m THEN Follows(f[m - 1]) ELSE f[k]]
  <2>2. F(g, m)
    <3>1. \A k \in 0 .. m : g[k] = IF k = 0 THEN Header(s, off) ELSE Follows(g[k - 1])
      <4> SUFFICES ASSUME NEW k \in 0 .. m
                   PROVE g[k] = IF k = 0 THEN Header(s, off) ELSE Follows(g[k - 1])
        OBVIOUS
      <4>1. CASE k = m
        <5>1. k - 1 \in 0 .. m /\ k - 1 # m /\ g[k - 1] = f[m - 1]
          BY <2>0, <4>1
        <5> QED
          BY <2>0, <4>1, <5>1
      <4>2. CASE k = 0
        BY <2>0, <4>2, <2>1
      <4>3. CASE k # m /\ k # 0
        <5>1. k \in 0 .. m - 1 /\ g[k] = f[k] /\ g[k - 1] = f[k - 1]
          BY <2>0, <4>3
        <5>2. f[k] = Follows(f[k - 1])
          BY <2>1, <5>1, <4>3
        <5> QED BY <4>3, <5>1, <5>2
      <4> QED
        BY <4>1, <4>2, <4>3
    <3>2. g = [k \in 0 .. m |-> g[k]]
      OBVIOUS
    <3> HIDE DEF g
    <3> QED
      BY <3>1, <3>2
  <2> HIDE DEF F, g
  <2> QED
    BY <2>0, <2>2 DEF MaxHops
<1>3. MaxHops \in S
  <2>1. PICK n \in Nat : n = MaxHops
    BY DEF MaxHops
  <2> HIDE DEF S
  <2> QED
    BY <1>1, <1>2, <2>1, UpTo
<1> DEFINE header == CHOOSE f : F(f, MaxHops)
<1>4. F(header, MaxHops)
  <2>1. \E f : F(f, MaxHops)
    BY <1>3
  <2> HIDE DEF F
  <2> QED
    BY <2>1
<1>5. Resolve(s, off) = Then(header[MaxHops], LAMBDA h : IF h[1] = Pointer THEN Fails ELSE h)
  BY DEF Resolve
<1> HIDE DEF header
<1>6. Resolve(s, off) = IF header[MaxHops] = Fails THEN Fails
                        ELSE IF header[MaxHops][1] = Pointer THEN Fails ELSE header[MaxHops]
  BY <1>5, Zenon DEF Then
<1>7. header[0] = Header(s, off) /\ \A k \in 1 .. MaxHops : header[k] = Follows(header[k - 1])
  <2> HIDE DEF Follows
  <2> QED
    BY <1>4 DEF MaxHops
<1> HIDE DEF Follows
<1>8. \A k \in 1 .. MaxHops :
        header[k] = IF header[k - 1] = Fails THEN Fails
                    ELSE IF header[k - 1][1] = Pointer THEN Header(s, header[k - 1][2])
                    ELSE header[k - 1]
  BY <1>0, <1>7
<1> QED
  BY <1>6, <1>7, <1>8

(* resolve finds the value that the pointers lead to.                      *)
LEMMA ResolveRead ==
  ASSUME NEW s, NEW values, Written(s, values), NEW off \in DOMAIN values,
         NEW at, at = values[off].behind
  PROVE  /\ at \in DOMAIN values /\ values[at].type # Pointer
         /\ Resolve(s, off) = <<values[at].type, values[at].size, ContentAt(values, at)>>
<1>1. PICK header :
           /\ Resolve(s, off) = IF header[MaxHops] = Fails THEN Fails
                                ELSE IF header[MaxHops][1] = Pointer THEN Fails
                                ELSE header[MaxHops]
           /\ header[0] = Header(s, off)
           /\ \A k \in 1 .. MaxHops :
                header[k] = IF header[k - 1] = Fails THEN Fails
                            ELSE IF header[k - 1][1] = Pointer THEN Header(s, header[k - 1][2])
                            ELSE header[k - 1]
  BY ResolveSteps
<1> DEFINE S == {k \in 0 .. MaxHops : \E o \in DOMAIN values :
                   /\ header[k] = Header(s, o)
                   /\ values[o].behind = at /\ values[o].hops <= MaxHops - k}
<1>2. 0 \in S
  <2>1. values[off].hops \in 0 .. MaxHops
    BY ValueFacts
  <2> QED
    BY <1>1, <2>1 DEF MaxHops
<1>3. ASSUME NEW k \in 1 .. MaxHops, k - 1 \in S PROVE k \in S
  <2>1. PICK o \in DOMAIN values :
          /\ header[k - 1] = Header(s, o)
          /\ values[o].behind = at /\ values[o].hops <= MaxHops - (k - 1)
    BY <1>3
  <2>2. Header(s, o) = <<values[o].type, values[o].size, ContentAt(values, o)>>
    BY HeaderRead
  <2>3. header[k] = IF values[o].type = Pointer THEN Header(s, values[o].size) ELSE Header(s, o)
    <3>1. /\ Header(s, o) # Fails /\ Header(s, o)[1] = values[o].type
          /\ Header(s, o)[2] = values[o].size
      BY <2>2 DEF Fails
    <3>2. header[k] = IF header[k - 1] = Fails THEN Fails
                      ELSE IF header[k - 1][1] = Pointer THEN Header(s, header[k - 1][2])
                      ELSE header[k - 1]
      BY <1>1
    <3> QED
      BY <2>1, <3>1, <3>2
  <2>4. CASE values[o].type = Pointer
    <3>1. /\ values[o].size \in DOMAIN values
          /\ values[values[o].size].behind = at
          /\ values[o].hops = values[values[o].size].hops + 1
      BY <2>1, <2>4, ValueFacts DEF IsPointer
    <3>2. values[values[o].size].hops \in 0 .. MaxHops
      BY <3>1, ValueFacts
    <3>3. values[values[o].size].hops <= MaxHops - k
      BY <2>1, <3>1, <3>2 DEF MaxHops
    <3> QED
      BY <2>3, <2>4, <3>1, <3>3
  <2>5. CASE values[o].type # Pointer
    <3>1. values[o].hops = 0 /\ 0 <= MaxHops - k
      BY <2>5, ValueFacts DEF MaxHops
    <3> QED
      BY <2>1, <2>3, <2>5, <3>1
  <2> QED
    BY <2>4, <2>5
<1>4. MaxHops \in S
  <2>1. PICK n \in Nat : n = MaxHops
    BY DEF MaxHops
  <2> HIDE DEF S
  <2> QED
    BY <1>2, <1>3, <2>1, UpTo
<1>5. PICK o \in DOMAIN values :
        /\ header[MaxHops] = Header(s, o)
        /\ values[o].behind = at /\ values[o].hops <= MaxHops - MaxHops
  BY <1>4
<1>6. values[o].hops = 0
  <2>1. values[o].hops \in 0 .. MaxHops
    BY ValueFacts
  <2> QED
    BY <1>5, <2>1 DEF MaxHops
<1>7. values[o].type # Pointer
  <2> SUFFICES ASSUME values[o].type = Pointer PROVE FALSE
    OBVIOUS
  <2>1. /\ values[o].size \in DOMAIN values
        /\ values[o].hops = values[values[o].size].hops + 1
    BY ValueFacts DEF IsPointer
  <2>2. values[values[o].size].hops \in 0 .. MaxHops
    BY <2>1, ValueFacts
  <2> QED
    BY <1>6, <2>1, <2>2 DEF MaxHops
<1>8. o = at
  BY <1>5, <1>7, ValueFacts
<1>9. Header(s, o) = <<values[o].type, values[o].size, ContentAt(values, o)>>
  BY HeaderRead
<1>10. Resolve(s, off) = Header(s, o)
  <2>1. Header(s, o) # Fails /\ Header(s, o)[1] = values[o].type
    BY <1>9 DEF Fails
  <2>2. Resolve(s, off) = IF header[MaxHops] = Fails THEN Fails
                          ELSE IF header[MaxHops][1] = Pointer THEN Fails
                          ELSE header[MaxHops]
    BY <1>1
  <2> QED
    BY <1>5, <1>7, <2>1, <2>2
<1>11. values[at].type # Pointer /\ at \in DOMAIN values
  BY <1>7, <1>8
<1>12. Resolve(s, off) = <<values[at].type, values[at].size, ContentAt(values, at)>>
  BY <1>8, <1>9, <1>10
<1> QED
  BY <1>11, <1>12

(* What is flat ends in its section.                                       *)
LEMMA FlatHas ==
  ASSUME NEW s, NEW values, Written(s, values), NEW at \in DOMAIN values,
         values[at].type \in Flat
  PROVE  /\ Has(s, ContentAt(values, at), values[at].size)
         /\ values[at].end = ContentAt(values, at) + values[at].size
  BY ValueFacts DEF Has

(* A text is read where its header was.                                    *)
LEMMA TextThere ==
  ASSUME NEW s, NEW values, Written(s, values), NEW at \in DOMAIN values
  PROVE  TextOf(s, <<values[at].type, values[at].size, ContentAt(values, at)>>)
           = IF values[at].type = String
             THEN <<Bytes(s, ContentAt(values, at), values[at].size)>> ELSE Fails
<1>1. values[at].type = String => Has(s, ContentAt(values, at), values[at].size)
  BY FlatHas DEF String, Flat
<1> QED
  BY <1>1 DEF TextOf

(* readString and readUint have what was written.                          *)
LEMMA TextRead ==
  ASSUME NEW s, NEW values, Written(s, values), NEW off \in DOMAIN values
  PROVE  Text(s, off) = TextAt(s, values, off)
<1> DEFINE at == values[off].behind
           h == <<values[at].type, values[at].size, ContentAt(values, at)>>
<1>1. at \in DOMAIN values /\ Resolve(s, off) = h
  BY ResolveRead
<1>2. h # Fails
  BY DEF Fails
<1>3. TextOf(s, h) = IF values[at].type = String
                     THEN <<Bytes(s, ContentAt(values, at), values[at].size)>> ELSE Fails
  BY <1>1, TextThere
<1>4. TextAt(s, values, off)
        = IF values[at].type = String
          THEN <<Bytes(s, ContentAt(values, at), values[at].size)>> ELSE Fails
  BY Zenon DEF TextAt
<1> HIDE DEF h
<1>5. Text(s, off) = TextOf(s, h)
  BY <1>1, <1>2, Zenon DEF Text, Then
<1> QED
  BY <1>3, <1>4, <1>5

LEMMA UintRead ==
  ASSUME NEW s, NEW values, Written(s, values), NEW off \in DOMAIN values
  PROVE  Uint(s, off) = NumberAt(s, values, off)
<1> DEFINE at == values[off].behind
           h == <<values[at].type, values[at].size, ContentAt(values, at)>>
<1>1. at \in DOMAIN values /\ Resolve(s, off) = h
  BY ResolveRead
<1>2. h # Fails /\ h[1] = values[at].type /\ h[2] = values[at].size
      /\ h[3] = ContentAt(values, at)
  BY DEF Fails
<1>3. values[at].type \in Unsigned => Has(s, ContentAt(values, at), values[at].size)
  BY <1>1, FlatHas DEF Unsigned, Flat
<1>4. NumberAt(s, values, off)
        = IF values[at].type \in Unsigned /\ values[at].size <= 8
          THEN <<Value(Bytes(s, ContentAt(values, at), values[at].size))>> ELSE Fails
  BY Zenon DEF NumberAt
<1> HIDE DEF h
<1>5. Uint(s, off) = IF h[1] \in Unsigned /\ h[2] <= 8 /\ Has(s, h[3], h[2])
                     THEN <<Value(Bytes(s, h[3], h[2]))>> ELSE Fails
  BY <1>1, <1>2, Zenon DEF Uint, Then
<1> QED
  BY <1>2, <1>3, <1>4, <1>5

(* The ends of what is inside, one after the other.                        *)
LEMMA InsideEnds ==
  ASSUME NEW inner, NEW from, NEW count \in Nat,
         NEW w, w[0] = <<from>>,
         \A k \in 1 .. count : w[k - 1] # Fails /\ w[k] = inner[w[k - 1][1]]
  PROVE  SkipInside(inner, from, count) = w[count]
<1> DEFINE Follows(e) == Then(e, LAMBDA end : inner[end[1]])
           F(f) == f = [k \in 0 .. count |-> IF k = 0 THEN <<from>> ELSE Follows(f[k - 1])]
           ends == CHOOSE f : F(f)
<1>1. \A e : Follows(e) = IF e = Fails THEN Fails ELSE inner[e[1]]
  BY Zenon DEF Then
<1>2. SkipInside(inner, from, count) = ends[count]
  BY DEF SkipInside
<1> HIDE DEF Follows
<1>3. F([k \in 0 .. count |-> w[k]])
  <2>1. \A k \in 0 .. count : w[k] = IF k = 0 THEN <<from>> ELSE Follows(w[k - 1])
    <3> SUFFICES ASSUME NEW k \in 0 .. count
                 PROVE w[k] = IF k = 0 THEN <<from>> ELSE Follows(w[k - 1])
      OBVIOUS
    <3>1. CASE k = 0
      BY <3>1
    <3>2. CASE k \in 1 .. count
      BY <1>1, <3>2
    <3> QED
      BY <3>1, <3>2
  <2> QED
    BY <2>1
<1>4. F(ends)
  <2> HIDE DEF F
  <2> QED
    BY <1>3
<1> HIDE DEF ends
<1> DEFINE S == {k \in 0 .. count : ends[k] = w[k]}
<1>5. 0 \in S
  BY <1>4
<1>6. ASSUME NEW k \in 1 .. count, k - 1 \in S PROVE k \in S
  <2>1. ends[k] = Follows(ends[k - 1])
    BY <1>4
  <2>2. ends[k - 1] = w[k - 1] /\ w[k - 1] # Fails /\ w[k] = inner[w[k - 1][1]]
    BY <1>6
  <2> QED
    BY <1>1, <2>1, <2>2
<1>7. count \in S
  <2> HIDE DEF S
  <2> QED
    BY <1>5, <1>6, UpTo
<1> QED
  BY <1>2, <1>7

(* The ends of what is in a value.                                         *)
Ends(values, v, inner) ==
  v.type \in {MapType, ArrayType} =>
    \A k \in DOMAIN v.items : inner[v.items[k]] = <<values[v.items[k]].end>>

(* A value is skipped when what it has inside is.                          *)
LEMMA SkipOneRead ==
  ASSUME NEW s, NEW values, Written(s, values), NEW off \in DOMAIN values, NEW inner,
         NEW v, v = values[off],
         Ends(values, v, inner)
  PROVE  SkipOne(s, inner, off) = <<v.end>>
<1> DEFINE h == <<v.type, v.size, ContentAt(values, off)>>
<1>1. Header(s, off) = h
  BY HeaderRead
<1>2. h # Fails /\ h[1] = v.type /\ h[2] = v.size /\ h[3] = ContentAt(values, off)
  BY DEF Fails
<1> HIDE DEF h
<1>3. SkipOne(s, inner, off)
        = IF h[1] \in {Pointer, BoolType} THEN <<h[3]>>
          ELSE IF h[1] \in {MapType, ArrayType} THEN SkipInside(inner, h[3], Inside(h[1], h[2]))
          ELSE IF h[1] \in Flat /\ Has(s, h[3], h[2]) THEN <<h[3] + h[2]>>
          ELSE Fails
  BY <1>1, <1>2, Zenon DEF SkipOne, Then
<1>4. CASE v.type \in {Pointer, BoolType}
  BY <1>2, <1>3, <1>4, ValueFacts
<1>5. CASE v.type \in {MapType, ArrayType}
  <2> DEFINE n == Inside(v.type, v.size)
             w == [k \in 0 .. n |-> IF k = 0 THEN <<ContentAt(values, off)>>
                                    ELSE <<values[v.items[k]].end>>]
  <2>1. n \in Nat
    BY ValueFacts DEF Inside
  <2>2. IsContainer(values, off, v)
    BY <1>5, ValueFacts
  <2>3. \A k \in 1 .. n : v.items[k] = IF k = 1 THEN ContentAt(values, off)
                                       ELSE values[v.items[k - 1]].end
    BY <2>2 DEF IsContainer
  <2>4. \A k \in 1 .. n : inner[v.items[k]] = <<values[v.items[k]].end>>
    BY <1>5, <2>2 DEF IsContainer, Ends
  <2> HIDE DEF n
  <2>5. w[n] = <<v.end>>
    <3>1. v.end = IF n = 0 THEN ContentAt(values, off) ELSE values[v.items[n]].end
      BY <2>2 DEF IsContainer, n
    <3> QED
      BY <2>1, <3>1
  <2>6. \A k \in 1 .. n : w[k - 1] # Fails /\ w[k] = inner[w[k - 1][1]]
    <3> SUFFICES ASSUME NEW k \in 1 .. n PROVE w[k - 1] # Fails /\ w[k] = inner[w[k - 1][1]]
      OBVIOUS
    <3>1. w[k] = inner[v.items[k]]
      <4>1. w[k] = <<values[v.items[k]].end>>
        BY <2>1
      <4> HIDE DEF w
      <4> QED
        BY <2>4, <4>1
    <3>2. w[k - 1] = <<v.items[k]>>
      BY <2>1, <2>3
    <3> QED
      BY <3>1, <3>2 DEF Fails
  <2>7. w[0] = <<ContentAt(values, off)>>
    BY <2>1
  <2> HIDE DEF w
  <2>8. SkipInside(inner, ContentAt(values, off), n) = w[n]
    <3>1. PICK from : from = ContentAt(values, off)
      OBVIOUS
    <3>2. w[0] = <<from>>
      BY <2>7, <3>1
    <3>3. SkipInside(inner, from, n) = w[n]
      BY <2>1, <2>6, <2>7, <3>2, InsideEnds
    <3> QED
      BY <3>1, <3>3
  <2>9. v.type \notin {Pointer, BoolType}
    BY <1>5 DEF Pointer, BoolType, MapType, ArrayType
  <2> QED
    BY <1>2, <1>3, <1>5, <2>5, <2>8, <2>9 DEF n
<1>6. CASE v.type \in Flat
  <2>1. v.type \notin {Pointer, BoolType} /\ v.type \notin {MapType, ArrayType}
    BY <1>6 DEF Pointer, BoolType, MapType, ArrayType, Flat
  <2> QED
    BY <1>2, <1>3, <1>6, <2>1, FlatHas
<1> QED
  BY <1>4, <1>5, <1>6, ValueFacts

(* skipValue for each number of levels that are left.                      *)
LEMMA SkipSteps ==
  ASSUME NEW s, NEW off
  PROVE  \E skip : /\ Skip(s, off) = skip[MaxDepth + 1][off]
                   /\ \A left \in 1 .. MaxDepth + 1 : \A at \in Nat :
                        skip[left][at] = SkipOne(s, skip[left - 1], at)
<1> DEFINE Of(left, inner) == [at \in Nat |-> IF left = 0 THEN Fails ELSE SkipOne(s, inner, at)]
           F(f, m) == f = [left \in 0 .. m |-> Of(left, f[left - 1])]
           S == {m \in 0 .. MaxDepth + 1 : \E f : F(f, m)}
           none == [at \in Nat |-> Fails]
<1>0. \A inner : Of(0, inner) = none
  OBVIOUS
<1> HIDE DEF none
<1>1. 0 \in S
  <2> DEFINE f0 == [left \in 0 .. 0 |-> none]
  <2> HIDE DEF Of
  <2>2. F(f0, 0)
    BY <1>0
  <2> HIDE DEF F, f0
  <2> QED
    BY <2>2 DEF MaxDepth
<1>2. ASSUME NEW m \in 1 .. MaxDepth + 1, m - 1 \in S PROVE m \in S
  <2>0. m \in 1 .. 33
    BY DEF MaxDepth
  <2>1. PICK f : F(f, m - 1)
    BY <1>2
  <2> HIDE DEF Of
  <2> DEFINE g == [k \in 0 .. m |-> IF k = m THEN Of(m, f[m - 1]) ELSE f[k]]
  <2>2. F(g, m)
    <3>1. \A k \in 0 .. m : g[k] = Of(k, g[k - 1])
      <4> SUFFICES ASSUME NEW k \in 0 .. m PROVE g[k] = Of(k, g[k - 1])
        OBVIOUS
      <4>1. CASE k = m
        <5>1. k - 1 \in 0 .. m /\ k - 1 # m /\ g[k - 1] = f[m - 1]
          BY <2>0, <4>1
        <5> QED
          BY <2>0, <4>1, <5>1
      <4>2. CASE k = 0
        <5>1. 0 \in 0 .. m - 1 /\ g[k] = f[0]
          BY <2>0, <4>2
        <5>2. f[0] = Of(0, f[0 - 1])
          BY <2>1, <5>1
        <5> QED
          BY <1>0, <4>2, <5>1, <5>2
      <4>3. CASE k # m /\ k # 0
        <5>1. k \in 0 .. m - 1 /\ g[k] = f[k] /\ g[k - 1] = f[k - 1]
          BY <2>0, <4>3
        <5>2. f[k] = Of(k, f[k - 1])
          BY <2>1, <5>1
        <5> QED BY <5>1, <5>2
      <4> QED
        BY <4>1, <4>2, <4>3
    <3>2. g = [k \in 0 .. m |-> g[k]]
      OBVIOUS
    <3> HIDE DEF g
    <3> QED
      BY <3>1, <3>2
  <2> HIDE DEF F, g
  <2> QED
    BY <2>0, <2>2 DEF MaxDepth
<1>3. MaxDepth + 1 \in S
  <2>1. PICK n \in Nat : n = MaxDepth + 1
    BY DEF MaxDepth
  <2> HIDE DEF S
  <2> QED
    BY <1>1, <1>2, <2>1, UpTo
<1> DEFINE skip == CHOOSE f : F(f, MaxDepth + 1)
<1>4. F(skip, MaxDepth + 1)
  <2>1. \E f : F(f, MaxDepth + 1)
    BY <1>3
  <2> HIDE DEF F
  <2> QED
    BY <2>1
<1>5. Skip(s, off) = skip[MaxDepth + 1][off]
  BY DEF Skip
<1> HIDE DEF skip
<1>6. \A left \in 1 .. MaxDepth + 1 : \A at \in Nat :
        skip[left][at] = SkipOne(s, skip[left - 1], at)
  <2> SUFFICES ASSUME NEW left \in 1 .. MaxDepth + 1, NEW at \in Nat
               PROVE skip[left][at] = SkipOne(s, skip[left - 1], at)
    OBVIOUS
  <2>0. left \in 0 .. MaxDepth + 1 /\ left # 0
    BY DEF MaxDepth
  <2>1. skip[left] = Of(left, skip[left - 1])
    <3> HIDE DEF Of
    <3> QED
      BY <1>4, <2>0
  <2> QED
    BY <2>0, <2>1
<1> QED
  BY <1>5, <1>6

(* A value with at most MaxDepth levels in it is skipped.                  *)
LEMMA SkipRead ==
  ASSUME NEW s, NEW values, Written(s, values), NEW off \in DOMAIN values,
         values[off].level <= MaxDepth
  PROVE  Skip(s, off) = <<values[off].end>>
<1>1. PICK skip : /\ Skip(s, off) = skip[MaxDepth + 1][off]
                  /\ \A left \in 1 .. MaxDepth + 1 : \A at \in Nat :
                       skip[left][at] = SkipOne(s, skip[left - 1], at)
  BY SkipSteps
<1> DEFINE Skips(level) ==
             \A left \in level + 1 .. MaxDepth + 1 : \A at \in DOMAIN values :
               values[at].level <= level => skip[left][at] = <<values[at].end>>
           S == {level \in 0 .. MaxDepth : Skips(level)}
<1>2. ASSUME NEW level \in 0 .. MaxDepth, level # 0 => Skips(level - 1) PROVE Skips(level)
  <2> SUFFICES ASSUME NEW left \in level + 1 .. MaxDepth + 1, NEW at \in DOMAIN values,
                      values[at].level <= level
               PROVE  skip[left][at] = <<values[at].end>>
    OBVIOUS
  <2> HIDE DEF Skips, S
  <2>1. left \in 1 .. MaxDepth + 1 /\ level \in Nat
    BY DEF MaxDepth
  <2>2. at \in Nat
    BY ValueFacts
  <2>3. skip[left][at] = SkipOne(s, skip[left - 1], at)
    BY <1>1, <2>1, <2>2
  <2>4. ASSUME values[at].type \in {MapType, ArrayType}, NEW k \in DOMAIN values[at].items
        PROVE  skip[left - 1][values[at].items[k]] = <<values[values[at].items[k]].end>>
    <3>1. /\ values[at].items[k] \in DOMAIN values
          /\ values[values[at].items[k]].level < values[at].level
      BY <2>4, ValueFacts DEF IsContainer
    <3>2. values[values[at].items[k]].level \in Nat /\ values[at].level \in Nat
      <4>1. values[at].level \in 0 .. MaxDepth + 1
        BY ValueFacts
      <4>2. values[values[at].items[k]].level \in 0 .. MaxDepth + 1
        BY <3>1, ValueFacts
      <4> QED
        BY <4>1, <4>2
    <3>3. level # 0 /\ values[values[at].items[k]].level <= level - 1
          /\ left - 1 \in (level - 1) + 1 .. MaxDepth + 1
      BY <2>1, <3>1, <3>2 DEF MaxDepth
    <3> QED
      BY <1>2, <3>1, <3>3 DEF Skips
  <2>5. PICK inner, v : inner = skip[left - 1] /\ v = values[at]
    OBVIOUS
  <2>6. Ends(values, v, inner)
    BY <2>4, <2>5 DEF Ends
  <2>7. SkipOne(s, inner, at) = <<v.end>>
    BY <2>5, <2>6, SkipOneRead
  <2> QED
    BY <2>3, <2>5, <2>7
<1> HIDE DEF Skips
<1>3. 0 \in S
  BY <1>2 DEF MaxDepth
<1>4. \A level \in 1 .. MaxDepth : level - 1 \in S => level \in S
  BY <1>2 DEF MaxDepth
<1>5. MaxDepth \in S
  <2>1. PICK n \in Nat : n = MaxDepth
    BY DEF MaxDepth
  <2> HIDE DEF S
  <2> QED
    BY <1>3, <1>4, <2>1, UpTo
<1> QED
  BY <1>1, <1>5 DEF Skips, MaxDepth

-----------------------------------------------------------------------------
(* Maps.                                                                   *)

(* readKey has the text of a key and where its value is.                   *)
LEMMA KeyRead ==
  ASSUME NEW s, NEW values, Written(s, values), NEW off \in DOMAIN values,
         TextAt(s, values, off) # Fails
  PROVE  Key(s, off) = <<TextAt(s, values, off)[1], values[off].end>>
<1> DEFINE v == values[off]
           h == <<v.type, v.size, ContentAt(values, off)>>
<1>1. Header(s, off) = h
  BY HeaderRead
<1>2. h # Fails /\ h[1] = v.type /\ h[2] = v.size /\ h[3] = ContentAt(values, off)
  BY DEF Fails
<1>3. TextOf(s, h) = IF v.type = String THEN <<Bytes(s, ContentAt(values, off), v.size)>> ELSE Fails
  BY TextThere
<1> HIDE DEF h
<1>4. Key(s, off) =
        IF h[1] = Pointer
        THEN IF Text(s, h[2]) = Fails THEN Fails ELSE <<Text(s, h[2])[1], h[3]>>
        ELSE IF TextOf(s, h) = Fails THEN Fails ELSE <<TextOf(s, h)[1], h[3] + h[2]>>
  BY <1>1, <1>2, Zenon DEF Key, Then
<1>5. TextAt(s, values, off)
        = IF values[v.behind].type = String
          THEN <<Bytes(s, ContentAt(values, v.behind), values[v.behind].size)>> ELSE Fails
  BY Zenon DEF TextAt
<1>6. CASE v.type = Pointer
  <2>1. v.size \in DOMAIN values /\ v.behind = values[v.size].behind
    BY <1>6, ValueFacts DEF IsPointer
  <2>2. TextAt(s, values, v.size) = TextAt(s, values, off)
    BY <2>1, Zenon DEF TextAt
  <2>3. Text(s, v.size) = TextAt(s, values, off)
    BY <2>1, <2>2, TextRead
  <2>4. v.end = ContentAt(values, off)
    BY <1>6, ValueFacts
  <2> HIDE DEF v
  <2> QED
    BY <1>2, <1>4, <1>6, <2>3, <2>4 DEF v
<1>7. CASE v.type # Pointer
  <2>1. v.behind = off
    BY <1>7, ValueFacts
  <2>2. v.type = String
    BY <1>5, <2>1
  <2>3. v.end = ContentAt(values, off) + v.size
    BY <2>2, FlatHas DEF String, Flat
  <2>4. TextOf(s, h) = TextAt(s, values, off)
    BY <1>3, <1>5, <2>1, <2>2
  <2> HIDE DEF v
  <2> QED
    BY <1>2, <1>4, <1>7, <2>3, <2>4 DEF v
<1> QED
  BY <1>6, <1>7

(* The keys of a map, one after the other.                                 *)
Entries(s, off, count, w) ==
  /\ count > 0 => w[1] = Key(s, off)
  /\ \A k \in 2 .. count : /\ w[k - 1] # Fails /\ Skip(s, w[k - 1][2]) # Fails
                           /\ w[k] = Key(s, Skip(s, w[k - 1][2])[1])

Hits(count, w, key) ==
  {k \in 1 .. count : w[k] # Fails /\ w[k][1] = key}

LEMMA SearchIs ==
  ASSUME NEW s, NEW off, NEW count \in Nat, NEW key, NEW w, Entries(s, off, count, w),
         NEW hits, hits = Hits(count, w, key),
         \A j, k \in hits : j = k
  PROVE  /\ hits = {} => Search(s, off, count, key) = Fails
         /\ \A k \in hits : Search(s, off, count, key) = <<w[k][2]>>
<1> DEFINE Follows(e) == Then(e, LAMBDA g : Then(Skip(s, g[2]), LAMBDA next : Key(s, next[1])))
           F(f) == f = [k \in 1 .. count |-> IF k = 1 THEN Key(s, off) ELSE Follows(f[k - 1])]
           entry == CHOOSE f : F(f)
           hit == {k \in 1 .. count : entry[k] # Fails /\ entry[k][1] = key}
<1>1. \A e : Follows(e) = IF e = Fails THEN Fails
                          ELSE IF Skip(s, e[2]) = Fails THEN Fails ELSE Key(s, Skip(s, e[2])[1])
  BY Zenon DEF Then
<1>2. Search(s, off, count, key)
        = IF hit = {} THEN Fails
          ELSE <<entry[CHOOSE k \in hit : \A other \in hit : k <= other][2]>>
  BY DEF Search
<1> HIDE DEF Follows
<1>3. \A k \in 2 .. count : w[k] = Follows(w[k - 1])
  BY <1>1 DEF Entries
<1>4. F([k \in 1 .. count |-> w[k]])
  <2>1. \A k \in 1 .. count : w[k] = IF k = 1 THEN Key(s, off) ELSE Follows(w[k - 1])
    BY <1>3 DEF Entries
  <2> QED
    BY <2>1
<1>5. F(entry)
  <2> HIDE DEF F
  <2> QED
    BY <1>4
<1> HIDE DEF entry
<1> DEFINE S == {k \in 0 .. count : k = 0 \/ entry[k] = w[k]}
<1>6. ASSUME NEW k \in 1 .. count, k - 1 \in S PROVE k \in S
  <2>1. CASE k = 1
    BY <1>5, <2>1 DEF Entries
  <2>2. CASE k \in 2 .. count
    <3>1. entry[k] = Follows(entry[k - 1])
      BY <1>5, <2>2
    <3>2. entry[k - 1] = w[k - 1]
      BY <1>6, <2>2
    <3> QED
      BY <1>3, <2>2, <3>1, <3>2
  <2> QED
    BY <2>1, <2>2
<1>7. \A m \in 1 .. count : entry[m] = w[m]
  <2> SUFFICES ASSUME NEW m \in 1 .. count PROVE m \in S
    OBVIOUS
  <2>1. 0 \in S /\ m \in Nat
    OBVIOUS
  <2>2. \A k \in 1 .. m : k - 1 \in S => k \in S
    BY <1>6
  <2> HIDE DEF S
  <2> QED
    BY <2>1, <2>2, UpTo
<1>8. hit = hits
  BY <1>7 DEF Hits
<1>9. CASE hits = {}
  BY <1>2, <1>8, <1>9
<1>10. ASSUME NEW k \in hits PROVE Search(s, off, count, key) = <<w[k][2]>>
  <2> DEFINE first == CHOOSE j \in hits : \A other \in hits : j <= other
  <2>0. \A j \in hits : j \in 1 .. count
    BY DEF Hits
  <2>1. \A other \in hits : k <= other
    BY <2>0
  <2>2. first \in hits
    BY <2>1
  <2>3. Search(s, off, count, key) = <<entry[first][2]>>
    BY <1>2, <1>8
  <2> HIDE DEF first
  <2>4. first = k /\ entry[first] = w[k]
    BY <1>7, <2>0, <2>2
  <2> QED
    BY <2>3, <2>4
<1> QED
  BY <1>9, <1>10

(* lookupKey finds the member of a map that was written.                   *)
LEMMA SearchRead ==
  ASSUME NEW s, NEW values, Written(s, values), NEW off \in DOMAIN values, NEW key,
         NEW map, map = values[off], map.type = MapType,
         NEW hits, hits = PairsOf(s, values, map, key)
  PROVE  /\ hits = {} => Search(s, ContentAt(values, off), map.size, key) = Fails
         /\ \A k \in hits : Search(s, ContentAt(values, off), map.size, key) = <<map.items[2 * k]>>
         /\ \A j, k \in hits : j = k
         /\ \A k \in hits : map.items[2 * k] \in DOMAIN values
<1> DEFINE count == map.size
           text(k) == TextAt(s, values, map.items[2 * k - 1])
           w == [k \in 1 .. count |-> <<text(k)[1], map.items[2 * k]>>]
<1>1. count \in Nat /\ IsContainer(values, off, map)
  BY ValueFacts
<1>2. HasKeys(s, values, map)
  <2>1. WrittenAt(s, values, off)
    BY WrittenType
  <2> QED
    BY <2>1, Zenon DEF WrittenAt
<1>3. \A k \in 1 .. count :
        /\ 2 * k \in 1 .. 2 * count /\ 2 * k - 1 \in 1 .. 2 * count
        /\ 2 * k # 1 /\ 2 * k - 1 = 1 <=> k = 1
  BY <1>1
<1>4. \A i \in 1 .. 2 * count :
        /\ map.items[i] \in DOMAIN values /\ values[map.items[i]].level < map.level
        /\ map.items[i] = IF i = 1 THEN ContentAt(values, off) ELSE values[map.items[i - 1]].end
  <2>1. Inside(map.type, map.size) = 2 * count
    BY DEF Inside
  <2> QED
    BY <1>1, <2>1 DEF IsContainer
<1>5. \A k \in 1 .. count : /\ text(k) # Fails
                            /\ \A j \in 1 .. count : text(k) = text(j) => j = k
  BY <1>2, Zenon DEF HasKeys
<1>6. \A k \in 1 .. count : text(k) = <<text(k)[1]>>
  <2> SUFFICES ASSUME NEW k \in 1 .. count PROVE text(k) = <<text(k)[1]>>
    OBVIOUS
  <2>1. PICK o : o = map.items[2 * k - 1]
    OBVIOUS
  <2>2. TextAt(s, values, o) # Fails
    BY <1>5, <2>1
  <2>3. PICK t : TextAt(s, values, o) = <<t>>
    BY <2>2, Zenon DEF TextAt
  <2> QED
    BY <2>1, <2>3
<1> HIDE DEF text
<1>7. \A k \in 1 .. count : w[k] = Key(s, map.items[2 * k - 1])
  <2> SUFFICES ASSUME NEW k \in 1 .. count PROVE w[k] = Key(s, map.items[2 * k - 1])
    OBVIOUS
  <2>1. PICK o \in DOMAIN values : o = map.items[2 * k - 1]
    BY <1>3, <1>4
  <2>2. text(k) # Fails /\ text(k) = TextAt(s, values, o)
    BY <1>5, <2>1 DEF text
  <2>3. Key(s, o) = <<text(k)[1], values[o].end>>
    BY <2>2, KeyRead
  <2>4. values[o].end = map.items[2 * k]
    <3>1. 2 * k \in 1 .. 2 * count /\ 2 * k # 1
      BY <1>3
    <3> QED
      BY <1>4, <2>1, <3>1
  <2>5. w[k] = <<text(k)[1], map.items[2 * k]>>
    OBVIOUS
  <2> QED
    BY <2>1, <2>3, <2>4, <2>5
<1>8. \A k \in 1 .. count : w[k] # Fails /\ w[k][1] = text(k)[1] /\ w[k][2] = map.items[2 * k]
  BY DEF Fails
<1> HIDE DEF w
<1>9. Entries(s, ContentAt(values, off), count, w)
  <2>1. count > 0 => w[1] = Key(s, ContentAt(values, off))
    <3> SUFFICES ASSUME count > 0 PROVE w[1] = Key(s, ContentAt(values, off))
      OBVIOUS
    <3>1. 1 \in 1 .. count
      BY <1>1
    <3>2. 2 * 1 - 1 = 1 /\ 1 \in 1 .. 2 * count
      BY <1>1, <3>1
    <3>3. w[1] = Key(s, map.items[2 * 1 - 1])
      BY <1>7, <3>1
    <3>4. map.items[1] = ContentAt(values, off)
      BY <1>4, <3>2
    <3> QED
      BY <3>2, <3>3, <3>4
  <2>2. ASSUME NEW k \in 2 .. count
        PROVE /\ w[k - 1] # Fails /\ Skip(s, w[k - 1][2]) # Fails
              /\ w[k] = Key(s, Skip(s, w[k - 1][2])[1])
    <3>1. k - 1 \in 1 .. count /\ k \in 1 .. count
      BY <1>1
    <3>2. PICK j \in 1 .. 2 * count : j = 2 * (k - 1)
      BY <1>3, <3>1
    <3>3. j + 1 \in 1 .. 2 * count /\ j + 1 = 2 * k - 1 /\ j + 1 # 1 /\ (j + 1) - 1 = j
      BY <1>1, <3>1, <3>2
    <3>4. PICK o \in DOMAIN values : o = map.items[j] /\ values[o].level < map.level
      BY <1>4
    <3>5. values[o].level <= MaxDepth
      <4>1. values[o].level \in 0 .. MaxDepth + 1
        BY ValueFacts
      <4>2. map.level \in 0 .. MaxDepth + 1
        BY ValueFacts
      <4> QED
        BY <3>4, <4>1, <4>2 DEF MaxDepth
    <3>6. Skip(s, o) = <<values[o].end>>
      BY <3>5, SkipRead
    <3>7. values[o].end = map.items[2 * k - 1]
      BY <1>4, <3>3, <3>4
    <3>8. w[k - 1] # Fails /\ w[k - 1][2] = o
      BY <1>8, <3>1, <3>2, <3>4
    <3>9. w[k] = Key(s, values[o].end)
      BY <1>7, <3>1, <3>7
    <3>10. PICK e : e = values[o].end
      OBVIOUS
    <3>11. Skip(s, w[k - 1][2]) = <<e>>
      BY <3>6, <3>8, <3>10
    <3>12. Skip(s, w[k - 1][2]) # Fails /\ Skip(s, w[k - 1][2])[1] = e
      BY <3>11 DEF Fails
    <3> QED
      BY <3>8, <3>9, <3>10, <3>12
  <2> QED
    BY <2>1, <2>2 DEF Entries
<1>10. hits = Hits(count, w, key)
  <2>1. \A k \in 1 .. count : text(k) = <<key>> <=> w[k] # Fails /\ w[k][1] = key
    BY <1>6, <1>8
  <2>2. hits = {k \in 1 .. count : text(k) = <<key>>}
    BY DEF text, PairsOf
  <2> QED
    BY <2>1, <2>2 DEF Hits
<1>11. \A j, k \in hits : j = k
  <2>1. \A k \in hits : k \in 1 .. count /\ text(k) = <<key>>
    BY DEF text, PairsOf
  <2> QED
    BY <1>5, <2>1
<1>12. /\ hits = {} => Search(s, ContentAt(values, off), count, key) = Fails
       /\ \A k \in hits : Search(s, ContentAt(values, off), count, key) = <<w[k][2]>>
  <2>1. PICK from : from = ContentAt(values, off)
    OBVIOUS
  <2>2. Entries(s, from, count, w)
    BY <1>9, <2>1
  <2>3. /\ hits = {} => Search(s, from, count, key) = Fails
        /\ \A k \in hits : Search(s, from, count, key) = <<w[k][2]>>
    BY <1>1, <1>10, <1>11, <2>2, SearchIs
  <2> QED
    BY <2>1, <2>3
<1>13. \A k \in hits : k \in 1 .. count
  BY DEF PairsOf
<1>14. \A k \in hits : w[k][2] = map.items[2 * k] /\ map.items[2 * k] \in DOMAIN values
  BY <1>3, <1>4, <1>8, <1>13
<1> QED
  BY <1>11, <1>12, <1>14

(* lookupKey has the member that was written, or none.                     *)
LEMMA LookupRead ==
  ASSUME NEW s, NEW values, Written(s, values), NEW off \in DOMAIN values, NEW key
  PROVE  /\ Lookup(s, off, key) = MemberAt(s, values, off, key)
         /\ MemberAt(s, values, off, key) # Fails =>
              MemberAt(s, values, off, key)[1] \in DOMAIN values
<1> DEFINE at == values[off].behind
           map == values[at]
           hits == PairsOf(s, values, map, key)
           h == <<map.type, map.size, ContentAt(values, at)>>
<1>1. at \in DOMAIN values /\ Resolve(s, off) = h
  BY ResolveRead
<1>2. h # Fails /\ h[1] = map.type /\ h[2] = map.size /\ h[3] = ContentAt(values, at)
  BY DEF Fails
<1> HIDE DEF h
<1>3. Lookup(s, off, key) = IF h[1] = MapType THEN Search(s, h[3], h[2], key) ELSE Fails
  BY <1>1, <1>2, Zenon DEF Lookup, Then
<1>4. MemberAt(s, values, off, key) = IF map.type # MapType \/ hits = {} THEN Fails
                                      ELSE <<map.items[2 * (CHOOSE k \in hits : TRUE)]>>
  BY Zenon DEF MemberAt
<1> HIDE DEF at
<1>5. CASE map.type # MapType
  BY <1>2, <1>3, <1>4, <1>5
<1>6. CASE map.type = MapType
  <2>1. PICK m : m = map
    OBVIOUS
  <2>2. PICK hit : hit = hits
    OBVIOUS
  <2>3. hit = PairsOf(s, values, m, key)
    BY <2>1, <2>2
  <2>4. m.type = MapType /\ m = values[at]
    BY <1>6, <2>1
  <2>5. /\ hit = {} => Search(s, ContentAt(values, at), m.size, key) = Fails
        /\ \A k \in hit : Search(s, ContentAt(values, at), m.size, key) = <<m.items[2 * k]>>
        /\ \A k \in hit : m.items[2 * k] \in DOMAIN values
    BY <1>1, <2>3, <2>4, SearchRead
  <2>6. Lookup(s, off, key) = Search(s, ContentAt(values, at), m.size, key)
    BY <1>2, <1>3, <1>6, <2>1
  <2>7. MemberAt(s, values, off, key) = IF hit = {} THEN Fails
                                        ELSE <<m.items[2 * (CHOOSE k \in hit : TRUE)]>>
    BY <1>4, <1>6, <2>1, <2>2
  <2> HIDE DEF hits, map
  <2>8. CASE hit = {}
    BY <2>5, <2>6, <2>7, <2>8
  <2>9. CASE hit # {}
    <3>1. PICK k \in hit : k = CHOOSE j \in hit : TRUE
      BY <2>9
    <3>2. MemberAt(s, values, off, key) = <<m.items[2 * k]>>
      BY <2>7, <2>9, <3>1
    <3> QED
      BY <2>5, <2>6, <3>1, <3>2
  <2> QED
    BY <2>8, <2>9
<1> QED
  BY <1>5, <1>6

(* So are the number, the text and the code of a key.                      *)
LEMMA NumberRead ==
  ASSUME NEW s, NEW values, Written(s, values), NEW off \in DOMAIN values, NEW key
  PROVE  UintBelow(s, off, key) = NumberBelow(s, values, off, key)
<1> DEFINE member == MemberAt(s, values, off, key)
<1>1. Lookup(s, off, key) = member /\ (member # Fails => member[1] \in DOMAIN values)
  BY LookupRead
<1>2. NumberBelow(s, values, off, key)
        = IF member = Fails THEN Fails ELSE NumberAt(s, values, member[1])
  BY Zenon DEF NumberBelow, Then
<1> HIDE DEF member
<1>3. UintBelow(s, off, key) = IF member = Fails THEN Fails ELSE Uint(s, member[1])
  BY <1>1, Zenon DEF UintBelow, Then
<1>4. member # Fails => Uint(s, member[1]) = NumberAt(s, values, member[1])
  BY <1>1, UintRead
<1> QED
  BY <1>2, <1>3, <1>4

LEMMA NameRead ==
  ASSUME NEW s, NEW values, Written(s, values), NEW off \in DOMAIN values, NEW key
  PROVE  TextBelow(s, off, key) = NameBelow(s, values, off, key)
<1> DEFINE member == MemberAt(s, values, off, key)
<1>1. Lookup(s, off, key) = member /\ (member # Fails => member[1] \in DOMAIN values)
  BY LookupRead
<1>2. NameBelow(s, values, off, key)
        = IF member = Fails THEN Fails ELSE TextAt(s, values, member[1])
  BY Zenon DEF NameBelow, Then
<1> HIDE DEF member
<1>3. TextBelow(s, off, key) = IF member = Fails THEN Fails ELSE Text(s, member[1])
  BY <1>1, Zenon DEF TextBelow, Then
<1>4. member # Fails => Text(s, member[1]) = TextAt(s, values, member[1])
  BY <1>1, TextRead
<1> QED
  BY <1>2, <1>3, <1>4

LEMMA CodeRead ==
  ASSUME NEW s, NEW values, Written(s, values), NEW off \in DOMAIN values, NEW key
  PROVE  CodeBelow(s, off, key) = CodeMeant(s, values, off, key)
<1> DEFINE country == MemberAt(s, values, off, key)
           Code(text) == Then(text, LAMBDA code : Normalized(code[1]))
<1>1. Lookup(s, off, key) = country /\ (country # Fails => country[1] \in DOMAIN values)
  BY LookupRead
<1>2. CodeMeant(s, values, off, key)
        = IF country = Fails THEN Fails ELSE Code(NameBelow(s, values, country[1], Iso))
  BY Zenon DEF CodeMeant, Then
<1> HIDE DEF country
<1>3. CodeBelow(s, off, key)
        = IF country = Fails THEN Fails ELSE Code(TextBelow(s, country[1], Iso))
  BY <1>1, Zenon DEF CodeBelow, Then
<1> HIDE DEF Code
<1>4. country # Fails => TextBelow(s, country[1], Iso) = NameBelow(s, values, country[1], Iso)
  BY <1>1, NameRead
<1> QED
  BY <1>2, <1>3, <1>4

-----------------------------------------------------------------------------
(* Whole databases.                                                        *)

(* parseGeoDB gets its numbers from the metadata and opens the tree.       *)
LEMMA ParseRead ==
  ASSUME NEW d \in Databases
  PROVE  Parse(d.file) = <<d.db>>
<1> DEFINE field(key) == UintBelow(d.file.meta, 0, key)
<1>1. /\ d.file.body = d.tree.body
      /\ Opened(d.tree.body, d.tree.nodes, d.tree.size, d.tree.version) = <<d.db>>
      /\ Written(d.file.meta, d.meta) /\ 0 \in DOMAIN d.meta
      /\ Noted(d, NodeCount, d.tree.nodes)
      /\ Noted(d, RecordSize, d.tree.size)
      /\ Noted(d, IpVersion, d.tree.version)
  BY DatabasesAssumption
<1>2. ASSUME NEW key, NEW n, Noted(d, key, n) PROVE field(key) = <<n>>
  BY <1>1, <1>2, NumberRead DEF Noted
<1>3. /\ field(NodeCount) = <<d.tree.nodes>> /\ field(RecordSize) = <<d.tree.size>>
      /\ field(IpVersion) = <<d.tree.version>>
  BY <1>1, <1>2
<1>4. Parse(d.file)
        = IF field(NodeCount) = Fails THEN Fails
          ELSE IF field(RecordSize) = Fails THEN Fails
          ELSE IF field(IpVersion) = Fails THEN Fails
          ELSE Opened(d.file.body, field(NodeCount)[1], field(RecordSize)[1], field(IpVersion)[1])
  BY Zenon DEF Parse, Then
<1> HIDE DEF field
<1>5. /\ field(NodeCount) # Fails /\ field(RecordSize) # Fails /\ field(IpVersion) # Fails
      /\ field(NodeCount)[1] = d.tree.nodes /\ field(RecordSize)[1] = d.tree.size
      /\ field(IpVersion)[1] = d.tree.version
  BY <1>3 DEF Fails
<1> QED
  BY <1>1, <1>4, <1>5

(* What lookupCountry and lookupASN make of a record.                      *)
LEMMA RecordRead ==
  ASSUME NEW d \in Databases, NEW address \in Addresses
  PROVE  <<CountryOf(d.db, address), AsnOf(d.db, address)>> = Said(d, address)
<1> DEFINE s == d.db.data
           values == d.values
           hit == Found(d.tree.networks, d.tree.version, address)
<1>1. /\ d.tree \in Trees
      /\ Opened(d.tree.body, d.tree.nodes, d.tree.size, d.tree.version) = <<d.db>>
      /\ Written(s, values)
      /\ \A p \in DOMAIN d.tree.networks : d.tree.networks[p] \in DOMAIN values
  BY DatabasesAssumption
<1>2. RecordAt(d.db, address) = hit
  BY <1>1, FindsRecords DEF RecordsAreFound
<1>3. hit # Fails => hit[1] \in DOMAIN values
  <2> SUFFICES ASSUME hit # Fails PROVE hit[1] \in DOMAIN values
    OBVIOUS
  <2> DEFINE holders == Holders(d.tree.networks, InTree(d.tree.version, address))
  <2>1. holders # {}
        /\ hit = <<d.tree.networks[TheHolder(d.tree.networks, InTree(d.tree.version, address))]>>
    BY Zenon DEF Found
  <2>2. TheHolder(d.tree.networks, InTree(d.tree.version, address)) \in DOMAIN d.tree.networks
    BY <2>1 DEF TheHolder, Holders
  <2> QED
    BY <1>1, <2>1, <2>2
<1> HIDE DEF hit
<1> DEFINE at == hit[1]
<1>4. CountryOf(d.db, address)
        = IF hit = Fails THEN Fails
          ELSE Else(CodeBelow(s, at, Country), CodeBelow(s, at, Registered))
  BY <1>2, Zenon DEF CountryOf, Then
<1>5. hit # Fails => Else(CodeBelow(s, at, Country), CodeBelow(s, at, Registered))
                         = CountryMeant(s, values, at)
  <2> SUFFICES ASSUME hit # Fails
               PROVE  Else(CodeBelow(s, at, Country), CodeBelow(s, at, Registered))
                        = CountryMeant(s, values, at)
    OBVIOUS
  <2>1. at \in DOMAIN values
    BY <1>3
  <2>2. /\ CodeBelow(s, at, Country) = CodeMeant(s, values, at, Country)
        /\ CodeBelow(s, at, Registered) = CodeMeant(s, values, at, Registered)
    BY <1>1, <2>1, CodeRead
  <2> QED
    BY <2>2, Zenon DEF CountryMeant
<1>6. AsnOf(d.db, address)
        = IF hit = Fails THEN Fails
          ELSE AsnRecord(UintBelow(s, at, Number), TextBelow(s, at, Org))
  BY <1>2, Zenon DEF AsnOf, Then
<1>7. AsnMeant(s, values, at)
        = AsnRecord(NumberBelow(s, values, at, Number), NameBelow(s, values, at, Org))
  BY Zenon DEF AsnMeant
<1>8. hit # Fails => /\ UintBelow(s, at, Number) = NumberBelow(s, values, at, Number)
                       /\ TextBelow(s, at, Org) = NameBelow(s, values, at, Org)
  BY <1>1, <1>3, NumberRead, NameRead
<1>9. Said(d, address)
        = <<IF hit = Fails THEN Fails ELSE CountryMeant(s, values, at),
            IF hit = Fails THEN Fails ELSE AsnMeant(s, values, at)>>
  BY Zenon DEF Said, hit, Then
<1> QED
  BY <1>4, <1>5, <1>6, <1>7, <1>8, <1>9

(* Every database is read as it was written: mmdb.go opens it and says of  *)
(* every address what the records say that were written of its network,    *)
(* whatever their layout, their pointers and the size of the tree's nodes. *)
THEOREM ReadsDatabases == ReadRight
<1>1. \A d \in Databases :
        /\ Parse(d.file) = <<d.db>>
        /\ \A address \in Addresses :
             <<CountryOf(d.db, address), AsnOf(d.db, address)>> = d.says[address]
  <2> SUFFICES ASSUME NEW d \in Databases, NEW address \in Addresses
               PROVE  /\ Parse(d.file) = <<d.db>>
                      /\ <<CountryOf(d.db, address), AsnOf(d.db, address)>> = d.says[address]
    BY ParseRead
  <2>1. d.says[address] = Said(d, address)
    BY DatabasesAssumption
  <2> QED
    BY <2>1, ParseRead, RecordRead
<1> QED
  BY <1>1, FindsRecords, ReadsNodes DEF ReadRight

(* So the answers about countries and networks are right whenever the      *)
(* controller has a database.                                              *)
THEOREM AnswersRight == GeoSpec => []AnswersAreRight
<1>1. AnswersAreRight
  BY ReadsDatabases DEF AnswersAreRight
<1> QED
  BY <1>1, PTL
=============================================================================
