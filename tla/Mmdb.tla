--------------------------------- MODULE Mmdb ---------------------------------
(***************************************************************************)
(* The reader of GeoIP databases (mmdb.go): MmdbTree's tree leads to the   *)
(* offsets of records, which are read here.                                *)
(*                                                                         *)
(* Keys are a byte each, and a file comes already split at the last marker *)
(* of its metadata.                                                        *)
(***************************************************************************)
EXTENDS MmdbTree

(* Going on with what succeeded.                                           *)
Then(result, Next(_)) == IF result = Fails THEN Fails ELSE Next(result)

Else(result, other) == IF result = Fails THEN other ELSE result

MaxHops == 4     \* geoDBMaxPointerHops
MaxDepth == 32   \* geoDBMaxNestDepth
MaxOrg == 120    \* asnOrgMaxLen

Pointer == 1
String == 2
Unsigned == {5, 6, 9}
MapType == 7
ArrayType == 11
BoolType == 14
Flat == {2, 3, 4, 5, 6, 8, 9, 10, 15}

SizeBias == <<29, 285, 65821>>         \* what longer sizes and targets begin with
PointerBias == <<0, 2048, 526336, 0>>

(* How many values there are in one.                                       *)
Inside(type, size) == IF type = MapType THEN 2 * size ELSE size

(* Keys; the first is country.iso_code's, the last are the metadata's.     *)
Iso == <<105>>
Country == <<99>>
Registered == <<114>>
Number == <<110>>
Org == <<111>>
NodeCount == <<78>>
RecordSize == <<82>>
IpVersion == <<86>>

-----------------------------------------------------------------------------
(* Sections: offsets are counted from 0.                                   *)

Has(s, off, n) == off + n <= Len(s)

(* readPointer.                                                            *)
PointerAt(s, raw, off) ==
  LET width == ((raw \div 8) % 4) + 1
      high == IF width = 4 THEN 0 ELSE raw % 8
  IN  IF ~Has(s, off, width) THEN Fails
      ELSE LET target == Value(<<high>> \o Bytes(s, off, width)) + PointerBias[width]
           IN  IF target >= Len(s) THEN Fails ELSE <<Pointer, target, off + width>>

(* readHeader: the type, the size or target, and the offset that follows.  *)
Header(s, off) ==
  IF ~Has(s, off, 1) THEN Fails
  ELSE
    LET control == s[off + 1]
        extended == control \div 32 = 0
        next == off + IF extended THEN 2 ELSE 1
        raw == control % 32
        more == IF raw < 29 THEN 0 ELSE raw - 28
    IN  IF extended /\ ~Has(s, off, 2) THEN Fails
        ELSE LET type == IF extended THEN 7 + s[off + 2] ELSE control \div 32
             IN  IF type = Pointer THEN PointerAt(s, raw, next)
                 ELSE IF ~Has(s, next, more) THEN Fails
                 ELSE <<type,
                        IF more = 0 THEN raw
                        ELSE SizeBias[more] + Value(Bytes(s, next, more)),
                        next + more>>

(* resolve: the header that a chain of pointers leads to.                  *)
Resolve(s, off) ==
  LET header[hops \in 0 .. MaxHops] ==
        IF hops = 0 THEN Header(s, off)
        ELSE Then(header[hops - 1],
                  LAMBDA h : IF h[1] = Pointer THEN Header(s, h[2]) ELSE h)
  IN  Then(header[MaxHops], LAMBDA h : IF h[1] = Pointer THEN Fails ELSE h)

(* What is in a map or an array, one after the other.                      *)
SkipInside(inner, start, count) ==
  LET ends[k \in 0 .. count] ==
        IF k = 0 THEN <<start>> ELSE Then(ends[k - 1], LAMBDA end : inner[end[1]])
  IN  ends[count]

SkipOne(s, inner, off) ==
  Then(Header(s, off), LAMBDA h :
    IF h[1] \in {Pointer, BoolType} THEN <<h[3]>>
    ELSE IF h[1] \in {MapType, ArrayType} THEN SkipInside(inner, h[3], Inside(h[1], h[2]))
    ELSE IF h[1] \in Flat /\ Has(s, h[3], h[2]) THEN <<h[3] + h[2]>>
    ELSE Fails)

(* skipValue: the offset behind a value, pointers not followed.            *)
Skip(s, off) ==
  LET skip[left \in 0 .. MaxDepth + 1] ==
        [at \in Nat |-> IF left = 0 THEN Fails ELSE SkipOne(s, skip[left - 1], at)]
  IN  skip[MaxDepth + 1][off]

(* readString.                                                             *)
TextOf(s, h) ==
  IF h[1] = String /\ Has(s, h[3], h[2]) THEN <<Bytes(s, h[3], h[2])>> ELSE Fails

Text(s, off) == Then(Resolve(s, off), LAMBDA h : TextOf(s, h))

(* readUint.                                                               *)
Uint(s, off) ==
  Then(Resolve(s, off), LAMBDA h :
    IF h[1] \in Unsigned /\ h[2] <= 8 /\ Has(s, h[3], h[2])
    THEN <<Value(Bytes(s, h[3], h[2]))>> ELSE Fails)

(* Mutant: the value of a key that is a pointer is at its target.          *)
KeyFollowed(s, off) ==
  Then(Resolve(s, off), LAMBDA h :
    Then(TextOf(s, h), LAMBDA name : <<name[1], h[3] + h[2]>>))

(* readKey: the key and the offset of its value.                           *)
Key(s, off) ==
  Then(Header(s, off), LAMBDA h :
    IF h[1] = Pointer
    THEN Then(Text(s, h[2]), LAMBDA name : <<name[1], h[3]>>)
    ELSE Then(TextOf(s, h), LAMBDA name : <<name[1], h[3] + h[2]>>))

(* lookupKey: the offset of the value of a key in the map at `off'.        *)
Search(s, off, count, key) ==
  LET entry[k \in 1 .. count] ==
        IF k = 1 THEN Key(s, off)
        ELSE Then(entry[k - 1], LAMBDA e :
               Then(Skip(s, e[2]), LAMBDA next : Key(s, next[1])))
      hits == {k \in 1 .. count : entry[k] # Fails /\ entry[k][1] = key}
  IN  IF hits = {} THEN Fails
      ELSE <<entry[CHOOSE k \in hits : \A other \in hits : k <= other][2]>>

Lookup(s, off, key) ==
  Then(Resolve(s, off), LAMBDA h :
    IF h[1] = MapType THEN Search(s, h[3], h[2], key) ELSE Fails)

(* The number and the text of a key.                                       *)
UintBelow(s, off, key) == Then(Lookup(s, off, key), LAMBDA at : Uint(s, at[1]))

TextBelow(s, off, key) == Then(Lookup(s, off, key), LAMBDA at : Text(s, at[1]))

-----------------------------------------------------------------------------
(* parseGeoDB.                                                             *)
Parse(file) ==
  Then(UintBelow(file.meta, 0, NodeCount), LAMBDA nodes :
    Then(UintBelow(file.meta, 0, RecordSize), LAMBDA size :
      Then(UintBelow(file.meta, 0, IpVersion), LAMBDA version :
        Opened(file.body, nodes[1], size[1], version[1]))))

(* normalizeCountryCode.                                                   *)
Normalized(code) ==
  LET upper == [k \in DOMAIN code |-> IF code[k] \in 97 .. 122 THEN code[k] - 32 ELSE code[k]]
  IN  IF Len(code) = 2 /\ Seqs!Range(upper) \subseteq 65 .. 90 THEN <<upper>> ELSE Fails

(* lookupCountry.                                                          *)
CodeBelow(s, off, key) ==
  Then(Lookup(s, off, key), LAMBDA country :
    Then(TextBelow(s, country[1], Iso), LAMBDA code : Normalized(code[1])))

CountryOf(db, address) ==
  Then(RecordAt(db, address), LAMBDA at :
    Else(CodeBelow(db.data, at[1], Country), CodeBelow(db.data, at[1], Registered)))

(* sanitizeASNOrg, of names in ASCII.                                      *)
Sanitized(org) ==
  LET kept == SelectSeq(org, LAMBDA c : c >= 32 /\ c # 127)
      inked == {k \in DOMAIN kept : kept[k] # 32}
      trimmed == SubSeq(kept, Seqs!Min(inked), Seqs!Max(inked))
  IN  IF inked = {} THEN <<>> ELSE SubSeq(trimmed, 1, Seqs!Min({Len(trimmed), MaxOrg}))

(* lookupASN, with 0 and <<>> for a number and a name that are not there.  *)
AsnRecord(number, org) ==
  LET short == Then(number, LAMBDA n : IF Is32(n[1]) THEN n ELSE Fails)
      name == Then(org, LAMBDA text : <<Sanitized(text[1])>>)
      asn == <<Else(short, <<0>>)[1], Else(name, <<<<>>>>)[1]>>
  IN  IF asn = <<0, <<>>>> THEN Fails ELSE asn

AsnOf(db, address) ==
  Then(RecordAt(db, address), LAMBDA at :
    AsnRecord(UintBelow(db.data, at[1], Number), TextBelow(db.data, at[1], Org)))
=============================================================================
