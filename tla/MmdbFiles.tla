------------------------------ MODULE MmdbFiles ------------------------------
(***************************************************************************)
(* Files of GeoIP databases as they are written, for what Mmdb is to read  *)
(* in them: which bytes a value has, and what the values of a section      *)
(* mean.                                                                   *)
(***************************************************************************)
EXTENDS Mmdb

CONSTANT Databases  \* files, what was written to them, and what they say of addresses

-----------------------------------------------------------------------------
(* Bytes.                                                                  *)

BytesAre(s, off, bytes) == Has(s, off, Len(bytes)) /\ Bytes(s, off, Len(bytes)) = bytes

(* So many bytes follow the first ones for a size.                         *)
SizeBytes(size) ==
  IF size < SizeBias[1] THEN 0
  ELSE IF size < SizeBias[2] THEN 1 ELSE IF size < SizeBias[3] THEN 2 ELSE 3

HasSize(size) == size < SizeBias[3] + Weight[4]

(* The header of a value that is not a pointer.                            *)
Control(type, size) ==
  LET more == SizeBytes(size)
      raw == IF more = 0 THEN size ELSE 28 + more
  IN  (IF type > 7 THEN <<raw, type - 7>> ELSE <<32 * type + raw>>)
        \o (IF more = 0 THEN <<>> ELSE Digits(more, size - SizeBias[more]))

(* What a pointer has of its target: a number with a byte for the last of  *)
(* `width' + 1, of which the first shares the header's.                    *)
HighOf(width, v) == IF width = 4 THEN 0 ELSE v \div Weight[width + 1]

Fits(width, v) ==
  v \in Nat /\ IF width = 4 THEN v \div Weight[4] < Byte ELSE v \div Weight[width + 1] < 8

PointerTo(width, target) ==
  LET v == target - PointerBias[width]
  IN  <<32 * Pointer + 8 * (width - 1) + HighOf(width, v)>> \o Digits(width, v)

-----------------------------------------------------------------------------
(* The values of a section, from their offsets to records:                 *)
(*   type, size    as in the header; for a pointer, its target             *)
(*   width         of a pointer                                            *)
(*   items         offsets of what a map or an array has, one by one       *)
(*   end           the offset behind it                                    *)
(*   level         above that of its items                                 *)
(*   behind, hops  where it leads if it is a pointer, and in how many hops *)

HeadOf(v) == IF v.type = Pointer THEN PointerTo(v.width, v.size) ELSE Control(v.type, v.size)

ContentAt(values, off) == off + Len(HeadOf(values[off]))

(* The texts, numbers and members that were written.                       *)
TextAt(s, values, off) ==
  LET at == values[off].behind
  IN  IF values[at].type = String
      THEN <<Bytes(s, ContentAt(values, at), values[at].size)>> ELSE Fails

NumberAt(s, values, off) ==
  LET at == values[off].behind
  IN  IF values[at].type \in Unsigned /\ values[at].size <= 8
      THEN <<Value(Bytes(s, ContentAt(values, at), values[at].size))>> ELSE Fails

PairsOf(s, values, map, key) ==
  {k \in 1 .. map.size : TextAt(s, values, map.items[2 * k - 1]) = <<key>>}

MemberAt(s, values, off, key) ==
  LET map == values[values[off].behind]
      hits == PairsOf(s, values, map, key)
  IN  IF map.type # MapType \/ hits = {} THEN Fails
      ELSE <<map.items[2 * (CHOOSE k \in hits : TRUE)]>>

NumberBelow(s, values, off, key) ==
  Then(MemberAt(s, values, off, key), LAMBDA at : NumberAt(s, values, at[1]))

NameBelow(s, values, off, key) ==
  Then(MemberAt(s, values, off, key), LAMBDA at : TextAt(s, values, at[1]))

IsPointer(values, v) ==
  /\ v.type = Pointer /\ v.width \in 1 .. 4 /\ v.size \in DOMAIN values
  /\ Fits(v.width, v.size - PointerBias[v.width])
  /\ v.behind = values[v.size].behind /\ v.hops = values[v.size].hops + 1

IsContainer(values, off, v) ==
  /\ v.type \in {MapType, ArrayType} /\ DOMAIN v.items = 1 .. Inside(v.type, v.size)
  /\ \A k \in DOMAIN v.items :
       /\ v.items[k] \in DOMAIN values /\ values[v.items[k]].level < v.level
       /\ v.items[k] = IF k = 1 THEN ContentAt(values, off) ELSE values[v.items[k - 1]].end
  /\ v.end = IF Inside(v.type, v.size) = 0 THEN ContentAt(values, off)
             ELSE values[v.items[Inside(v.type, v.size)]].end

(* The keys of a map are texts, each of them once.                         *)
HasKeys(s, values, v) ==
  LET key(k) == TextAt(s, values, v.items[2 * k - 1])
  IN  \A k \in 1 .. v.size : key(k) # Fails /\ \A j \in 1 .. v.size : key(j) = key(k) => j = k

(* The limits are the reader's: what is in a map nests up to MaxDepth      *)
(* levels, and pointers lead to a value in MaxHops.                        *)
WrittenAt(s, values, off) ==
  LET v == values[off]
  IN  /\ off \in Nat /\ v.size \in Nat
      /\ v.level \in 0 .. MaxDepth + 1 /\ v.hops \in 0 .. MaxHops
      /\ v.behind \in DOMAIN values
      /\ BytesAre(s, off, HeadOf(v))
      /\ \/ IsPointer(values, v) /\ v.end = ContentAt(values, off)
         \/ /\ v.behind = off /\ v.hops = 0 /\ HasSize(v.size)
            /\ \/ v.type = BoolType /\ v.end = ContentAt(values, off)
               \/ v.type \in Flat /\ v.end = ContentAt(values, off) + v.size /\ v.end <= Len(s)
               \/ IsContainer(values, off, v)
      /\ v.type = MapType => HasKeys(s, values, v)

Written(s, values) == s \in Seq(0 .. 255) /\ \A off \in DOMAIN values : WrittenAt(s, values, off)

-----------------------------------------------------------------------------
(* What the record at an offset says.                                      *)
CodeMeant(s, values, off, key) ==
  Then(MemberAt(s, values, off, key), LAMBDA country :
    Then(NameBelow(s, values, country[1], Iso), LAMBDA code : Normalized(code[1])))

CountryMeant(s, values, off) ==
  Else(CodeMeant(s, values, off, Country), CodeMeant(s, values, off, Registered))

AsnMeant(s, values, off) ==
  AsnRecord(NumberBelow(s, values, off, Number), NameBelow(s, values, off, Org))

(* What a database says of an address is what the record says of the       *)
(* network that holds it.                                                  *)
Said(d, address) ==
  LET found == Found(d.tree.networks, d.tree.version, address)
  IN  <<Then(found, LAMBDA at : CountryMeant(d.db.data, d.values, at[1])),
        Then(found, LAMBDA at : AsnMeant(d.db.data, d.values, at[1]))>>

Noted(d, key, n) == NumberBelow(d.file.meta, d.meta, 0, key) = <<n>>

ASSUME DatabasesAssumption == \A d \in Databases :
  /\ d.tree \in Trees /\ d.file.body = d.tree.body
  /\ Opened(d.tree.body, d.tree.nodes, d.tree.size, d.tree.version) = <<d.db>>
  /\ Written(d.file.meta, d.meta) /\ 0 \in DOMAIN d.meta
  /\ Noted(d, NodeCount, d.tree.nodes)
  /\ Noted(d, RecordSize, d.tree.size)
  /\ Noted(d, IpVersion, d.tree.version)
  /\ Written(d.db.data, d.values)
  /\ \A p \in DOMAIN d.tree.networks : d.tree.networks[p] \in DOMAIN d.values
  /\ DOMAIN d.says = Addresses
  /\ \A address \in Addresses : d.says[address] = Said(d, address)

(* The reader finds the record of every address, gets the records of nodes *)
(* back, and says of every address what was written.                       *)
ReadRight ==
  /\ RecordsAreFound
  /\ NodesAreRead
  /\ \A d \in Databases :
       /\ Parse(d.file) = <<d.db>>
       /\ \A address \in Addresses :
            <<CountryOf(d.db, address), AsnOf(d.db, address)>> = d.says[address]
=============================================================================
