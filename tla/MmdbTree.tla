------------------------------ MODULE MmdbTree ------------------------------
(***************************************************************************)
(* The tree of a GeoIP database (mmdb.go): the bits of an address lead     *)
(* from node to node to the offset of a record.  What fails is <<>>; what  *)
(* succeeds is a tuple.                                                    *)
(*                                                                         *)
(* The limits to the size of a file are left out; numbers are those of the *)
(* file and of Nat, since none that the reader makes of them overflows.    *)
(***************************************************************************)
EXTENDS Naturals, Sequences

Seqs == INSTANCE SequencesExt

CONSTANTS
  V4Bits, V6Bits,  \* the lengths of addresses
  Mapped,          \* the bits of ::ffff:0:0/96, V6Bits - V4Bits of them
  TreeNodes,       \* records that a node may have
  Trees            \* files with the networks they were written for

ASSUME BitsAssumption ==
  /\ V4Bits \in Nat /\ V6Bits \in Nat /\ V4Bits < V6Bits
  /\ Mapped \in [1 .. V6Bits - V4Bits -> {0, 1}]

Fails == <<>>

Separator == 16  \* geoDBSeparatorSize

Bytes(s, off, n) == SubSeq(s, off + 1, off + n)

Byte == 256                                \* values of a byte
Weight == <<1, Byte, 65536, 16777216>>     \* what a number's bytes count, from the last

(* A number fits in 32 bits.                                               *)
Is32(v) == v \div Weight[4] < Byte

(* Big-endian.                                                             *)
Value(bytes) ==
  LET value[k \in 0 .. Len(bytes)] == IF k = 0 THEN 0 ELSE value[k - 1] * Byte + bytes[k]
  IN  value[Len(bytes)]

-----------------------------------------------------------------------------
(* record: one of the two records of a node's bytes.  Those of 28 bits     *)
(* share a byte.                                                           *)
RecordOf(size, node, bit) ==
  IF size = 28
  THEN (IF bit = 0 THEN node[4] \div 16 ELSE node[4] % 16) * Weight[4]
         + Value(IF bit = 0 THEN SubSeq(node, 1, 3) ELSE SubSeq(node, 5, 7))
  ELSE Value(SubSeq(node, bit * (size \div 8) + 1, (bit + 1) * (size \div 8)))

Follow(db, v, bit) ==
  LET width == db.size \div 4
  IN  IF v >= db.nodes THEN v ELSE RecordOf(db.size, Bytes(db.tree, v * width, width), bit)

(* traverse: where the bits lead; a start may already be a leaf.           *)
Traverse(db, root, bits) ==
  LET value[k \in 0 .. Len(bits)] ==
        IF k = 0 THEN root ELSE Follow(db, value[k - 1], bits[k])
  IN  value[Len(bits)]

Zeros == [k \in 1 .. V6Bits - V4Bits |-> 0]

(* parseGeoDB.  In a tree of IPv6 the addresses of IPv4 are below a run of *)
(* zeros, which is walked once.                                            *)
Opened(body, nodes, size, version) ==
  LET tree == (nodes * size) \div 4
      db == [nodes |-> nodes, size |-> size, version |-> version, v4 |-> 0,
             tree |-> Bytes(body, 0, tree),
             data |-> SubSeq(body, tree + Separator + 1, Len(body))]
  IN  IF \/ nodes = 0 \/ ~Is32(nodes) \/ size \notin {24, 28, 32} \/ version \notin {4, 6}
         \/ tree + Separator > Len(body)
      THEN Fails
      ELSE <<[db EXCEPT !.v4 = IF version = 6 THEN Traverse(db, 0, Zeros) ELSE 0]>>

(* An IPv4 address that is written as one of IPv6 is an IPv4 address.      *)
Unmapped(address) ==
  IF Len(address) = V6Bits /\ SubSeq(address, 1, Len(Mapped)) = Mapped
  THEN SubSeq(address, Len(Mapped) + 1, V6Bits) ELSE address

(* recordOffset.                                                           *)
RecordAt(db, address) ==
  LET bits == Unmapped(address)
      leaf == Traverse(db, IF Len(bits) = V4Bits THEN db.v4 ELSE 0, bits)
  IN  IF \/ Len(bits) # V4Bits /\ db.version = 4
         \/ leaf < db.nodes + Separator
         \/ leaf - db.nodes - Separator >= Len(db.data)
      THEN Fails ELSE <<leaf - db.nodes - Separator>>

-----------------------------------------------------------------------------
(* Nodes, as they are written.                                             *)

(* A number in n bytes, its lowest n of up to four.                        *)
Digits(n, v) == [k \in 1 .. n |-> (v \div Weight[n - k + 1]) % Byte]

(* Two records, one after the other; with 28 bits, the upper four of both  *)
(* are in the byte between them.                                           *)
Packed(size, left, right) ==
  IF size = 28
  THEN Digits(3, left) \o <<16 * (left \div Weight[4]) + right \div Weight[4]>> \o Digits(3, right)
  ELSE Digits(size \div 8, left) \o Digits(size \div 8, right)

(* A number has so few bits.                                               *)
HasBits(size, v) ==
  v \div Weight[4] < (CASE size = 24 -> 1 [] size = 28 -> 16 [] size = 32 -> Byte)

ASSUME NodesAssumption == \A n \in TreeNodes :
  /\ n.size \in {24, 28, 32} /\ n.left \in Nat /\ n.right \in Nat
  /\ HasBits(n.size, n.left) /\ HasBits(n.size, n.right)

(* The reader gets both records of a node back, of any size.               *)
NodesAreRead == \A n \in TreeNodes :
  LET node == Packed(n.size, n.left, n.right)
  IN  RecordOf(n.size, node, 0) = n.left /\ RecordOf(n.size, node, 1) = n.right

-----------------------------------------------------------------------------
(* Networks: prefixes of addresses, mapped to the offsets of records.      *)

Inner(networks) ==
  {<<>>} \cup UNION {Seqs!Prefixes(p) \ {p} : p \in DOMAIN networks}

Holders(networks, bits) == Seqs!Prefixes(bits) \cap DOMAIN networks

TheHolder(networks, bits) == CHOOSE p \in Holders(networks, bits) : TRUE

(* Where the bits of a prefix are to lead: to the record of the network    *)
(* that holds it, to an inner node, or to the number that means nothing.   *)
Place(db, networks, at, bits) ==
  IF Holders(networks, bits) # {}
  THEN db.nodes + Separator + networks[TheHolder(networks, bits)]
  ELSE IF bits \in Inner(networks) THEN at[bits] ELSE db.nodes

(* `at' numbers the nodes of a tree of disjoint networks.                  *)
Represents(db, networks, at) ==
  /\ <<>> \notin DOMAIN networks
  /\ \A p, q \in DOMAIN networks : p \in Seqs!Prefixes(q) => p = q
  /\ \A p \in DOMAIN networks : networks[p] \in 0 .. Len(db.data) - 1
  /\ at[<<>>] = 0
  /\ \A q \in Inner(networks) : at[q] \in 0 .. db.nodes - 1
  /\ \A q \in Inner(networks) :
       LET left == Place(db, networks, at, Append(q, 0))
           right == Place(db, networks, at, Append(q, 1))
           width == db.size \div 4
       IN  /\ HasBits(db.size, left) /\ HasBits(db.size, right)
           /\ Bytes(db.tree, at[q] * width, width) = Packed(db.size, left, right)

ASSUME TreesAssumption == \A t \in Trees :
  /\ t.body \in Seq(0 .. 255) /\ t.nodes \in Nat
  /\ DOMAIN t.networks \subseteq Seq({0, 1})
  /\ Opened(t.body, t.nodes, t.size, t.version) # Fails
  /\ Represents(Opened(t.body, t.nodes, t.size, t.version)[1], t.networks, t.at)

-----------------------------------------------------------------------------
Addresses == [1 .. V4Bits -> {0, 1}] \cup [1 .. V6Bits -> {0, 1}]

(* The bits of an address in a tree of a version.                          *)
InTree(version, address) ==
  LET bits == Unmapped(address)
  IN  IF Len(bits) = V4Bits /\ version = 6 THEN Zeros \o bits ELSE bits

(* What a tree is to say of an address: the record of its network.         *)
Found(networks, version, address) ==
  LET bits == InTree(version, address)
  IN  IF (version = 4 /\ Len(bits) # V4Bits) \/ Holders(networks, bits) = {} THEN Fails
      ELSE <<networks[TheHolder(networks, bits)]>>

(* The reader finds the record of every address, of either version, in     *)
(* trees of either version, and fails where there is none.                 *)
RecordsAreFound == \A t \in Trees, address \in Addresses :
  LET opened == Opened(t.body, t.nodes, t.size, t.version)
  IN  RecordAt(opened[1], address) = Found(t.networks, t.version, address)
=============================================================================
