----------------------------- MODULE MCGeoLookup -----------------------------
(* GeoLookup on small instances, with databases that a writer makes of     *)
(* networks; addresses have two bits, or four.                             *)
EXTENDS GeoLookup, TLC

Symmetry == Permutations(Releases) \cup Permutations(Instances)

MCMapped == <<0, 1>>

-----------------------------------------------------------------------------
(* Values, and how they are written.                                       *)

Flatly(type, bytes) ==
  [type |-> type, size |-> Len(bytes), width |-> 0, bytes |-> bytes, items |-> <<>>]
Str(bytes) == Flatly(String, bytes)
Num(type, v) == Flatly(type, Digits(2, v))
True == [Flatly(BoolType, <<>>) EXCEPT !.size = 1]
Mapping(pairs) == [Flatly(MapType, <<>>) EXCEPT !.size = Len(pairs) \div 2, !.items = pairs]
List(items) == [Flatly(ArrayType, <<>>) EXCEPT !.size = Len(items), !.items = items]
Far(width, target) == [Flatly(Pointer, <<>>) EXCEPT !.size = target, !.width = width]
Ptr(target) == Far(IF target < 2048 THEN 1 ELSE 2, target)

RECURSIVE Encoded(_), Encoding(_)
Encoded(v) == HeadOf(v) \o v.bytes \o Encoding(v.items)
Encoding(vs) == IF vs = <<>> THEN <<>> ELSE Encoded(vs[1]) \o Encoding(Tail(vs))

RECURSIVE Layout(_, _, _), Layouts(_, _, _)
Layout(v, off, level) ==
  LET content == off + Len(HeadOf(v)) + Len(v.bytes)
      item(k) == content + Len(Encoding(SubSeq(v.items, 1, k - 1)))
  IN  (off :> [type |-> v.type, size |-> v.size, width |-> v.width, level |-> level,
               items |-> [k \in DOMAIN v.items |-> item(k)], end |-> item(Len(v.items) + 1)])
        @@ Layouts(v.items, content, level - 1)
Layouts(vs, off, level) ==
  IF vs = <<>> THEN <<>>
  ELSE Layout(vs[1], off, level) @@ Layouts(Tail(vs), off + Len(Encoded(vs[1])), level)

RECURSIVE Led(_, _)
Led(layout, off) ==
  IF layout[off].type # Pointer THEN [behind |-> off, hops |-> 0]
  ELSE LET led == Led(layout, layout[off].size) IN [led EXCEPT !.hops = @ + 1]

(* A section with values behind `pad' bytes.                               *)
Nulls(n) == [k \in 1 .. n |-> 0]

Section(pad, vs) ==
  LET layout == Layouts(vs, pad, MaxDepth + 1)
  IN  [bytes |-> Nulls(pad) \o Encoding(vs),
       values |-> [off \in DOMAIN layout |-> layout[off] @@ Led(layout, off)]]

-----------------------------------------------------------------------------
(* Behind `pad' bytes: shared strings, then records that point at them.    *)
Us == Str(<<117, 115>>)
De == Str(<<68, 69>>)

RECURSIVE Nested(_)
Nested(levels) == IF levels = 0 THEN Num(5, 7) ELSE List(<<Nested(levels - 1)>>)

Plain == Mapping(<<Str(Country), Mapping(<<Str(Iso), Us>>)>>)
Vendor == Mapping(<<Str(Country), Mapping(<<Str(Iso), Str(<<71, 79, 79>>)>>)>>)
Asn == Mapping(<<Str(<<120>>), Str(Nulls(300)), Str(Number), Num(6, 15169),
                 Str(Org), Str([k \in 1 .. MaxOrg + 20 |-> 65])>>)
NoNumber == Mapping(<<Str(Number), True, Str(<<120>>), Nested(MaxDepth), Str(Org), Str(<<32, 9, 66, 127, 32>>)>>)

(* A country without code, skipped values of many types, a pointed key.    *)
Fallback(iso, de) ==
  Mapping(<<Str(<<120>>), List(<<Mapping(<<>>), True, Flatly(3, Nulls(8))>>),
            Str(Country), Mapping(<<Str(<<121>>), Num(5, 7)>>),
            Str(Registered), Mapping(<<Ptr(iso), Far(4, de)>>)>>)

(* Pointers to pointers, the first of them to the last value.              *)
RECURSIVE Chained(_, _, _)
Chained(pad, vs, hops) ==
  IF hops = 0 THEN vs
  ELSE LET last == pad + Len(Encoding(SubSeq(vs, 1, Len(vs) - 1)))
       IN  Chained(pad, Append(vs, Ptr(last)), hops - 1)

Data(pad) ==
  LET begin(vs) == pad + Len(Encoding(vs))
      strings == <<Str(Iso), Us, De>>
      records == strings \o <<Plain, Fallback(pad, begin(<<Str(Iso), Us>>)), Vendor, Asn, NoNumber>>
      all == Chained(pad, Append(records, Ptr(begin(strings))), MaxHops - 1)
  IN  [section |-> Section(pad, all),
       at |-> [k \in 1 .. 7 |-> begin(SubSeq(all, 1, IF k < 7 THEN k + 2 ELSE Len(all) - 1))]]

US == <<<<85, 83>>>>
DE == <<<<68, 69>>>>

(* What the seven records say.                                             *)
Says == << <<US, <<>>>>, <<DE, <<>>>>, <<<<>>, <<>>>>,
           <<<<>>, <<15169, [k \in 1 .. MaxOrg |-> 65]>>>>, <<<<>>, <<0, <<66>>>>>>,
           <<US, <<>>>>, <<US, <<>>>> >>

-----------------------------------------------------------------------------
(* Trees.                                                                  *)
MCTreeNodes ==
  {[size |-> size, left |-> l, right |-> r] :
     size \in {24, 28, 32}, l, r \in {0, 1, 65536, 16777215}}
  \cup
  {[size |-> size, left |-> l, right |-> r] :
     size \in {28, 32}, l, r \in {16777216, 33554433, 268435455}}

(* A database of networks, from prefixes to records.                       *)
Database(size, version, networks, pad) ==
  LET data == Data(pad)
      inner == UNION {{SubSeq(p, 1, k) : k \in 1 .. Len(p) - 1} : p \in DOMAIN networks}
      nodes == <<<<>>>> \o Seqs!SetToSeq(inner)
      index == [q \in inner \cup {<<>>} |-> CHOOSE k \in DOMAIN nodes : nodes[k] = q]
      record(p) == IF p \in DOMAIN networks THEN Len(nodes) + 16 + data.at[networks[p]]
                   ELSE IF p \in inner THEN index[p] - 1 ELSE Len(nodes)
      tree == Seqs!FlattenSeq([k \in DOMAIN nodes |->
                Packed(size, record(Append(nodes[k], 0)), record(Append(nodes[k], 1)))])
      body == tree \o Nulls(16) \o data.section.bytes
      meta == Section(0, <<Mapping(<<Str(NodeCount), Num(6, Len(nodes)), Str(<<120>>), Str(<<1, 2, 3>>),
                                     Str(IpVersion), Num(5, version), Str(RecordSize), Num(5, size)>>)>>)
      bits(a) == LET b == IF Len(a) = 4 /\ SubSeq(a, 1, 2) = MCMapped THEN SubSeq(a, 3, 4) ELSE a
                 IN  IF Len(b) = 2 /\ version = 6 THEN <<0, 0>> \o b ELSE b
      holds(p, a) == (version = 6 \/ Len(bits(a)) = 2) /\ Seqs!IsPrefix(p, bits(a))
  IN  [file |-> [body |-> body, meta |-> meta.bytes],
       db |-> Opened(body, Len(nodes), size, version)[1],
       meta |-> meta.values, values |-> data.section.values,
       tree |-> [body |-> body, nodes |-> Len(nodes), size |-> size, version |-> version,
                 networks |-> [p \in DOMAIN networks |-> data.at[networks[p]]],
                 at |-> [q \in DOMAIN index |-> index[q] - 1]],
       says |-> [a \in Addresses |->
                   IF \E p \in DOMAIN networks : holds(p, a)
                   THEN Says[networks[CHOOSE p \in DOMAIN networks : holds(p, a)]]
                   ELSE <<<<>>, <<>>>>]]

MCDatabases ==
  {Database(size, 6, networks, pad) : size \in {24, 28, 32}, pad \in {0, 2100}, networks \in
     {(<<0, 0, 0>> :> 1) @@ (<<0, 0, 1, 1>> :> 2) @@ (<<0, 1>> :> 3) @@ (<<1>> :> 4),
      (<<0>> :> 6) @@ (<<1, 0>> :> 7),
      (<<0, 0, 1, 0>> :> 5) @@ (<<1, 1, 1, 1>> :> 2)}}
  \cup
  {Database(size, 4, networks, 0) : size \in {24, 28, 32}, networks \in
     {(<<0>> :> 1) @@ (<<1, 1>> :> 7), (<<1, 0>> :> 2)}}

MCTrees == {d.tree : d \in MCDatabases}
=============================================================================
