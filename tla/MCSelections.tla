----------------------------- MODULE MCSelections -----------------------------
(* Selections on small contents.  a and b are nodes of profiles, h is a    *)
(* local node; G is a group of profiles.                                   *)
EXTENDS Selections

CONSTANTS a, b, h, G

Content(nodes, providers, brings, groups) ==
  [nodes |-> nodes, providers |-> providers, brings |-> brings, groups |-> groups]

MCDocs == {
  Content((a :> None) @@ (b :> None), FALSE, None, (G :> {a, b})),
  Content((a :> b) @@ (b :> h), FALSE, None, <<>>),
  Content(b :> None, TRUE, h, (G :> {b}) @@ (Select :> {b})),
  Content(h :> None, FALSE, None, (G :> {h})),
  Content(<<>>, TRUE, None, <<>>)}

Local(n, d) == [name |-> n, dialer |-> d]

MCLocals == {<<>>, <<Local(h, None)>>, <<Local(h, a), Local(a, h)>>, <<Local(h, None), Local(h, None)>>}

MCLists == {<<>>, <<h, Select>>, <<Select, h>>, <<a, Select, h>>, <<b, a>>, <<a, a>>, <<Relay>>}

MCGroupings == {G, Select}
MCNodes == {a, b}
=============================================================================
