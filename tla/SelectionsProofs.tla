--------------------------- MODULE SelectionsProofs ---------------------------
(***************************************************************************)
(* What Selections guarantees for any contents, lists and names: what the  *)
(* record of an instance says stays true of the profile, a chain that was  *)
(* accepted can be started, and traffic passes it from end to end.         *)
(***************************************************************************)
EXTENDS Selections, SequenceTheorems, WellFoundedInduction, TLAPS

(* A selection that was checked against the content as it is.              *)
FreshExists ==
  item.mode = "rule" /\ ~loose /\ request # None /\ request.fresh
  /\ request.group \in DOMAIN Groups(doc)
    => request.proxy \in Groups(doc)[request.group]

IInv ==
  /\ TypeOK
  /\ Accepts(item, checked)
  /\ ActiveIsSelected
  /\ FreshExists
  /\ RefreshedSelectionsExist

-----------------------------------------------------------------------------
(* Reconciling.                                                            *)

(* A reconciliation changes nothing but the selections.                    *)
LEMMA ReconciledItem ==
  ASSUME NEW it \in Items, NEW valid, NEW new \in Reconciled(it, valid)
  PROVE  /\ new \in Items
         /\ new.mode = it.mode /\ new.local = it.local /\ new.chain = it.chain
<1> DEFINE kept == {g \in DOMAIN it.selected : Holds(valid, g, it.selected[g])}
           rest == [it EXCEPT !.selected = Restrict(@, kept)]
<1>1. PICK gs \in SUBSET Groupings : it.selected \in [gs -> Nodes]
    BY DEF Items
<1>2. kept \in SUBSET Groupings /\ Restrict(it.selected, kept) \in [kept -> Nodes]
    BY <1>1 DEF Restrict
<1>3. Restrict(it.selected, kept) \in UNION {[hs -> Nodes] : hs \in SUBSET Groupings}
  <2> HIDE DEF kept
  <2> QED
      BY <1>2
<1>4. rest \in Items
    BY <1>3 DEF Items
<1>5. \/ new = it \/ new = rest \/ new = [rest EXCEPT !.group = None, !.proxy = None]
      \/ \E g \in kept : new = [rest EXCEPT !.group = g, !.proxy = it.selected[g]]
    BY DEF Reconciled
<1>6. \A g \in kept : g \in Groupings /\ it.selected[g] \in Nodes
    BY <1>1
<1>7. new \in Items
  <2> HIDE DEF kept, rest
  <2> QED
      BY <1>4, <1>5, <1>6 DEF Items
<1> QED
    BY <1>5, <1>7 DEF Items

(* Whatever is dropped, the active selection is one of those that stay.    *)
LEMMA ReconciledActive ==
  ASSUME NEW it \in Items, NEW valid, NEW new \in Reconciled(it, valid),
         IF it.group = None THEN it.proxy = None
         ELSE it.group \in DOMAIN it.selected /\ it.selected[it.group] = it.proxy
  PROVE  IF new.group = None THEN new.proxy = None
         ELSE new.group \in DOMAIN new.selected /\ new.selected[new.group] = new.proxy
<1> DEFINE kept == {g \in DOMAIN it.selected : Holds(valid, g, it.selected[g])}
           rest == [it EXCEPT !.selected = Restrict(@, kept)]
<1>1. DOMAIN rest.selected = kept /\ \A g \in kept : rest.selected[g] = it.selected[g]
    BY DEF Items, Restrict
<1>2. rest.group = it.group /\ rest.proxy = it.proxy
    BY DEF Items
<1>3. CASE valid = <<>>
    BY <1>3 DEF Reconciled
<1>4. CASE valid # <<>> /\ (it.group = None \/ Holds(valid, it.group, it.proxy))
  <2>1. new = rest
      BY <1>4 DEF Reconciled
  <2>2. it.group # None => it.group \in kept
      BY <1>4
  <2> QED
      BY <1>1, <1>2, <2>1, <2>2
<1>5. CASE valid # <<>> /\ ~(it.group = None \/ Holds(valid, it.group, it.proxy)) /\ kept = {}
  <2>1. new = [rest EXCEPT !.group = None, !.proxy = None]
      BY <1>5 DEF Reconciled
  <2> QED
      BY <2>1 DEF Items
<1>6. CASE valid # <<>> /\ ~(it.group = None \/ Holds(valid, it.group, it.proxy)) /\ kept # {}
  <2>1. PICK g \in kept : new = [rest EXCEPT !.group = g, !.proxy = it.selected[g]]
      BY <1>6 DEF Reconciled
  <2>2. new.group = g /\ new.proxy = it.selected[g] /\ new.selected = rest.selected
      BY <2>1 DEF Items
  <2>3. g # None
    <3>1. g \in DOMAIN it.selected
        OBVIOUS
    <3> QED
        BY <3>1, NoneAssumption DEF Items
  <2> QED
      BY <1>1, <2>2, <2>3
<1> QED
    BY <1>3, <1>4, <1>5, <1>6

(* What stays exists, in groups that the content names.                    *)
LEMMA ReconciledExist ==
  ASSUME NEW it \in Items, NEW valid, NEW new \in Reconciled(it, valid)
  PROVE  \A g \in DOMAIN new.selected \cap DOMAIN valid : new.selected[g] \in valid[g]
<1> DEFINE kept == {g \in DOMAIN it.selected : Holds(valid, g, it.selected[g])}
           rest == [it EXCEPT !.selected = Restrict(@, kept)]
<1>1. DOMAIN rest.selected = kept /\ \A g \in kept : rest.selected[g] = it.selected[g]
    BY DEF Items, Restrict
<1>2. valid = <<>> => DOMAIN valid = {}
    OBVIOUS
<1>3. valid # <<>> => new.selected = rest.selected
    BY DEF Reconciled, Items
<1>4. \A g \in kept : it.selected[g] \in valid[g]
    BY DEF Holds
<1> HIDE DEF kept, rest
<1> QED
    BY <1>1, <1>2, <1>3, <1>4

-----------------------------------------------------------------------------
(* The steps.                                                              *)

(* The checks read the mode and the two lists.                             *)
LEMMA AcceptsReads ==
  ASSUME NEW it, NEW new, NEW d,
         new.mode = it.mode, new.local = it.local, new.chain = it.chain
  PROVE  Accepts(it, d) <=> Accepts(new, d)
    BY DEF Accepts, Plans, Chain, Selectable

(* A write of the profile makes a request's check an old one.              *)
LEMMA OutdatedRequest ==
  ASSUME TypeOK
  PROVE  /\ Outdated \in [group : Groupings, proxy : Nodes, fresh : BOOLEAN] \cup {None}
         /\ Outdated # None => ~Outdated.fresh
    BY DEF TypeOK, Outdated

(* A record begins with nothing selected.                                  *)
LEMMA InitIInv == Init => IInv
<1> SUFFICES ASSUME Init PROVE IInv
    OBVIOUS
<1>1. Nothing \in UNION {[gs -> Nodes] : gs \in SUBSET Groupings}
  <2>1. Nothing \in [{} -> Nodes]
      BY DEF Nothing
  <2> QED
      BY <2>1
<1>2. TypeOK
    BY <1>1, ListsAssumption, NoneAssumption DEF Init, TypeOK, Items, Modes
<1> QED
    BY <1>2 DEF Init, IInv, Accepts, ActiveIsSelected, FreshExists, RefreshedSelectionsExist, Nothing

(* A refresh reconciles the selections with the content it saves.          *)
LEMMA RefreshKeeps == ASSUME IInv, Refresh PROVE IInv'
<1>1. PICK d \in Docs :
        /\ doc' = d
        /\ item' \in IF item.mode = "chain" THEN {item} ELSE Reconciled(item, Groups(d))
        /\ loose' = (loose /\ item.mode = "chain")
        /\ request' = Outdated
        /\ UNCHANGED <<checked, process>>
    BY DEF Refresh
<1> USE <1>1 DEF IInv
<1>2. item' \in Items /\ item'.mode = item.mode /\ item'.local = item.local /\ item'.chain = item.chain
    BY ReconciledItem DEF TypeOK
<1>3. TypeOK'
    BY <1>2, OutdatedRequest DEF TypeOK
<1>4. Accepts(item, checked)'
    BY <1>2, AcceptsReads
<1>5. ActiveIsSelected'
    BY ReconciledActive DEF TypeOK, ActiveIsSelected
<1>6. FreshExists'
    BY OutdatedRequest DEF FreshExists
<1>7. RefreshedSelectionsExist'
  <2>1. CASE item.mode = "chain"
      BY <1>2, <2>1 DEF RefreshedSelectionsExist
  <2>2. CASE item.mode # "chain"
      BY <2>2, ReconciledExist DEF TypeOK, RefreshedSelectionsExist
  <2> QED
      BY <2>1, <2>2
<1> QED
    BY <1>3, <1>4, <1>5, <1>6, <1>7

(* An edit of the content leaves the record as it is.                      *)
LEMMA PatchKeeps == ASSUME IInv, Patch PROVE IInv'
<1>1. PICK d \in Docs : doc' = d
    BY DEF Patch
<1>2. loose' = TRUE /\ request' = Outdated /\ UNCHANGED <<item, checked, process>>
    BY DEF Patch
<1> USE <1>1, <1>2 DEF IInv
<1>3. TypeOK'
    BY OutdatedRequest DEF TypeOK
<1>4. FreshExists' /\ RefreshedSelectionsExist'
    BY DEF FreshExists, RefreshedSelectionsExist
<1> QED
    BY <1>3, <1>4 DEF ActiveIsSelected, Accepts, Plans, Chain, Selectable

(* An update keeps the selections or drops them all.                       *)
LEMMA UpdateKeeps ==
  ASSUME IInv, NEW it \in Items, NEW against \in Docs, NEW content \in Docs,
         Update(it, against, content),
         \/ it.selected = item.selected /\ it.group = item.group /\ it.proxy = item.proxy
         \/ it.selected = Nothing /\ it.group = None /\ it.proxy = None
  PROVE  IInv'
<1>1. /\ Accepts(it, against)
      /\ item' = it
      /\ checked' = IF it.mode = "chain" THEN against ELSE None
      /\ doc' = content
      /\ loose' = (loose \/ content # doc \/ it.mode # item.mode)
      /\ request' = IF content = doc THEN request ELSE Outdated
      /\ UNCHANGED process
    BY DEF Update
<1> USE <1>1 DEF IInv
<1>2. TypeOK'
    BY OutdatedRequest, NoneAssumption DEF TypeOK
<1>3. Accepts(item, checked)'
    BY DEF Accepts, Plans, Chain, Selectable
<1>4. ActiveIsSelected'
    BY DEF ActiveIsSelected
<1>5. FreshExists'
    BY OutdatedRequest DEF FreshExists
<1>6. RefreshedSelectionsExist'
  <2>1. DOMAIN Nothing = {}
      BY DEF Nothing
  <2> QED
      BY <2>1 DEF RefreshedSelectionsExist
<1> QED
    BY <1>2, <1>3, <1>4, <1>5, <1>6

(* A PUT checks the record it saves against a content it has read.         *)
LEMMA PutKeeps == ASSUME IInv, Put PROVE IInv'
<1>1. PICK it \in {[item EXCEPT !.mode = mode] : mode \in Modes}
                    \cup {[item EXCEPT !.local = local] : local \in Locals}
                    \cup {[item EXCEPT !.chain = chain] : chain \in Lists},
           content \in Docs :
        \/ Update(it, doc, content)
        \/ Update([it EXCEPT !.selected = Nothing, !.group = None, !.proxy = None], content, content)
    BY DEF Put
<1>2. item \in Items /\ doc \in Docs
    BY DEF IInv, TypeOK
<1>3. /\ it \in Items
      /\ it.selected = item.selected /\ it.group = item.group /\ it.proxy = item.proxy
    BY <1>2 DEF Items
<1>4. CASE Update(it, doc, content)
    BY <1>2, <1>3, <1>4, UpdateKeeps
<1>5. ASSUME Update([it EXCEPT !.selected = Nothing, !.group = None, !.proxy = None], content, content)
      PROVE  IInv'
  <2> DEFINE new == [it EXCEPT !.selected = Nothing, !.group = None, !.proxy = None]
  <2>1. Nothing \in UNION {[gs -> Nodes] : gs \in SUBSET Groupings}
    <3>1. Nothing \in [{} -> Nodes]
        BY DEF Nothing
    <3> QED
        BY <3>1
  <2>2. new \in Items /\ new.selected = Nothing /\ new.group = None /\ new.proxy = None
      BY <1>3, <2>1 DEF Items
  <2>3. Update(new, content, content)
      BY <1>5
  <2> HIDE DEF new
  <2> QED
      BY <2>2, <2>3, UpdateKeeps
<1> QED
    BY <1>1, <1>4, <1>5

(* A selection is checked against the groups of the content.               *)
LEMMA SelectBeginKeeps == ASSUME IInv, SelectBegin PROVE IInv'
<1>1. PICK g \in Groupings, p \in Nodes :
        /\ Stopped => Answered /\ (g \in DOMAIN Offered => p \in Offered[g])
        /\ request' = [group |-> g, proxy |-> p, fresh |-> Stopped]
    BY DEF SelectBegin
<1>2. UNCHANGED <<doc, item, checked, loose, process>>
    BY DEF SelectBegin
<1> USE <1>1, <1>2 DEF IInv
<1>3. TypeOK'
    BY DEF TypeOK, Stopped
<1>4. FreshExists'
    BY DEF FreshExists, Offered
<1> QED
    BY <1>3, <1>4 DEF ActiveIsSelected, RefreshedSelectionsExist, Accepts, Plans, Chain, Selectable

(* What was checked is saved, if no write of the profile came between.     *)
LEMMA SelectSaveKeeps == ASSUME IInv, SelectSave PROVE IInv'
<1>1. request # None /\ request' = None /\ UNCHANGED <<doc, checked, process>>
    BY DEF SelectSave
<1> DEFINE selected == WithSelection(item.selected, request.group, request.proxy)
<1>2. /\ item' = [item EXCEPT !.selected = selected, !.group = request.group, !.proxy = request.proxy]
      /\ loose' = (loose \/ ~request.fresh)
    BY DEF SelectSave
<1>3. request \in [group : Groupings, proxy : Nodes, fresh : BOOLEAN] /\ item \in Items
    BY <1>1 DEF IInv, TypeOK
<1>4. PICK gs \in SUBSET Groupings : item.selected \in [gs -> Nodes]
    BY <1>3 DEF Items
<1>5. /\ selected \in [gs \cup {request.group} -> Nodes]
      /\ selected[request.group] = request.proxy
      /\ \A g \in gs : g # request.group => selected[g] = item.selected[g]
    BY <1>3, <1>4 DEF WithSelection
<1>6. gs \cup {request.group} \in SUBSET Groupings
    BY <1>3
<1> HIDE DEF selected
<1>7. selected \in UNION {[hs -> Nodes] : hs \in SUBSET Groupings}
    BY <1>5, <1>6
<1>8. /\ item' \in Items
      /\ item'.mode = item.mode /\ item'.local = item.local /\ item'.chain = item.chain
      /\ item'.selected = selected /\ item'.group = request.group /\ item'.proxy = request.proxy
    BY <1>2, <1>3, <1>7 DEF Items
<1>9. TypeOK'
    BY <1>1, <1>2, <1>3, <1>8 DEF IInv, TypeOK
<1>10. Accepts(item, checked)'
    BY <1>1, <1>8, AcceptsReads DEF IInv
<1>11. ActiveIsSelected'
    BY <1>3, <1>5, <1>8, NoneAssumption DEF ActiveIsSelected
<1>12. FreshExists'
    BY <1>1 DEF FreshExists
<1>13. RefreshedSelectionsExist'
  <2> SUFFICES ASSUME item.mode = "rule", ~loose, request.fresh,
                      NEW g \in (gs \cup {request.group}) \cap DOMAIN Groups(doc)
               PROVE  selected[g] \in Groups(doc)[g]
      BY <1>1, <1>2, <1>3, <1>5, <1>8 DEF RefreshedSelectionsExist
  <2>1. CASE g = request.group
      BY <1>1, <1>5, <2>1 DEF IInv, FreshExists
  <2>2. CASE g # request.group
      BY <1>4, <1>5, <2>2 DEF IInv, RefreshedSelectionsExist
  <2> QED
      BY <2>1, <2>2
<1> QED
    BY <1>9, <1>10, <1>11, <1>12, <1>13 DEF IInv

(* The other steps change what no part but the types reads.                *)
LEMMA OthersKeep ==
  ASSUME IInv, SelectFails \/ Start \/ Launch \/ Exit \/ UNCHANGED vars PROVE IInv'
<1>1. UNCHANGED <<doc, item, checked, loose>> /\ request' \in {request, None}
    BY DEF SelectFails, Start, Launch, Exit, vars
<1>2. process' \in {process, None, "starting", "running"}
    BY DEF SelectFails, Start, Launch, Exit, vars
<1> USE <1>1 DEF IInv
<1>3. TypeOK'
    BY <1>2 DEF TypeOK
<1>4. FreshExists'
    BY DEF FreshExists
<1> QED
    BY <1>3, <1>4 DEF ActiveIsSelected, RefreshedSelectionsExist, Accepts, Plans, Chain, Selectable

(* Every reachable state satisfies IInv: the record of an instance was     *)
(* checked against a content, its active selection is among those by       *)
(* group, and those that a refresh left are of nodes that the content has  *)
(* (Store.UpdateWithOptions, reconcileInstanceSelection).                  *)
THEOREM InvariantHolds == Spec => []IInv
<1>1. IInv /\ [Next]_vars => IInv'
    BY RefreshKeeps, PatchKeeps, PutKeeps, SelectBeginKeeps, SelectSaveKeeps, OthersKeep DEF Next
<1> QED
    BY InitIInv, <1>1, PTL DEF Spec

(* Types; and a record in global-chain mode was checked.                   *)
THEOREM TypeCorrect == Spec => []TypeOK
<1>1. IInv => TypeOK
    BY DEF IInv
<1> QED
    BY InvariantHolds, <1>1, PTL

(* The active selection (ActiveProxyGroup, SelectedProxy) is one of the    *)
(* selections by group, whichever of them a refresh drops.                 *)
THEOREM ActiveAmongSelected == Spec => []ActiveIsSelected
<1>1. IInv => ActiveIsSelected
    BY DEF IInv
<1> QED
    BY InvariantHolds, <1>1, PTL

(* No refresh leaves a selection of a node that the content no longer has. *)
THEOREM RefreshDropsTheMissing == Spec => []RefreshedSelectionsExist
<1>1. IInv => RefreshedSelectionsExist
    BY DEF IInv
<1> QED
    BY InvariantHolds, <1>1, PTL

-----------------------------------------------------------------------------
(* What the form offers as members of a chain, and what is accepted.       *)
LEMMA OneNodeChain ==
  ASSUME TypeOK, NEW n, n \notin Reserved
  PROVE  LET it == [item EXCEPT !.chain = <<n>>]
         IN  Plans(it, doc) <=> n \in NodeNames(doc, item.local)
<1> DEFINE it == [item EXCEPT !.chain = <<n>>]
<1>1. it.chain = <<n>> /\ it.local = item.local /\ <<n>> # <<>>
    BY DEF TypeOK, Items
<1>2. Chain(it, doc) = <<n>>
    BY <1>1 DEF Chain
<1>3. Range(<<n>>) = {n} /\ IsInjective(<<n>>)
    BY DEF Range, IsInjective
<1>4. n # Select /\ n # Relay
    BY DEF Reserved
<1>5. Members(<<n>>) = {n}
    BY <1>3, <1>4 DEF Members
<1> HIDE DEF it
<1> SUFFICES Plans(it, doc) <=> n \in NodeNames(doc, item.local)
    BY DEF it
<1> QED
    BY <1>1, <1>2, <1>3, <1>4, <1>5 DEF Plans

(* The members that the form offers for a chain (chainCandidates) are      *)
(* those that a chain may have (validateChainStatic), for any contents and *)
(* any limit; only nodes of a profile beyond the limit are left out.       *)
THEOREM OffersWhatIsAccepted == Spec => []OfferedIsAccepted
<1>1. TypeOK => OfferedIsAccepted
  <2> SUFFICES ASSUME TypeOK, ~LocalError(item.local, doc),
                      NEW offered \in Candidates(item.local, doc),
                      NEW n \in (NodeNames(doc, item.local) \cup {Direct, Remote}) \ Reserved
               PROVE  LET accepted == Plans([item EXCEPT !.chain = <<n>>], doc)
                      IN  /\ n \in offered => accepted
                          /\ accepted => \/ n \in offered
                                         \/ n \in DOMAIN doc.nodes /\ Truncated(item.local, doc)
      BY DEF OfferedIsAccepted
  <2>1. Kept(item.local, doc) = {Select} \cup LocalNames(item.local)
      BY DEF Kept
  <2>2. PICK nodes \in SUBSET DOMAIN doc.nodes :
          /\ offered = {Select} \cup LocalNames(item.local) \cup nodes
          /\ ~Truncated(item.local, doc) => nodes = DOMAIN doc.nodes
      BY <2>1 DEF Candidates, kSubset
  <2>3. n # Select
      BY DEF Reserved
  <2>4. Plans([item EXCEPT !.chain = <<n>>], doc) <=> n \in NodeNames(doc, item.local)
      BY OneNodeChain
  <2> QED
      BY <2>2, <2>3, <2>4 DEF NodeNames
<1> QED
    BY <1>1, TypeCorrect, PTL

-----------------------------------------------------------------------------
(* A chain of a client that was planned has a node.                        *)
LEMMA PlannedHasNodes ==
  ASSUME TypeOK, item.chain # <<>>, Plans(item, doc)
  PROVE  NodeNames(doc, item.local) # {} \/ doc.providers
<1>1. Chain(item, doc) = item.chain
    BY DEF Chain
<1>2. item.chain \in Seq(Range(item.chain))
    BY ListsAssumption DEF TypeOK, Items
<1>3. 1 \in DOMAIN item.chain
    BY <1>2, SMT
<1>4. item.chain[1] \in Range(item.chain)
    BY <1>3 DEF Range
<1>5. CASE Select \in Range(item.chain)
    BY <1>1, <1>5 DEF Plans, Selectable
<1>6. CASE Select \notin Range(item.chain)
    BY <1>1, <1>4, <1>6 DEF Plans, Members
<1> QED
    BY <1>5, <1>6

(* A global chain that was accepted for the content it starts with is      *)
(* built (applyGlobalChainConfig), for any names and lists.                *)
THEOREM AcceptedCanStart == Spec => []AcceptedChainBuilds
<1>1. IInv => AcceptedChainBuilds
  <2> SUFFICES ASSUME IInv, item.mode = "chain", item.chain # <<>>, checked = doc, ~Clashes(item, doc)
               PROVE  Builds(item, doc)
      BY DEF AcceptedChainBuilds
  <2>1. ParsesLocal(item.local) /\ Plans(item, doc)
      BY DEF IInv, Accepts
  <2> QED
      BY <2>1, PlannedHasNodes DEF Builds, IInv
<1> QED
    BY <1>1, InvariantHolds, PTL

-----------------------------------------------------------------------------
(* Induction along a sequence.                                             *)
LEMMA OneByOne ==
  ASSUME NEW n \in Nat, NEW S, 1 \in S, \A k \in 1 .. n : k > 1 /\ k - 1 \in S => k \in S
  PROVE  1 .. n \subseteq S
<1> SUFFICES ASSUME {k \in 1 .. n : k \notin S} # {} PROVE FALSE
    OBVIOUS
<1> DEFINE T == {k \in 1 .. n : k \notin S}
           R == {p \in Nat \X Nat : p[1] < p[2]}
<1>1. IsWellFoundedOn(R, Nat)
    BY NatLessThanWellFounded, Zenon DEF OpToRel
<1>2. T \subseteq Nat
    OBVIOUS
<1>3. PICK k \in T : \A j \in T : ~(<<j, k>> \in R)
  <2> HIDE DEF R
  <2> QED
      BY <1>1, <1>2, WFMin, Zenon
<1>4. k > 1 /\ k - 1 \in 1 .. n /\ <<k - 1, k>> \in R
    OBVIOUS
<1> QED
    BY <1>3, <1>4

(* A recursive function is the one that satisfies its equation.            *)
Flattens(f, seqs) ==
  f = [i \in 1 .. Len(seqs) |-> IF i = 1 THEN seqs[i] ELSE f[i - 1] \o seqs[i]]

(* The concatenation of sequences is any function that concatenates.       *)
LEMMA Flattened ==
  ASSUME NEW seqs, Len(seqs) \in Nat, Len(seqs) # 0, NEW flat, Flattens(flat, seqs)
  PROVE  FlattenSeq(seqs) = flat[Len(seqs)]
<1> DEFINE Cat(s, t) == s \o t
           F(f) == f = [i \in 1 .. Len(seqs) |-> IF i = 1 THEN seqs[i] ELSE Cat(f[i - 1], seqs[i])]
           flatten == CHOOSE f : F(f)
           n == Len(seqs)
<1>1. FlattenSeq(seqs) = flatten[n]
    BY DEF FlattenSeq
<1>2. F(flatten) /\ F(flat)
  <2>1. F(flat)
      BY DEF Flattens
  <2> HIDE DEF F
  <2> QED
      BY <2>1
<1> HIDE DEF flatten, Cat
<1> DEFINE Same == {i \in 1 .. n : flatten[i] = flat[i]}
<1>3. 1 \in Same
    BY <1>2
<1>4. \A i \in 1 .. n : i > 1 /\ i - 1 \in Same => i \in Same
    BY <1>2
<1>5. 1 .. n \subseteq Same
  <2>1. n \in Nat
      OBVIOUS
  <2> HIDE DEF Same, F
  <2> QED
      BY <2>1, <1>3, <1>4, OneByOne
<1> QED
    BY <1>1, <1>5

Hop(it, d, pick, n) ==
  IF n = None THEN None ELSE IF n = Select THEN pick ELSE Dialer(it, d, n)

Leads(way, it, d, pick) ==
  way = [k \in 1 .. Len(Chain(it, d)) + 2 |->
           IF k = 1 THEN Last(Chain(it, d)) ELSE Hop(it, d, pick, way[k - 1])]

(* The way of the traffic is any function that takes its hops.             *)
LEMMA Routed ==
  ASSUME NEW it, NEW d, NEW pick, NEW way, Len(Chain(it, d)) \in Nat, Leads(way, it, d, pick)
  PROVE  /\ DOMAIN Route(it, d, pick) = 1 .. Len(Chain(it, d)) + 2
         /\ \A k \in 1 .. Len(Chain(it, d)) + 2 : Route(it, d, pick)[k] = way[k]
<1> DEFINE F(f) == f = [k \in 1 .. Len(Chain(it, d)) + 2 |->
                          IF k = 1 THEN Last(Chain(it, d)) ELSE Hop(it, d, pick, f[k - 1])]
           route == CHOOSE f : F(f)
           n == Len(Chain(it, d)) + 2
<1>1. F(route) /\ F(way)
  <2>1. F(way)
      BY DEF Leads
  <2> HIDE DEF F
  <2> QED
      BY <2>1
<1>2. Route(it, d, pick) = route
    BY DEF Route, Hop
<1> HIDE DEF route
<1> DEFINE Same == {k \in 1 .. n : route[k] = way[k]}
<1>3. 1 \in Same
    BY <1>1
<1>4. \A k \in 1 .. n : k > 1 /\ k - 1 \in Same => k \in Same
    BY <1>1
<1>5. 1 .. n \subseteq Same
  <2>1. n \in Nat
      OBVIOUS
  <2> HIDE DEF Same, n
  <2> QED
      BY <2>1, <1>3, <1>4, OneByOne
<1> QED
    BY <1>1, <1>2, <1>5

-----------------------------------------------------------------------------
(* Beginnings of a function, one or two longer.                            *)
LEMMA Extended ==
  ASSUME NEW w, NEW n \in Nat
  PROVE  /\ [m \in 1 .. n |-> w[m]] \o <<w[n + 1]>> = [m \in 1 .. n + 1 |-> w[m]]
         /\ [m \in 1 .. n |-> w[m]] \o <<w[n + 1], w[n + 2]>> = [m \in 1 .. n + 2 |-> w[m]]
<1> DEFINE V == {w[m] : m \in 1 .. n + 2}
           p == [m \in 1 .. n |-> w[m]]
<1>1. p \in Seq(V) /\ Len(p) = n /\ \A m \in 1 .. n : p[m] = w[m]
    OBVIOUS
<1>2. <<w[n + 1]>> \in Seq(V) /\ <<w[n + 1], w[n + 2]>> \in Seq(V)
    OBVIOUS
<1>3. [m \in 1 .. n + 1 |-> w[m]] \in Seq(V) /\ [m \in 1 .. n + 2 |-> w[m]] \in Seq(V)
    OBVIOUS
<1> HIDE DEF p, V
<1>4. p \o <<w[n + 1]>> = [m \in 1 .. n + 1 |-> w[m]]
    BY <1>1, <1>2, <1>3
<1>5. p \o <<w[n + 1], w[n + 2]>> = [m \in 1 .. n + 2 |-> w[m]]
    BY <1>1, <1>2, <1>3
<1> QED
    BY <1>4, <1>5 DEF p

(* The member before another is the one at the place before it.            *)
LEMMA BeforeAt ==
  ASSUME NEW c, NEW n \in Nat, DOMAIN c = 1 .. n, IsInjective(c), NEW j \in 1 .. n
  PROVE  Before(c, c[j]) = IF j = 1 THEN None ELSE c[j - 1]
<1>1. j = CHOOSE k \in DOMAIN c : c[k] = c[j]
    BY DEF IsInjective
<1> QED
    BY <1>1 DEF Before

(* What a chain that can be built is like.                                 *)
LEMMA ChainFacts ==
  ASSUME TypeOK, Builds(item, doc), NEW pick \in Picks(item, doc)
  PROVE  LET c == Chain(item, doc)
         IN  /\ c \in Seq(Range(c)) /\ Len(c) \in Nat \ {0} /\ DOMAIN c = 1 .. Len(c)
             /\ IsInjective(c)
             /\ None \notin Range(c)
             /\ pick # None /\ pick # Select
             /\ Select \in Range(c) => pick \notin Range(c)
<1> DEFINE c == Chain(item, doc)
<1>1. doc \in Docs /\ item.local \in Locals /\ item.chain \in Lists
    BY DEF TypeOK, Items
<1>2. c \in Seq(Range(c)) /\ c # <<>>
  <2>1. CASE item.chain # <<>>
      BY <1>1, <2>1, ListsAssumption DEF Chain
  <2>2. CASE item.chain = <<>> /\ item.local # <<>> /\ (doc.nodes # <<>> \/ doc.providers)
    <3> DEFINE names == [k \in DOMAIN item.local |-> item.local[k].name]
    <3>1. item.local \in Seq(Range(item.local))
        BY <1>1, ListsAssumption
    <3>2. names \in Seq(LocalNames(item.local))
        BY <3>1 DEF LocalNames
    <3>3. c = Append(names, Select)
        BY <2>2 DEF Chain
    <3>4. c \in Seq(LocalNames(item.local) \cup {Select}) /\ c # <<>>
      <4> HIDE DEF c, names
      <4>1. names \in Seq(LocalNames(item.local) \cup {Select})
          BY <3>2
      <4> QED
          BY <3>3, <4>1, AppendProperties
    <3> HIDE DEF c
    <3> QED
        BY <3>4, SeqOfRange
  <2>3. CASE item.chain = <<>> /\ ~(item.local # <<>> /\ (doc.nodes # <<>> \/ doc.providers))
    <3>1. c = <<Select>>
        BY <2>3 DEF Chain
    <3> QED
        BY <3>1 DEF Range
  <2> QED
      BY <2>1, <2>2, <2>3
<1>3. Len(c) \in Nat \ {0} /\ DOMAIN c = 1 .. Len(c)
    BY <1>2
<1>4. IsInjective(c) /\ Members(c) \subseteq NodeNames(doc, item.local)
    BY DEF Builds, Plans
<1>5. {None, Remote, Select} \cap NodeNames(doc, item.local) = {}
    BY <1>1, NodesAssumption DEF Builds, ParsesLocal, Clashes, NodeNames, Reserved
<1>6. None \notin Range(c) /\ Remote \notin Range(c)
    BY <1>4, <1>5, NoneAssumption, NodesAssumption DEF Members
<1>7. pick \in Selectable(item, doc) \/ pick = Remote
    BY DEF Picks
<1>8. pick \in Selectable(item, doc) =>
        pick \in NodeNames(doc, item.local) /\ (Select \in Range(c) => pick \notin Members(c))
    BY DEF Selectable
<1>9. pick # None /\ pick # Select
    BY <1>5, <1>7, <1>8, NoneAssumption, NodesAssumption
<1> QED
    BY <1>2, <1>3, <1>4, <1>6, <1>7, <1>8, <1>9 DEF Members

-----------------------------------------------------------------------------
(* The way through a chain c with the group at s, and without the group.   *)
WayThrough(c, s, pick) ==
  [k \in 1 .. Len(c) + 2 |->
     IF k <= Len(c) - s + 1 THEN c[Len(c) - k + 1]
     ELSE IF k = Len(c) - s + 2 THEN pick
     ELSE IF k <= Len(c) + 1 THEN c[Len(c) - k + 2] ELSE None]

WayAlong(c) ==
  [k \in 1 .. Len(c) + 2 |-> IF k <= Len(c) THEN c[Len(c) - k + 1] ELSE None]

Hops(c, pick) ==
  FlattenSeq(Reverse([k \in DOMAIN c |-> IF c[k] = Select THEN <<Select, pick>> ELSE <<c[k]>>]))

(* The hops of a chain of nodes are its members, from the last.            *)
LEMMA HopsAlong ==
  ASSUME NEW c, NEW pick, c \in Seq(Range(c)), NEW n \in Nat \ {0}, Len(c) = n, Select \notin Range(c)
  PROVE  Hops(c, pick) = [m \in 1 .. n |-> WayAlong(c)[m]]
<1> DEFINE w == WayAlong(c)
           each == [k \in DOMAIN c |-> IF c[k] = Select THEN <<Select, pick>> ELSE <<c[k]>>]
           seqs == Reverse(each)
           flat == [i \in 1 .. n |-> [m \in 1 .. i |-> w[m]]]
<1>1. DOMAIN c = 1 .. n /\ \A k \in 1 .. n : c[k] # Select
    BY DEF Range
<1>2. \A m \in 1 .. n : w[m] = c[n - m + 1]
    BY DEF WayAlong
<1>3. Len(each) = n /\ \A k \in 1 .. n : each[k] = <<c[k]>>
    BY <1>1
<1>4. Len(seqs) = n /\ \A i \in 1 .. n : seqs[i] = <<w[i]>>
  <2> HIDE DEF each, w
  <2> QED
      BY <1>2, <1>3 DEF Reverse
<1> HIDE DEF w, seqs
<1>5. \A i \in 1 .. n : flat[i] = IF i = 1 THEN seqs[i] ELSE flat[i - 1] \o seqs[i]
  <2> SUFFICES ASSUME NEW i \in 1 .. n
               PROVE  flat[i] = IF i = 1 THEN seqs[i] ELSE flat[i - 1] \o seqs[i]
      OBVIOUS
  <2>1. CASE i = 1
    <3>1. flat[i] = <<w[1]>>
        BY <2>1
    <3> QED
        BY <1>4, <2>1, <3>1
  <2>2. CASE i # 1
    <3>1. i - 1 \in Nat /\ (i - 1) + 1 = i
        BY <2>2
    <3>2. [m \in 1 .. i - 1 |-> w[m]] \o <<w[i]>> = [m \in 1 .. i |-> w[m]]
        BY <3>1, Extended
    <3>3. flat[i - 1] = [m \in 1 .. i - 1 |-> w[m]] /\ flat[i] = [m \in 1 .. i |-> w[m]]
        BY <2>2
    <3> HIDE DEF flat
    <3> QED
        BY <1>4, <2>2, <3>2, <3>3
  <2> QED
      BY <2>1, <2>2
<1>6. Flattens(flat, seqs)
    BY <1>4, <1>5 DEF Flattens
<1>7. FlattenSeq(seqs) = flat[n]
  <2> HIDE DEF flat
  <2> QED
      BY <1>4, <1>6, Flattened
<1> QED
    BY <1>7 DEF Hops, seqs, w

(* Where the group is a member, so is, behind it, the selected node.       *)
LEMMA HopsThrough ==
  ASSUME NEW c, NEW pick, c \in Seq(Range(c)), IsInjective(c),
         NEW n \in Nat \ {0}, Len(c) = n, NEW s \in 1 .. n, c[s] = Select
  PROVE  Hops(c, pick) = [m \in 1 .. n + 1 |-> WayThrough(c, s, pick)[m]]
<1> DEFINE w == WayThrough(c, s, pick)
           each == [k \in DOMAIN c |-> IF c[k] = Select THEN <<Select, pick>> ELSE <<c[k]>>]
           seqs == Reverse(each)
           t == n - s + 1
           flat == [i \in 1 .. n |-> [m \in 1 .. (IF i < t THEN i ELSE i + 1) |-> w[m]]]
<1>1. DOMAIN c = 1 .. n /\ \A k \in 1 .. n : c[k] = Select <=> k = s
    BY DEF IsInjective
<1>2. /\ \A m \in 1 .. t : w[m] = c[n - m + 1]
      /\ w[t] = Select /\ w[t + 1] = pick
      /\ \A m \in t + 1 .. n : w[m + 1] = c[n - m + 1]
    BY DEF WayThrough
<1>3. Len(each) = n /\ \A k \in 1 .. n : each[k] = IF k = s THEN <<Select, pick>> ELSE <<c[k]>>
    BY <1>1
<1>4. /\ Len(seqs) = n
      /\ \A i \in 1 .. n : seqs[i] = IF i = t THEN <<w[i], w[i + 1]>>
                                    ELSE IF i < t THEN <<w[i]>> ELSE <<w[i + 1]>>
  <2>1. Len(seqs) = n /\ \A i \in 1 .. n : seqs[i] = each[n - i + 1]
    <3> HIDE DEF each
    <3> QED
        BY <1>3 DEF Reverse
  <2> HIDE DEF each, w, seqs
  <2>2. ASSUME NEW i \in 1 .. n
        PROVE  seqs[i] = IF i = t THEN <<w[i], w[i + 1]>>
                         ELSE IF i < t THEN <<w[i]>> ELSE <<w[i + 1]>>
    <3>1. n - i + 1 \in 1 .. n /\ (n - i + 1 = s <=> i = t)
        OBVIOUS
    <3>2. CASE i = t
        BY <1>2, <1>3, <2>1, <3>1, <3>2
    <3>3. CASE i < t
        BY <1>2, <1>3, <2>1, <3>1, <3>3
    <3>4. CASE i > t
        BY <1>2, <1>3, <2>1, <3>1, <3>4
    <3> QED
        BY <3>2, <3>3, <3>4
  <2> QED
      BY <2>1, <2>2
<1>5. t \in 1 .. n
    OBVIOUS
<1> HIDE DEF w, seqs, t
<1>6. ASSUME NEW i \in 1 .. n
      PROVE  flat[i] = IF i = 1 THEN seqs[i] ELSE flat[i - 1] \o seqs[i]
  <2>1. /\ i < t => flat[i] = [m \in 1 .. i |-> w[m]]
        /\ ~(i < t) => flat[i] = [m \in 1 .. i + 1 |-> w[m]]
    <3>1. flat[i] = [m \in 1 .. (IF i < t THEN i ELSE i + 1) |-> w[m]]
        OBVIOUS
    <3> HIDE DEF flat
    <3> QED
        BY <3>1, Zenon
  <2>2. /\ i # 1 /\ i - 1 < t => flat[i - 1] = [m \in 1 .. i - 1 |-> w[m]]
        /\ i # 1 /\ ~(i - 1 < t) => flat[i - 1] = [m \in 1 .. i |-> w[m]]
    <3>1. i # 1 => flat[i - 1] = [m \in 1 .. (IF i - 1 < t THEN i - 1 ELSE i) |-> w[m]]
        OBVIOUS
    <3> HIDE DEF flat
    <3> QED
        BY <3>1, Zenon
  <2> HIDE DEF flat
  <2>3. CASE i = 1 /\ i < t
    <3>1. flat[i] = <<w[1]>>
        BY <2>1, <2>3
    <3> QED
        BY <1>4, <2>3, <3>1
  <2>4. CASE i = 1 /\ i = t
    <3>1. flat[i] = <<w[1], w[2]>>
        BY <2>1, <2>4
    <3>2. seqs[i] = <<w[1], w[2]>>
        BY <1>4, <2>4
    <3> QED
        BY <2>4, <3>1, <3>2, Zenon
  <2>5. CASE i # 1 /\ i < t
    <3>1. flat[i] = [m \in 1 .. i |-> w[m]] /\ flat[i - 1] = [m \in 1 .. i - 1 |-> w[m]]
        BY <1>5, <2>1, <2>2, <2>5
    <3>2. i - 1 \in Nat /\ (i - 1) + 1 = i
        BY <2>5
    <3>3. [m \in 1 .. i - 1 |-> w[m]] \o <<w[i]>> = [m \in 1 .. i |-> w[m]]
        BY <3>2, Extended
    <3>4. seqs[i] = <<w[i]>>
        BY <1>4, <1>5, <2>5
    <3> QED
        BY <2>5, <3>1, <3>3, <3>4
  <2>6. CASE i # 1 /\ i = t
    <3>1. flat[i] = [m \in 1 .. i + 1 |-> w[m]] /\ flat[i - 1] = [m \in 1 .. i - 1 |-> w[m]]
        BY <1>5, <2>1, <2>2, <2>6
    <3>2. i - 1 \in Nat /\ (i - 1) + 1 = i /\ (i - 1) + 2 = i + 1
        BY <2>6
    <3>3. [m \in 1 .. i - 1 |-> w[m]] \o <<w[i], w[i + 1]>> = [m \in 1 .. i + 1 |-> w[m]]
      <4>1. [m \in 1 .. i - 1 |-> w[m]] \o <<w[(i - 1) + 1], w[(i - 1) + 2]>>
              = [m \in 1 .. (i - 1) + 2 |-> w[m]]
          BY <3>2, Extended, Zenon
      <4> QED
          BY <3>2, <4>1, Zenon
    <3>4. seqs[i] = <<w[i], w[i + 1]>>
        BY <1>4, <1>5, <2>6
    <3> QED
        BY <2>6, <3>1, <3>3, <3>4
  <2>7. CASE i # 1 /\ i > t
    <3>1. flat[i] = [m \in 1 .. i + 1 |-> w[m]] /\ flat[i - 1] = [m \in 1 .. i |-> w[m]]
        BY <1>5, <2>1, <2>2, <2>7
    <3>2. i \in Nat
        OBVIOUS
    <3>3. [m \in 1 .. i |-> w[m]] \o <<w[i + 1]>> = [m \in 1 .. i + 1 |-> w[m]]
        BY <3>2, Extended
    <3>4. seqs[i] = <<w[i + 1]>>
        BY <1>4, <1>5, <2>7
    <3> QED
        BY <2>7, <3>1, <3>3, <3>4
  <2> QED
      BY <1>5, <2>3, <2>4, <2>5, <2>6, <2>7
<1>7. Flattens(flat, seqs)
    BY <1>4, <1>6 DEF Flattens
<1>8. FlattenSeq(seqs) = flat[n]
  <2> HIDE DEF flat
  <2> QED
      BY <1>4, <1>7, Flattened
<1>9. flat[n] = [m \in 1 .. n + 1 |-> w[m]]
    BY <1>5
<1> QED
    BY <1>8, <1>9 DEF Hops, seqs, w

-----------------------------------------------------------------------------
(* Where the hops lead, without the group.                                 *)
LEMMA RouteAlong ==
  ASSUME NEW it, NEW d, NEW pick, NEW c, c = Chain(it, d), NEW n \in Nat \ {0}, Len(c) = n,
         DOMAIN c = 1 .. n, IsInjective(c), None \notin Range(c), Select \notin Range(c)
  PROVE  /\ DOMAIN Route(it, d, pick) = 1 .. n + 2
         /\ \A k \in 1 .. n + 2 : Route(it, d, pick)[k] = WayAlong(c)[k]
<1> DEFINE way == WayAlong(c)
<1>1. ASSUME NEW k \in 1 .. n + 2
      PROVE  way[k] = IF k = 1 THEN Last(c) ELSE Hop(it, d, pick, way[k - 1])
  <2>1. CASE k = 1
      BY <2>1 DEF WayAlong, Last
  <2>2. CASE k > n + 1
    <3>1. way[k] = None /\ way[k - 1] = None
        BY <2>2 DEF WayAlong
    <3> QED
        BY <2>2, <3>1 DEF Hop
  <2>3. CASE k # 1 /\ k <= n + 1
    <3> DEFINE j == n - k + 2
    <3>1. j \in 1 .. n /\ way[k - 1] = c[j] /\ way[k] = IF j = 1 THEN None ELSE c[j - 1]
        BY <2>3 DEF WayAlong
    <3>2. c[j] \in Range(c) /\ c[j] # None /\ c[j] # Select
        BY <3>1 DEF Range
    <3>3. Before(c, c[j]) = IF j = 1 THEN None ELSE c[j - 1]
        BY <3>1, BeforeAt
    <3>4. Hop(it, d, pick, c[j]) = Before(c, c[j])
        BY <3>2 DEF Hop, Dialer
    <3> QED
        BY <2>3, <3>1, <3>3, <3>4
  <2> QED
      BY <2>1, <2>2, <2>3
<1>2. Leads(way, it, d, pick)
    BY <1>1 DEF WayAlong, Leads
<1> HIDE DEF way
<1>3. /\ DOMAIN Route(it, d, pick) = 1 .. n + 2
      /\ \A k \in 1 .. n + 2 : Route(it, d, pick)[k] = way[k]
    BY <1>2, Routed
<1> QED
    BY <1>3 DEF way

(* Where they lead with it; the selected node gets its place.              *)
LEMMA RouteThrough ==
  ASSUME NEW it, NEW d, NEW pick, NEW c, c = Chain(it, d), NEW n \in Nat \ {0}, Len(c) = n,
         DOMAIN c = 1 .. n, IsInjective(c), None \notin Range(c),
         NEW s \in 1 .. n, c[s] = Select, pick # None, pick # Select, pick \notin Range(c),
         s # 1 \/ Own(it, d, pick) = None
  PROVE  /\ DOMAIN Route(it, d, pick) = 1 .. n + 2
         /\ \A k \in 1 .. n + 2 : Route(it, d, pick)[k] = WayThrough(c, s, pick)[k]
<1> DEFINE way == WayThrough(c, s, pick)
<1>1. Select \in Range(c) /\ Select # None
    BY DEF Range
<1>2. ASSUME NEW j \in 1 .. n, j # s
      PROVE  Hop(it, d, pick, c[j]) = IF j = 1 THEN None ELSE c[j - 1]
  <2>1. c[j] \in Range(c) /\ c[j] # None /\ c[j] # Select
      BY <1>2 DEF Range, IsInjective
  <2>2. Before(c, c[j]) = IF j = 1 THEN None ELSE c[j - 1]
      BY BeforeAt
  <2>3. Hop(it, d, pick, c[j]) = Before(c, c[j])
      BY <2>1 DEF Hop, Dialer
  <2> QED
      BY <2>2, <2>3
<1>3. Hop(it, d, pick, pick) = IF s = 1 THEN None ELSE c[s - 1]
  <2>1. Before(c, Select) = IF s = 1 THEN None ELSE c[s - 1]
      BY BeforeAt
  <2>2. s # 1 => c[s - 1] # None
      BY DEF Range
  <2> QED
      BY <1>1, <2>1, <2>2 DEF Hop, Dialer
<1>4. ASSUME NEW k \in 1 .. n + 2
      PROVE  way[k] = IF k = 1 THEN Last(c) ELSE Hop(it, d, pick, way[k - 1])
  <2>1. CASE k = 1
      BY <2>1 DEF WayThrough, Last
  <2>2. CASE k # 1 /\ k <= n - s + 1
    <3>1. n - k + 2 \in 1 .. n /\ n - k + 2 # s /\ n - k + 2 # 1
        BY <2>2
    <3>2. way[k - 1] = c[n - k + 2] /\ way[k] = c[n - k + 1] /\ n - k + 2 - 1 = n - k + 1
        BY <2>2 DEF WayThrough
    <3> HIDE DEF way
    <3> QED
        BY <1>2, <2>2, <3>1, <3>2
  <2>3. CASE k = n - s + 2
    <3>1. way[k - 1] = Select /\ way[k] = pick /\ k # 1
        BY <2>3 DEF WayThrough
    <3> QED
        BY <1>1, <3>1 DEF Hop
  <2>4. CASE k = n - s + 3
    <3>1. way[k - 1] = pick /\ k # 1 /\ way[k] = IF s = 1 THEN None ELSE c[s - 1]
        BY <2>4 DEF WayThrough
    <3> QED
        BY <1>3, <3>1
  <2>5. CASE k > n - s + 3
    <3>1. n - k + 3 \in 1 .. n /\ n - k + 3 # s
        BY <2>5
    <3>2. way[k - 1] = c[n - k + 3] /\ k # 1
        BY <2>5 DEF WayThrough
    <3>3. way[k] = IF n - k + 3 = 1 THEN None ELSE c[n - k + 3 - 1]
        BY <2>5 DEF WayThrough
    <3> HIDE DEF way
    <3> QED
        BY <1>2, <3>1, <3>2, <3>3
  <2> QED
      BY <2>1, <2>2, <2>3, <2>4, <2>5
<1>5. Leads(way, it, d, pick)
    BY <1>4 DEF WayThrough, Leads
<1> HIDE DEF way
<1>6. /\ DOMAIN Route(it, d, pick) = 1 .. n + 2
      /\ \A k \in 1 .. n + 2 : Route(it, d, pick)[k] = way[k]
    BY <1>5, Routed
<1> QED
    BY <1>6 DEF way

-----------------------------------------------------------------------------
(* Traffic passes every chain that can be built, whatever its length, from *)
(* its last member to its first, the selected node where the group is.     *)
THEOREM TrafficPassesTheChain == Spec => []ChainIsWalked
<1>1. TypeOK => ChainIsWalked
  <2> SUFFICES ASSUME TypeOK, item.mode = "chain", Builds(item, doc), NEW pick \in Picks(item, doc),
                      NEW c, c = Chain(item, doc),
                      ~(c[1] = Select /\ Own(item, doc, pick) # None)
               PROVE  \A k \in DOMAIN Route(item, doc, pick) :
                        Route(item, doc, pick)[k] = IF k <= Len(Hops(c, pick)) THEN Hops(c, pick)[k] ELSE None
      BY DEF ChainIsWalked, Hops
  <2>1. /\ c \in Seq(Range(c)) /\ Len(c) \in Nat \ {0} /\ DOMAIN c = 1 .. Len(c)
        /\ IsInjective(c)
        /\ None \notin Range(c)
        /\ pick # None /\ pick # Select
        /\ Select \in Range(c) => pick \notin Range(c)
      BY ChainFacts
  <2> DEFINE n == Len(c)
  <2>2. CASE Select \notin Range(c)
    <3>1. Hops(c, pick) = [m \in 1 .. n |-> WayAlong(c)[m]]
        BY <2>1, <2>2, HopsAlong
    <3>2. /\ DOMAIN Route(item, doc, pick) = 1 .. n + 2
          /\ \A k \in 1 .. n + 2 : Route(item, doc, pick)[k] = WayAlong(c)[k]
        BY <2>1, <2>2, RouteAlong
    <3>3. \A k \in 1 .. n + 2 : k > n => WayAlong(c)[k] = None
        BY <2>1 DEF WayAlong
    <3>4. Len(Hops(c, pick)) = n /\ \A k \in 1 .. n : Hops(c, pick)[k] = WayAlong(c)[k]
        BY <2>1, <3>1
    <3> QED
        BY <2>1, <3>2, <3>3, <3>4
  <2>3. CASE Select \in Range(c)
    <3>1. PICK s \in 1 .. n : c[s] = Select
        BY <2>1, <2>3 DEF Range
    <3>2. Hops(c, pick) = [m \in 1 .. n + 1 |-> WayThrough(c, s, pick)[m]]
        BY <2>1, <3>1, HopsThrough
    <3>3. /\ DOMAIN Route(item, doc, pick) = 1 .. n + 2
          /\ \A k \in 1 .. n + 2 : Route(item, doc, pick)[k] = WayThrough(c, s, pick)[k]
      <4>1. s # 1 \/ Own(item, doc, pick) = None
          BY <3>1
      <4>2. n \in Nat \ {0} /\ Len(c) = n /\ DOMAIN c = 1 .. n
          BY <2>1
      <4>3. /\ IsInjective(c) /\ None \notin Range(c)
            /\ pick # None /\ pick # Select /\ pick \notin Range(c)
          BY <2>1, <2>3
      <4>4. s \in 1 .. n /\ c[s] = Select /\ c = Chain(item, doc)
          BY <3>1
      <4> HIDE DEF n
      <4> QED
          BY <4>1, <4>2, <4>3, <4>4, RouteThrough
    <3>4. \A k \in 1 .. n + 2 : k > n + 1 => WayThrough(c, s, pick)[k] = None
        BY <2>1 DEF WayThrough
    <3>5. Len(Hops(c, pick)) = n + 1 /\ \A k \in 1 .. n + 1 : Hops(c, pick)[k] = WayThrough(c, s, pick)[k]
        BY <2>1, <3>2
    <3> QED
        BY <2>1, <3>3, <3>4, <3>5
  <2> QED
      BY <2>2, <2>3
<1> QED
    BY <1>1, TypeCorrect, PTL
=============================================================================
