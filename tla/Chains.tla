-------------------------------- MODULE Chains --------------------------------
(***************************************************************************)
(* The global-chain mode (config.go, chain_candidates.go): from the nodes  *)
(* of a profile, the nodes of an instance and its chain of names, a start  *)
(* generates a select group, a MATCH rule and every node's dialer-proxy,   *)
(* so that traffic passes the chain from its last member to its first.     *)
(*                                                                         *)
(* Of a profile's document matter its nodes, each with the dialer-proxy    *)
(* that it brings itself, whether it has proxy-providers, the one that a   *)
(* node of theirs brings, itself or in their `override', and its groups;   *)
(* of an instance its mode, its local nodes and its chain.  Names are      *)
(* trimmed, and a document names no node twice.                            *)
(***************************************************************************)
EXTENDS Naturals, SequencesExt

CONSTANTS
  Select,  \* globalChainSelectGroupName
  Relay,   \* globalChainRelayGroupName
  Proxy,   \* the group of a profile that has none
  Direct,
  Remote,  \* a node of a proxy-provider
  None,
  Most     \* chainCandidatesMax

ASSUME MostAssumption == Most \in Nat

Reserved == {Select, Relay}

LocalNames(local) == {local[k].name : k \in DOMAIN local}

NodeNames(doc, local) == DOMAIN doc.nodes \cup LocalNames(local)

(* parseLocalProxyItems succeeds.                                          *)
ParsesLocal(local) ==
  /\ IsInjective([k \in DOMAIN local |-> local[k].name])
  /\ LocalNames(local) \cap (Reserved \cup {None}) = {}

-----------------------------------------------------------------------------
(* buildGlobalChainPlan.                                                   *)

Chain(item, doc) ==
  IF item.chain # <<>> THEN item.chain
  ELSE IF item.local # <<>> /\ (doc.nodes # <<>> \/ doc.providers)
  THEN Append([k \in DOMAIN item.local |-> item.local[k].name], Select)
  ELSE <<Select>>

Members(chain) == Range(chain) \ {Select}

(* Mutant: offers what the chain uses already.                             *)
SelectableAll(item, doc) == NodeNames(doc, item.local)

(* What the select group offers, providers aside.                          *)
Selectable(item, doc) ==
  LET chain == Chain(item, doc)
  IN  NodeNames(doc, item.local) \ IF Select \in Range(chain) THEN Members(chain) ELSE {}

Plans(item, doc) ==
  LET chain == Chain(item, doc)
  IN  /\ Relay \notin Range(chain)
      /\ IsInjective(chain)
      /\ Members(chain) \subseteq NodeNames(doc, item.local)
      /\ Select \in Range(chain) => Selectable(item, doc) # {} \/ doc.providers

-----------------------------------------------------------------------------
(* applyGlobalChainConfig.                                                 *)

Clashes(item, doc) == DOMAIN doc.nodes \cap (Reserved \cup LocalNames(item.local)) # {}

Builds(item, doc) ==
  /\ ParsesLocal(item.local)
  /\ NodeNames(doc, item.local) # {} \/ doc.providers
  /\ ~Clashes(item, doc)
  /\ Plans(item, doc)

(* The dialer-proxy that a node of the profile, of its providers or of the *)
(* instance brings.                                                        *)
Own(item, doc, n) ==
  IF n \in DOMAIN doc.nodes THEN doc.nodes[n]
  ELSE IF n = Remote THEN doc.brings
  ELSE LET k == CHOOSE k \in DOMAIN item.local : item.local[k].name = n
       IN  item.local[k].dialer

Before(chain, n) ==
  LET k == CHOOSE k \in DOMAIN chain : chain[k] = n
  IN  IF k = 1 THEN None ELSE chain[k - 1]

(* applyDialerProxyChain and applyProviderDialerProxy: the dialer-proxy of *)
(* node n in the generated configuration.                                  *)
Dialer(item, doc, n) ==
  LET chain == Chain(item, doc)
  IN  IF n \in Range(chain) THEN Before(chain, n)
      ELSE IF Select \in Range(chain) /\ Before(chain, Select) # None THEN Before(chain, Select)
      ELSE Own(item, doc, n)

(* What can be selected in the generated group.                            *)
Picks(item, doc) == Selectable(item, doc) \cup IF doc.providers THEN {Remote} ELSE {}

(* mihomo: where traffic goes, hop by hop, while `pick' is selected.       *)
Route(item, doc, pick) ==
  LET chain == Chain(item, doc)
      hop(n) == IF n = None THEN None
                ELSE IF n = Select THEN pick ELSE Dialer(item, doc, n)
      route[k \in 1 .. Len(chain) + 2] == IF k = 1 THEN Last(chain) ELSE hop(route[k - 1])
  IN  route

-----------------------------------------------------------------------------
(* parseProfileProxyGroupsBase: the groups that a document names itself.   *)
Groups(doc) ==
  IF doc.groups # <<>> THEN doc.groups
  ELSE [g \in IF doc.nodes = <<>> THEN {} ELSE {Proxy} |-> DOMAIN doc.nodes \cup {Direct}]

(* chainCandidates: the names that the form offers as members of a chain.  *)
LocalError(local, doc) ==
  ~ParsesLocal(local) \/ LocalNames(local) \cap DOMAIN doc.nodes # {}

(* The group and the local nodes are always offered, ...                   *)
Kept(local, doc) == {Select} \cup IF LocalError(local, doc) THEN {} ELSE LocalNames(local)

(* ... the profile's nodes as far as there is room.                        *)
Truncated(local, doc) == Cardinality(DOMAIN doc.nodes) + Cardinality(Kept(local, doc)) > Most

Room(local, doc) ==
  IF Cardinality(Kept(local, doc)) < Most THEN Most - Cardinality(Kept(local, doc)) ELSE 0

(* Mutant: offers what the select group offers.                            *)
CandidatesWithProviders(local, doc) ==
  {Kept(local, doc) \cup DOMAIN doc.nodes \cup IF doc.providers THEN {Remote} ELSE {}}

(* The possible offers; which nodes come first, the document says.         *)
Candidates(local, doc) ==
  {Kept(local, doc) \cup nodes :
     nodes \in IF Truncated(local, doc) THEN kSubset(Room(local, doc), DOMAIN doc.nodes)
               ELSE {DOMAIN doc.nodes}}
=============================================================================
