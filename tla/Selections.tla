------------------------------ MODULE Selections ------------------------------
(***************************************************************************)
(* What an instance's record says of chains and selected nodes while its   *)
(* profile's content changes: the checks of UpdateWithOptions when it is   *)
(* saved, the selection handler, whose check and save are two steps, and   *)
(* the reconciliation of selections at a refresh of the subscription.      *)
(***************************************************************************)
EXTENDS Chains

CONSTANTS
  Docs,    \* contents that a profile may have
  Locals,  \* the local nodes and
  Lists,   \*   chains that a client may ask for
  Groupings, \* groups and
  Nodes      \*   nodes that it may select

(* Only the checks find names that are missing.                            *)
ASSUME NoneAssumption == None \notin Docs \cup Groupings \cup {Select, Remote}

(* A client may leave its lists empty.                                     *)
ASSUME ListsAssumption ==
  /\ <<>> \in Locals \cap Lists
  /\ \A list \in Locals \cup Lists : list \in Seq(Range(list))

(* A node of a provider is none of the others, and all of a document's     *)
(* nodes have names.                                                       *)
ASSUME NodesAssumption ==
  /\ Remote # Select
  /\ \A d \in Docs : {None, Remote} \cap DOMAIN d.nodes = {}
  /\ \A local \in Locals : Remote \notin LocalNames(local)

VARIABLES
  doc,      \* the content of the instance's profile
  item,     \* the instance's record
  checked,  \* history: the content that the chain in the record was checked against
  loose,    \* history: has a change since the last refresh bypassed the checks of selections?
  process,  \* None, "starting" or "running"
  request   \* a selection that was accepted and is not saved yet

vars == <<doc, item, checked, loose, process, request>>

Modes == {"rule", "chain"}

Nothing == <<>>  \* no selection: the function of no groups

Init ==
  /\ doc \in Docs
  /\ item = [mode |-> "rule", local |-> <<>>, chain |-> <<>>,
             selected |-> Nothing, group |-> None, proxy |-> None]
  /\ checked = None
  /\ loose = FALSE
  /\ process = None
  /\ request = None

(* A decision on what the profile said before.                             *)
Outdated == IF request = None THEN None ELSE [request EXCEPT !.fresh = FALSE]

-----------------------------------------------------------------------------
(* The content changes.                                                    *)

Holds(valid, group, proxy) == group \in DOMAIN valid /\ proxy \in valid[group]

(* Mutant: keeps the active selection's node with another group.           *)
ReconciledPartly(it, valid) ==
  LET kept == {g \in DOMAIN it.selected : Holds(valid, g, it.selected[g])}
      rest == [it EXCEPT !.selected = Restrict(@, kept)]
  IN  IF valid = <<>> THEN {it}
      ELSE IF it.group = None \/ Holds(valid, it.group, it.proxy) THEN {rest}
      ELSE IF kept = {} THEN {[rest EXCEPT !.group = None]}
      ELSE {[rest EXCEPT !.group = g] : g \in kept}

(* Mutant: falls back to going out directly.                               *)
ReconciledToDirect(it, valid) ==
  LET kept == {g \in DOMAIN it.selected : Holds(valid, g, it.selected[g])}
  IN  IF valid = <<>> \/ it.group = None \/ Holds(valid, it.group, it.proxy)
      THEN {[it EXCEPT !.selected = IF valid = <<>> THEN @ ELSE Restrict(@, kept)]}
      ELSE {[it EXCEPT !.selected = (it.group :> Direct) @@ Restrict(@, kept), !.proxy = Direct]}

(* reconcileInstanceSelection: which groups keep their selection, and the  *)
(* one of them (the first by name) that becomes the active one.            *)
Reconciled(it, valid) ==
  LET kept == {g \in DOMAIN it.selected : Holds(valid, g, it.selected[g])}
      rest == [it EXCEPT !.selected = Restrict(@, kept)]
  IN  IF valid = <<>> THEN {it}
      ELSE IF it.group = None \/ Holds(valid, it.group, it.proxy) THEN {rest}
      ELSE IF kept = {} THEN {[rest EXCEPT !.group = None, !.proxy = None]}
      ELSE {[rest EXCEPT !.group = g, !.proxy = it.selected[g]] : g \in kept}

(* Mutant: reconciles with the content that is being replaced.             *)
RefreshBefore ==
  \E d \in Docs :
    /\ doc' = d
    /\ item' \in IF item.mode = "chain" THEN {item} ELSE Reconciled(item, Groups(doc))
    /\ loose' = (loose /\ item.mode = "chain")
    /\ request' = Outdated
    /\ UNCHANGED <<checked, process>>

(* A fetched subscription, of the same URL or of a new one.                *)
Refresh ==
  \E d \in Docs :
    /\ doc' = d
    /\ item' \in IF item.mode = "chain" THEN {item} ELSE Reconciled(item, Groups(d))
    /\ loose' = (loose /\ item.mode = "chain")
    /\ request' = Outdated
    /\ UNCHANGED <<checked, process>>

(* A client edits the profile, or another instance that shares it.         *)
Patch ==
  \E d \in Docs :
    /\ doc' = d
    /\ loose' = TRUE
    /\ request' = Outdated
    /\ UNCHANGED <<item, checked, process>>

-----------------------------------------------------------------------------
(* The record changes.                                                     *)

(* Mutant: checks the chain when the request has one.                      *)
AcceptsGiven(it, d) ==
  it.mode = "chain" =>
    ParsesLocal(it.local) /\ (it.chain # <<>> /\ it.chain # item.chain => Plans(it, d))

(* The checks of mode, local nodes and chain (validateChainStatic).        *)
Accepts(it, d) ==
  it.mode = "chain" => ParsesLocal(it.local) /\ (it.chain # <<>> => Plans(it, d))

(* UpdateWithOptions: each field is set or kept.  The chain is checked     *)
(* against the file as it is before the request's own `config' replaces    *)
(* it, or against that of the profile that the instance moves to.          *)
Update(it, against, content) ==
  /\ Accepts(it, against)
  /\ item' = it
  /\ checked' = IF it.mode = "chain" THEN against ELSE None
  /\ doc' = content
  /\ loose' = (loose \/ content # doc \/ it.mode # item.mode)
  /\ request' = IF content = doc THEN request ELSE Outdated
  /\ UNCHANGED process

(* One field at a time: what several fields would make of a record, they   *)
(* make of it one after the other in rule mode, where nothing is checked.  *)
Put ==
  \E it \in {[item EXCEPT !.mode = mode] : mode \in Modes}
              \cup {[item EXCEPT !.local = local] : local \in Locals}
              \cup {[item EXCEPT !.chain = chain] : chain \in Lists} :
    \E content \in Docs :
      \/ Update(it, doc, content)
      \/ Update([it EXCEPT !.selected = Nothing, !.group = None, !.proxy = None],
                content, content)

-----------------------------------------------------------------------------
(* The selection handler.                                                  *)

Stopped == process = None

(* ProfileProxyGroupsForInstance, if it can be answered.                   *)
Offered == IF item.mode = "chain" THEN [g \in {Select} |-> Selectable(item, doc)] ELSE Groups(doc)

Answered == item.mode = "chain" => ParsesLocal(item.local) /\ Plans(item, doc)

(* A stopped instance's selection is checked against its profile, where    *)
(* that names the group.  A running one's is for mihomo to accept, and one *)
(* that is not to be applied, or while it starts, is not checked at all.   *)
SelectBegin ==
  /\ request = None
  /\ \E g \in Groupings, p \in Nodes :
       /\ Stopped => Answered /\ (g \in DOMAIN Offered => p \in Offered[g])
       /\ request' = [group |-> g, proxy |-> p, fresh |-> Stopped]
  /\ UNCHANGED <<doc, item, checked, loose, process>>

WithSelection(selected, group, proxy) ==
  [g \in DOMAIN selected \cup {group} |-> IF g = group THEN proxy ELSE selected[g]]

(* SetSelection.                                                           *)
SelectSave ==
  /\ request # None
  /\ item' = [item EXCEPT !.selected = WithSelection(@, request.group, request.proxy),
                          !.group = request.group, !.proxy = request.proxy]
  /\ loose' = (loose \/ ~request.fresh)
  /\ request' = None
  /\ UNCHANGED <<doc, checked, process>>

(* The client goes away, or mihomo or the store refuses.                   *)
SelectFails ==
  /\ request # None
  /\ request' = None
  /\ UNCHANGED <<doc, item, checked, loose, process>>

-----------------------------------------------------------------------------
(* The process.                                                            *)
Start ==
  /\ Stopped
  /\ process' = "starting"
  /\ UNCHANGED <<doc, item, checked, loose, request>>

(* writeRuntimeConfig and all that follows.                                *)
Launch ==
  /\ process = "starting"
  /\ item.mode = "chain" => Builds(item, doc)
  /\ process' = "running"
  /\ UNCHANGED <<doc, item, checked, loose, request>>

Exit ==
  /\ ~Stopped
  /\ process' = None
  /\ UNCHANGED <<doc, item, checked, loose, request>>

Next ==
  \/ Refresh \/ Patch \/ Put
  \/ SelectBegin \/ SelectSave \/ SelectFails
  \/ Start \/ Launch \/ Exit

Spec == Init /\ [][Next]_vars

-----------------------------------------------------------------------------
(* Properties.                                                             *)

Items == [mode : Modes, local : Locals, chain : Lists,
          selected : UNION {[gs -> Nodes] : gs \in SUBSET Groupings},
          group : Groupings \cup {None}, proxy : Nodes \cup {None}]

(* Types; and a record in global-chain mode was checked.                   *)
TypeOK ==
  /\ doc \in Docs
  /\ item \in Items
  /\ checked \in Docs \cup {None}
  /\ item.mode = "chain" <=> checked # None
  /\ loose \in BOOLEAN
  /\ process \in {None, "starting", "running"}
  /\ request \in [group : Groupings, proxy : Nodes, fresh : BOOLEAN] \cup {None}

(* Whatever the chain, the content and the selected node: traffic leaves   *)
(* the MATCH target through every member of the chain, last to first, and  *)
(* then goes out, without a loop.  Only a chain that begins with the group *)
(* leaves a selected node, of the profile, the instance or a provider, the *)
(* dialer-proxy that it brings itself.                                     *)
ChainIsWalked ==
  item.mode = "chain" /\ Builds(item, doc) =>
    LET chain == Chain(item, doc)
    IN  \A pick \in Picks(item, doc) :
          LET hops == FlattenSeq(Reverse([k \in DOMAIN chain |->
                        IF chain[k] = Select THEN <<Select, pick>> ELSE <<chain[k]>>]))
              route == Route(item, doc, pick)
          IN  \/ \A k \in DOMAIN route :
                   route[k] = IF k <= Len(hops) THEN hops[k] ELSE None
              \/ chain[1] = Select /\ Own(item, doc, pick) # None

(* A chain that was accepted can be started, whatever was saved in which   *)
(* order, as long as the content is the one it was checked against; but a  *)
(* node of the profile with a reserved name, or with that of a local node, *)
(* is found only then.                                                     *)
AcceptedChainBuilds ==
  item.mode = "chain" /\ item.chain # <<>> /\ checked = doc /\ ~Clashes(item, doc)
    => Builds(item, doc)

(* The form offers, as members of a chain, nodes that are accepted, and    *)
(* all of them but for those of a profile that has more than it can list.  *)
OfferedIsAccepted ==
  ~LocalError(item.local, doc) =>
    \A offered \in Candidates(item.local, doc),
       n \in (NodeNames(doc, item.local) \cup {Direct, Remote}) \ Reserved :
      LET accepted == Plans([item EXCEPT !.chain = <<n>>], doc)
      IN  /\ n \in offered => accepted
          /\ accepted => \/ n \in offered
                         \/ n \in DOMAIN doc.nodes /\ Truncated(item.local, doc)

(* The active selection is one of the selections by group, whichever of    *)
(* them a refresh drops and whichever takes over.                          *)
ActiveIsSelected ==
  IF item.group = None THEN item.proxy = None
  ELSE item.group \in DOMAIN item.selected /\ item.selected[item.group] = item.proxy

(* From a refresh on, every selection of a group that the content names is *)
(* a node of it; until an edit of the content or of the mode, or a         *)
(* selection that was checked before the refresh or by mihomo.             *)
RefreshedSelectionsExist ==
  item.mode = "rule" /\ ~loose =>
    \A g \in DOMAIN item.selected \cap DOMAIN Groups(doc) :
      item.selected[g] \in Groups(doc)[g]
=============================================================================
