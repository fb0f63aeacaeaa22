SPECIFICATION Spec
CONSTANTS
  a = a
  b = b
  h = h
  G = G
  Select = Select
  Relay = Relay
  Proxy = Proxy
  Direct = Direct
  Remote = Remote
  None = None
  Most = 2
  Docs <- MCDocs
  Locals <- MCLocals
  Lists <- MCLists
  Groupings <- MCGroupings
  Nodes <- MCNodes
INVARIANTS TypeOK ChainIsWalked AcceptedChainBuilds OfferedIsAccepted ActiveIsSelected RefreshedSelectionsExist
