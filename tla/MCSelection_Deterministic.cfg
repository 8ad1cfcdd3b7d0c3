CONSTANTS
  Netmap <- MCNetmap
  AttrKeys <- MCAttrKeys
  NodeAttr <- MCNodeAttr
  InSubnet <- MCInSubnet
  FilterTable <- MCFilterTable
  Matches <- MCMatches
  CBFs <- MCCBFs
  SelectorLists <- MCSelectorLists
  NoValue = NoValue
SPECIFICATION Spec
INVARIANT
  Deterministic
