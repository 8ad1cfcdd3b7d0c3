CONSTANTS
  Names <- MCNames
  Keys <- MCKeys
  Literals <- MCLiterals
  ParseUint <- MCParseUint
  Policies <- MCPolicies
  TestNodes <- MCTestNodes
  NoValue = NoValue
SPECIFICATION Spec
INVARIANTS
  RefGraphAcyclic
