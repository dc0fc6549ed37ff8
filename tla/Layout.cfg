SPECIFICATION HeaderSpec
CONSTANTS
  TypeNames <- MCTypeNames
  Primitives = {"char", "long", "double"}
  Prim <- MCPrim
  TypeDicts <- MCTypeDicts
  Headers <- MCHeaders
  Aliases <- MCAliases
  Overrides = {NoPack}
  STRUCT_HOPS = 4
  PRIMITIVE_HOPS = 6
  ROLE_HOPS = 4
  MaxDepth = 6
  MaxPragmas = 3
  NoPack = NoPack
  NoType = NoType
INVARIANTS
  TypeOK
  LayoutsTiled
  LayoutsAligned
  GuardHonest
  PackScoped
  EstimatedHonest
  AbiCorrect
  CompositionFills
  WarningsReach
PROPERTY CatalogEnds
CHECK_DEADLOCK FALSE
