SPECIFICATION Spec
CONSTANTS
  Classes = {A, B}
  Files = {f, g}
  Loaders = {k, l}
  NoClass = NoClass
  NoFile = NoFile
  MaxLen = 2
  MaxSource = 3
  MaxLoads = 2
  MaxActs = 2
  Nested = FALSE
INVARIANTS ParentsFirst LookupsMarked OnceLoadsOnce
PROPERTIES NeverReplaced LookupsEnd
