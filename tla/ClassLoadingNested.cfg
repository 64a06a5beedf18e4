SPECIFICATION Spec
CONSTANTS
  Classes = {A, B}
  Files = {f, g}
  Loaders = {k, l}
  NoClass = NoClass
  NoFile = NoFile
  MaxLen = 2
  MaxSource = 2
  MaxLoads = 3
  MaxActs = 1
  Nested = TRUE
INVARIANT ParentsFirst
