SPECIFICATION Spec
CONSTANTS
  Threads = {t1, t2}
  NamespaceUsers = {t1}
  Namespace = Namespace
  Types = Types
  Type = Type
  TypesName = TypesName
  TypeName = TypeName
  Slots = {o1, o2, o3, o4, o5}
  Handles = {h1, h2, h3, h4, h5, h6, h7}
  NamespaceHandle = h1
  TypesHandle = h2
  Files = {f, g}
  MissingFiles = {g}
  EmptyFiles = {}
  MaxCalls = 3
  NULL = NULL
INVARIANTS
  CountsAccounted
  NothingFreedInUse
  
  
CHECK_DEADLOCK FALSE
