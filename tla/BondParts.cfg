\* A careful application filters, deletes, adds, jumps and loads again; the
\* plugin asks for defaults, foreign keys and notifications while the
\* database changes; keys are asked for while tables are altered; roles are
\* granted and revoked; and values are escaped and restored.
SPECIFICATION Spec
CONSTANTS
  NULL = NULL
  NONE = NONE
  key = key
  name = name
  Field <- MCField
  KeyField = key
  Freed = Freed
  Junk = Junk
  Condition <- MCCondition
  Within <- MCWithin
  ResultSets <- MCResultSets
  Chunk = 2
  Slack = 0
  Discipline = {"lastRow", "clearFirst", "loadFirst", "filterRows", "knownKey", "ownId", "saveFirst", "unfiltered"}
  MaxRow = 3
  MaxRequest = 2
  Column = {"id"}
  Declaration <- MCDeclaration
  Reference <- MCReference
  PluginDiscipline = {"catalogKept", "oneKeyPerColumn"}
  MaxKey = 2
  MaxNote = 2
  Role = {"user", "clerk", "staff", "admin"}
  Tables = {"person", "orders"}
  Attributes <- MCAttributes
  Keys <- MCKeys
  Queries <- MCQueries
  OwnKeys <- MCOwnKeys
  KeyDiscipline = {"dictionary", "columnsKept", "keysKept", "connected", "keyedRows", "keysQueried", "setFirst"}
  Other = {"a"}
  MaxText = 4
  Spare = 2
  More = 2
  PointerSize = 1
INVARIANTS KeyAsDeclared IdsKeepFields FilterExact Addressable IdsInOrder CursorOnRecord KeysUnique RolesInherited WithinBuffer ReadsBack
PROPERTIES IdFromOwnKey JumpFinds DefaultAsDeclared ReferencesFound CheckHandsOldest Heard
