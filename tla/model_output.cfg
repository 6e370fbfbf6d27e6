CONSTANTS
  MaxOutputBytes = 1
  ToolIds <- MCToolIds
  Entries <- MCEntries
  MaxEntries = 4
  Schemas <- MCSchemas
CHECK_DEADLOCK FALSE
SPECIFICATION OutputSpec
INVARIANTS
  ClosedProtocol
  SchemaIsEnforced
