CONSTANTS
  Reports <- MCReports
  Tables <- MCTables
  Terminals <- MCTerminals
  Glyphs <- MCGlyphs
SPECIFICATION PageSpec
INVARIANTS EverythingIsReadable PageKeepsShape TablesAreGrids
CHECK_DEADLOCK FALSE
