SPECIFICATION ScreenSpec
CONSTANTS
  Width = 80
  Height = 14
  Columns <- ClickedColumns
  TabWidth <- PortugueseLabels
  Commands <- SomeCommands
  Matching <- Queries
  Contents <- SmallProject
  MaxTasks = 2
  MaxDepth = 2
INVARIANTS
  
  ListingIsOfItsDirectory
  HighlightsOnARow
