SPECIFICATION Spec
CONSTANTS
  h1 = h1
  h2 = h2
  Handlers = {h1, h2}
  Spaces = {1, 2}
  Oldest = 1
  Defaults = 1
  Fickle = {2}
  Serves <- Division
  Places = {0, 1}
  MaxLists = 2
  MaxCards = 2
PROPERTIES
  CardsKeepBoard
  
  KeepsOneList
  LeftOutKept
