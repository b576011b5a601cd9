SPECIFICATION Spec
CONSTANTS
  a1 = a1
  CatAlbums = {a1}
  Sources = {"deezer", "tidal"}
  NoSource = none
  MaxAttempts = 2
  BatchSize = 2
  Setups <- ThreeSetups
INVARIANTS CatalogTypeOK OneWriter  SearchedBeforeUnmatched
PROPERTIES PartialNotExpanded DueRowHandled WaitersAnswered
CHECK_DEADLOCK FALSE
