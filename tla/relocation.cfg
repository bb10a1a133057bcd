SPECIFICATION Spec
CONSTANTS
  home = home usb = usb nas = nas p1 = p1 p2 = p2
  Places <- MCPlaces
  Home = home
  Points <- MCPoints
  NoPlace = NoPlace
  Down = Down
  Unavailable = Unavailable
  MaxCrashes = 2
SYMMETRY Alike
INVARIANTS CatalogKept MarkerMeansComplete
