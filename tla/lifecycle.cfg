SPECIFICATION Spec
CONSTANTS
  Path <- MCPath
  MapName <- MCMapName
  ObjMaps <- MCObjMaps
  ObjProg <- MCObjProg
  knownDuplicateMaps_ <- MCDuplicates
  LongName <- MCLongName
  MaxLoads = 4
  HcPath = "hc"
  Core = {c1, c2}
  Wanted = {"introspection", "flowDebug"}
  Liberties = {}
  MaxStarts = 2
INVARIANTS OneMapPerName FeaturesTrue AttachedIsLoaded NothingLeftBehind RecirculationCurrent LrusBeforeTraffic
