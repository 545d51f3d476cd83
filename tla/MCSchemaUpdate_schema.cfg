CONSTANTS
  app = app  extension = extension
  a1 = a1  a2 = a2  e1 = e1
  one = one  wide = wide  two = two  forgot = forgot  same = same
  Project = Project  Place = Place
  NoSchema = NoSchema
  Processes = {app, extension}
  Realms = {a1, a2, e1}
  ProcessOf <- MCProcessOf
  Configs = {one, wide, two, forgot}
  VersionOf <- MCVersionOf
  TargetOf <- MCTargetOf
  HasMigration = {two}
  Modes = {"Automatic", "Additive"}
  UsesAfterError = FALSE
  MaxSnapshots = 4
SYMMETRY Threads
SPECIFICATION Spec
INVARIANTS RealmKnowsFile CacheIsRight HistoryInOrder
