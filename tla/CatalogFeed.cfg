SPECIFICATION FairSpec
CONSTANTS
  Session = {"s1", "s2"}
  Instance = {"one", "two"}
  Key = {"etag", "last_modified", "last_successful_fetch"}
  Kind = {"attack", "kev"}
  Catalog <- MCCatalog
  Headers <- MCHeaders
  AllowCustom <- MCAllowCustom
  Setups <- MCSetups
  BatchSize = 2
  StreamLimit = 2
  FrameLimit = 3
  MaxFailures = 1
  MaxPurges = 1
  PurgeWhileFetching = FALSE
CHECK_DEADLOCK FALSE
INVARIANTS CatalogTypeOK VersionsUnique CursorMeansStored ReadersSeeTheCatalog
PROPERTIES AckCountsCommit KeepsFeedContract CatalogEventuallyStored
