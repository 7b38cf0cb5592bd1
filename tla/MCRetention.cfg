SPECIFICATION FairSpec
CONSTANTS
  Artifacts = {"a", "b"}
  NoArtifact = "none"
  Files = {"file"}
  FileOf <- SameBytes
  Sweepers = {"w", "v"}
  Lifetime = 1
  MaxDay = 2
  MaxDownloads = 2
  MaxHolds = 1
  MaxMishaps = 1
INVARIANTS DeletedMeansGone
PROPERTIES OnlyDueBytesGo DueIsDeleted
