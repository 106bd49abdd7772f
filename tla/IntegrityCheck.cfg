\* Two overlapping calls, two changes of the installation.
SPECIFICATION Spec
CONSTANTS
  CriticalFiles <- TwoFiles
  Build <- TwoReleases
  Unlisted = {"x"}
  NoVersion = "none"
  Placeholder = "0.0.0-dev"
  Environments <- Runtimes
  Call = {c1, c2}
  MaxChanges = 2
INVARIANTS
  AlteredFileIsReported
  QuietReportIsExact
