SPECIFICATION Spec
CONSTANTS
  a = a
  b = b
  Hashes = {a, b}
  Tabs = {1, 2}
  Results <- Found
  Filters <- FilterSettings
INVARIANTS
  DownloadsAsPicked
  DownloadOffered
  AnchoredAreSelected
