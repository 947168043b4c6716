\* Three configurations, two crashes and two failing file operations, on Unix and Windows.
CONSTANTS
  MaxVersion = 2  MaxCrashes = 2  MaxFaults = 2
SPECIFICATION FairSpec
INVARIANTS TypeOK HashHonest
PROPERTIES SavedAtOnce OrderlyRestart EventuallySaved
