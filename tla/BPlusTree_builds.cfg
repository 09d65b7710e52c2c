SPECIFICATION Spec
CONSTANTS
  Pairs = {1, 2, 3, 4, 5, 6, 7, 8}
  Builds <- SmallBuilds
  NoPage = NoPage
VIEW Unnumbered
INVARIANT TypeOK
INVARIANT ScansFindStored
INVARIANT PagesExact
INVARIANT NodesFit
INVARIANT KeptPathIsFresh
INVARIANT PrefetchesAhead
