SPECIFICATION Spec
CONSTANTS
  Path <- MCPath
  Arg <- MCArg
  Manifest <- MCManifest
  Plugins <- MCPlugins
  Audits <- MCAudits
  Inputs <- MCInputs
  MaxCompared = 2
  maxReviewReasons = 2
  MaxEntries <- MCMaxEntries
  MaxOperationArguments = 3
  MaxFindingRelated = 16
  MaxManifestKinds = 2
  MaxManifestEntryPoints = 2
  MaxHostileStringBytes = 5
  MaxProducedEvidenceRelations = 12
  MaxComparisonRelations = 2
INVARIANTS
  TypeOK
  ReferencesAreLeast
  ScopesAgree
  
  AnalyzedWasAnalyzed
  NeverBoth
  UnboundIsIncomplete
PROPERTIES
  ScanEnds
