\* One run of every project of MCTestRun.
CONSTANTS
  Files = {f1, f2}
  Workers = {w1, w2}
  BuiltInKinds <- MCKinds
  Scalars <- MCScalars
  Identifiers <- MCIdentifiers
  Configs <- MCConfigs
  OuterEnv <- MCOuterEnv
SPECIFICATION Spec
INVARIANTS
  ProcessesAgree
  ContradictionStartsNothing
  OwnDefinition
  FilesAreIsolated
  EnvironmentIsTheFiles
