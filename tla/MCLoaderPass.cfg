CONSTANTS
  FilePaths <- LoaderFiles
  DirPaths <- LoaderDirs
  LoadPaths <- LoaderSpecs
  MacroName = "n"
SPECIFICATION Spec
INVARIANTS
  CoreAgreesWithoutInference
  LegacyAgreesWhenExtensionless
CHECK_DEADLOCK FALSE
