CONSTANTS
    Shots = {1, 2}
    Configurations <- MCConfigurations
SPECIFICATION Spec
INVARIANTS StagingIsExact NamedFilesExist RawIsFallback
