\* A path returned for a directory that is not whole.
SPECIFICATION DeliverySpec
CONSTANTS
    Engine = {"ar", "ssd", "solo"}
    Process = {"tui", "other"}
    ProcessOf <- MCProcessOf
    Speculating = {"ssd", "solo"}
    Model = {"7b", "2b", "e2b-hub", "assistant", "EasyDeL-hub", "e2b-bucket"}
    OnHub = {"e2b-hub", "assistant", "EasyDeL-hub"}
    Gemma4 = {"e2b-hub", "assistant", "EasyDeL-hub", "e2b-bucket"}
    Name <- MCName
    Profiles <- MCProfiles
    Uploads <- MCUploads
    NoWeights = NoWeights
    Chips = 8
    MaxFaults = 1
    Retries = 3
    MaxSpawns = 3
    EnvKey <- MCEnvKey
    LocalFiles <- MCLocalFiles
    VmFiles <- MCVmFiles
    Shell <- MCShell
    Host <- MCHost
    HfTokens <- MCHfTokens
INVARIANTS
    ResolvedIsWhole
