CONSTANTS
    BackupLists <- MCBackupLists
    Region = "west"
    Requests <- MCRequests
    ConfigMaps <- MCConfigMaps
    JSON404 = TRUE
    JSONInfo4xx = FALSE
    MaxFaults = 1
    MaxPolls = 2
    MaxReruns = 1
SPECIFICATION Spec
INVARIANTS
    TypeOK
    RestoresNewestForeignBackup
    StandbyDoneMeansBackupTaken
PROPERTIES
    SwitchoverReturns
