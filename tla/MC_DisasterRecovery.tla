------------------------- MODULE MC_DisasterRecovery -------------------------
(* This site is in region west.  The daemon lists two valid full backups   *)
(* of region east, a newer one of our own region, a newest one that is not *)
(* a full backup, and one without custom_vars.                             *)
EXTENDS DisasterRecovery

MCBackups ==
    { [id |-> 1, full |-> TRUE,  valid |-> TRUE, region |-> "east"],
      [id |-> 2, full |-> TRUE,  valid |-> TRUE, region |-> "east"],
      [id |-> 3, full |-> TRUE,  valid |-> TRUE, region |-> "west"],
      [id |-> 4, full |-> FALSE, valid |-> TRUE, region |-> "east"],
      [id |-> 5, full |-> TRUE,  valid |-> TRUE, region |-> "noVars"] }

MCModes == {"active", "standby", "disable"}

MCRequests == [mode : MCModes, noWait : BOOLEAN]

\* status-mode and status-status as the DR daemon leaves them, and the
\* "mode" key that the standby branch reads.
MCConfigMaps ==
    [statusMode : {""} \cup MCModes, statusStatus : {"", "running", "done", "failed"},
     mode : {"", "disable"}]

\* That list, or only the backup of our own region.
MCBackupLists ==
    {MCBackups, {[id |-> 3, full |-> TRUE, valid |-> TRUE, region |-> "west"]}}

=============================================================================
