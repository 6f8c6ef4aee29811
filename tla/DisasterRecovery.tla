-------------------------- MODULE DisasterRecovery --------------------------
(***************************************************************************)
(* The switchover function of src/disaster-recovery (drFunction and its    *)
(* clients) and what it drives: the backup-daemon Deployment, whose scale  *)
(* and readiness the function changes and polls, and the backup daemon's   *)
(* REST API, which lists backups and runs backup and restore jobs.  One    *)
(* call of drFunction for one switchover request is modelled; each HTTP    *)
(* or Kubernetes call is a step, each poll of wait.PollUntilContextTimeout *)
(* is an attempt, and the timeout is a bound on attempts.  The daemon's    *)
(* jobs progress on their own between the steps.                           *)
(***************************************************************************)
EXTENDS Naturals, Sequences, FiniteSets, SequencesExt

CONSTANTS
    BackupLists, \* what listbackups and listbackups/<id> may describe
    Region,      \* REGION of this site
    Requests,    \* switchover requests: [mode, noWait]
    ConfigMaps,  \* contents of the DR config map: [statusMode, statusStatus, mode]
    JSON404,     \* whether the daemon's 404 body for jobstatus decodes as a Status
    JSONInfo4xx, \* whether a 4xx body of listbackups/<id> decodes as a BackupInfo
    MaxFaults,   \* bound on failed or refused calls
    MaxPolls,    \* attempts a poll makes before its timeout (timeout / interval)
    MaxReruns    \* bound on switchovers run again after a failure or a restart

\* A backup as getLastFullBackup reads it: its id (fixed-width timestamps,
\* so string order is numeric order), whether db_list is "full backup",
\* valid, and custom_vars["region"]: "noVars" when custom_vars is nil or
\* empty, "" when the key is missing.
BackupInfos == [id : Nat, full : BOOLEAN, valid : BOOLEAN, region : STRING]

ASSUME \A bs \in BackupLists : bs \subseteq BackupInfos
ASSUME JSON404 \in BOOLEAN /\ JSONInfo4xx \in BOOLEAN
ASSUME MaxFaults \in Nat /\ MaxPolls \in Nat \ {0} /\ MaxReruns \in Nat

NoBackup == [id |-> 0, full |-> FALSE, valid |-> FALSE, region |-> "noVars"]

VARIABLES
    req,          \* the ControllerRequest
    backups,      \* the backups the daemon holds
    cm,           \* configMap.Data
    replicas,     \* spec.replicas of the backup-daemon Deployment
    daemonReady,  \* its ready and updated replicas equal spec.replicas
    jobs,         \* the daemon's jobs: [id, kind, vault, status]
    pc,           \* where drFunction is
    polls,        \* attempts made by the poll in progress
    faults,
    handle,       \* vaultID / jobID the client holds
    target,       \* id of the backup the client asked to restore, 0 if none
    scaledUp,     \* what IsDeploymentScaledUp returned
    reruns,       \* times drFunction was called again for the same request
    creds         \* the daemon client got the credentials of its secret

vars == <<req, backups, cm, replicas, daemonReady, jobs, pc, polls, faults, handle, target, scaledUp, reruns, creds>>

-----------------------------------------------------------------------------
(* The REST client: SendRequestWithStatusCodeCheck makes only a status of  *)
(* 500 or more, and transport errors, an error; a 4xx answer returns its   *)
(* body with no error.  Where that body is then decoded as JSON (the       *)
(* backup list) the decoding fails and the attempt is retried.             *)

\* The outcomes of a call made after n failed calls of the same step.
OutcomesAfter(n) == IF faults + n < MaxFaults THEN {"ok", "4xx", "5xx", "net"} ELSE {"ok"}

Outcomes == OutcomesAfter(0)

Cost(o) == IF o = "ok" THEN 0 ELSE 1

Charge(o) == faults' = faults + Cost(o)

\* Calls to the backup daemon.  Without credentials (GetSecretCredentials
\* failed and returned none) a request carries no basic auth and the
\* daemon, deployed with that secret, answers 401, a 4xx; the failed
\* secret read is the fault, the 401s that follow are its consequence.
DaemonOutcomesAfter(n) == IF creds THEN OutcomesAfter(n) ELSE {"4xx"}

DaemonCost(o) == IF creds THEN Cost(o) ELSE 0

\* What the client holds after a call: nothing, a job id, or a response body
\* that is not a job id (the text of a 4xx answer).
NoHandle == [kind |-> "none", id |-> 0]
JobHandle(j) == [kind |-> "job", id |-> j]
TextHandle == [kind |-> "text", id |-> 0]

NewJob(kind, vault) ==
    [id |-> Cardinality(jobs) + 1, kind |-> kind, vault |-> vault, status |-> "running"]

\* getLastFullBackup's filter: a valid full backup with non-empty
\* custom_vars whose region is not ours.
Restorable(b) ==
    b.full /\ b.valid /\ b.region # "noVars" /\ b.region # Region

\* getBackupsList: only a 200 answer decodes as the list of ids; the body
\* of a 4xx answer is no JSON array, and a 5xx answer or a transport
\* failure is an error.
ListDecodes(lo) == lo = "ok"

\* getBackupInformation: a 200 answer decodes as the backup's BackupInfo,
\* a 4xx answer with a JSON body as an empty one (not restorable), and
\* anything else is an error.
InfoDecodes(io) == io = "ok" \/ (io = "4xx" /\ JSONInfo4xx)

\* The listed ids after sort.Sort(sort.Reverse(...)): newest first.
SortedBackups(bs) == SortSeq(SetToSeq(bs), LAMBDA a, b : a.id > b.id)

\* The loop asks for the information of each backup in that order until
\* one is restorable: the number of listbackups/<id> calls it makes.
InfoCalls(s) == LET i == SelectInSeq(s, Restorable) IN IF i = 0 THEN Len(s) ELSE i

\* Mutant: a failed information call taken as "not restorable" (continue
\* in place of return "", err).
GetLastFullBackupSkippingErrors(s, k, io) ==
    LET Pick(j) == IF j = 0 THEN NoBackup ELSE s[j]
        i == SelectInSeq(s, Restorable)
    IN IF k = 0 \/ k # i THEN <<TRUE, Pick(i)>>
       ELSE <<TRUE, Pick(SelectInSubSeq(s, k + 1, Len(s), Restorable))>>

\* getLastFullBackup on the sorted list s when the information call at
\* position k (0: none) answers io and every other call succeeds:
\* <<no error, the backup returned>>.  A call that does not decode ends
\* the walk with its error; one that decodes as an empty BackupInfo makes
\* the loop go on past that backup.
GetLastFullBackup(s, k, io) ==
    LET Pick(j) == IF j = 0 THEN NoBackup ELSE s[j]
        i == SelectInSeq(s, Restorable)
    IN CASE k = 0 \/ (InfoDecodes(io) /\ k # i) -> <<TRUE, Pick(i)>>
         [] InfoDecodes(io) -> <<TRUE, Pick(SelectInSubSeq(s, k + 1, Len(s), Restorable))>>
         [] OTHER -> <<FALSE, NoBackup>>

-----------------------------------------------------------------------------
(* Polls: wait.PollUntilContextTimeout *)

\* Mutant: a poll with no timeout (wait.PollUntilContextCancel on a
\* context that is never cancelled).
NotYetWithoutTimeout ==
    /\ polls' = polls + 1
    /\ UNCHANGED pc

\* The condition returned false (or an error it swallows): try again after
\* the interval, or give up with the timeout error once the attempts are
\* spent.
NotYet ==
    IF polls + 1 < MaxPolls
    THEN /\ polls' = polls + 1
         /\ UNCHANGED pc
    ELSE /\ pc' = "failed"
         /\ UNCHANGED polls

Proceed(next) ==
    /\ pc' = next
    /\ polls' = 0

Fail == pc' = "failed" /\ UNCHANGED polls

-----------------------------------------------------------------------------
(* drFunction *)

Init ==
    /\ req \in Requests
    /\ backups \in BackupLists
    /\ cm \in ConfigMaps
    /\ replicas \in {0, 1}
    /\ daemonReady = TRUE
    /\ jobs = {}
    /\ pc = "start"
    /\ polls = 0
    /\ faults = 0
    /\ handle = NoHandle
    /\ target = 0
    /\ scaledUp = FALSE
    /\ reruns = 0
    /\ creds = TRUE

\* The branch drFunction takes after the first readiness check.
AfterServersReady ==
    CASE req.mode = "active" -> "scaleUp"
      [] req.mode = "standby" /\ cm.mode # "disable" -> "isScaledUp"
      [] req.mode = "disable" -> "scaleDown"
      [] OTHER -> "done"

\* Lines 76-77: act only when the stored mode differs from the requested
\* one, or the last switchover is still running or failed.
Start ==
    /\ pc = "start"
    /\ IF \/ cm.statusMode # "" /\ cm.statusMode # req.mode
          \/ cm.statusStatus \in {"running", "failed"}
       THEN Proceed("serversReady")
       ELSE Proceed("done")
    /\ UNCHANGED <<req, backups, cm, replicas, daemonReady, jobs, faults, handle, target, scaledUp, reruns, creds>>

\* getBackupDaemonClient: GetSecretCredentials reads the daemon's secret;
\* a failed read is only logged, and the client is built with no
\* credentials.
GetBackupDaemonClient ==
    \E o \in Outcomes \cap {"ok", "net"} :
        /\ Charge(o)
        /\ creds' = (o = "ok")

\* CheckStatefulSetReadiness of the Consul servers, before the switchover
\* and after a restore.
ServersReadyPoll ==
    /\ pc \in {"serversReady", "serversReadyAfterRestore"}
    /\ \E ready \in BOOLEAN :
           IF ready /\ pc = "serversReady"
           THEN GetBackupDaemonClient /\ Proceed(AfterServersReady)
           ELSE /\ IF ready THEN Proceed("done") ELSE NotYet
                /\ UNCHANGED <<faults, creds>>
    /\ UNCHANGED <<req, backups, cm, replicas, daemonReady, jobs, handle, target, scaledUp, reruns>>

\* scaleDeployment: GetScale then UpdateScale; either may fail.
ScaleDeployment ==
    /\ pc \in {"scaleUp", "scaleDown"}
    /\ LET n == IF pc = "scaleUp" THEN 1 ELSE 0 IN
       \E o \in Outcomes :
          /\ Charge(o)
          /\ IF o = "ok"
             THEN /\ replicas' = n
                  /\ daemonReady' = (daemonReady /\ replicas = n)
                  /\ Proceed(IF n = 1 THEN "daemonUp" ELSE "daemonDown")
             ELSE /\ Fail
                  /\ UNCHANGED <<replicas, daemonReady>>
    /\ UNCHANGED <<req, backups, cm, jobs, handle, target, scaledUp, reruns, creds>>

\* Mutant: the readiness wait polls until the daemon is ready, with no
\* deadline (a loop on Get with no context timeout).
DaemonReadyPollWithoutTimeout ==
    /\ pc \in {"daemonUp", "daemonDown"}
    /\ IF daemonReady
       THEN Proceed(IF pc = "daemonUp" /\ cm.statusMode # "disable" THEN "restore" ELSE "done")
       ELSE UNCHANGED <<pc, polls>>
    /\ UNCHANGED <<req, backups, cm, replicas, daemonReady, jobs, faults, handle, target, scaledUp, reruns, creds>>

\* CheckDeploymentReadiness after the scale.
DaemonReadyPoll ==
    /\ pc \in {"daemonUp", "daemonDown"}
    /\ IF daemonReady
       THEN Proceed(IF pc = "daemonUp" /\ cm.statusMode # "disable" THEN "restore" ELSE "done")
       ELSE NotYet
    /\ UNCHANGED <<req, backups, cm, replicas, daemonReady, jobs, faults, handle, target, scaledUp, reruns, creds>>

\* IsDeploymentScaledUp
IsScaledUp ==
    /\ pc = "isScaledUp"
    /\ \E o \in Outcomes :
          /\ Charge(o)
          /\ IF o = "ok"
             THEN /\ scaledUp' = (replicas # 0)
                  /\ Proceed(IF replicas # 0 THEN "backup" ELSE "done")
             ELSE Fail /\ UNCHANGED scaledUp
    /\ UNCHANGED <<req, backups, cm, replicas, daemonReady, jobs, handle, target, reruns, creds>>

\* One attempt of PerformBackup: POST backup.  A lost reply may still have
\* started a backup, and the next attempt starts another.
PerformBackup ==
    /\ pc = "backup"
    /\ \E o \in DaemonOutcomesAfter(0) :
          /\ faults' = faults + DaemonCost(o)
          /\ CASE o = "ok" ->
                    /\ jobs' = jobs \cup {NewJob("backup", 0)}
                    /\ handle' = JobHandle(Cardinality(jobs) + 1)
                    /\ Proceed("backupStatus")
               [] o = "4xx" ->
                    /\ handle' = TextHandle
                    /\ Proceed("backupStatus")
                    /\ UNCHANGED jobs
               [] o = "5xx" ->
                    NotYet /\ UNCHANGED <<jobs, handle>>
               [] o = "net" ->
                    /\ \/ jobs' = jobs \cup {NewJob("backup", 0)}
                       \/ UNCHANGED jobs
                    /\ NotYet
                    /\ UNCHANGED handle
    /\ UNCHANGED <<req, backups, cm, replicas, daemonReady, target, scaledUp, reruns, creds>>

\* One attempt of RestoreLastFullBackup: getBackupsList, the information
\* of the listed backups newest first (a failed call ends the attempt,
\* which is retried), then POST restore of the backup found.
RestoreLastFullBackup ==
    /\ pc = "restore"
    /\ LET s == SortedBackups(backups) IN
       \E lo \in DaemonOutcomesAfter(0) :
          IF ~ListDecodes(lo)
          THEN faults' = faults + DaemonCost(lo) /\ NotYet /\ UNCHANGED <<jobs, handle, target>>
          ELSE \E k \in 0..InfoCalls(s), io \in DaemonOutcomesAfter(0) :
             /\ (k = 0) = (io = "ok")
             /\ LET r == GetLastFullBackup(s, k, io)
                    b == r[2]
                IN IF ~r[1]
                THEN faults' = faults + DaemonCost(io) /\ NotYet /\ UNCHANGED <<jobs, handle, target>>
                ELSE IF b = NoBackup
                THEN /\ faults' = faults + DaemonCost(io)
                     /\ UNCHANGED <<jobs, handle, target>>
                     /\ IF req.noWait THEN Proceed("done") ELSE NotYet
                ELSE \E o \in DaemonOutcomesAfter(DaemonCost(io)) :
                     /\ faults' = faults + DaemonCost(io) + DaemonCost(o)
                     /\ CASE o = "ok" ->
                               /\ jobs' = jobs \cup {NewJob("restore", b.id)}
                               /\ handle' = JobHandle(Cardinality(jobs) + 1)
                               /\ target' = b.id
                               /\ Proceed("restoreStatus")
                          [] o = "4xx" ->
                               /\ handle' = TextHandle
                               /\ target' = b.id
                               /\ Proceed("restoreStatus")
                               /\ UNCHANGED jobs
                          [] o = "5xx" ->
                               NotYet /\ UNCHANGED <<jobs, handle, target>>
                          [] o = "net" ->
                               /\ \/ jobs' = jobs \cup {NewJob("restore", b.id)}
                                  \/ UNCHANGED jobs
                               /\ NotYet
                               /\ UNCHANGED <<handle, target>>
    /\ UNCHANGED <<req, backups, cm, replicas, daemonReady, scaledUp, reruns, creds>>

\* getStatus(handle): a known job answers 200 with its status; anything
\* else answers 404, whose body decodes as an empty Status iff JSON404.
\* Without credentials the answer is 401, whose status is not "successful"
\* whatever its body decodes to.  The result: <<decoded, status, code>>.
GetStatus(h) ==
    IF ~creds THEN <<FALSE, "", 401>>
    ELSE IF h.kind = "job"
    THEN LET j == CHOOSE x \in jobs : x.id = h.id IN <<TRUE, j.status, 200>>
    ELSE <<JSON404, "", 404>>

\* Mutant: the backup poll accepting 404 as CheckRestoreStatus does.
BackupDoneAccepting404(s) == s[1] /\ (s[2] = "successful" \/ s[3] = 404)

\* CheckBackupStatus's condition.
BackupDone(s) == s[1] /\ s[2] = "successful"

\* CheckRestoreStatus's condition: successful, or a 404.
RestoreDone(s) == s[1] /\ (s[2] = "successful" \/ s[3] = 404)

\* One attempt of CheckBackupStatus or CheckRestoreStatus; a transport
\* error is retried.
StatusPoll ==
    /\ pc \in {"backupStatus", "restoreStatus"}
    /\ \E o \in Outcomes \cap {"ok", "net"} :
          /\ Charge(o)
          /\ IF o = "net" THEN NotYet
             ELSE IF pc = "backupStatus"
             THEN IF BackupDone(GetStatus(handle)) THEN Proceed("scaleDown") ELSE NotYet
             ELSE IF RestoreDone(GetStatus(handle)) THEN Proceed("serversReadyAfterRestore") ELSE NotYet
    /\ UNCHANGED <<req, backups, cm, replicas, daemonReady, jobs, handle, target, scaledUp, reruns, creds>>

-----------------------------------------------------------------------------
(* The cluster and the backup daemon *)

\* The backup-daemon pods reach the scale that was asked for.
DaemonSettles ==
    /\ ~daemonReady
    /\ daemonReady' = TRUE
    /\ UNCHANGED <<req, backups, cm, replicas, jobs, pc, polls, faults, handle, target, scaledUp, reruns, creds>>

\* A daemon job finishes.
JobFinishes ==
    /\ \E j \in jobs, s \in {"successful", "failed"} :
          /\ j.status = "running"
          /\ jobs' = (jobs \ {j}) \cup {[j EXCEPT !.status = s]}
    /\ UNCHANGED <<req, backups, cm, replicas, daemonReady, pc, polls, faults, handle, target, scaledUp, reruns, creds>>

\* The same switchover is run again: after it returned an error, or after
\* the disaster-recovery service restarted in the middle of it.  The DR
\* daemon has recorded status-status "failed" or "running", which lines
\* 76-77 take as a reason to act; the new call starts with fresh clients
\* against whatever the earlier one left in the cluster and the daemon.
Rerun ==
    /\ pc \notin {"start", "done"}
    /\ reruns < MaxReruns
    /\ reruns' = reruns + 1
    /\ cm' = [cm EXCEPT !.statusStatus = IF pc = "failed" THEN "failed" ELSE "running"]
    /\ pc' = "start"
    /\ polls' = 0
    /\ handle' = NoHandle
    /\ target' = 0
    /\ scaledUp' = FALSE
    /\ creds' = TRUE
    /\ UNCHANGED <<req, backups, replicas, daemonReady, jobs, faults>>

\* drFunction has returned.
Returned ==
    /\ pc \in {"done", "failed"}
    /\ UNCHANGED vars

DrFunction ==
    \/ Start \/ ServersReadyPoll \/ ScaleDeployment \/ DaemonReadyPoll
    \/ IsScaledUp \/ PerformBackup \/ RestoreLastFullBackup \/ StatusPoll

Next == DrFunction \/ DaemonSettles \/ JobFinishes \/ Rerun \/ Returned

Spec == Init /\ [][Next]_vars /\ WF_vars(DrFunction)

-----------------------------------------------------------------------------
(* Properties *)

TypeOK ==
    /\ replicas \in {0, 1} /\ daemonReady \in BOOLEAN
    /\ pc \in {"start", "serversReady", "scaleUp", "daemonUp", "restore",
               "restoreStatus", "serversReadyAfterRestore", "isScaledUp",
               "backup", "backupStatus", "scaleDown", "daemonDown", "done", "failed"}
    /\ polls \in 0..MaxPolls /\ faults \in 0..MaxFaults
    /\ handle \in {NoHandle, TextHandle} \cup {JobHandle(j.id) : j \in jobs}
    /\ \A j \in jobs : j.kind \in {"backup", "restore"}
                       /\ j.status \in {"running", "successful", "failed"}
    /\ scaledUp \in BOOLEAN
    /\ reruns \in 0..MaxReruns
    /\ creds \in BOOLEAN

\* The reference choice of the backup to restore: the newest valid full
\* backup taken by another region.
NewestForeignBackup ==
    LET cands == {b \in backups : Restorable(b)}
    IN IF cands = {} THEN 0
       ELSE (CHOOSE b \in cands : \A c \in cands : c.id <= b.id).id

\* Every restore job the switchover starts, on any attempt, restores the
\* newest full backup of the other region.  (getLastFullBackup's reverse
\* sort and filter)
RestoresNewestForeignBackup ==
    \A j \in jobs : j.kind = "restore" => j.vault = NewestForeignBackup

\* A switchover to standby that found the backup daemon running returns
\* success only after a backup job finished successfully and the daemon
\* is scaled down and settled.  (PerformBackup, CheckBackupStatus,
\* ScaleDeploymentWithCheck)
StandbyDoneMeansBackupTaken ==
    pc = "done" /\ req.mode = "standby" /\ scaledUp =>
        /\ \E j \in jobs : j.kind = "backup" /\ j.status = "successful"
        /\ replicas = 0 /\ daemonReady

\* A switchover to active that asked for a restore returns success only
\* after that restore job finished successfully, as the log line "Restore
\* of backup is completed" says.  (startLastBackupRecovery)
RestoreDoneMeansRestored ==
    pc = "done" /\ req.mode = "active" /\ target # 0 =>
        \E j \in jobs : j.kind = "restore" /\ j.vault = target /\ j.status = "successful"

\* Every switchover returns, and the last of its reruns stays returned:
\* drFunction ends in success or in an error whatever the cluster and the
\* daemon do, because every wait in it is a wait.PollUntilContextTimeout
\* with a deadline and every job it waits for is polled the same way.
\* Only drFunction's own steps are fair; the daemon may never come up, a
\* job may never finish, and a rerun may or may not happen.
SwitchoverReturns == <>[](pc \in {"done", "failed"})

=============================================================================
