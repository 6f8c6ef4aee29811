---------------------------- MODULE ACLReconciler ----------------------------
(***************************************************************************)
(* The ConsulACL reconciler of consul-acl-configurator-operator            *)
(* (controllers/consulacl_controller.go, util/cr_updater.go) together with *)
(* the environment it acts on: the ConsulACL custom resource (CR) held by  *)
(* the API server, the per-controller work queues of controller-runtime,   *)
(* the Consul ACL service, and the users who create, edit and delete the   *)
(* CR or trigger a common reconcile through rest-acl-configurator.         *)
(*                                                                         *)
(* One Reconcile call is a sequence of blocking Consul calls; each call is *)
(* one step of the worker that runs it, so that the steps of several       *)
(* workers and of the users interleave.  Only the CR's own name space is   *)
(* modelled: qualified names of other CRs never collide with it (see       *)
(* Qualify).                                                               *)
(***************************************************************************)
EXTENDS Naturals, Sequences, FiniteSets, Functions, TLC

CONSTANTS
    Workers,         \* controllers registered for the ConsulACL kind (main.go)
    Owner,           \* <<cr.Name, cr.Namespace>> of the declaration
    Documents,       \* what users write into spec.acl.json
    Undecodable,     \* a spec.acl.json that json.Unmarshal rejects
    NoName,          \* a declared name that is the empty string
    FaultKinds,      \* failures a Consul call may return: "net" (net.Error) or "server"
    LookupsMayFail,  \* whether PolicyReadByName / RoleReadByName may fail
    MaxFaults,       \* bound on failed Consul and API-server calls
    MaxEdits,        \* bound on spec changes and common-reconcile touches
    PeriodTime       \* RECONCILE_PERIOD_SECONDS after strconv.Atoi

\* The documents that decode to an ACLConfig.
Specs == Documents \ {Undecodable}

ASSUME FaultKinds \subseteq {"net", "server"}
ASSUME LookupsMayFail \in BOOLEAN
ASSUME MaxFaults \in Nat /\ MaxEdits \in Nat /\ PeriodTime \in Nat

VARIABLES
    (* Consul ACL service *)
    policies,      \* set of [id, name]
    roles,         \* set of [id, name, links]: links is a set of policy ids
    bindingRules,  \* set of [id, bindName]
    nextId,        \* the next identifier Consul assigns
    (* API server and work queues *)
    cr,            \* the ConsulACL object
    queued,        \* queued[w]: the CR's key is in controller w's work queue
    (* Reconcile calls in progress, one per controller *)
    pc,            \* where worker w is in Reconcile
    snap,          \* the ACL document decoded from the CR read at the start
    idx,           \* index of the entity being processed in its list
    found,         \* id returned by the last lookup, or None
    err,           \* the err variable of processPolicies/Roles/BindRules
    resolved,      \* processedPolicies: qualified policy name -> id
    st,            \* the three StatusHolder maps being built
    delSet,        \* ids of binding rules deleteBindingRules still has to delete
    (* bounds *)
    faults,
    edits

consulVars == <<policies, roles, bindingRules, nextId>>
workerVars == <<pc, snap, idx, found, err, resolved, st, delSet>>
vars == <<consulVars, cr, queued, workerVars, faults, edits>>

-----------------------------------------------------------------------------
(* Data *)

None == 0   \* "no id": Consul ids are positive

\* convertEntityName: fmt.Sprintf("%s_%s_%s", name, namespace, entityName).
\* The string is represented by the triple it is built from; that the
\* formatting is injective is checked in NamingResolver.
Qualify(n) == <<Owner[1], Owner[2], n>>

OwnedName(q) == q[1] = Owner[1] /\ q[2] = Owner[2]

\* StatusHolder keys: an entity's qualified name, the "missing name"
\* pseudo-entry, and "Bind rule for %s with name %s" (bind type "role").
NameKey(q) == [kind |-> "name", name |-> q]
InnerItem == [kind |-> "innerErrorHandlingItem", name |-> <<>>]
BindLabel(q) == [kind |-> "Bind rule for role", name |-> q]

EmptyMap == [k \in {} |-> "none"]
EmptyStatus == [p |-> EmptyMap, r |-> EmptyMap, b |-> EmptyMap]

IdOf(set, q) == IF \E e \in set : e.name = q
                THEN (CHOOSE e \in set : e.name = q).id ELSE None

\* readPolicy / readRole: the id PolicyReadByName / RoleReadByName found,
\* or None.  A failed read returns no entity, and the "== nil" test then
\* returns nil with no error, as isErrNotFound does for "ACL not found":
\* any failure reads as "absent".
ReadPolicy(fail, q) == IF fail THEN None ELSE IdOf(policies, q)
ReadRole(fail, q) == IF fail THEN None ELSE IdOf(roles, q)

DeclaredPolicies(s) == {Qualify(n) : n \in Range(s.policies) \ {NoName}}
DeclaredRoles(s) == {Qualify(r.name) : r \in {r \in Range(s.roles) : r.name # NoName}}
DeclaredBinds(s) == {Qualify(b) : b \in Range(s.bindRules) \ {NoName}}

\* Results of one call: success, or a failure while the budget lasts.
ConsulResults == {"ok"} \cup (IF faults < MaxFaults THEN FaultKinds ELSE {})
ApiFails == IF faults < MaxFaults THEN BOOLEAN ELSE {FALSE}
LookupFails == IF LookupsMayFail /\ faults < MaxFaults THEN BOOLEAN ELSE {FALSE}
Charge(res) == faults' = IF res = "ok" THEN faults ELSE faults + 1

\* A net.Error may be a lost reply to a request Consul has carried out.
Applied(res) == IF res = "net" THEN BOOLEAN ELSE {res = "ok"}

-----------------------------------------------------------------------------
(* Work queue *)

EnqueueAll == queued' = [w \in Workers |-> TRUE]

\* Reconcile returns; the key is queued again when the result asks for it
\* (an error, or RequeueAfter > 0) or when an event arrived meanwhile.
Finish(w, requeue) ==
    /\ pc' = [pc EXCEPT ![w] = "idle"]
    /\ queued' = [queued EXCEPT ![w] = queued[w] \/ requeue]

\* Result{RequeueAfter: time.Second * periodTime}: a zero duration does not requeue.
RequeueAfterPeriod == PeriodTime > 0

\* applyACL called from the step that took the key off the queue:
\* getAclConfig, then processPolicies from the first entry.  A decode
\* error returns RequeueAfter (line 111).
BeginApply(w, spec) ==
    IF spec = Undecodable
    THEN /\ queued' = [queued EXCEPT ![w] = RequeueAfterPeriod]
         /\ UNCHANGED workerVars
    ELSE /\ queued' = [queued EXCEPT ![w] = FALSE]
         /\ pc' = [pc EXCEPT ![w] = "policy"]
         /\ snap' = [snap EXCEPT ![w] = spec]
         /\ idx' = [idx EXCEPT ![w] = 1]
         /\ err' = [err EXCEPT ![w] = "none"]
         /\ resolved' = [resolved EXCEPT ![w] = EmptyMap]
         /\ st' = [st EXCEPT ![w] = EmptyStatus]
         /\ UNCHANGED <<found, delSet>>

-----------------------------------------------------------------------------
(* Reconcile: fetch the CR from the cache and choose a path *)

Init ==
    /\ policies = {} /\ roles = {} /\ bindingRules = {} /\ nextId = 1
    /\ cr = [exists |-> FALSE, created |-> FALSE, spec |-> Undecodable,
             deleting |-> FALSE, finalizer |-> FALSE, status |-> EmptyStatus]
    /\ queued = [w \in Workers |-> FALSE]
    /\ pc = [w \in Workers |-> "idle"]
    /\ snap = [w \in Workers |-> Undecodable]
    /\ idx = [w \in Workers |-> 1]
    /\ found = [w \in Workers |-> None]
    /\ err = [w \in Workers |-> "none"]
    /\ resolved = [w \in Workers |-> EmptyMap]
    /\ st = [w \in Workers |-> EmptyStatus]
    /\ delSet = [w \in Workers |-> {}]
    /\ faults = 0 /\ edits = 0

Dequeue(w) == pc[w] = "idle" /\ queued[w]

\* NotFound: the object is gone; return without requeue.
ReconcileGone(w) ==
    /\ Dequeue(w) /\ ~cr.exists
    /\ queued' = [queued EXCEPT ![w] = FALSE]
    /\ UNCHANGED <<consulVars, cr, workerVars, faults, edits>>

\* Mutant: the finalizer is never added (a failed or forgotten
\* UpdateWithRetry before applyACL).
ReconcileActiveWithoutFinalizer(w) ==
    /\ Dequeue(w) /\ cr.exists /\ ~cr.deleting
    /\ BeginApply(w, cr.spec)
    /\ UNCHANGED <<consulVars, cr, faults, edits>>

\* Not being deleted: add the finalizer if missing (UpdateWithRetry), then applyACL.
ReconcileActive(w) ==
    /\ Dequeue(w) /\ cr.exists /\ ~cr.deleting
    /\ \E fail \in (IF cr.finalizer THEN {FALSE} ELSE ApiFails) :
        IF fail
        THEN /\ queued' = [queued EXCEPT ![w] = TRUE]
             /\ faults' = faults + 1
             /\ UNCHANGED <<cr, workerVars>>
        ELSE /\ cr' = [cr EXCEPT !.finalizer = TRUE]
             /\ BeginApply(w, cr.spec)
             /\ UNCHANGED faults
    /\ UNCHANGED <<consulVars, edits>>

\* Being deleted with the finalizer present: deleteACL.  A deleted object
\* without the finalizer is removed by the API server at once, so the
\* branch that returns for it (line 101) is ReconcileGone here.
ReconcileDelete(w) ==
    /\ Dequeue(w) /\ cr.exists /\ cr.deleting
    /\ IF cr.spec = Undecodable
       THEN /\ queued' = [queued EXCEPT ![w] = TRUE]     \* return err
            /\ UNCHANGED workerVars
       ELSE /\ queued' = [queued EXCEPT ![w] = FALSE]
            /\ pc' = [pc EXCEPT ![w] = "delList"]
            /\ snap' = [snap EXCEPT ![w] = cr.spec]
            /\ UNCHANGED <<idx, found, err, resolved, st, delSet>>
    /\ UNCHANGED <<consulVars, cr, faults, edits>>

-----------------------------------------------------------------------------
(* processPolicies *)

PolicyAt(w) == snap[w].policies[idx[w]]
Next1(w, label) == /\ idx' = [idx EXCEPT ![w] = idx[w] + 1]
                   /\ pc' = [pc EXCEPT ![w] = label]

\* An entry without a name records the pseudo-entry and is skipped.
PolicyMissingName(w) ==
    /\ pc[w] = "policy" /\ idx[w] <= Len(snap[w].policies)
    /\ PolicyAt(w) = NoName
    /\ st' = [st EXCEPT ![w].p = (InnerItem :> "noname") @@ @]
    /\ Next1(w, "policy")
    /\ UNCHANGED <<consulVars, cr, queued, snap, found, err, resolved, delSet, faults, edits>>

\* readPolicy: PolicyReadByName.  Whatever the call returns besides a policy
\* (not found, or any failure) comes back as (nil, nil), and err := nil.
PolicyLookup(w) ==
    /\ pc[w] = "policy" /\ idx[w] <= Len(snap[w].policies)
    /\ PolicyAt(w) # NoName
    /\ \E fail \in LookupFails :
        /\ found' = [found EXCEPT ![w] = ReadPolicy(fail, Qualify(PolicyAt(w)))]
        /\ faults' = IF fail THEN faults + 1 ELSE faults
    /\ err' = [err EXCEPT ![w] = "none"]
    /\ pc' = [pc EXCEPT ![w] = "policyWrite"]
    /\ UNCHANGED <<consulVars, cr, queued, snap, idx, resolved, st, delSet, edits>>

\* Mutant: processedPolicies takes policyDemand.ID even when the write failed.
ResolvePolicyEvenOnError(w, q, ok, id) ==
    resolved' = [resolved EXCEPT ![w] = (q :> IF ok THEN id ELSE found[w]) @@ @]

\* A successful write adds the policy's id to processedPolicies.
ResolvePolicy(w, q, ok, id) ==
    resolved' = IF ok THEN [resolved EXCEPT ![w] = (q :> id) @@ @] ELSE resolved

\* PolicyCreate when no id was found, else PolicyUpdate; record the outcome.
\* Consul refuses a second policy of the same name and an update of an id
\* it does not hold.
PolicyWrite(w) ==
    /\ pc[w] = "policyWrite"
    /\ LET q == Qualify(PolicyAt(w))
           create == found[w] = None
           accepted == IF create THEN IdOf(policies, q) = None
                       ELSE \E e \in policies : e.id = found[w]
           id == IF create THEN nextId ELSE found[w]
       IN \E res \in ConsulResults :
          \E done \in Applied(res) :
            LET took == done /\ accepted
                ok == res = "ok" /\ accepted
            IN /\ policies' = IF took /\ create
                              THEN policies \cup {[id |-> nextId, name |-> q]}
                              ELSE policies
               /\ nextId' = IF took /\ create THEN nextId + 1 ELSE nextId
               /\ ResolvePolicy(w, q, ok, id)
               /\ st' = [st EXCEPT ![w].p =
                           (NameKey(q) :> IF ~ok THEN "error"
                                 ELSE IF create THEN "created" ELSE "updated") @@ @]
               /\ err' = [err EXCEPT ![w] = IF ok THEN "none"
                                            ELSE IF res = "ok" THEN "server" ELSE res]
               /\ Charge(res)
    /\ Next1(w, "policy")
    /\ UNCHANGED <<roles, bindingRules, cr, queued, snap, found, delSet, edits>>

\* End of the loop: only a net.Error left in err is returned; applyACL
\* then returns it and Reconcile asks for RequeueAfter.
PoliciesDone(w) ==
    /\ pc[w] = "policy" /\ idx[w] > Len(snap[w].policies)
    /\ IF err[w] = "net"
       THEN /\ Finish(w, RequeueAfterPeriod)
            /\ UNCHANGED <<idx, err>>
       ELSE /\ pc' = [pc EXCEPT ![w] = "role"]
            /\ idx' = [idx EXCEPT ![w] = 1]
            /\ err' = [err EXCEPT ![w] = "none"]
            /\ UNCHANGED queued
    /\ UNCHANGED <<consulVars, cr, snap, found, resolved, st, delSet, faults, edits>>

-----------------------------------------------------------------------------
(* processRoles *)

RoleAt(w) == snap[w].roles[idx[w]]

\* Mutant: every declared policy that Consul holds is linked, whether or
\* not this cycle's policy pass succeeded for it.
PolicyLinksByName(w) ==
    {IdOf(policies, Qualify(n)) :
        n \in {n \in Range(RoleAt(w).policyNames) : IdOf(policies, Qualify(n)) # None}}

\* getPolicyLinks: the ids processPolicies resolved for the role's policy
\* names; names it did not resolve are dropped.
PolicyLinks(w) ==
    {resolved[w][Qualify(n)] :
        n \in {n \in Range(RoleAt(w).policyNames) : Qualify(n) \in DOMAIN resolved[w]}}

RoleMissingName(w) ==
    /\ pc[w] = "role" /\ idx[w] <= Len(snap[w].roles)
    /\ RoleAt(w).name = NoName
    /\ st' = [st EXCEPT ![w].r = (InnerItem :> "noname") @@ @]
    /\ Next1(w, "role")
    /\ UNCHANGED <<consulVars, cr, queued, snap, found, err, resolved, delSet, faults, edits>>

\* readRole, with the same (nil, nil) for every result but a role.
RoleLookup(w) ==
    /\ pc[w] = "role" /\ idx[w] <= Len(snap[w].roles)
    /\ RoleAt(w).name # NoName
    /\ \E fail \in LookupFails :
        /\ found' = [found EXCEPT ![w] = ReadRole(fail, Qualify(RoleAt(w).name))]
        /\ faults' = IF fail THEN faults + 1 ELSE faults
    /\ err' = [err EXCEPT ![w] = "none"]
    /\ pc' = [pc EXCEPT ![w] = "roleWrite"]
    /\ UNCHANGED <<consulVars, cr, queued, snap, idx, resolved, st, delSet, edits>>

\* RoleCreate or RoleUpdate with the links; Consul refuses a duplicate name,
\* an unknown id, and a link to a policy it does not hold.
RoleWrite(w) ==
    /\ pc[w] = "roleWrite"
    /\ LET q == Qualify(RoleAt(w).name)
           links == PolicyLinks(w)
           create == found[w] = None
           accepted == /\ IF create THEN IdOf(roles, q) = None
                          ELSE \E e \in roles : e.id = found[w]
                       /\ links \subseteq {e.id : e \in policies}
           role == [id |-> IF create THEN nextId ELSE found[w], name |-> q, links |-> links]
       IN \E res \in ConsulResults :
          \E done \in Applied(res) :
            LET took == done /\ accepted
                ok == res = "ok" /\ accepted
            IN /\ roles' = IF took
                           THEN {e \in roles : e.id # role.id} \cup {role}
                           ELSE roles
               /\ nextId' = IF took /\ create THEN nextId + 1 ELSE nextId
               /\ st' = [st EXCEPT ![w].r =
                           (NameKey(q) :> IF ~ok THEN "error"
                                 ELSE IF create THEN "created" ELSE "updated") @@ @]
               /\ err' = [err EXCEPT ![w] = IF ok THEN "none"
                                            ELSE IF res = "ok" THEN "server" ELSE res]
               /\ Charge(res)
    /\ Next1(w, "role")
    /\ UNCHANGED <<policies, bindingRules, cr, queued, snap, found, resolved, delSet, edits>>

RolesDone(w) ==
    /\ pc[w] = "role" /\ idx[w] > Len(snap[w].roles)
    /\ IF err[w] = "net"
       THEN /\ Finish(w, RequeueAfterPeriod)
            /\ UNCHANGED <<idx, err>>
       ELSE /\ pc' = [pc EXCEPT ![w] = "bindRule"]
            /\ idx' = [idx EXCEPT ![w] = 1]
            /\ err' = [err EXCEPT ![w] = "none"]
            /\ UNCHANGED queued
    /\ UNCHANGED <<consulVars, cr, snap, found, resolved, st, delSet, faults, edits>>

-----------------------------------------------------------------------------
(* processBindRules *)

BindRuleAt(w) == snap[w].bindRules[idx[w]]

BindRuleMissingName(w) ==
    /\ pc[w] = "bindRule" /\ idx[w] <= Len(snap[w].bindRules)
    /\ BindRuleAt(w) = NoName
    /\ st' = [st EXCEPT ![w].b = (InnerItem :> "noname") @@ @]
    /\ Next1(w, "bindRule")
    /\ UNCHANGED <<consulVars, cr, queued, snap, found, err, resolved, delSet, faults, edits>>

\* A declared rule carries no id, so BindingRuleCreate is called every time.
BindRuleCreate(w) ==
    /\ pc[w] = "bindRule" /\ idx[w] <= Len(snap[w].bindRules)
    /\ BindRuleAt(w) # NoName
    /\ LET q == Qualify(BindRuleAt(w)) IN
       \E res \in ConsulResults :
       \E done \in Applied(res) :
         /\ bindingRules' = IF done
                            THEN bindingRules \cup {[id |-> nextId, bindName |-> q]}
                            ELSE bindingRules
         /\ nextId' = IF done THEN nextId + 1 ELSE nextId
         /\ st' = [st EXCEPT ![w].b = IF res = "ok" THEN (BindLabel(q) :> "created") @@ @
                                      ELSE (NameKey(q) :> "error") @@ @]
         /\ err' = [err EXCEPT ![w] = IF res = "ok" THEN "none" ELSE res]
         /\ Charge(res)
    /\ Next1(w, "bindRule")
    /\ UNCHANGED <<policies, roles, cr, queued, snap, found, resolved, delSet, edits>>

BindRulesDone(w) ==
    /\ pc[w] = "bindRule" /\ idx[w] > Len(snap[w].bindRules)
    /\ IF err[w] = "net"
       THEN /\ Finish(w, RequeueAfterPeriod)
            /\ UNCHANGED err
       ELSE /\ pc' = [pc EXCEPT ![w] = "status"]
            /\ err' = [err EXCEPT ![w] = "none"]
            /\ UNCHANGED queued
    /\ UNCHANGED <<consulVars, cr, snap, idx, found, resolved, st, delSet, faults, edits>>

\* UpdateStatusWithRetry: re-read the CR and write the three statuses; a
\* failure (retries exhausted, or the object gone) asks for RequeueAfter.
WriteStatus(w) ==
    /\ pc[w] = "status"
    /\ \E fail \in ApiFails :
        IF fail \/ ~cr.exists
        THEN /\ Finish(w, RequeueAfterPeriod)
             /\ faults' = IF fail THEN faults + 1 ELSE faults
             /\ UNCHANGED cr
        ELSE /\ cr' = [cr EXCEPT !.status = st[w]]
             /\ Finish(w, FALSE)
             /\ UNCHANGED faults
    /\ UNCHANGED <<consulVars, snap, idx, found, err, resolved, st, delSet, edits>>

-----------------------------------------------------------------------------
(* deleteACL: deleteBindingRules, deleteRoles, deletePolicies, then remove *)
(* the finalizer.  Any error returns it, and controller-runtime requeues.  *)

\* Mutant: the error is logged and Reconcile returns Result{}, nil.
FailDeleteWithoutRequeue(w) == /\ Finish(w, FALSE)
                               /\ faults' = faults + 1

\* Reconcile returns err: the key goes back with rate limiting.
FailDelete(w) == /\ Finish(w, TRUE)
                 /\ faults' = faults + 1

\* Mutant: the scan stops at the first listed rule that matches.
FirstMatchingRule(w) ==
    LET m == {e.id : e \in {e \in bindingRules : e.bindName \in DeclaredBinds(snap[w])}}
    IN IF m = {} THEN {} ELSE {CHOOSE id \in m : TRUE}

\* The listed rules whose BindName is the qualified name of a declared rule.
MatchingRules(w) ==
    {e.id : e \in {e \in bindingRules : e.bindName \in DeclaredBinds(snap[w])}}

\* BindingRuleList, then the matching rules are deleted one by one.
ListBindingRules(w) ==
    /\ pc[w] = "delList"
    /\ \E res \in ConsulResults :
        IF res # "ok"
        THEN FailDelete(w) /\ UNCHANGED delSet
        ELSE /\ delSet' = [delSet EXCEPT ![w] = MatchingRules(w)]
             /\ pc' = [pc EXCEPT ![w] = "delRule"]
             /\ UNCHANGED <<queued, faults>>
    /\ UNCHANGED <<consulVars, cr, snap, idx, found, err, resolved, st, edits>>

\* BindingRuleDelete of one listed match; deleting an id Consul no longer
\* holds succeeds.
DeleteBindingRule(w) ==
    /\ pc[w] = "delRule" /\ delSet[w] # {}
    /\ \E id \in delSet[w], res \in ConsulResults :
       \E done \in Applied(res) :
         /\ bindingRules' = IF done THEN {e \in bindingRules : e.id # id}
                            ELSE bindingRules
         /\ IF res # "ok"
            THEN FailDelete(w) /\ UNCHANGED delSet
            ELSE /\ delSet' = [delSet EXCEPT ![w] = @ \ {id}]
                 /\ UNCHANGED <<pc, queued, faults>>
    /\ UNCHANGED <<policies, roles, nextId, cr, snap, idx, found, err, resolved, st, edits>>

BindingRulesDeleted(w) ==
    /\ pc[w] = "delRule" /\ delSet[w] = {}
    /\ pc' = [pc EXCEPT ![w] = "delRoleLookup"]
    /\ idx' = [idx EXCEPT ![w] = 1]
    /\ UNCHANGED <<consulVars, cr, queued, snap, found, err, resolved, st, delSet, faults, edits>>

\* readRole for a declared role (an empty name is not skipped here); a nil
\* role, whatever the reason, is taken as already deleted.
DeleteRoleLookup(w) ==
    /\ pc[w] = "delRoleLookup" /\ idx[w] <= Len(snap[w].roles)
    /\ \E fail \in LookupFails :
        LET id == ReadRole(fail, Qualify(snap[w].roles[idx[w]].name))
        IN /\ found' = [found EXCEPT ![w] = id]
           /\ IF id = None THEN Next1(w, "delRoleLookup")
              ELSE pc' = [pc EXCEPT ![w] = "delRole"] /\ UNCHANGED idx
           /\ faults' = IF fail THEN faults + 1 ELSE faults
    /\ UNCHANGED <<consulVars, cr, queued, snap, err, resolved, st, delSet, edits>>

\* Mutant: a failed RoleDelete is logged and the loop goes on.
DeleteRoleContinuingOnError(w) ==
    /\ pc[w] = "delRole"
    /\ \E res \in ConsulResults :
       \E done \in Applied(res) :
         /\ roles' = IF done THEN {e \in roles : e.id # found[w]} ELSE roles
         /\ Next1(w, "delRoleLookup")
         /\ Charge(res)
    /\ UNCHANGED <<policies, bindingRules, nextId, cr, queued, snap, found, err, resolved, st, delSet, edits>>

\* RoleDelete of the role found; an error aborts deleteACL.
DeleteRole(w) ==
    /\ pc[w] = "delRole"
    /\ \E res \in ConsulResults :
       \E done \in Applied(res) :
         /\ roles' = IF done THEN {e \in roles : e.id # found[w]} ELSE roles
         /\ IF res # "ok"
            THEN FailDelete(w) /\ UNCHANGED idx
            ELSE Next1(w, "delRoleLookup") /\ UNCHANGED <<queued, faults>>
    /\ UNCHANGED <<policies, bindingRules, nextId, cr, snap, found, err, resolved, st, delSet, edits>>

RolesDeleted(w) ==
    /\ pc[w] = "delRoleLookup" /\ idx[w] > Len(snap[w].roles)
    /\ pc' = [pc EXCEPT ![w] = "delPolicyLookup"]
    /\ idx' = [idx EXCEPT ![w] = 1]
    /\ UNCHANGED <<consulVars, cr, queued, snap, found, err, resolved, st, delSet, faults, edits>>

DeletePolicyLookup(w) ==
    /\ pc[w] = "delPolicyLookup" /\ idx[w] <= Len(snap[w].policies)
    /\ \E fail \in LookupFails :
        LET id == ReadPolicy(fail, Qualify(snap[w].policies[idx[w]]))
        IN /\ found' = [found EXCEPT ![w] = id]
           /\ IF id = None THEN Next1(w, "delPolicyLookup")
              ELSE pc' = [pc EXCEPT ![w] = "delPolicy"] /\ UNCHANGED idx
           /\ faults' = IF fail THEN faults + 1 ELSE faults
    /\ UNCHANGED <<consulVars, cr, queued, snap, err, resolved, st, delSet, edits>>

DeletePolicy(w) ==
    /\ pc[w] = "delPolicy"
    /\ \E res \in ConsulResults :
       \E done \in Applied(res) :
         /\ policies' = IF done THEN {e \in policies : e.id # found[w]} ELSE policies
         /\ IF res # "ok"
            THEN FailDelete(w) /\ UNCHANGED idx
            ELSE Next1(w, "delPolicyLookup") /\ UNCHANGED <<queued, faults>>
    /\ UNCHANGED <<roles, bindingRules, nextId, cr, snap, found, err, resolved, st, delSet, edits>>

\* All deleted: UpdateWithRetry removes the finalizer, and the API server
\* removes the object, whose Delete event reaches every controller.
RemoveFinalizer(w) ==
    /\ pc[w] = "delPolicyLookup" /\ idx[w] > Len(snap[w].policies)
    /\ \E fail \in ApiFails :
        IF fail \/ ~cr.exists
        THEN /\ Finish(w, TRUE)
             /\ faults' = IF fail THEN faults + 1 ELSE faults
             /\ UNCHANGED cr
        ELSE /\ cr' = [cr EXCEPT !.finalizer = FALSE, !.exists = FALSE]
             /\ pc' = [pc EXCEPT ![w] = "idle"]
             /\ EnqueueAll
             /\ UNCHANGED faults
    /\ UNCHANGED <<consulVars, snap, idx, found, err, resolved, st, delSet, edits>>

-----------------------------------------------------------------------------
(* Users of the API server *)

CreateCR ==
    /\ ~cr.created
    /\ \E s \in Documents :
        cr' = [cr EXCEPT !.exists = TRUE, !.created = TRUE, !.spec = s]
    /\ EnqueueAll
    /\ UNCHANGED <<consulVars, workerVars, faults, edits>>

\* A new spec.acl.json: the generation changes and the Update event passes
\* the predicate of SetupWithManager.
EditSpec ==
    /\ cr.exists /\ edits < MaxEdits
    /\ \E s \in Documents \ {cr.spec} :
        cr' = [cr EXCEPT !.spec = s]
    /\ edits' = edits + 1
    /\ EnqueueAll
    /\ UNCHANGED <<consulVars, workerVars, faults>>

\* rest-acl-configurator: changeReconcileSpecField writes a fresh
\* spec.acl.commonReconcile into every ConsulACL; a failed Update leaves
\* the object as it was.
CommonReconcile ==
    /\ cr.exists /\ edits < MaxEdits
    /\ edits' = edits + 1
    /\ EnqueueAll
    /\ UNCHANGED <<consulVars, cr, workerVars, faults>>

\* Deletion sets the deletion timestamp while a finalizer is present (and
\* bumps the generation); without one the object is removed at once.
DeleteCR ==
    /\ cr.exists /\ ~cr.deleting
    /\ cr' = IF cr.finalizer THEN [cr EXCEPT !.deleting = TRUE]
             ELSE [cr EXCEPT !.deleting = TRUE, !.exists = FALSE]
    /\ EnqueueAll
    /\ UNCHANGED <<consulVars, workerVars, faults, edits>>

-----------------------------------------------------------------------------

Worker(w) ==
    \/ ReconcileGone(w) \/ ReconcileActive(w) \/ ReconcileDelete(w)
    \/ PolicyMissingName(w) \/ PolicyLookup(w) \/ PolicyWrite(w) \/ PoliciesDone(w)
    \/ RoleMissingName(w) \/ RoleLookup(w) \/ RoleWrite(w) \/ RolesDone(w)
    \/ BindRuleMissingName(w) \/ BindRuleCreate(w) \/ BindRulesDone(w)
    \/ WriteStatus(w)
    \/ ListBindingRules(w) \/ DeleteBindingRule(w) \/ BindingRulesDeleted(w)
    \/ DeleteRoleLookup(w) \/ DeleteRole(w) \/ RolesDeleted(w)
    \/ DeletePolicyLookup(w) \/ DeletePolicy(w) \/ RemoveFinalizer(w)

\* The operator pod restarts between two calls: every Reconcile in progress
\* is abandoned, and the informer's initial list queues the object again.
OperatorRestart ==
    /\ \E w \in Workers : pc[w] # "idle"
    /\ faults < MaxFaults
    /\ pc' = [w \in Workers |-> "idle"]
    /\ queued' = [w \in Workers |-> cr.exists]
    /\ faults' = faults + 1
    /\ UNCHANGED <<consulVars, cr, snap, idx, found, err, resolved, st, delSet, edits>>

User == CreateCR \/ EditSpec \/ CommonReconcile \/ DeleteCR

\* Every controller is idle with an empty queue: it waits for events.
Quiescent ==
    /\ \A w \in Workers : pc[w] = "idle" /\ ~queued[w]
    /\ UNCHANGED vars

Next == (\E w \in Workers : Worker(w)) \/ User \/ OperatorRestart \/ Quiescent

\* A worker that has work goes on: controller-runtime runs each controller's
\* loop and requeues after errors and RequeueAfter; users owe nothing.
Fairness == \A w \in Workers : WF_vars(Worker(w))

Spec == Init /\ [][Next]_vars /\ Fairness

-----------------------------------------------------------------------------
(* Properties *)

\* The names the documents can declare, qualified.
ShortNames == UNION {Range(s.policies) \cup {r.name : r \in Range(s.roles)}
                        \cup Range(s.bindRules) : s \in Specs}
QNames == {Qualify(n) : n \in ShortNames}
Ids == Nat \ {None}
PCs == {"idle", "policy", "policyWrite", "role", "roleWrite", "bindRule", "status",
        "delList", "delRule", "delRoleLookup", "delRole", "delPolicyLookup", "delPolicy"}

TypeOK ==
    /\ policies \subseteq [id : Ids, name : QNames]
    /\ roles \subseteq [id : Ids, name : QNames, links : SUBSET Ids]
    /\ bindingRules \subseteq [id : Ids, bindName : QNames]
    /\ nextId \in Ids
    /\ cr.created => cr.spec \in Documents
    /\ cr.exists => cr.created
    /\ cr.exists /\ cr.deleting => cr.finalizer
    /\ queued \in [Workers -> BOOLEAN]
    /\ pc \in [Workers -> PCs]
    /\ \A w \in Workers :
        /\ DOMAIN resolved[w] \subseteq QNames
        /\ \A q \in DOMAIN resolved[w] : resolved[w][q] \in Ids
    /\ err \in [Workers -> {"none", "net", "server"}]
    /\ faults \in 0..MaxFaults /\ edits \in 0..MaxEdits

\* Once the finalizer is gone and the object with it, the Consul service
\* holds no policy, role or binding rule that the object's last document
\* declares (deleteACL before RemoveFinalizer).
FinalizedCleanup ==
    (cr.created /\ ~cr.exists /\ cr.spec # Undecodable) =>
        /\ \A e \in policies : e.name \notin DeclaredPolicies(cr.spec)
        /\ \A e \in roles : e.name \notin DeclaredRoles(cr.spec)
        /\ \A e \in bindingRules : e.bindName \notin DeclaredBinds(cr.spec)

\* Once the object is gone, no entity named for it is left in Consul at all,
\* including entities a former document declared (the engine "tracks
\* which entities it owns" and tears them down).
NoOrphanedEntities ==
    (cr.created /\ ~cr.exists) =>
        /\ \A e \in policies : ~OwnedName(e.name)
        /\ \A e \in roles : ~OwnedName(e.name)
        /\ \A e \in bindingRules : ~OwnedName(e.bindName)

\* deleteAclEntities' order: a role leaves Consul only when no binding rule
\* names it, and a policy only when no role links it.
IdSet(S) == {e.id : e \in S}
NoDanglingReferenceOnDelete ==
    [][ /\ \A r \in {r \in roles : r.id \notin IdSet(roles')} :
             \A b \in bindingRules : b.bindName # r.name
        /\ \A p \in {p \in policies : p.id \notin IdSet(policies')} :
             \A r \in roles : p.id \notin r.links
      ]_<<policies, roles, bindingRules>>

\* A deletion request is carried through: the finalizer is removed and the
\* object disappears, unless its document cannot be decoded (deleteACL
\* returns the decode error on every attempt).
DeletionCompletes ==
    (cr.exists /\ cr.deleting) ~> (~cr.exists \/ cr.spec = Undecodable)

\* Transport failures are retried until the declared policies and roles
\* exist: a net.Error is "the cycle's returned failure, causing the
\* invoking framework to reschedule the cycle".
Synced ==
    cr.exists /\ ~cr.deleting /\ cr.spec # Undecodable =>
        /\ DeclaredPolicies(cr.spec) \subseteq {e.name : e \in policies}
        /\ DeclaredRoles(cr.spec) \subseteq {e.name : e \in roles}
TransportFailuresRetried == <>[]Synced

\* The outcomes a StatusHolder records for a successful write.
Success == {"created", "updated"}

\* StatusHolder entry of map m under key k is a success.
Succeeded(m, k) == k \in DOMAIN m /\ m[k] \in Success

\* When a cycle has run its three passes, every role it reports created or
\* updated links in Consul exactly the policies among its policy_names
\* that the same cycle reports created or updated: a policy whose write
\* failed is dropped from the links, and no link is missing.  (spec 4.3 and
\* the scenario "role reader links app_ns_read"; processPolicies'
\* processedPolicies, getPolicyLinks, processRoles)
RoleLinksMatchStatus ==
    \A w \in Workers : pc[w] = "status" =>
        \A ro \in Range(snap[w].roles) :
            ro.name # NoName /\ Succeeded(st[w].r, NameKey(Qualify(ro.name))) =>
                \E e \in roles :
                    /\ e.name = Qualify(ro.name)
                    /\ e.links = {IdOf(policies, Qualify(n)) :
                                    n \in {n \in Range(ro.policyNames) :
                                            Succeeded(st[w].p, NameKey(Qualify(n)))}}

=============================================================================
