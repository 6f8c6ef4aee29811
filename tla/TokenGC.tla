------------------------------ MODULE TokenGC ------------------------------
(***************************************************************************)
(* The token garbage-collection job of src/remove-tokens/remove-tokens.go  *)
(* and the cluster it runs against: Consul client pods that log in to      *)
(* Consul and so create ACL tokens whose description names the pod, and    *)
(* the Consul token store.  The job lists the Running client pods, then    *)
(* fetches every token, picks the tokens of dead pods and all but the      *)
(* newest token of live pods, and revokes them one by one.  The pods keep  *)
(* starting, logging in and stopping between the job's steps.             *)
(***************************************************************************)
EXTENDS Naturals, Sequences, FiniteSets, SequencesExt

CONSTANTS
    Pods,           \* names of the consul client pods that may exist
    Namespace,      \* CONSUL_NAMESPACE, the namespace of the client pods
    OtherDescs,     \* descriptions of the tokens no client login created
    PendingLogins,  \* whether a pod logs in while still Pending (init container)
    MaxLogins       \* bound on client logins, i.e. on client tokens created

(* A token description, after what parseDescription looks at: whether it  *)
(* mentions "Bootstrap Token" or starts with "Bootstrap", whether the text *)
(* from the first "{" on is absent, not JSON, or JSON, and the decoded     *)
(* component and pod ("namespace/name" as its "/"-separated segments).    *)
Descs == [bootstrap : BOOLEAN, json : {"none", "bad", "ok"},
          component : {"client", "server"}, pod : Seq(Pods \cup {Namespace})]

ASSUME OtherDescs \subseteq Descs
ASSUME PendingLogins \in BOOLEAN /\ MaxLogins \in Nat

VARIABLES
    phase,     \* phase[p]: "Absent", "Pending", "Running" or "Terminated"
    held,      \* held[p]: CreateTime of the token pod p's agent logged in with, 0 if none
    tokens,    \* the ACL tokens in Consul
    clock,     \* CreateTime of the last token a login created
    jpc,       \* the job's next step
    live,      \* livePods, as getLiveConsulPods returned it
    fetched,   \* the tokens fetchConsulTokens returned
    toDelete   \* picked AccessorIDs deleteTokens has not sent yet

vars == <<phase, held, tokens, clock, jpc, live, fetched, toDelete>>

-----------------------------------------------------------------------------
(* Data.  A token is its description and CreateTime; it is identified by   *)
(* the record (AccessorID).  Tokens not made by a client login carry       *)
(* CreateTime 0; client logins get strictly increasing CreateTimes.        *)

OtherTokens == {[desc |-> d, created |-> 0] : d \in OtherDescs}

\* The description a client agent's login gives its token.
LoginDesc(p) == [bootstrap |-> FALSE, json |-> "ok",
                 component |-> "client", pod |-> <<Namespace, p>>]

\* Mutant: the first segment (parts[0]) taken for the pod name.
PodKeyFirstSegment(path) == IF path = <<>> THEN "" ELSE path[1]

\* podKey: the last "/"-separated segment; "" splits into one empty segment.
PodKey(path) == IF path = <<>> THEN "" ELSE Last(path)

\* parseDescription: the empty set for nil, else the decoded description.
ParseDescription(d) ==
    IF d.bootstrap \/ d.json # "ok" THEN {}
    ELSE {[component |-> d.component, pod |-> d.pod]}

\* Mutant: the td.Pod == "" test of groupTokensByPod left out.
ClientTokensWithoutPodCheck(ts) ==
    {t \in ts : \E td \in ParseDescription(t.desc) : td.component = "client"}

\* The tokens groupTokensByPod keeps.
ClientTokens(ts) ==
    {t \in ts : \E td \in ParseDescription(t.desc) :
                    td.component = "client" /\ td.pod # <<>>}

TokenPod(t) == PodKey(t.desc.pod)

\* groupTokensByPod: pod name -> the tokens naming it.
GroupTokensByPod(ts) ==
    [k \in {TokenPod(t) : t \in ClientTokens(ts)} |->
        {t \in ClientTokens(ts) : TokenPod(t) = k}]

\* The sort.Slice order: CreateTime descending.
Newer(a, b) == a.created > b.created

\* Mutant: the loop over a live pod's sorted tokens starts at i := 0.
PickTokensToDeleteFromZero(byPod, livePods) ==
    UNION {IF k \notin livePods THEN byPod[k]
           ELSE LET s == SetToSortSeq(byPod[k], Newer)
                IN ToSet(SubSeq(s, 1, Len(s))) : k \in DOMAIN byPod}

\* Mutant: sort.Slice with Before in place of After (oldest first).
PickTokensToDeleteOldestFirst(byPod, livePods) ==
    UNION {IF k \notin livePods THEN byPod[k]
           ELSE LET s == SetToSortSeq(byPod[k], LAMBDA a, b : Newer(b, a))
                IN ToSet(SubSeq(s, 2, Len(s))) : k \in DOMAIN byPod}

\* pickTokensToDelete: every token of a pod not in livePods; of a live
\* pod's tokens sorted newest first, all from the second on.
PickTokensToDelete(byPod, livePods) ==
    UNION {IF k \notin livePods THEN byPod[k]
           ELSE LET s == SetToSortSeq(byPod[k], Newer)
                IN ToSet(SubSeq(s, 2, Len(s))) : k \in DOMAIN byPod}

-----------------------------------------------------------------------------
(* The cluster *)

Init ==
    /\ phase = [p \in Pods |-> "Absent"]
    /\ held = [p \in Pods |-> 0]
    /\ tokens = OtherTokens
    /\ clock = 0
    /\ jpc = "list"
    /\ live = {}
    /\ fetched = {}
    /\ toDelete = {}

\* The scheduler creates pod p.
PodCreate(p) ==
    /\ phase[p] = "Absent"
    /\ phase' = [phase EXCEPT ![p] = "Pending"]
    /\ UNCHANGED <<held, tokens, clock, jpc, live, fetched, toDelete>>

PodStart(p) ==
    /\ phase[p] = "Pending"
    /\ phase' = [phase EXCEPT ![p] = "Running"]
    /\ UNCHANGED <<held, tokens, clock, jpc, live, fetched, toDelete>>

PodStop(p) ==
    /\ phase[p] \in {"Pending", "Running"}
    /\ phase' = [phase EXCEPT ![p] = "Terminated"]
    /\ UNCHANGED <<held, tokens, clock, jpc, live, fetched, toDelete>>

\* Pod p's agent logs in through the auth method: Consul creates a token
\* whose description names the pod, and the agent uses it from then on.
Login(p) ==
    /\ phase[p] = "Running" \/ (PendingLogins /\ phase[p] = "Pending")
    /\ clock < MaxLogins
    /\ clock' = clock + 1
    /\ held' = [held EXCEPT ![p] = clock']
    /\ tokens' = tokens \cup {[desc |-> LoginDesc(p), created |-> clock']}
    /\ UNCHANGED <<phase, jpc, live, fetched, toDelete>>

-----------------------------------------------------------------------------
(* The job: main() *)

\* getLiveConsulPods: the pods whose phase is Running; a failed List is
\* log.Fatalf.
ListPods ==
    /\ jpc = "list"
    /\ \/ /\ live' = {p \in Pods : phase[p] = "Running"}
          /\ jpc' = "fetch"
       \/ /\ jpc' = "exited"
          /\ UNCHANGED live
    /\ UNCHANGED <<phase, held, tokens, clock, fetched, toDelete>>

\* fetchConsulTokens, then groupTokensByPod and pickTokensToDelete; a
\* failed fetch is log.Fatalln.
FetchTokens ==
    /\ jpc = "fetch"
    /\ \/ /\ fetched' = tokens
          /\ toDelete' = PickTokensToDelete(GroupTokensByPod(tokens), live)
          /\ jpc' = "delete"
       \/ /\ jpc' = "exited"
          /\ UNCHANGED <<fetched, toDelete>>
    /\ UNCHANGED <<phase, held, tokens, clock, live>>

\* One iteration of deleteTokens' loop, in the order of the picked slice
\* (map iteration order): the DELETE revokes the token, or fails (request,
\* transport or non-200 status) and the loop goes on with the next id.
RevokeToken(t) ==
    /\ tokens' = tokens \ {t}
    /\ toDelete' = toDelete \ {t}

SkipFailedRevoke(t) ==
    /\ toDelete' = toDelete \ {t}
    /\ UNCHANGED tokens

DeleteToken ==
    /\ jpc = "delete"
    /\ \E t \in toDelete : RevokeToken(t) \/ SkipFailedRevoke(t)
    /\ UNCHANGED <<phase, held, clock, jpc, live, fetched>>

DeletesDone ==
    /\ jpc = "delete"
    /\ toDelete = {}
    /\ jpc' = "done"
    /\ UNCHANGED <<phase, held, tokens, clock, live, fetched, toDelete>>

\* The job has exited and the bounded cluster has nothing left to do.
Exited ==
    /\ jpc \in {"done", "exited"}
    /\ UNCHANGED vars

Job == ListPods \/ FetchTokens \/ DeleteToken \/ DeletesDone

Cluster == \E p \in Pods : PodCreate(p) \/ PodStart(p) \/ PodStop(p) \/ Login(p)

Next == Job \/ Cluster \/ Exited

\* The job is one process that runs its steps to the end; the pods owe it
\* nothing.
Spec == Init /\ [][Next]_vars /\ WF_vars(Job)

-----------------------------------------------------------------------------
(* Properties *)

HeldToken(p) == [desc |-> LoginDesc(p), created |-> held[p]]

TypeOK ==
    /\ phase \in [Pods -> {"Absent", "Pending", "Running", "Terminated"}]
    /\ held \in [Pods -> 0..MaxLogins]
    /\ tokens \subseteq [desc : Descs, created : 0..MaxLogins]
    /\ clock \in 0..MaxLogins
    /\ jpc \in {"list", "fetch", "delete", "done", "exited"}
    /\ live \subseteq Pods
    /\ toDelete \subseteq fetched
    \* the keys the fetched client tokens are grouped under are pod names
    /\ DOMAIN GroupTokensByPod(fetched) \subseteq Pods

\* The revoked set is what the reference definition of a stale token
\* picks from the observed tokens and pods: a client token whose pod was
\* not Running when listed, or that has a newer token of the same pod.
\* This checks groupTokensByPod and pickTokensToDelete's sort and loop.
StaleTokens(ts, livePods) ==
    {t \in ClientTokens(ts) :
        \/ TokenPod(t) \notin livePods
        \/ \E u \in ClientTokens(ts) : TokenPod(u) = TokenPod(t) /\ Newer(u, t)}

PickMatchesReference ==
    jpc \in {"delete", "done"} =>
        PickTokensToDelete(GroupTokensByPod(fetched), live) = StaleTokens(fetched, live)

\* A pod the job saw Running never loses the token its agent uses: the
\* job keeps the newest token of each live pod, and a later login is not
\* among the fetched tokens.  (pickTokensToDelete, "keep latest token")
ObservedLivePodsKeepToken ==
    \A p \in live : held[p] # 0 => HeldToken(p) \in tokens

\* The comment of pickTokensToDelete: "pod is alive -> keep latest token".
\* Every pod that exists (Pending or Running) and has logged in still has
\* the token it logged in with.
AliveKeepsLatestToken ==
    \A p \in Pods :
        phase[p] \in {"Pending", "Running"} /\ held[p] # 0 => HeldToken(p) \in tokens

\* The job only ever revokes tokens that a client pod's login created:
\* never the bootstrap token, a server's token, or a token whose
\* description does not name a pod.  (parseDescription, groupTokensByPod)
OnlyLoginTokensRevoked ==
    [][\A t \in tokens \ tokens' : \E p \in Pods : t.desc = LoginDesc(p)]_tokens


=============================================================================
