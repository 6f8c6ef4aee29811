----------------------------- MODULE RestHandler -----------------------------
(***************************************************************************)
(* The /reconcile endpoint of rest-acl-configurator (cmd/main.go): each    *)
(* request runs handlerFunc in its own goroutine.  It authenticates the    *)
(* bearer token with a TokenReview, checks the namespace claim against     *)
(* ALLOWED_NAMESPACES, lists every ConsulACL CR and writes a new           *)
(* spec.acl.commonReconcile into each, then answers.  Requests interleave  *)
(* with each other and with the operator's own writes to the same CRs.    *)
(***************************************************************************)
EXTENDS Naturals, FiniteSets

CONSTANTS
    Requests,          \* concurrent /reconcile requests
    CRs,               \* the ConsulACL objects in the cluster
    TokenKinds,        \* the bearer tokens callers present
    Namespaces,        \* service-account namespaces
    NoClaim,           \* a token without the kubernetes.io/serviceaccount/namespace claim
    AllowConfigs,      \* values strings.Split(ALLOWED_NAMESPACES, ",") may have, as sets
    MaxOperatorWrites  \* bound on the operator's writes to the CRs

\* "acl": spec.acl is an object; "aclNotMap": spec.acl is not an object;
\* "noAcl": spec has no acl field; "noSpec": the object has no spec map.
Shapes == {"acl", "aclNotMap", "noAcl", "noSpec"}

\* A token: what the TokenReview answers, and the namespace claim it carries.
Tokens == [review : {"error", "unauthenticated", "authenticated"},
           claim : Namespaces \cup {NoClaim}]

ASSUME TokenKinds \subseteq Tokens
ASSUME AllowConfigs \subseteq SUBSET (Namespaces \cup {""})

None == "none"

VARIABLES
    allow,     \* allowNamespaces, read once at start
    shape,     \* shape[k]: what spec and spec.acl of CR k hold
    rv,        \* rv[k]: metadata.resourceVersion of CR k
    gen,       \* gen[k]: metadata.generation of CR k (bumped by spec writes)
    msg,       \* msg[k]: the request whose commonReconcile message CR k holds
    opWrites,  \* writes the operator has made
    pc,        \* pc[r]: where request r's handler is
    tok,       \* tok[r]: the token request r presents
    snap,      \* snap[r][k]: rv and generation of CR k in request r's List
    todo,      \* CRs of the list request r has not handled yet
    result,    \* the result variable of changeReconcileSpecField
    code,      \* code[r]: the status code sent to request r, 0 before any
    body       \* body[r]: the response text written to request r, or None

vars == <<allow, shape, rv, gen, msg, opWrites, pc, tok, snap, todo, result, code, body>>
crVars == <<allow, shape, rv, gen, msg, opWrites>>

-----------------------------------------------------------------------------
(* net/http's ResponseWriter: the first Write sends the header with 200;  *)
(* a WriteHeader after that is superfluous and ignored.                    *)

AfterWrite(c) == IF c = 0 THEN 200 ELSE c

AfterWriteHeader(c, status) == IF c = 0 THEN status ELSE c

\* w.Write(text) followed by w.WriteHeader(status), as handlerFunc does.
WriteThenHeader(r, text, status) ==
    /\ body' = [body EXCEPT ![r] = text]
    /\ code' = [code EXCEPT ![r] = AfterWriteHeader(AfterWrite(code[r]), status)]

\* A panic in the handler: JsonContentType's recover calls http.Error with
\* err.(string), which panics again for a runtime error, and the server
\* closes the connection without an answer.
Abort(r) ==
    /\ pc' = [pc EXCEPT ![r] = "done"]
    /\ UNCHANGED <<code, body>>

-----------------------------------------------------------------------------
(* Authentication *)

\* isNamespaceAllowed
IsNamespaceAllowed(ns) == ns \in allow

\* ALLOWED_NAMESPACES unset: Split gives [""] and every namespace passes.
AllowAll == allow = {""}

Init ==
    /\ allow \in AllowConfigs
    /\ shape \in [CRs -> Shapes]
    /\ rv = [k \in CRs |-> 1]
    /\ gen = [k \in CRs |-> 1]
    /\ msg = [k \in CRs |-> None]
    /\ opWrites = 0
    /\ pc = [r \in Requests |-> "auth"]
    /\ tok \in [Requests -> TokenKinds]
    /\ snap = [r \in Requests |-> [k \in CRs |-> [rv |-> 0, gen |-> 0]]]
    /\ todo = [r \in Requests |-> {}]
    /\ result = [r \in Requests |-> TRUE]
    /\ code = [r \in Requests |-> 0]
    /\ body = [r \in Requests |-> None]

\* "Access denied" then WriteHeader(401).
Deny(r) ==
    /\ WriteThenHeader(r, "Access denied", 401)
    /\ pc' = [pc EXCEPT ![r] = "done"]

\* Mutant: checkAuthorization called whether or not the TokenReview
\* authenticated the token.
CheckAuthSkippingReview(r) ==
    /\ pc[r] = "auth"
    /\ IF tok[r].review = "error" THEN Deny(r)
       ELSE IF AllowAll THEN /\ pc' = [pc EXCEPT ![r] = "list"]
                             /\ UNCHANGED <<code, body>>
       ELSE IF tok[r].claim = NoClaim THEN Abort(r)
       ELSE IF IsNamespaceAllowed(tok[r].claim)
            THEN /\ pc' = [pc EXCEPT ![r] = "list"]
                 /\ UNCHANGED <<code, body>>
            ELSE Deny(r)
    /\ UNCHANGED <<crVars, tok, snap, todo, result>>

\* checkAuth: a TokenReview error or an unauthenticated token is denied;
\* an authenticated one goes through checkAuthorization, whose type
\* assertion namespace.(string) panics when the claim is absent.
CheckAuth(r) ==
    /\ pc[r] = "auth"
    /\ IF tok[r].review # "authenticated" THEN Deny(r)
       ELSE IF AllowAll THEN /\ pc' = [pc EXCEPT ![r] = "list"]
                             /\ UNCHANGED <<code, body>>
       ELSE IF tok[r].claim = NoClaim THEN Abort(r)
       ELSE IF IsNamespaceAllowed(tok[r].claim)
            THEN /\ pc' = [pc EXCEPT ![r] = "list"]
                 /\ UNCHANGED <<code, body>>
            ELSE Deny(r)
    /\ UNCHANGED <<crVars, tok, snap, todo, result>>

-----------------------------------------------------------------------------
(* changeReconcileSpecField *)

\* The answer once changeReconcileSpecField returns ok.
Answer(r, ok) ==
    /\ IF ok THEN WriteThenHeader(r, "Reconciliation done!", 200)
             ELSE WriteThenHeader(r, "Some errors occurred", 504)
    /\ pc' = [pc EXCEPT ![r] = "done"]

\* List of consulacls: a failure returns false at once.
ListCRs(r) ==
    /\ pc[r] = "list"
    /\ \/ /\ snap' = [snap EXCEPT ![r] = [k \in CRs |-> [rv |-> rv[k], gen |-> gen[k]]]]
          /\ todo' = [todo EXCEPT ![r] = CRs]
          /\ result' = [result EXCEPT ![r] = TRUE]
          /\ pc' = [pc EXCEPT ![r] = "update"]
          /\ UNCHANGED <<code, body>>
       \/ /\ Answer(r, FALSE)
          /\ UNCHANGED <<snap, todo, result>>
    /\ UNCHANGED <<crVars, tok>>

\* Mutant: a failed Update that does not set result = false.
ApplyUpdateIgnoringConflict(r, k) ==
    \/ /\ rv[k] = snap[r][k].rv
       /\ rv' = [rv EXCEPT ![k] = @ + 1]
       /\ gen' = [gen EXCEPT ![k] = @ + 1]
       /\ msg' = [msg EXCEPT ![k] = r]
       /\ UNCHANGED result
    \/ UNCHANGED <<rv, gen, msg, result>>

\* Update of the listed object with the new message.  The API server
\* refuses it when the object changed since the List (resourceVersion);
\* any other error of the call (transport, RBAC, timeout) may refuse it
\* too.  Either refusal sets result = false and leaves the object.
ApplyUpdate(r, k) ==
    \/ /\ rv[k] = snap[r][k].rv
       /\ rv' = [rv EXCEPT ![k] = @ + 1]
       /\ gen' = [gen EXCEPT ![k] = @ + 1]
       /\ msg' = [msg EXCEPT ![k] = r]
       /\ UNCHANGED result
    \/ /\ result' = [result EXCEPT ![r] = FALSE]
       /\ UNCHANGED <<rv, gen, msg>>

\* One iteration of the loop over objs.Items.
UpdateCR(r, k) ==
    /\ pc[r] = "update"
    /\ k \in todo[r]
    /\ todo' = [todo EXCEPT ![r] = @ \ {k}]
    /\ CASE shape[k] = "noSpec" ->
              Abort(r) /\ UNCHANGED <<rv, gen, msg, result>>
         [] shape[k] \in {"noAcl", "aclNotMap"} ->
              /\ result' = [result EXCEPT ![r] = FALSE]
              /\ UNCHANGED <<rv, gen, msg, pc, code, body>>
         [] shape[k] = "acl" ->
              ApplyUpdate(r, k) /\ UNCHANGED <<pc, code, body>>
    /\ UNCHANGED <<allow, shape, opWrites, tok, snap>>

UpdatesDone(r) ==
    /\ pc[r] = "update"
    /\ todo[r] = {}
    /\ Answer(r, result[r])
    /\ UNCHANGED <<crVars, tok, snap, todo, result>>

-----------------------------------------------------------------------------
(* The operator writes the same objects: the finalizer and the status.    *)
(* Neither changes the spec, so the generation stays.                      *)

OperatorWrite(k) ==
    /\ opWrites < MaxOperatorWrites
    /\ opWrites' = opWrites + 1
    /\ rv' = [rv EXCEPT ![k] = @ + 1]
    /\ UNCHANGED <<allow, shape, gen, msg, pc, tok, snap, todo, result, code, body>>

AllAnswered ==
    /\ \A r \in Requests : pc[r] = "done"
    /\ UNCHANGED vars

Handler(r) == CheckAuth(r) \/ ListCRs(r) \/ (\E k \in CRs : UpdateCR(r, k)) \/ UpdatesDone(r)

Next ==
    \/ \E r \in Requests : Handler(r)
    \/ \E k \in CRs : OperatorWrite(k)
    \/ AllAnswered

Spec == Init /\ [][Next]_vars /\ \A r \in Requests : WF_vars(Handler(r))

-----------------------------------------------------------------------------
(* Properties *)

TypeOK ==
    /\ rv \in [CRs -> Nat] /\ gen \in [CRs -> Nat]
    /\ msg \in [CRs -> Requests \cup {None}]
    /\ pc \in [Requests -> {"auth", "list", "update", "done"}]
    /\ tok \in [Requests -> TokenKinds]
    /\ todo \in [Requests -> SUBSET CRs]
    /\ result \in [Requests -> BOOLEAN]
    /\ code \in [Requests -> {0, 200, 401, 504}]
    /\ body \in [Requests -> {None, "Access denied", "Some errors occurred",
                              "Reconciliation done!"}]

\* What checkAuth and checkAuthorization are meant to admit: a token the
\* TokenReview authenticates, from an allowed namespace unless
\* ALLOWED_NAMESPACES is unset.
Admissible(r) ==
    /\ tok[r].review = "authenticated"
    /\ AllowAll \/ tok[r].claim \in allow

\* A CR's spec is only ever rewritten by a request whose token is
\* admissible.  (checkAuth before changeReconcileSpecField)
UpdatesOnlyAdmissible ==
    [][\A k \in CRs : msg'[k] # msg[k] => Admissible(msg'[k])]_msg

\* "Reconciliation done!" is answered only when every listed CR got a new
\* generation after the request listed it, i.e. the operator will see a
\* spec change for each of them.  (result in changeReconcileSpecField)
DoneMeansEveryCRTouched ==
    \A r \in Requests, k \in CRs :
        body[r] = "Reconciliation done!" => gen[k] > snap[r][k].gen

\* The status handlerFunc asks for matches the text it writes: 401 with
\* "Access denied", 504 with the failure text, 200 on success.
CodeFor(text) ==
    CASE text = "Access denied" -> 401
      [] text = "Some errors occurred" -> 504
      [] text = "Reconciliation done!" -> 200

ResponseCodeMatchesBody ==
    \A r \in Requests : body[r] # None => code[r] = CodeFor(body[r])

\* Every request the handler finishes is answered.
EveryRequestAnswered ==
    \A r \in Requests : pc[r] = "done" => body[r] # None

=============================================================================
