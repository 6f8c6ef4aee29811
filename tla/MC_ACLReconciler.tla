-------------------------- MODULE MC_ACLReconciler --------------------------
(***************************************************************************)
(* Instances of ACLReconciler for TLC.  The CR is <<"app", "ns">>; its     *)
(* documents declare the policies "read" and "write", the role "reader"    *)
(* and a binding rule binding the service account to "reader".            *)
(***************************************************************************)
EXTENDS ACLReconciler

\* Kubernetes names: a resource name is a DNS subdomain (lower-case letters,
\* digits, "-" and "."), a namespace a DNS label (no "."); neither has "_".
\* Declared entity names may contain "_".
INSTANCE NamingResolver
    WITH CRNameChars <- {"a", "-", "."}, NamespaceChars <- {"a", "-"},
         EntityChars <- {"a", "_", "-"}, MaxNameLen <- 2

\* Qualify's triples stand for convertEntityName's strings: no two legal
\* triples render the same Consul name.  (A separator that names may
\* contain, such as "-", makes this fail.)
ASSUME ConvertEntityNameInjective

\* One role linking "read".
DocRead ==
    [policies  |-> <<"read", "write">>,
     roles     |-> <<[name |-> "reader", policyNames |-> <<"read">>]>>,
     bindRules |-> <<"reader">>]

\* The same entities, the role linking both policies, and one entry of
\* each kind without a name.
DocReadWrite ==
    [policies  |-> <<"read", "", "write">>,
     roles     |-> <<[name |-> "reader", policyNames |-> <<"read", "write">>],
                     [name |-> "", policyNames |-> <<>>]>>,
     bindRules |-> <<"reader", "">>]

\* A later document that no longer declares "write" nor the binding rule.
DocReadOnly ==
    [policies  |-> <<"read">>,
     roles     |-> <<[name |-> "reader", policyNames |-> <<"read">>]>>,
     bindRules |-> <<>>]

MCOwner == <<"app", "ns">>

\* Documents of one entity set: edits change links and empty entries only.
DocsSameEntities == {DocRead, DocReadWrite, Undecodable}
\* Documents whose edits drop entities.
DocsDropping == {DocReadWrite, DocReadOnly}
\* Two declared policies, no empty entries, no decode errors.
DocsPlain == {DocRead}
=============================================================================
