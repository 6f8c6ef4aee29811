--------------------------- MODULE NamingResolver ---------------------------
(***************************************************************************)
(* convertEntityName and the three fmt.Sprintf("%s_%s_%s", ...) copies of *)
(* it in processPolicies, processRoles, getPolicyLinks and                 *)
(* convertBindRuleAdapterToBindRule: the Consul name of a declared entity  *)
(* is the resource's name, its namespace and the entity's name joined by   *)
(* "_".  ACLReconciler represents that string by the triple it is built    *)
(* from (Qualify); the representation is sound only if no two triples of  *)
(* legal names give the same string.  Strings are sequences of            *)
(* one-character strings over small alphabets.                            *)
(***************************************************************************)
EXTENDS Naturals, Sequences, SequencesExt

CONSTANTS
    CRNameChars,     \* characters of a resource name (a DNS subdomain)
    NamespaceChars,  \* characters of a namespace (a DNS label)
    EntityChars,     \* characters of a declared policy, role or bind name
    MaxNameLen       \* bound on the length of each part

Sep == "_"

\* Non-empty strings over an alphabet: Kubernetes names are never empty,
\* and an entity without a name is skipped before it is converted.
Names(chars) == {s \in BoundedSeq(chars, MaxNameLen) : s # <<>>}

\* convertEntityName(entityName, name, namespace).
ConvertEntityName(entityName, name, namespace) ==
    name \o <<Sep>> \o namespace \o <<Sep>> \o entityName

\* The reference reading of a Consul name: the resource name up to the
\* first "_", the namespace up to the next, the entity name after it.
ParseEntityName(s) ==
    LET i == SelectInSeq(s, LAMBDA c : c = Sep)
        j == SelectInSubSeq(s, i + 1, Len(s), LAMBDA c : c = Sep)
    IN <<SubSeq(s, 1, i - 1), SubSeq(s, i + 1, j - 1), SubSeq(s, j + 1, Len(s))>>

\* A Consul name determines the resource and the entity it was made for:
\* (an assumption of MC_ACLReconciler, which TLC checks before each run)
\* reading it back gives the parts it was built from, for every legal
\* resource name, namespace and entity name.  Otherwise deleteACL's
\* lookups and deleteBindingRules' BindName comparison of one resource
\* would match another resource's entities.
ConvertEntityNameInjective ==
    \A n \in Names(CRNameChars), ns \in Names(NamespaceChars), e \in Names(EntityChars) :
        ParseEntityName(ConvertEntityName(e, n, ns)) = <<n, ns, e>>

=============================================================================
