---------------------------- MODULE MC_RestHandler ----------------------------
(* Two concurrent requests, two ConsulACL objects, ALLOWED_NAMESPACES unset *)
(* or naming ns1, and one token of each kind a caller may present.         *)
EXTENDS RestHandler

CONSTANTS r1, r2, k1, k2, ns1, ns2, noClaim

MCRequests == {r1, r2}
MCCRs == {k1, k2}
MCNamespaces == {ns1, ns2}

\* Unset (strings.Split("", ",") = [""]) or "ns1".
MCAllowConfigs == {{""}, {ns1}}

\* Authenticated from the allowed and from another namespace, authenticated
\* without the namespace claim, rejected by the TokenReview, and a review
\* that fails.
MCTokenKinds ==
    { [review |-> "authenticated", claim |-> ns1],
      [review |-> "authenticated", claim |-> ns2],
      [review |-> "authenticated", claim |-> noClaim],
      [review |-> "unauthenticated", claim |-> ns1],
      [review |-> "error", claim |-> ns1] }

\* A single request.
MCOneRequest == {r1}

\* ALLOWED_NAMESPACES set, and a caller whose token lacks the flat
\* namespace claim (a projected service-account token).
MCAllowSet == {{ns1}}
MCClaimless == {[review |-> "authenticated", claim |-> noClaim]}


=============================================================================
