----------------------------- MODULE MC_TokenGC -----------------------------
(* Instance of TokenGC: two client pods in namespace ns, and the tokens a  *)
(* Consul datacenter holds besides client logins.                          *)
EXTENDS TokenGC

CONSTANTS p1, p2, ns

MCPods == {p1, p2}

\* The bootstrap token, a server agent's token, a client token whose
\* description has an empty pod, a description with broken JSON, and the
\* token left by an earlier pod named p1.
MCOtherDescs ==
    { [bootstrap |-> TRUE,  json |-> "none", component |-> "client", pod |-> <<>>],
      [bootstrap |-> FALSE, json |-> "ok",   component |-> "server", pod |-> <<ns, p2>>],
      [bootstrap |-> FALSE, json |-> "ok",   component |-> "client", pod |-> <<>>],
      [bootstrap |-> FALSE, json |-> "bad",  component |-> "client", pod |-> <<ns, p2>>],
      [bootstrap |-> FALSE, json |-> "ok",   component |-> "client", pod |-> <<ns, p1>>] }

=============================================================================
