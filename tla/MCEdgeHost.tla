----------------------------- MODULE MCEdgeHost -----------------------------
EXTENDS EdgeHost

CONSTANTS d1, d2

\* Both ways to the child's id, with and without encryption, and both refusals.
InstanceForms ==
  { [token |-> "ok", provided |-> TRUE, key |-> "none"],
    [token |-> "ok", provided |-> FALSE, key |-> "ok"],
    [token |-> "bad", provided |-> TRUE, key |-> "none"],
    [token |-> "ok", provided |-> FALSE, key |-> "bad"] }
=============================================================================
