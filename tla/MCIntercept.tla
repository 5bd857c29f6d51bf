----------------------------- MODULE MCIntercept ----------------------------
EXTENDS Intercept, TLC

CONSTANTS n101, n102, n103
\* One address; the DNS server's and one that it gives out, on-link and so not
\* routed; and a network around the first.
MCNetwork == n101 :> {101} @@ n102 :> {2, 3} @@ n103 :> {101, 103}

Service(id, name, dial, cfg) == [id |-> id, name |-> name, dial |-> dial, cfg |-> cfg]

\* A literal and a host; a domain and the same literal twice; a host and a name
\* that the domain covers, the network around the literal and the one that the DNS
\* gives out of, and the empty domain "*.".
MCAddresses ==
  [host   |-> << <<"literal", n101>>, <<"host", "a">> >>,
   domain |-> << <<"wildcard", "x">>, <<"literal", n101>>, <<"literal", n101>> >>,
   both   |-> << <<"host", "a">>, <<"host", "b.x">>, <<"literal", n103>>, <<"literal", n102>>, <<"wildcard", "">> >>]
MCClasses == [host |-> {"tcp"}, domain |-> {"tcp", "udp"}, both |-> {"udp"}]

\* Configs swapped, a permission lost, a config lost, a rename, a name reused.
MCLists ==
  { << Service(1, "s", TRUE, "host"), Service(2, "t", TRUE, "domain") >>,
    << Service(1, "s", TRUE, "both"), Service(2, "t", TRUE, "domain") >>,
    << Service(2, "t", FALSE, "domain"), Service(1, "s", TRUE, "both") >>,
    << Service(1, "s", TRUE, NoConfig), Service(3, "t", TRUE, "host") >>,
    << Service(1, "t", TRUE, "both"), Service(2, "s", TRUE, "host") >>,
    << Service(1, "u", TRUE, "domain") >> }

MCNames == {"a", "x", "b.x", "c.x", ""}
MCDomains == [n \in MCNames |-> IF n \in {"a", "x", ""} THEN <<n>> ELSE <<n, "x">>]
=============================================================================
