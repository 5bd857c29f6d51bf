---------------------------- MODULE MCDnsForward ----------------------------
EXTENDS DnsForward

AskFor(id, kind) == [id |-> id, kind |-> kind, domain |-> "x"]

MCMenu == {AskFor(7, "record"), AskFor(7, "foreign"), AskFor(8, "other")}
MCFirstHost == [d \in Domains |-> "s"]
=============================================================================
