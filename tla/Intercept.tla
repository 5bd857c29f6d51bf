----------------------------- MODULE Intercept ------------------------------
(***************************************************************************)
(* The transparent intercept (tunnel/intercept): the service poll, the     *)
(* service cache (edge/services.rs), the resolver, the synthetic DNS, the  *)
(* OS routes and the registry of flows.  All of it runs on one thread, so  *)
(* that from one await to the next nothing but the controller moves.       *)
(*                                                                         *)
(* svc_poll_loop applies the events of a poll in a loop without an await:  *)
(* here a step is one event, or one address of a config, and everything    *)
(* else on the thread waits until the loop is through (Applying).          *)
(*                                                                         *)
(* An address is a number: 1..Mask-1 are the host parts that the DNS hands *)
(* out.  A network that a config names is the set of its addresses, and may*)
(* contain some that the DNS hands out, or another network.  A traffic     *)
(* class stands for a protocol, port and source.                           *)
(* A config that is absent and one that does not parse are both NoConfig.  *)
(* A Vec is a set of records whose order is their field `at'.              *)
(***************************************************************************)
EXTENDS Naturals, Sequences, FiniteSets

CONSTANTS
  Lists,      \* the service lists that the controller may have
  Addresses,  \* the addresses of a config, in its order
  Classes,    \* the traffic classes that it names
  Names,      \* DNS names
  Domains,    \* a name and the domains that it is in, the longest first
  Mask,       \* IpPool's counter_mask
  ReservedIps,\* the utun's own address, and the DNS server's
  Literals,   \* the networks that configs name,
  Network,    \* and the addresses in them
  Routable,   \* those that route_allowed lets through
  Flows, NoConfig, NoDomain, NoService, NoName,
  MaxChanges, \* bound: changes of the service list
  MaxErrors   \* bound: failed requests

Capacity == Mask - 1
Ips == 1..Capacity
AllIps == Ips \cup ReservedIps \cup UNION {Network[l] : l \in Literals}
Configs == DOMAIN Addresses
Elements(q) == {q[i] : i \in DOMAIN q}
Services == UNION {Elements(l) : l \in Lists}
ServiceNames == {s.name : s \in Services}
AllClasses == UNION {Classes[c] : c \in Configs}

\* An address is a network, a host's name or a domain ("wildcard").  The domains
\* of a domain are domains of the names in it.  A list has each name once.
ASSUME InterceptAssumption ==
  /\ \A l \in Lists : l \in Seq(Services)
  /\ \A s \in Services : s.cfg \in Configs \cup {NoConfig} /\ s.dial \in BOOLEAN
  /\ \A l \in Lists : \A i, j \in DOMAIN l : l[i].name = l[j].name => i = j
  /\ \A c \in Configs : Addresses[c] \in
       Seq(({"literal"} \X Literals) \cup ({"host", "wildcard"} \X Names))
  /\ Domains \in [Names -> Seq(Names)]
  /\ \A n \in Names : n \in Elements(Domains[n])
  /\ \A n \in Names : \A d \in Elements(Domains[n]) : Elements(Domains[d]) \subseteq Elements(Domains[n])
  /\ Mask \in Nat \ {0, 1} /\ ReservedIps \subseteq Nat
  /\ Routable \subseteq Literals /\ Network \in [Literals -> SUBSET Nat]
  /\ NoConfig \notin Configs /\ NoDomain \notin Names /\ NoName \notin Names \cup {""}
  /\ NoService \notin Services /\ NoService \notin ServiceNames
  /\ MaxChanges \in Nat /\ MaxErrors \in Nat

VARIABLES
  list,       \* the controller's service list
  stamp,      \* its lastChangeAt
  errors,     \* failed requests so far
  cache,      \* ServiceWatcher's cache, by name
  lastUpdate, \* last_service_update, 0 for None
  poll,       \* where svc_poll_loop is
  newTs,      \* the stamp that it was given
  removed,    \* the events of the last poll that it has still to apply: Removed,
  upserts,    \* then Added and Changed
  addrs,      \* the addresses that add_service has still to install
  entries,    \* InterceptResolver's entries,
  wildcards,  \* its wildcards
  installed,  \* and its installed_configs
  hosts,      \* DnsMatcher's hostnames,
  domains,    \* the owners of its domains,
  ips,        \* its ip_addresses
  counter,    \* and its pool's counter
  counts,     \* RouteLifecycle's counts
  flows       \* FlowRegistry, and what the flows were started under

controller == <<list, stamp, errors>>
client == <<cache, lastUpdate, poll, newTs>>
events == <<removed, upserts, addrs>>
dns == <<hosts, domains, ips, counter>>
resolver == <<entries, wildcards, installed>>
vars == <<controller, client, events, resolver, dns, counts, flows>>

NoFlow == [service |-> NoService, cfg |-> NoConfig, killed |-> FALSE]
NoHost == [ip |-> 0, domain |-> NoDomain, owners |-> {}]

Applying == removed # {} \/ upserts # {} \/ addrs # {}

IsFirst(x, vec) == x \in vec /\ \A y \in vec : x.at <= y.at
IsLast(p, vec) == p \in {0} \cup {y.at : y \in vec} /\ \A y \in vec : y.at <= p

----------------------------------------------------------------------------
(* dns/pool.rs and dns/matcher.rs.                                         *)

\* allocate: from the counter on, cyclically, the first that is not taken.
Taken == {ip \in DOMAIN ips : ips[ip] # NoName}
Candidate(i) == ((counter - 1 + i) % Capacity) + 1
Tries == {i \in 0..(Capacity - 1) : Candidate(i) \notin Taken}
Exhausted == Cardinality(Taken) >= Capacity \/ Tries = {}
Allocate(name, domain, owners, ip) ==
  /\ ~Exhausted
  /\ \E i \in Tries : (\A j \in Tries : i <= j) /\ ip = Candidate(i)
  /\ ips' = [ips EXCEPT ![ip] = name]
  /\ hosts' = [hosts EXCEPT ![name] = [ip |-> ip, domain |-> domain, owners |-> owners]]
  /\ counter' = (ip % Capacity) + 1

\* register, for a hostname: an entry that is there gains an owner.
Register(name, s, ip) ==
  \/ /\ hosts[name] # NoHost /\ ip = hosts[name].ip
     /\ hosts' = [hosts EXCEPT ![name].owners = @ \cup {s}]
     /\ UNCHANGED <<ips, counter>>
  \/ hosts[name] = NoHost /\ Allocate(name, NoDomain, {s}, ip)

\* register, for a wildcard.
RegisterDomain(domain, s) == domains' = [domains EXCEPT ![domain] = @ \cup {s}]

\* Fault: an entry goes with any of its owners.
OwnedByAll(h, s) ==
  \/ hosts[h].owners # {} /\ s \notin hosts[h].owners
  \/ hosts[h].domain # NoDomain /\ domains[hosts[h].domain] \ {s} # {}

\* Fault: names given out under a domain stay when the domain goes.
OwnedOrDomain(h, s) == hosts[h].owners \ {s} # {} \/ hosts[h].domain # NoDomain

\* A hostname stays while it has an owner, or while the domain under which it
\* was looked up has one.
Owned(h, s) ==
  \/ hosts[h].owners \ {s} # {}
  \/ hosts[h].domain # NoDomain /\ domains[hosts[h].domain] \ {s} # {}

\* deregister_intercept.  A domain without owners is not there.
Deregister(s) ==
  LET gone == {h \in Names : hosts[h] # NoHost /\ ~Owned(h, s)}
  IN /\ domains' = [n \in Names |-> domains[n] \ {s}]
     /\ hosts' = [h \in Names |-> IF h \in gone THEN NoHost ELSE [hosts[h] EXCEPT !.owners = @ \ {s}]]
     /\ ips' = [ip \in DOMAIN ips |-> IF \E h \in gone : hosts[h].ip = ip THEN NoName ELSE ips[ip]]
     /\ UNCHANGED counter

\* find_domain: the name itself, then the longest domain that it is in.
FindDomain(name, domain) ==
  \E i \in DOMAIN Domains[name] :
    /\ domain = Domains[name][i] /\ domains[domain] # {}
    /\ \A j \in DOMAIN Domains[name] : j < i => domains[Domains[name][j]] = {}

\* reverse_lookup_domain: the entry of the name must be this address's.
DomainOf(ip) ==
  IF ip \in DOMAIN ips /\ ips[ip] \in Names /\ hosts[ips[ip]].ip = ip
  THEN hosts[ips[ip]].domain ELSE NoDomain

----------------------------------------------------------------------------
(* resolve/resolver.rs, routes and flows.                                  *)

\* remove_service, but for installed_configs.
RemoveService(s) ==
  /\ entries' = {e \in entries : e.service # s}
  /\ wildcards' = {w \in wildcards : w.service # s}
  /\ Deregister(s)

\* literal_addrs, those that are a network: where the config names it.
Mentions(cfg, l) ==
  IF cfg = NoConfig THEN {} ELSE {i \in DOMAIN Addresses[cfg] : Addresses[cfg][i] = <<"literal", l>>}

\* RouteLifecycle::delete, once for each mention, without an underflow.
Deleted(c, n) == IF c < n THEN 0 ELSE c - n

\* Fault: a network that a config names twice is taken back once.
ApplyDeltaOnce(had, cfg) ==
  counts' = [l \in Routable |-> Deleted(counts[l], IF Mentions(had, l) = {} THEN 0 ELSE 1)
                                + Cardinality(Mentions(cfg, l))]

\* apply_delta: the routes of the config that goes are deleted, then those of
\* the one that comes are added; only networks that route_allowed lets through.
ApplyDelta(had, cfg) ==
  counts' = [l \in Routable |-> Deleted(counts[l], Cardinality(Mentions(had, l)))
                                + Cardinality(Mentions(cfg, l))]

KillService(s) ==
  flows' = [f \in Flows |-> IF flows[f].service = s THEN [flows[f] EXCEPT !.killed = TRUE] ELSE flows[f]]

\* kill_active: only if something was installed.
KillActive(s) == IF installed[s] # NoConfig THEN KillService(s) ELSE UNCHANGED flows

\* Withdraw a service and its routes.
Withdraw(s) ==
  /\ RemoveService(s)
  /\ installed' = [installed EXCEPT ![s] = NoConfig]
  /\ ApplyDelta(installed[s], NoConfig)
  /\ UNCHANGED addrs

Queued(cfg, s) == {[at |-> i, addr |-> Addresses[cfg][i], service |-> s] : i \in DOMAIN Addresses[cfg]}

\* Fault: a config that is replaced leaves the flows under the old one alone.
ReplaceSparing(s, cfg) ==
  /\ RemoveService(s)
  /\ installed' = [installed EXCEPT ![s] = cfg]
  /\ addrs' = Queued(cfg, s)
  /\ ApplyDelta(installed[s], cfg)
  /\ UNCHANGED flows

\* A config that is new, or not the one installed: what there was is removed, and
\* the addresses are queued.
Replace(s, cfg) ==
  /\ RemoveService(s)
  /\ installed' = [installed EXCEPT ![s] = cfg]
  /\ addrs' = Queued(cfg, s)
  /\ ApplyDelta(installed[s], cfg)
  /\ KillActive(s)

\* add_service, then what svc_poll_loop does with the AppliedEvent.
AddService(svc) ==
  \/ ~svc.dial /\ Withdraw(svc.name) /\ KillActive(svc.name)
  \/ /\ svc.dial /\ svc.cfg \in {NoConfig, installed[svc.name]}
     /\ UNCHANGED <<addrs, resolver, dns, counts, flows>>
  \/ svc.dial /\ svc.cfg \notin {NoConfig, installed[svc.name]} /\ Replace(svc.name, svc.cfg)

\* apply_event, for what is gone: it kills whatever was installed.
RemovedEvent(svc) ==
  /\ svc \in removed /\ addrs = {}
  /\ removed' = removed \ {svc}
  /\ Withdraw(svc.name) /\ KillService(svc.name)
  /\ UNCHANGED <<controller, client, upserts>>

\* apply_event, for what is new or changed.
UpsertEvent(u) ==
  /\ removed = {} /\ addrs = {} /\ IsFirst(u, upserts)
  /\ upserts' = upserts \ {u}
  /\ AddService(u.svc)
  /\ UNCHANGED <<controller, client, removed>>

PushEntry(s, cidr) ==
  \E p \in {0} \cup {e.at : e \in entries} :
    /\ IsLast(p, entries)
    /\ entries' = entries \cup {[at |-> p + 1, cidr |-> cidr, classes |-> Classes[installed[s]], service |-> s]}

PushWildcard(s, suffix) ==
  \E p \in {0} \cup {w.at : w \in wildcards} :
    /\ IsLast(p, wildcards)
    /\ wildcards' = wildcards \cup
         {[at |-> p + 1, suffix |-> suffix, classes |-> Classes[installed[s]], service |-> s]}

\* One address of a config: a hostname that gets no address is passed over.
InstallAddress(a) ==
  /\ IsFirst(a, addrs)
  /\ addrs' = addrs \ {a}
  /\ \/ /\ a.addr[1] = "wildcard"
        /\ RegisterDomain(a.addr[2], a.service) /\ PushWildcard(a.service, a.addr[2])
        /\ UNCHANGED <<entries, hosts, ips, counter>>
     \/ /\ a.addr[1] = "literal"
        /\ PushEntry(a.service, Network[a.addr[2]])
        /\ UNCHANGED <<wildcards, dns>>
     \/ /\ a.addr[1] = "host"
        /\ \E ip \in Ips : Register(a.addr[2], a.service, ip) /\ PushEntry(a.service, {ip})
        /\ UNCHANGED <<wildcards, domains>>
     \/ /\ a.addr[1] = "host" /\ hosts[a.addr[2]] = NoHost /\ Exhausted
        /\ UNCHANGED <<entries, wildcards, dns>>
  /\ UNCHANGED <<controller, client, removed, upserts, installed, counts, flows>>

\* InterceptEntry::matches, and WildcardEntry::claims of the domain or one above it.
Matches(e, ip, class) == ip \in e.cidr /\ class \in e.classes
ClaimsDomain(w, domain, class) ==
  domain # NoDomain /\ class \in w.classes /\ w.suffix \in Elements(Domains[domain])

\* lookup finds s: the first entry, and else the first wildcard that claims the domain.
Lookup(ip, class, s) ==
  LET matching == {e \in entries : Matches(e, ip, class)}
      claiming == {w \in wildcards : ClaimsDomain(w, DomainOf(ip), class)}
  IN \/ \E e \in matching : IsFirst(e, matching) /\ s = e.service
     \/ matching = {} /\ \E w \in claiming : IsFirst(w, claiming) /\ s = w.service

----------------------------------------------------------------------------
(* edge/services.rs.                                                       *)

\* Fault: a change of the permissions alone is not seen.
DetailsEqualButDial(a, b) == a.id = b.id /\ a.name = b.name /\ a.cfg = b.cfg

ServiceDetailsEqual(a, b) == a = b

Cached == {cache[n] : n \in ServiceNames} \ {NoService}
Ids(services) == {s.id : s \in Elements(services)}

\* diff_services: what is gone by its id, in any order, then what is new or
\* changed by its name, in the order of the list.
RemovedServices(fetched) == {s \in Cached : s.id \notin Ids(fetched)}
IsNew(s, fetched) == cache[s.name] = NoService \/ cache[s.name].id \notin Ids(fetched)
Upserts(fetched) ==
  {[at |-> i, svc |-> fetched[i]] : i \in
     {j \in DOMAIN fetched : IsNew(fetched[j], fetched) \/ ~ServiceDetailsEqual(cache[fetched[j].name], fetched[j])}}

\* apply_cache_update: a renamed service keeps the entry of its old name.
ApplyCacheUpdate(fetched) ==
  [n \in ServiceNames |->
     IF \E s \in Elements(fetched) : s.name = n THEN CHOOSE s \in Elements(fetched) : s.name = n
     ELSE IF cache[n] \in RemovedServices(fetched) THEN NoService ELSE cache[n]]

----------------------------------------------------------------------------
\* seed_and_reserve_dns_pool.
SeededIps == [ip \in Ips \cup ReservedIps |-> IF ip \in ReservedIps THEN "" ELSE NoName]

\* main.rs: the list at the start is fetched and applied like any other, but
\* without a stamp.
Init ==
  /\ list \in Lists /\ stamp = 1 /\ errors = 0
  /\ cache = [n \in ServiceNames |-> NoService] /\ lastUpdate = 0
  /\ poll = "list" /\ newTs = 0
  /\ removed = {} /\ upserts = {} /\ addrs = {}
  /\ entries = {} /\ wildcards = {} /\ installed = [n \in ServiceNames |-> NoConfig]
  /\ hosts = [n \in Names |-> NoHost] /\ domains = [n \in Names |-> {}]
  /\ ips = SeededIps /\ counter = 1
  /\ counts = [l \in Routable |-> 0]
  /\ flows = [f \in Flows |-> NoFlow]

\* The controller's services change.
Change ==
  /\ stamp <= MaxChanges
  /\ stamp' = stamp + 1
  /\ \E l \in Lists \ {list} : list' = l
  /\ UNCHANGED <<errors, client, events, resolver, dns, counts, flows>>

\* check_service_list_update_free: any other stamp than the last one.
CheckNeeded == stamp # lastUpdate

\* Fault: the loop ends when the controller is not available.
CheckFatal ==
  /\ poll = "sleep" /\ ~Applying
  /\ \/ poll' = (IF CheckNeeded THEN "list" ELSE "sleep") /\ newTs' = stamp /\ UNCHANGED errors
     \/ errors < MaxErrors /\ errors' = errors + 1 /\ poll' = "ended" /\ UNCHANGED newTs
  /\ UNCHANGED <<list, stamp, cache, lastUpdate, events, resolver, dns, counts, flows>>

\* GET service-updates: the stamp is new, or it is not; a 503 is waited out; any
\* other error has the list fetched without a stamp.
Check ==
  /\ poll = "sleep" /\ ~Applying
  /\ \/ poll' = (IF CheckNeeded THEN "list" ELSE "sleep") /\ newTs' = stamp /\ UNCHANGED errors
     \/ errors < MaxErrors /\ errors' = errors + 1 /\ UNCHANGED <<poll, newTs>>
     \/ errors < MaxErrors /\ errors' = errors + 1 /\ poll' = "list" /\ newTs' = 0
  /\ UNCHANGED <<list, stamp, cache, lastUpdate, events, resolver, dns, counts, flows>>

\* GET services, then store_and_process: the events are there to be applied.
Fetch ==
  /\ poll = "list" /\ poll' = "sleep"
  /\ lastUpdate' = newTs
  /\ cache' = ApplyCacheUpdate(list)
  /\ removed' = RemovedServices(list) /\ upserts' = Upserts(list)
  /\ UNCHANGED <<controller, newTs, addrs, resolver, dns, counts, flows>>

FetchErr ==
  /\ poll = "list" /\ Cached # {} /\ poll' = "sleep"
  /\ errors < MaxErrors /\ errors' = errors + 1
  /\ UNCHANGED <<list, stamp, cache, lastUpdate, newTs, events, resolver, dns, counts, flows>>

\* A DNS query for a name that is not known yet, under a domain that is.
Query(name) ==
  /\ ~Applying /\ hosts[name] = NoHost
  /\ \E domain \in Names, ip \in Ips : FindDomain(name, domain) /\ Allocate(name, domain, {}, ip)
  /\ UNCHANGED <<controller, client, events, resolver, domains, counts, flows>>

\* A connection is accepted, or a datagram starts a flow: it is looked up and
\* registered in one go.
Accept(f, ip, class) ==
  /\ ~Applying /\ flows[f] = NoFlow
  /\ \E s \in ServiceNames :
       /\ Lookup(ip, class, s)
       /\ flows' = [flows EXCEPT ![f] = [service |-> s, cfg |-> installed[s], killed |-> FALSE]]
  /\ UNCHANGED <<controller, client, events, resolver, dns, counts>>

FlowEnds(f) ==
  /\ ~Applying /\ flows[f] # NoFlow
  /\ flows' = [flows EXCEPT ![f] = NoFlow]
  /\ UNCHANGED <<controller, client, events, resolver, dns, counts>>

----------------------------------------------------------------------------
\* The body of svc_poll_loop's loop over the events.
Apply ==
  \/ \E svc \in removed : RemovedEvent(svc)
  \/ \E u \in upserts : UpsertEvent(u)
  \/ \E a \in addrs : InstallAddress(a)

Next ==
  \/ Change \/ Check \/ Fetch \/ FetchErr \/ Apply
  \/ \E name \in Names : Query(name)
  \/ \E f \in Flows, ip \in AllIps, class \in AllClasses : Accept(f, ip, class)
  \/ \E f \in Flows : FlowEnds(f)

Spec == Init /\ [][Next]_vars

\* The poll's timer fires, the loop over the events goes on without an await, and
\* a request for the list ends one way or the other.
FairSpec == Spec /\ WF_vars(Check) /\ WF_vars(Apply) /\ []<>(poll # "list")

----------------------------------------------------------------------------
HostEntries == [ip : Ips, domain : Names \cup {NoDomain}, owners : SUBSET ServiceNames]
Entries == [at : Nat, cidr : SUBSET AllIps, classes : SUBSET AllClasses, service : ServiceNames]
Wildcards == [at : Nat, suffix : Names, classes : SUBSET AllClasses, service : ServiceNames]

\* The tables have their shape.
TypeOK ==
  /\ list \in Lists /\ stamp \in 1..(MaxChanges + 1) /\ errors \in 0..MaxErrors
  /\ cache \in [ServiceNames -> Services \cup {NoService}]
  /\ lastUpdate \in 0..stamp /\ newTs \in 0..stamp /\ poll \in {"sleep", "list"}
  /\ removed \subseteq Services
  /\ \A u \in upserts : u.at \in Nat /\ u.svc \in Services
  /\ \A a \in addrs : a.at \in Nat /\ a.service \in ServiceNames
  /\ entries \subseteq Entries /\ wildcards \subseteq Wildcards
  /\ installed \in [ServiceNames -> Configs \cup {NoConfig}]
  /\ hosts \in [Names -> HostEntries \cup {NoHost}]
  /\ domains \in [Names -> SUBSET ServiceNames]
  /\ ips \in [Ips \cup ReservedIps -> Names \cup {"", NoName}] /\ counter \in Ips
  /\ counts \in [Routable -> Nat]
  /\ flows \in [Flows -> [service : ServiceNames, cfg : Configs \cup {NoConfig}, killed : BOOLEAN] \cup {NoFlow}]

\* services.rs, client/services.rs: if the stamp is the controller's, then, the
\* events applied, what is installed is what its list says, whatever changed
\* while the list was being fetched: a permitted service under its present
\* config, one that may not be dialled not at all, and nothing of a service that
\* no longer exists.  (A service that loses its config, and the old name of a
\* renamed one, keep what they had.)
UpToDate ==
  lastUpdate = stamp /\ ~Applying =>
    /\ \A s \in Elements(list) :
         /\ ~s.dial => installed[s.name] = NoConfig
         /\ s.dial /\ s.cfg # NoConfig => installed[s.name] = s.cfg
    /\ \A n \in ServiceNames : installed[n] # NoConfig => cache[n] # NoService /\ cache[n].id \in Ids(list)

\* routes/lifecycle.rs: a route is counted once for each time that an installed
\* config names it, so that it goes with the last of them and not before.
Occurrences(l) == UNION {{n} \X Mentions(installed[n], l) : n \in ServiceNames}
RoutesMatch == \A l \in Routable : counts[l] = Cardinality(Occurrences(l))

\* dns/matcher.rs: no address is given to two names, none that is reserved to
\* any, and a name has its address only while a service that is installed names it
\* or its domain: what is withdrawn gives its addresses back.  It does have it for
\* as long as an entry goes by it, and a domain for as long as a wildcard does:
\* what one service gives back is not taken from another.
NamesHeld ==
  /\ \A ip \in Taken \ ReservedIps : ips[ip] \in Names /\ hosts[ips[ip]].ip = ip
  /\ \A h \in Names : hosts[h] # NoHost =>
       /\ hosts[h].ip \notin ReservedIps /\ ips[hosts[h].ip] = h
       /\ hosts[h].owners # {} \/ (hosts[h].domain # NoDomain /\ domains[hosts[h].domain] # {})
  /\ \A n \in Names : \A s \in domains[n] \cup hosts[n].owners : installed[s] # NoConfig
NetworksOf(s) == {Network[l] : l \in {m \in Literals : <<"literal", m>> \in Elements(Addresses[installed[s]])}}
NamesKept ==
  /\ \A e \in entries : \/ installed[e.service] # NoConfig /\ e.cidr \in NetworksOf(e.service)
                        \/ \E h \in Names : e.cidr = {hosts[h].ip} /\ e.service \in hosts[h].owners
  /\ \A w \in wildcards : w.service \in domains[w.suffix]
DnsOwned == NamesHeld /\ NamesKept

\* resolve/lookup.rs: a flow goes to a service that is installed, and whose config
\* names a network that has the address in it, or the host, or a domain of it, that
\* the address is given to now, though addresses are reused.  So one to an address
\* that nobody has, to the utun's own or to the DNS server's goes nowhere, but for a
\* network around it: these two have the empty name, and "*." may be served.
Claims(s, name) ==
  \E a \in Elements(Addresses[installed[s]]) :
    \/ a = <<"host", name>>
    \/ a[1] = "wildcard" /\ a[2] \in Elements(Domains[name])
ResolvesToOwner ==
  \A ip \in AllIps, class \in AllClasses, s \in ServiceNames :
    Lookup(ip, class, s) => /\ installed[s] # NoConfig
                            /\ \/ \E n \in NetworksOf(s) : ip \in n
                               \/ ip \in Taken \ ReservedIps /\ Claims(s, ips[ip])

\* flows.rs: a flow that has not been killed belongs to a service that is still
\* installed under the config with which it was accepted.
FlowsCurrent ==
  \A f \in Flows : flows[f] # NoFlow /\ ~flows[f].killed =>
    flows[f].cfg # NoConfig /\ installed[flows[f].service] = flows[f].cfg

\* service_refresh.rs: once the controller answers again, its last change is
\* taken up, even if it came between the stamp and the list.
Converges == <>[](lastUpdate = stamp)
=============================================================================
