--------------------------- MODULE InterceptProofs --------------------------
(***************************************************************************)
(* The invariants of Intercept, for every set of lists and configs, every  *)
(* size of the address pool and any number of flows, changes and errors.   *)
(***************************************************************************)
EXTENDS Intercept, FiniteSetTheorems, TLAPS

----------------------------------------------------------------------------
(* The inductive invariant.                                                *)

\* The addresses that are still to be installed, the entries and the wildcards
\* come from the config that is installed; an entry for a host has its address, and
\* the host and the domain of a wildcard have the service among their owners.
AddrsInstalled ==
  \A a \in addrs : installed[a.service] # NoConfig /\ a.addr \in Elements(Addresses[installed[a.service]])

EntriesInstalled ==
  \A e \in entries :
    /\ installed[e.service] # NoConfig
    /\ \/ e.cidr \in NetworksOf(e.service)
       \/ \E h \in Names :
            /\ hosts[h] # NoHost /\ e.cidr = {hosts[h].ip} /\ e.service \in hosts[h].owners
            /\ <<"host", h>> \in Elements(Addresses[installed[e.service]])

WildcardsInstalled ==
  \A w \in wildcards :
    /\ installed[w.service] # NoConfig
    /\ <<"wildcard", w.suffix>> \in Elements(Addresses[installed[w.service]])
    /\ w.service \in domains[w.suffix]

\* A name was looked up under a domain that it is in.
HostsUnder == \A h \in Names : hosts[h].domain # NoDomain => hosts[h].domain \in Elements(Domains[h])

\* What is reserved is never given out.
ReservedTaken == \A ip \in ReservedIps : ips[ip] # NoName

\* What the installed config of a name must be for the service that is cached.
Follows(n) ==
  /\ installed[n] # NoConfig => cache[n] # NoService
  /\ cache[n] # NoService /\ ~cache[n].dial => installed[n] = NoConfig
  /\ cache[n] # NoService /\ cache[n].dial /\ cache[n].cfg # NoConfig => installed[n] = cache[n].cfg

Pending(n) == (\E s \in removed : s.name = n) \/ (\E u \in upserts : u.svc.name = n)

\* The events that are still to be applied are for the services that are cached
\* now; where there are none, the tables follow the cache.
EventsCached ==
  /\ poll = "list" => ~Applying
  /\ \A n \in ServiceNames : cache[n] # NoService => cache[n].name = n
  /\ \A u \in upserts : cache[u.svc.name] = u.svc
  /\ \A u, v \in upserts : u.svc.name = v.svc.name => u = v
  /\ \A s \in removed : cache[s.name] = NoService \/ \E u \in upserts : u.svc.name = s.name
  /\ \A n \in ServiceNames : Pending(n) \/ Follows(n)

\* The cache is the list, if the stamps are the same.
CacheFollows ==
  lastUpdate = stamp =>
    /\ \A s \in Elements(list) : cache[s.name] = s
    /\ \A n \in ServiceNames : cache[n] # NoService => cache[n].id \in Ids(list)

\* The counted mentions are finitely many.
OccurrencesFinite == \A l \in Routable : IsFiniteSet(Occurrences(l))

TableInv ==
  /\ TypeOK /\ AddrsInstalled
  /\ NamesHeld /\ HostsUnder /\ ReservedTaken
  /\ EntriesInstalled /\ WildcardsInstalled

----------------------------------------------------------------------------
(* Facts about the constants and the operators.                            *)

\* A service of a list, by its place in it.
LEMMA ListElements ==
  ASSUME NEW l \in Lists
  PROVE  /\ l \in Seq(Services)
         /\ Elements(l) \subseteq Services
         /\ \A s \in Elements(l) : s.name \in ServiceNames
<1>1. l \in Seq(Services)
  BY InterceptAssumption
<1>2. Elements(l) \subseteq Services
  BY DEF Services
<1> QED
  BY <1>1, <1>2 DEF ServiceNames

\* A service of a list has a name, and a config or none.
LEMMA ServiceShape ==
  ASSUME NEW s \in Services
  PROVE  s.name \in ServiceNames /\ s.cfg \in Configs \cup {NoConfig} /\ s.dial \in BOOLEAN
BY InterceptAssumption DEF ServiceNames

\* The addresses of a config are networks, hosts or domains.
LEMMA AddressShape ==
  ASSUME NEW c \in Configs, NEW a \in Elements(Addresses[c])
  PROVE  /\ a[1] \in {"literal", "host", "wildcard"}
         /\ a[1] = "literal" => a[2] \in Literals
         /\ a[1] \in {"host", "wildcard"} => a[2] \in Names
         /\ a = <<a[1], a[2]>>
<1> DEFINE T == ({"literal"} \X Literals) \cup ({"host", "wildcard"} \X Names)
<1>1. Addresses[c] \in Seq(T)
  BY InterceptAssumption
<1> HIDE DEF T
<1>2. PICK i \in DOMAIN Addresses[c] : a = Addresses[c][i]
  BY DEF Elements
<1>3. a \in T
  BY <1>1, <1>2
<1> QED
  BY <1>3 DEF T

\* The pool has an address at least, and 0 is none of them.
LEMMA PoolSize == Capacity \in Nat \ {0} /\ Ips \subseteq Nat \ {0}
<1>1. Mask \in Nat \ {0, 1}
  BY InterceptAssumption
<1> QED
  BY <1>1 DEF Capacity, Ips

\* What the pool hands out is in its range, and not taken.
LEMMA CandidateInRange ==
  ASSUME TypeOK, NEW i \in 0..(Capacity - 1)
  PROVE  Candidate(i) \in Ips
<1>1. Capacity \in Nat \ {0} /\ counter \in 1..Capacity
  BY PoolSize DEF TypeOK, Ips
<1>2. PICK k \in Nat, c \in Nat \ {0} : k = counter - 1 + i /\ c = Capacity
  BY <1>1
<1>3. k % c \in 0..(c - 1)
  BY <1>2, Z3
<1>4. (counter - 1 + i) % Capacity \in 0..(Capacity - 1)
  BY <1>2, <1>3
<1>5. PICK m \in 0..(Capacity - 1) : m = (counter - 1 + i) % Capacity
  BY <1>4
<1>6. m + 1 \in 1..Capacity
  BY <1>5, <1>1
<1> QED
  BY <1>5, <1>6 DEF Candidate, Ips

\* The address that a name is given was free.
LEMMA Allocated ==
  ASSUME TypeOK, NEW name, NEW domain, NEW owners, NEW ip, Allocate(name, domain, owners, ip)
  PROVE  ip \in Ips /\ ips[ip] = NoName /\ counter' \in Ips
<1>1. PICK i \in Tries : ip = Candidate(i)
  BY DEF Allocate
<1>2. i \in 0..(Capacity - 1) /\ Candidate(i) \notin Taken
  BY <1>1 DEF Tries
<1>3. ip \in Ips
  BY <1>1, <1>2, CandidateInRange
<1>4. ip \in DOMAIN ips
  BY <1>3 DEF TypeOK
<1>5. ips[ip] = NoName
  BY <1>1, <1>2, <1>4 DEF Taken
<1>6. PICK k \in Nat, c \in Nat \ {0} : k = ip /\ c = Capacity
  BY <1>3, PoolSize
<1>7. k % c \in 0..(c - 1)
  BY <1>6, Z3
<1>8. counter' = (k % c) + 1
  BY <1>6 DEF Allocate
<1>9. (k % c) + 1 \in 1..c
  BY <1>6, <1>7
<1> QED
  BY <1>3, <1>5, <1>6, <1>8, <1>9 DEF Ips

\* An entry that is there has an address of the pool.
LEMMA HostShape ==
  ASSUME TypeOK, NEW h \in Names
  PROVE  /\ hosts[h] # NoHost => hosts[h] \in HostEntries /\ hosts[h].ip \in Ips /\ hosts[h].ip \in Nat \ {0}
         /\ hosts[h].owners \subseteq ServiceNames /\ hosts[h].domain \in Names \cup {NoDomain}
<1>1. hosts[h] \in HostEntries \cup {NoHost}
  BY DEF TypeOK
<1>2. CASE hosts[h] \in HostEntries
  BY <1>2, PoolSize DEF HostEntries
<1>3. CASE hosts[h] = NoHost
  BY <1>3 DEF NoHost
<1> QED
  BY <1>1, <1>2, <1>3

----------------------------------------------------------------------------
(* What removing a service leaves of the tables, whether or not another    *)
(* config of it follows.                                                   *)

\* What deregister_intercept leaves of a hostname.
LEMMA DeregisteredHost ==
  ASSUME TypeOK, NEW s \in ServiceNames, Deregister(s), NEW h \in Names
  PROVE  /\ hosts'[h] # NoHost => hosts[h] # NoHost
         /\ hosts[h] # NoHost /\ Owned(h, s) =>
              /\ hosts'[h] # NoHost /\ hosts'[h] \in HostEntries
              /\ hosts'[h].ip = hosts[h].ip /\ hosts'[h].domain = hosts[h].domain
         /\ hosts[h] # NoHost /\ ~Owned(h, s) => hosts'[h] = NoHost
         /\ hosts'[h].owners = IF hosts[h] # NoHost /\ ~Owned(h, s) THEN {} ELSE hosts[h].owners \ {s}
         /\ hosts'[h].domain # NoDomain => hosts'[h].domain = hosts[h].domain
<1> DEFINE gone == {g \in Names : hosts[g] # NoHost /\ ~Owned(g, s)}
<1>1. hosts' = [g \in Names |-> IF g \in gone THEN NoHost ELSE [hosts[g] EXCEPT !.owners = @ \ {s}]]
  BY DEF Deregister
<1>2. h \in gone <=> hosts[h] # NoHost /\ ~Owned(h, s)
  OBVIOUS
<1> HIDE DEF gone
<1>3. hosts'[h] = IF h \in gone THEN NoHost ELSE [hosts[h] EXCEPT !.owners = @ \ {s}]
  BY <1>1
<1>4. CASE hosts[h] = NoHost
  <2>1. hosts'[h] = NoHost
    BY <1>2, <1>3, <1>4 DEF NoHost
  <2> QED
    BY <2>1, <1>4, <1>2 DEF NoHost
<1>5. CASE hosts[h] # NoHost /\ h \in gone
  <2>1. hosts'[h] = NoHost
    BY <1>3, <1>5
  <2> QED
    BY <2>1, <1>5, <1>2 DEF NoHost
<1>6. CASE hosts[h] # NoHost /\ h \notin gone
  <2>1. hosts'[h] = [hosts[h] EXCEPT !.owners = @ \ {s}]
    BY <1>3, <1>6
  <2>2. hosts[h] \in HostEntries /\ hosts[h].ip # 0
    BY <1>6, HostShape
  <2>3. hosts'[h] \in HostEntries /\ hosts'[h].ip = hosts[h].ip /\ hosts'[h].domain = hosts[h].domain
        /\ hosts'[h].owners = hosts[h].owners \ {s}
    BY <2>1, <2>2 DEF HostEntries
  <2>4. hosts'[h] # NoHost
    BY <2>2, <2>3 DEF NoHost
  <2> QED
    BY <2>3, <2>4, <1>6, <1>2
<1> QED
  BY <1>4, <1>5, <1>6

\* Removing a service keeps the shape of the tables.
LEMMA RemovalTypes ==
  ASSUME TypeOK, NEW s \in ServiceNames, RemoveService(s)
  PROVE  /\ entries' \subseteq Entries /\ wildcards' \subseteq Wildcards
         /\ hosts' \in [Names -> HostEntries \cup {NoHost}]
         /\ domains' \in [Names -> SUBSET ServiceNames]
         /\ ips' \in [Ips \cup ReservedIps -> Names \cup {"", NoName}] /\ counter' \in Ips
<1>1. entries' \subseteq Entries /\ wildcards' \subseteq Wildcards
  BY DEF RemoveService, TypeOK
<1>2. Deregister(s)
  BY DEF RemoveService
<1>3. \A h \in Names : hosts'[h] \in HostEntries \cup {NoHost}
  <2> TAKE h \in Names
  <2>1. hosts[h] = NoHost \/ Owned(h, s) \/ hosts'[h] = NoHost
    BY <1>2, DeregisteredHost
  <2>2. hosts[h] = NoHost => hosts'[h] = NoHost
    BY <1>2, DeregisteredHost
  <2> QED
    BY <1>2, <2>1, <2>2, DeregisteredHost
<1>4. hosts' = [g \in Names |-> hosts'[g]]
  BY <1>2 DEF Deregister
<1>5. hosts' \in [Names -> HostEntries \cup {NoHost}]
  BY <1>3, <1>4
<1>6. domains' \in [Names -> SUBSET ServiceNames]
  BY <1>2 DEF Deregister, TypeOK
<1>7. ips \in [Ips \cup ReservedIps -> Names \cup {"", NoName}]
  BY DEF TypeOK
<1>8. ips' \in [Ips \cup ReservedIps -> Names \cup {"", NoName}]
  BY <1>2, <1>7 DEF Deregister
<1>9. counter' \in Ips
  BY <1>2 DEF Deregister, TypeOK
<1> QED
  BY <1>1, <1>5, <1>6, <1>8, <1>9

\* The synthetic DNS keeps its two maps together, and only what is owned.
LEMMA RemovalKeepsDns ==
  ASSUME TableInv, NEW s \in ServiceNames, NEW c \in Configs \cup {NoConfig},
         RemoveService(s), installed' = [installed EXCEPT ![s] = c]
  PROVE  NamesHeld' /\ HostsUnder' /\ ReservedTaken'
<1> DEFINE gone == {h \in Names : hosts[h] # NoHost /\ ~Owned(h, s)}
<1>1. TypeOK /\ NamesHeld /\ HostsUnder /\ ReservedTaken /\ Deregister(s)
  BY DEF TableInv, RemoveService
<1>2. domains' = [n \in Names |-> domains[n] \ {s}]
  BY <1>1 DEF Deregister
<1>3. ips' = [ip \in DOMAIN ips |-> IF \E h \in gone : hosts[h].ip = ip THEN NoName ELSE ips[ip]]
  BY <1>1 DEF Deregister
<1>4. installed \in [ServiceNames -> Configs \cup {NoConfig}] /\ DOMAIN ips = Ips \cup ReservedIps
  BY <1>1 DEF TypeOK
<1>5. \A n \in Names : domains[n] \subseteq ServiceNames /\ hosts[n].owners \subseteq ServiceNames
  BY <1>1, HostShape DEF TypeOK
<1>6. \A h \in gone : h \in Names /\ hosts[h] # NoHost /\ ~Owned(h, s)
  OBVIOUS
<1>7. \A h \in Names : h \notin gone => hosts[h] = NoHost \/ Owned(h, s)
  OBVIOUS
<1> HIDE DEF gone
<1>8. \A h \in Names : hosts[h] # NoHost => hosts[h].ip \in Ips \ ReservedIps /\ ips[hosts[h].ip] = h
  BY <1>1, HostShape DEF NamesHeld
<1>9. \A ip \in DOMAIN ips : ips'[ip] # NoName => ips'[ip] = ips[ip] /\ ~\E h \in gone : hosts[h].ip = ip
  BY <1>3
<1>10. \A ip \in DOMAIN ips : (~\E h \in gone : hosts[h].ip = ip) => ips'[ip] = ips[ip]
  BY <1>3
<1>11. \A ip \in Taken' \ ReservedIps : ips'[ip] \in Names /\ hosts'[ips'[ip]].ip = ip
  <2> SUFFICES ASSUME NEW ip \in Taken' \ ReservedIps
               PROVE  ips'[ip] \in Names /\ hosts'[ips'[ip]].ip = ip
    OBVIOUS
  <2>1. DOMAIN ips' = DOMAIN ips /\ ip \in DOMAIN ips' /\ ips'[ip] # NoName
    BY <1>3 DEF Taken
  <2>2. ips'[ip] = ips[ip] /\ ~\E h \in gone : hosts[h].ip = ip
    BY <2>1, <1>9
  <2>3. ip \in Taken \ ReservedIps
    BY <2>1, <2>2 DEF Taken
  <2>4. PICK h \in Names : h = ips[ip] /\ hosts[h].ip = ip
    BY <2>3, <1>1 DEF NamesHeld
  <2>5. h \notin gone
    BY <2>2, <2>4
  <2>6. hosts[h] # NoHost
    BY <2>1, <2>4, <1>4, PoolSize, <2>3 DEF NoHost
  <2>7. hosts'[h].ip = hosts[h].ip
    BY <2>5, <2>6, <1>7, <1>1, DeregisteredHost
  <2> QED
    BY <2>2, <2>4, <2>7
<1>12. \A h \in Names : hosts'[h] # NoHost =>
         /\ hosts'[h].ip \notin ReservedIps /\ ips'[hosts'[h].ip] = h
         /\ hosts'[h].owners # {} \/ (hosts'[h].domain # NoDomain /\ domains'[hosts'[h].domain] # {})
  <2> SUFFICES ASSUME NEW h \in Names, hosts'[h] # NoHost
               PROVE  /\ hosts'[h].ip \notin ReservedIps /\ ips'[hosts'[h].ip] = h
                      /\ hosts'[h].owners # {} \/ (hosts'[h].domain # NoDomain /\ domains'[hosts'[h].domain] # {})
    OBVIOUS
  <2>1. hosts[h] # NoHost /\ Owned(h, s)
    BY <1>1, DeregisteredHost
  <2>2. hosts'[h].ip = hosts[h].ip /\ hosts'[h].domain = hosts[h].domain /\ hosts'[h].owners = hosts[h].owners \ {s}
    BY <2>1, <1>1, DeregisteredHost
  <2>3. hosts[h].ip \in Ips \ ReservedIps /\ ips[hosts[h].ip] = h
    BY <2>1, <1>8
  <2>4. ~\E g \in gone : hosts[g].ip = hosts[h].ip
    BY <2>1, <2>3, <1>6, <1>8
  <2>5. ips'[hosts[h].ip] = h
    BY <2>3, <2>4, <1>10, <1>4
  <2>6. hosts[h].domain # NoDomain => hosts[h].domain \in Names
    BY <1>1, HostShape
  <2>7. hosts[h].owners \ {s} # {} \/ (hosts[h].domain # NoDomain /\ domains'[hosts[h].domain] # {})
    BY <2>1, <2>6, <1>2 DEF Owned
  <2> QED
    BY <2>2, <2>3, <2>5, <2>7
<1>13. \A n \in Names : \A t \in domains'[n] \cup hosts'[n].owners : installed'[t] # NoConfig
  <2> SUFFICES ASSUME NEW n \in Names, NEW t \in domains'[n] \cup hosts'[n].owners
               PROVE  installed'[t] # NoConfig
    OBVIOUS
  <2>1. domains'[n] = domains[n] \ {s}
    BY <1>2
  <2>2. hosts'[n].owners \subseteq hosts[n].owners \ {s}
    BY <1>1, DeregisteredHost
  <2>3. t \in domains[n] \cup hosts[n].owners /\ t # s
    BY <2>1, <2>2
  <2>4. t \in ServiceNames
    BY <2>3, <1>5
  <2>5. installed[t] # NoConfig
    BY <2>3, <1>1 DEF NamesHeld
  <2> QED
    BY <2>3, <2>4, <2>5, <1>4
<1>14. NamesHeld'
  BY <1>11, <1>12, <1>13 DEF NamesHeld
<1>15. HostsUnder'
  <2> SUFFICES ASSUME NEW h \in Names, hosts'[h].domain # NoDomain
               PROVE  hosts'[h].domain \in Elements(Domains[h])
    BY DEF HostsUnder
  <2>1. hosts'[h].domain = hosts[h].domain
    BY <1>1, DeregisteredHost
  <2> QED
    BY <2>1, <1>1 DEF HostsUnder
<1>16. ReservedTaken'
  <2> SUFFICES ASSUME NEW ip \in ReservedIps
               PROVE  ips'[ip] # NoName
    BY DEF ReservedTaken
  <2>1. ~\E h \in gone : hosts[h].ip = ip
    BY <1>6, <1>8
  <2>2. ips'[ip] = ips[ip]
    BY <2>1, <1>10, <1>4
  <2> QED
    BY <2>2, <1>1 DEF ReservedTaken
<1> QED
  BY <1>14, <1>15, <1>16

\* What is left of the entries belongs to services that are still installed.
LEMMA RemovalKeepsEntries ==
  ASSUME TableInv, NEW s \in ServiceNames, NEW c \in Configs \cup {NoConfig},
         RemoveService(s), installed' = [installed EXCEPT ![s] = c]
  PROVE  EntriesInstalled' /\ WildcardsInstalled'
<1>1. TypeOK /\ EntriesInstalled /\ WildcardsInstalled /\ Deregister(s)
  BY DEF TableInv, RemoveService
<1>2. \A t \in ServiceNames \ {s} : installed'[t] = installed[t]
  BY <1>1 DEF TypeOK
<1>3. entries' = {e \in entries : e.service # s} /\ wildcards' = {w \in wildcards : w.service # s}
  BY DEF RemoveService
<1>4. \A e \in entries : e.service \in ServiceNames
  BY <1>1 DEF TypeOK, Entries
<1>5. \A w \in wildcards : w.service \in ServiceNames
  BY <1>1 DEF TypeOK, Wildcards
<1>6. EntriesInstalled'
  <2> SUFFICES ASSUME NEW e \in entries'
               PROVE  /\ installed'[e.service] # NoConfig
                      /\ \/ e.cidr \in NetworksOf(e.service)'
                         \/ \E h \in Names :
                              /\ hosts'[h] # NoHost /\ e.cidr = {hosts'[h].ip} /\ e.service \in hosts'[h].owners
                              /\ <<"host", h>> \in Elements(Addresses[installed'[e.service]])
    BY DEF EntriesInstalled
  <2>1. e \in entries /\ e.service # s
    BY <1>3
  <2>2. installed'[e.service] = installed[e.service]
    BY <2>1, <1>2, <1>4
  <2>3. installed[e.service] # NoConfig
    BY <2>1, <1>1 DEF EntriesInstalled
  <2>4. CASE e.cidr \in NetworksOf(e.service)
    BY <2>2, <2>3, <2>4 DEF NetworksOf
  <2>5. CASE e.cidr \notin NetworksOf(e.service)
    <3>1. PICK h \in Names : /\ hosts[h] # NoHost /\ e.cidr = {hosts[h].ip} /\ e.service \in hosts[h].owners
                             /\ <<"host", h>> \in Elements(Addresses[installed[e.service]])
      BY <2>1, <2>5, <1>1 DEF EntriesInstalled
    <3>2. Owned(h, s)
      BY <3>1, <2>1 DEF Owned
    <3>3. hosts'[h] # NoHost /\ hosts'[h].ip = hosts[h].ip /\ hosts'[h].owners = hosts[h].owners \ {s}
      BY <3>1, <3>2, <1>1, DeregisteredHost
    <3> QED
      BY <3>1, <3>3, <2>1, <2>2, <2>3
  <2> QED
    BY <2>4, <2>5
<1>7. WildcardsInstalled'
  <2> SUFFICES ASSUME NEW w \in wildcards'
               PROVE  /\ installed'[w.service] # NoConfig
                      /\ <<"wildcard", w.suffix>> \in Elements(Addresses[installed'[w.service]])
                      /\ w.service \in domains'[w.suffix]
    BY DEF WildcardsInstalled
  <2>1. w \in wildcards /\ w.service # s
    BY <1>3
  <2>2. installed'[w.service] = installed[w.service]
    BY <2>1, <1>2, <1>5
  <2>3. w.suffix \in Names /\ domains' = [m \in Names |-> domains[m] \ {s}]
    BY <2>1, <1>1 DEF Deregister, TypeOK, Wildcards
  <2>4. w.service \in domains'[w.suffix]
    BY <2>1, <2>3, <1>1 DEF WildcardsInstalled
  <2> QED
    BY <2>1, <2>2, <2>4, <1>1 DEF WildcardsInstalled
<1> QED
  BY <1>6, <1>7

----------------------------------------------------------------------------
(* What registering a name adds.                                           *)

\* A name gets an address that nobody has.
LEMMA AllocationKeepsDns ==
  ASSUME TableInv, NEW name \in Names, hosts[name] = NoHost,
         NEW domain \in Names \cup {NoDomain}, NEW owners \in SUBSET ServiceNames, NEW ip,
         Allocate(name, domain, owners, ip), UNCHANGED <<domains, installed>>,
         \A s \in owners : installed[s] # NoConfig,
         owners # {} \/ (domain # NoDomain /\ domains[domain] # {}),
         domain # NoDomain => domain \in Elements(Domains[name])
  PROVE  /\ hosts' \in [Names -> HostEntries \cup {NoHost}]
         /\ ips' \in [Ips \cup ReservedIps -> Names \cup {"", NoName}] /\ counter' \in Ips
         /\ NamesHeld' /\ HostsUnder' /\ ReservedTaken'
         /\ \A h \in Names : hosts[h] # NoHost => hosts'[h] = hosts[h]
         /\ hosts'[name] # NoHost /\ hosts'[name].ip = ip /\ hosts'[name].owners = owners
<1>1. TypeOK /\ NamesHeld /\ HostsUnder /\ ReservedTaken
  BY DEF TableInv
<1>2. ip \in Ips /\ ips[ip] = NoName /\ counter' \in Ips
  BY <1>1, Allocated
<1>3. ips \in [Ips \cup ReservedIps -> Names \cup {"", NoName}] /\ ips' = [ips EXCEPT ![ip] = name]
  BY <1>1 DEF TypeOK, Allocate
<1>4. ips' \in [Ips \cup ReservedIps -> Names \cup {"", NoName}]
  BY <1>3
<1>5. ip \notin ReservedIps
  BY <1>1, <1>2 DEF ReservedTaken
<1>6. PICK new : new = [ip |-> ip, domain |-> domain, owners |-> owners]
  OBVIOUS
<1>7. new \in HostEntries /\ new.ip = ip /\ new.domain = domain /\ new.owners = owners
  BY <1>2, <1>6 DEF HostEntries
<1>8. new # NoHost
  BY <1>2, <1>7, PoolSize DEF NoHost
<1>9. hosts \in [Names -> HostEntries \cup {NoHost}] /\ hosts' = [hosts EXCEPT ![name] = new]
  BY <1>1, <1>6 DEF TypeOK, Allocate
<1>10. hosts' \in [Names -> HostEntries \cup {NoHost}]
  BY <1>7, <1>9
<1>11. hosts'[name] = new /\ \A h \in Names : h # name => hosts'[h] = hosts[h]
  BY <1>9
<1>12. ips'[ip] = name /\ \A i \in Ips \cup ReservedIps : i # ip => ips'[i] = ips[i]
  BY <1>2, <1>3
<1>13. \A h \in Names : hosts[h] # NoHost => hosts[h].ip \in Ips \ ReservedIps /\ ips[hosts[h].ip] = h
  BY <1>1, HostShape DEF NamesHeld
<1>14. NoName \notin Names
  BY InterceptAssumption
<1>15. \A i \in Taken' \ ReservedIps : ips'[i] \in Names /\ hosts'[ips'[i]].ip = i
  <2> SUFFICES ASSUME NEW i \in Taken' \ ReservedIps
               PROVE  ips'[i] \in Names /\ hosts'[ips'[i]].ip = i
    OBVIOUS
  <2>1. i \in Ips \cup ReservedIps /\ ips'[i] # NoName
    BY <1>4 DEF Taken
  <2>2. CASE i = ip
    BY <2>2, <1>12, <1>11, <1>7
  <2>3. CASE i # ip
    <3>1. ips'[i] = ips[i]
      BY <2>1, <2>3, <1>12
    <3>2. i \in Taken \ ReservedIps
      BY <3>1, <2>1, <1>3 DEF Taken
    <3>3. PICK h \in Names : h = ips[i] /\ hosts[h].ip = i
      BY <3>2, <1>1 DEF NamesHeld
    <3>4. hosts[h] # NoHost
      BY <3>3, <2>1, <3>2, PoolSize DEF NoHost
    <3>5. hosts'[h] = hosts[h]
      BY <3>4, <1>11
    <3> QED
      BY <3>1, <3>3, <3>5
  <2> QED
    BY <2>2, <2>3
<1>16. \A h \in Names : hosts'[h] # NoHost =>
         /\ hosts'[h].ip \notin ReservedIps /\ ips'[hosts'[h].ip] = h
         /\ hosts'[h].owners # {} \/ (hosts'[h].domain # NoDomain /\ domains'[hosts'[h].domain] # {})
  <2> SUFFICES ASSUME NEW h \in Names, hosts'[h] # NoHost
               PROVE  /\ hosts'[h].ip \notin ReservedIps /\ ips'[hosts'[h].ip] = h
                      /\ hosts'[h].owners # {} \/ (hosts'[h].domain # NoDomain /\ domains'[hosts'[h].domain] # {})
    OBVIOUS
  <2>1. CASE h = name
    BY <2>1, <1>5, <1>7, <1>11, <1>12
  <2>2. CASE h # name
    <3>1. hosts'[h] = hosts[h] /\ hosts[h] # NoHost
      BY <2>2, <1>11
    <3>2. hosts[h].ip \in Ips \ ReservedIps /\ ips[hosts[h].ip] = h
      BY <3>1, <1>13
    <3>3. hosts[h].ip # ip
      BY <3>2, <1>2, <1>14
    <3>4. ips'[hosts[h].ip] = h
      BY <3>2, <3>3, <1>12
    <3>5. hosts[h].owners # {} \/ (hosts[h].domain # NoDomain /\ domains[hosts[h].domain] # {})
      BY <3>1, <1>1 DEF NamesHeld
    <3> QED
      BY <3>1, <3>2, <3>4, <3>5
  <2> QED
    BY <2>1, <2>2
<1>17. \A n \in Names : \A t \in domains'[n] \cup hosts'[n].owners : installed'[t] # NoConfig
  <2> SUFFICES ASSUME NEW n \in Names, NEW t \in domains'[n] \cup hosts'[n].owners
               PROVE  installed[t] # NoConfig
    OBVIOUS
  <2>1. CASE t \in domains[n]
    BY <2>1, <1>1 DEF NamesHeld
  <2>2. CASE t \in hosts'[n].owners /\ n = name
    BY <2>2, <1>7, <1>11
  <2>3. CASE t \in hosts'[n].owners /\ n # name
    BY <2>3, <1>11, <1>1 DEF NamesHeld
  <2> QED
    BY <2>1, <2>2, <2>3
<1>18. NamesHeld'
  BY <1>15, <1>16, <1>17 DEF NamesHeld
<1>19. HostsUnder'
  BY <1>1, <1>7, <1>11 DEF HostsUnder
<1>20. ReservedTaken'
  BY <1>1, <1>5, <1>12 DEF ReservedTaken
<1> QED
  BY <1>2, <1>4, <1>7, <1>8, <1>10, <1>11, <1>18, <1>19, <1>20

\* A name that is there gains an owner.
LEMMA SharingKeepsDns ==
  ASSUME TableInv, NEW name \in Names, hosts[name] # NoHost, NEW s \in ServiceNames,
         installed[s] # NoConfig, hosts' = [hosts EXCEPT ![name].owners = @ \cup {s}],
         UNCHANGED <<domains, ips, counter, installed>>
  PROVE  /\ hosts' \in [Names -> HostEntries \cup {NoHost}]
         /\ NamesHeld' /\ HostsUnder' /\ ReservedTaken'
         /\ \A h \in Names : hosts[h] # NoHost =>
              hosts'[h] # NoHost /\ hosts'[h].ip = hosts[h].ip /\ hosts[h].owners \subseteq hosts'[h].owners
         /\ s \in hosts'[name].owners
<1>1. TypeOK /\ NamesHeld /\ HostsUnder /\ ReservedTaken
  BY DEF TableInv
<1>2. PICK new : new = [hosts[name] EXCEPT !.owners = @ \cup {s}]
  OBVIOUS
<1>3. hosts[name] \in HostEntries /\ hosts[name].ip # 0
  BY <1>1, HostShape
<1>4. new \in HostEntries /\ new.ip = hosts[name].ip /\ new.domain = hosts[name].domain
      /\ new.owners = hosts[name].owners \cup {s}
  BY <1>2, <1>3 DEF HostEntries
<1>5. new # NoHost
  BY <1>3, <1>4 DEF NoHost
<1>6. hosts \in [Names -> HostEntries \cup {NoHost}] /\ hosts' = [hosts EXCEPT ![name] = new]
  BY <1>1, <1>2 DEF TypeOK
<1>7. hosts' \in [Names -> HostEntries \cup {NoHost}]
  BY <1>4, <1>6
<1>8. hosts'[name] = new /\ \A h \in Names : h # name => hosts'[h] = hosts[h]
  BY <1>6
<1>9. \A h \in Names : /\ hosts'[h].ip = hosts[h].ip /\ hosts'[h].domain = hosts[h].domain
                       /\ hosts[h].owners \subseteq hosts'[h].owners
                       /\ hosts'[h].owners \subseteq hosts[h].owners \cup {s}
                       /\ (hosts'[h] # NoHost <=> hosts[h] # NoHost)
  BY <1>4, <1>5, <1>8
<1>10. Taken' = Taken
  BY DEF Taken
<1>11. NamesHeld'
  <2>1. \A ip \in Taken' \ ReservedIps : ips'[ip] \in Names /\ hosts'[ips'[ip]].ip = ip
    BY <1>1, <1>9, <1>10 DEF NamesHeld
  <2>2. \A h \in Names : hosts'[h] # NoHost =>
         /\ hosts'[h].ip \notin ReservedIps /\ ips'[hosts'[h].ip] = h
         /\ hosts'[h].owners # {} \/ (hosts'[h].domain # NoDomain /\ domains'[hosts'[h].domain] # {})
    <3> SUFFICES ASSUME NEW h \in Names, hosts'[h] # NoHost
                 PROVE  /\ hosts'[h].ip \notin ReservedIps /\ ips'[hosts'[h].ip] = h
                        /\ hosts'[h].owners # {} \/ (hosts'[h].domain # NoDomain /\ domains'[hosts'[h].domain] # {})
      OBVIOUS
    <3>1. hosts[h] # NoHost /\ hosts'[h].ip = hosts[h].ip /\ hosts'[h].domain = hosts[h].domain
          /\ hosts[h].owners \subseteq hosts'[h].owners
      BY <1>9
    <3> QED
      BY <3>1, <1>1 DEF NamesHeld
  <2>3. \A n \in Names : \A t \in domains'[n] \cup hosts'[n].owners : installed'[t] # NoConfig
    BY <1>1, <1>9 DEF NamesHeld
  <2> QED
    BY <2>1, <2>2, <2>3 DEF NamesHeld
<1>12. HostsUnder' /\ ReservedTaken'
  BY <1>1, <1>9 DEF HostsUnder, ReservedTaken
<1> QED
  BY <1>4, <1>7, <1>8, <1>9, <1>11, <1>12

\* Entries stay good while their hosts stay.
LEMMA EntriesStay ==
  ASSUME EntriesInstalled, UNCHANGED installed, NEW e \in entries,
         \A h \in Names : hosts[h] # NoHost =>
           hosts'[h] # NoHost /\ hosts'[h].ip = hosts[h].ip /\ hosts[h].owners \subseteq hosts'[h].owners
  PROVE  /\ installed'[e.service] # NoConfig
         /\ \/ e.cidr \in NetworksOf(e.service)'
            \/ \E h \in Names :
                 /\ hosts'[h] # NoHost /\ e.cidr = {hosts'[h].ip} /\ e.service \in hosts'[h].owners
                 /\ <<"host", h>> \in Elements(Addresses[installed'[e.service]])
BY DEF EntriesInstalled, NetworksOf

\* A pushed entry is one of its service.
LEMMA Pushed ==
  ASSUME TypeOK, NEW s \in ServiceNames, installed[s] # NoConfig, NEW cidr \in SUBSET AllIps, PushEntry(s, cidr)
  PROVE  /\ entries' \subseteq Entries
         /\ \A e \in entries' : e \in entries \/ (e.service = s /\ e.cidr = cidr)
<1>1. PICK p \in {0} \cup {e.at : e \in entries} :
        entries' = entries \cup {[at |-> p + 1, cidr |-> cidr, classes |-> Classes[installed[s]], service |-> s]}
  BY DEF PushEntry
<1>2. entries \subseteq Entries
  BY DEF TypeOK
<1>3. \A e \in entries : e.at \in Nat
  BY <1>2 DEF Entries
<1>4. p \in Nat
  BY <1>1, <1>3
<1>5. installed[s] \in Configs
  BY DEF TypeOK
<1>6. Classes[installed[s]] \in SUBSET AllClasses
  BY <1>5 DEF AllClasses
<1>7. PICK new : new = [at |-> p + 1, cidr |-> cidr, classes |-> Classes[installed[s]], service |-> s]
  OBVIOUS
<1>8. new \in Entries /\ new.service = s /\ new.cidr = cidr
  BY <1>4, <1>6, <1>7 DEF Entries
<1>9. entries' = entries \cup {new}
  BY <1>1, <1>7
<1> QED
  BY <1>2, <1>8, <1>9

\* The same for a wildcard.
LEMMA PushedWildcard ==
  ASSUME TypeOK, NEW s \in ServiceNames, installed[s] # NoConfig, NEW suffix \in Names, PushWildcard(s, suffix)
  PROVE  /\ wildcards' \subseteq Wildcards
         /\ \A w \in wildcards' : w \in wildcards \/ (w.service = s /\ w.suffix = suffix)
<1>1. PICK p \in {0} \cup {w.at : w \in wildcards} :
        wildcards' = wildcards \cup
          {[at |-> p + 1, suffix |-> suffix, classes |-> Classes[installed[s]], service |-> s]}
  BY DEF PushWildcard
<1>2. wildcards \subseteq Wildcards
  BY DEF TypeOK
<1>3. \A w \in wildcards : w.at \in Nat
  BY <1>2 DEF Wildcards
<1>4. p \in Nat
  BY <1>1, <1>3
<1>5. installed[s] \in Configs
  BY DEF TypeOK
<1>6. Classes[installed[s]] \in SUBSET AllClasses
  BY <1>5 DEF AllClasses
<1>7. PICK new : new = [at |-> p + 1, suffix |-> suffix, classes |-> Classes[installed[s]], service |-> s]
  OBVIOUS
<1>8. new \in Wildcards /\ new.service = s /\ new.suffix = suffix
  BY <1>4, <1>6, <1>7 DEF Wildcards
<1>9. wildcards' = wildcards \cup {new}
  BY <1>1, <1>7
<1> QED
  BY <1>2, <1>8, <1>9

----------------------------------------------------------------------------
(* The types, part by part.                                                *)

ClientTypes ==
  /\ list \in Lists /\ stamp \in 1..(MaxChanges + 1) /\ errors \in 0..MaxErrors
  /\ cache \in [ServiceNames -> Services \cup {NoService}]
  /\ lastUpdate \in 0..stamp /\ newTs \in 0..stamp /\ poll \in {"sleep", "list"}

EventTypes ==
  /\ removed \subseteq Services
  /\ \A u \in upserts : u.at \in Nat /\ u.svc \in Services
  /\ \A a \in addrs : a.at \in Nat /\ a.service \in ServiceNames

TableTypes ==
  /\ entries \subseteq Entries /\ wildcards \subseteq Wildcards
  /\ installed \in [ServiceNames -> Configs \cup {NoConfig}]
  /\ hosts \in [Names -> HostEntries \cup {NoHost}]
  /\ domains \in [Names -> SUBSET ServiceNames]
  /\ ips \in [Ips \cup ReservedIps -> Names \cup {"", NoName}] /\ counter \in Ips

FlowTypes ==
  flows \in [Flows -> [service : ServiceNames, cfg : Configs \cup {NoConfig}, killed : BOOLEAN] \cup {NoFlow}]

\* The types are these, one for each part of the state.
LEMMA TypeParts ==
  /\ TypeOK <=> ClientTypes /\ EventTypes /\ TableTypes /\ counts \in [Routable -> Nat] /\ FlowTypes
  /\ TypeOK' <=> ClientTypes' /\ EventTypes' /\ TableTypes' /\ counts' \in [Routable -> Nat] /\ FlowTypes'
BY DEF TypeOK, ClientTypes, EventTypes, TableTypes, FlowTypes

\* What is not killed when a service's flows are was another's.
LEMMA KilledFlows ==
  ASSUME FlowTypes, NEW s \in ServiceNames, KillService(s)
  PROVE  FlowTypes' /\ \A f \in Flows :
           flows'[f] # NoFlow /\ ~flows'[f].killed => flows'[f] = flows[f] /\ flows[f].service # s
<1> DEFINE T == [service : ServiceNames, cfg : Configs \cup {NoConfig}, killed : BOOLEAN]
<1>1. flows \in [Flows -> T \cup {NoFlow}]
  BY DEF FlowTypes
<1>2. NoService \notin ServiceNames
  BY InterceptAssumption
<1>3. flows' = [f \in Flows |-> IF flows[f].service = s THEN [flows[f] EXCEPT !.killed = TRUE] ELSE flows[f]]
  BY DEF KillService
<1> SUFFICES ASSUME NEW f \in Flows
             PROVE  /\ flows'[f] \in T \cup {NoFlow}
                    /\ flows'[f] # NoFlow /\ ~flows'[f].killed => flows'[f] = flows[f] /\ flows[f].service # s
  BY <1>3 DEF FlowTypes
<1>4. CASE flows[f].service # s
  BY <1>1, <1>3, <1>4
<1>5. CASE flows[f].service = s /\ flows[f] \in T
  <2>1. flows'[f] = [flows[f] EXCEPT !.killed = TRUE]
    BY <1>3, <1>5
  <2>2. flows'[f] \in T /\ flows'[f].killed = TRUE
    BY <2>1, <1>5
  <2> QED
    BY <2>2
<1>6. CASE flows[f].service = s /\ flows[f] = NoFlow
  BY <1>2, <1>6 DEF NoFlow
<1> QED
  BY <1>1, <1>4, <1>5, <1>6

\* A config mentions a network finitely often.
LEMMA MentionsFinite ==
  ASSUME NEW c \in Configs \cup {NoConfig}, NEW l
  PROVE  IsFiniteSet(Mentions(c, l)) /\ Cardinality(Mentions(c, l)) \in Nat
<1>1. CASE c = NoConfig
  <2>1. Mentions(c, l) = {}
    BY <1>1 DEF Mentions
  <2> QED
    BY <2>1, FS_EmptySet
<1>2. CASE c # NoConfig
  <2> DEFINE T == ({"literal"} \X Literals) \cup ({"host", "wildcard"} \X Names)
  <2>1. Addresses[c] \in Seq(T)
    BY <1>2, InterceptAssumption
  <2> HIDE DEF T
  <2>2. PICK n \in Nat : DOMAIN Addresses[c] = 1..n
    BY <2>1
  <2>3. IsFiniteSet(1..n)
    BY <2>2, FS_Interval
  <2>4. Mentions(c, l) \subseteq 1..n
    BY <1>2, <2>2 DEF Mentions
  <2>5. IsFiniteSet(Mentions(c, l))
    BY <2>3, <2>4, FS_Subset
  <2> QED
    BY <2>5, FS_CardinalityType
<1> QED
  BY <1>1, <1>2

\* The counts stay numbers.
LEMMA DeltaType ==
  ASSUME counts \in [Routable -> Nat],
         NEW had \in Configs \cup {NoConfig}, NEW c \in Configs \cup {NoConfig}, ApplyDelta(had, c)
  PROVE  counts' \in [Routable -> Nat]
<1>1. counts' = [l \in Routable |-> Deleted(counts[l], Cardinality(Mentions(had, l))) + Cardinality(Mentions(c, l))]
  BY DEF ApplyDelta
<1>2. \A l \in Routable : Deleted(counts[l], Cardinality(Mentions(had, l))) + Cardinality(Mentions(c, l)) \in Nat
  <2> TAKE l \in Routable
  <2>1. PICK x, y, z : x = counts[l] /\ y = Cardinality(Mentions(had, l)) /\ z = Cardinality(Mentions(c, l))
    OBVIOUS
  <2>2. x \in Nat /\ y \in Nat /\ z \in Nat
    BY <2>1, MentionsFinite
  <2>3. Deleted(x, y) + z \in Nat
    BY <2>2 DEF Deleted
  <2> QED
    BY <2>1, <2>3
<1> QED
  BY <1>1, <1>2

\* A config is removed, and another one may take its place.
LEMMA SwapKeepsTables ==
  ASSUME TableInv, addrs = {}, NEW s \in ServiceNames, NEW c \in Configs \cup {NoConfig},
         RemoveService(s), installed' = [installed EXCEPT ![s] = c], ApplyDelta(installed[s], c),
         addrs' = {} \/ (c # NoConfig /\ addrs' = Queued(c, s))
  PROVE  /\ TableTypes' /\ counts' \in [Routable -> Nat]
         /\ AddrsInstalled' /\ \A a \in addrs' : a.at \in Nat /\ a.service \in ServiceNames
         /\ NamesHeld' /\ HostsUnder' /\ ReservedTaken'
         /\ EntriesInstalled' /\ WildcardsInstalled'
<1>1. TypeOK /\ installed \in [ServiceNames -> Configs \cup {NoConfig}] /\ counts \in [Routable -> Nat]
  BY DEF TableInv, TypeOK
<1>2. installed' \in [ServiceNames -> Configs \cup {NoConfig}] /\ installed'[s] = c
  BY <1>1
<1>3. TableTypes'
  BY <1>1, <1>2, RemovalTypes DEF TableTypes
<1>4. counts' \in [Routable -> Nat]
  <2>1. installed[s] \in Configs \cup {NoConfig}
    BY <1>1
  <2> QED
    BY <1>1, <2>1, DeltaType
<1>5. AddrsInstalled' /\ \A a \in addrs' : a.at \in Nat /\ a.service \in ServiceNames
  <2>1. CASE addrs' = {}
    BY <2>1 DEF AddrsInstalled
  <2>2. CASE c # NoConfig /\ addrs' = Queued(c, s)
    <3> SUFFICES ASSUME NEW a \in Queued(c, s)
                 PROVE  /\ installed'[a.service] # NoConfig
                        /\ a.addr \in Elements(Addresses[installed'[a.service]])
                        /\ a.at \in Nat /\ a.service \in ServiceNames
      BY <2>2 DEF AddrsInstalled
    <3>1. PICK i \in DOMAIN Addresses[c] : a = [at |-> i, addr |-> Addresses[c][i], service |-> s]
      BY DEF Queued
    <3>2. a.at = i /\ a.addr = Addresses[c][i] /\ a.service = s
      BY <3>1
    <3>3. Addresses[c] \in Seq(({"literal"} \X Literals) \cup ({"host", "wildcard"} \X Names))
      BY <2>2, InterceptAssumption
    <3>4. i \in Nat
      BY <3>3
    <3> QED
      BY <3>2, <3>4, <2>2, <1>2 DEF Elements
  <2> QED
    BY <2>1, <2>2
<1> QED
  BY <1>3, <1>4, <1>5, RemovalKeepsDns, RemovalKeepsEntries

----------------------------------------------------------------------------
(* Every step keeps the tables.                                            *)

\* The tables do not move when the list is asked for and when flows come and go.
LEMMA TablesStay ==
  ASSUME TableInv, UNCHANGED <<addrs, resolver, dns>>
  PROVE  /\ TableTypes' /\ AddrsInstalled' /\ NamesHeld' /\ HostsUnder' /\ ReservedTaken'
         /\ EntriesInstalled' /\ WildcardsInstalled'
<1>1. UNCHANGED <<addrs, entries, wildcards, installed, hosts, domains, ips, counter>>
  BY DEF resolver, dns
<1>2. TableTypes'
  BY <1>1, TypeParts DEF TableInv, TableTypes
<1>3. Taken' = Taken
  BY <1>1 DEF Taken
<1>4. AddrsInstalled' /\ NamesHeld' /\ HostsUnder' /\ ReservedTaken'
  BY <1>1, <1>3 DEF TableInv, AddrsInstalled, NamesHeld, HostsUnder, ReservedTaken
<1>5. EntriesInstalled' /\ WildcardsInstalled'
  BY <1>1 DEF NetworksOf, TableInv, EntriesInstalled, WildcardsInstalled
<1> QED
  BY <1>2, <1>4, <1>5

\* Applying the events moves neither the controller nor the poll.
LEMMA ClientTypesStay ==
  ASSUME ClientTypes, UNCHANGED <<controller, client>>
  PROVE  ClientTypes'
BY DEF ClientTypes, controller, client

\* A service that is gone takes its entries, its names and its domains along.
LEMMA RemovedEventTables ==
  ASSUME TableInv, NEW svc, RemovedEvent(svc)
  PROVE  TableInv'
<1>1. svc \in removed /\ addrs = {} /\ removed' = removed \ {svc} /\ UNCHANGED <<controller, client, upserts, addrs>>
  BY DEF RemovedEvent, Withdraw
<1>2. ClientTypes /\ EventTypes /\ FlowTypes
  BY TypeParts DEF TableInv
<1>3. svc \in Services /\ svc.name \in ServiceNames
  BY <1>1, <1>2, ServiceShape DEF EventTypes
<1>4. PICK s \in ServiceNames : s = svc.name
  BY <1>3
<1>5. RemoveService(s) /\ installed' = [installed EXCEPT ![s] = NoConfig] /\ ApplyDelta(installed[s], NoConfig)
      /\ KillService(s) /\ addrs' = {}
  BY <1>1, <1>4 DEF RemovedEvent, Withdraw
<1>6. EventTypes'
  BY <1>1, <1>2, <1>5 DEF EventTypes
<1>7. ClientTypes' /\ FlowTypes'
  BY <1>1, <1>2, <1>5, ClientTypesStay, KilledFlows
<1>8. /\ TableTypes' /\ counts' \in [Routable -> Nat] /\ AddrsInstalled'
      /\ NamesHeld' /\ HostsUnder' /\ ReservedTaken' /\ EntriesInstalled' /\ WildcardsInstalled'
  BY <1>1, <1>5, SwapKeepsTables
<1> QED
  BY <1>6, <1>7, <1>8, TypeParts DEF TableInv

\* The three outcomes of add_service: withdrawn, kept, replaced.
LEMMA UpsertCases ==
  ASSUME TypeOK, NEW u, UpsertEvent(u)
  PROVE  /\ u \in upserts /\ removed = {} /\ addrs = {} /\ upserts' = upserts \ {u}
         /\ u.svc \in Services /\ u.svc.name \in ServiceNames /\ u.svc.cfg \in Configs \cup {NoConfig}
         /\ UNCHANGED <<controller, client, removed>>
         /\ \/ /\ u.svc.dial /\ u.svc.cfg \in {NoConfig, installed[u.svc.name]}
               /\ UNCHANGED <<addrs, resolver, dns, counts, flows>>
            \/ \E c \in Configs \cup {NoConfig} :
                 /\ RemoveService(u.svc.name) /\ installed' = [installed EXCEPT ![u.svc.name] = c]
                 /\ ApplyDelta(installed[u.svc.name], c) /\ KillActive(u.svc.name)
                 /\ \/ ~u.svc.dial /\ c = NoConfig /\ addrs' = {}
                    \/ u.svc.dial /\ c = u.svc.cfg /\ c # NoConfig /\ addrs' = Queued(c, u.svc.name)
<1>1. u \in upserts /\ removed = {} /\ addrs = {} /\ upserts' = upserts \ {u} /\ AddService(u.svc)
      /\ UNCHANGED <<controller, client, removed>>
  BY DEF UpsertEvent, IsFirst
<1>2. u.svc \in Services
  BY <1>1 DEF TypeOK
<1>3. u.svc.name \in ServiceNames /\ u.svc.cfg \in Configs \cup {NoConfig}
  BY <1>2, ServiceShape
<1>4. CASE ~u.svc.dial /\ Withdraw(u.svc.name) /\ KillActive(u.svc.name)
  BY <1>1, <1>2, <1>3, <1>4 DEF Withdraw
<1>5. CASE u.svc.dial /\ u.svc.cfg \in {NoConfig, installed[u.svc.name]} /\ UNCHANGED <<addrs, resolver, dns, counts, flows>>
  BY <1>1, <1>2, <1>3, <1>5
<1>6. CASE u.svc.dial /\ u.svc.cfg \notin {NoConfig, installed[u.svc.name]} /\ Replace(u.svc.name, u.svc.cfg)
  BY <1>1, <1>2, <1>3, <1>6 DEF Replace
<1> QED
  BY <1>1, <1>4, <1>5, <1>6 DEF AddService

\* A config that is replaced is withdrawn first; then its addresses are queued.
LEMMA UpsertEventTables ==
  ASSUME TableInv, NEW u, UpsertEvent(u)
  PROVE  TableInv'
<1>1. TypeOK /\ ClientTypes /\ EventTypes /\ FlowTypes /\ counts \in [Routable -> Nat]
  BY TypeParts DEF TableInv
<1>2. addrs = {} /\ upserts' = upserts \ {u} /\ UNCHANGED <<controller, client, removed>>
  BY <1>1, UpsertCases
<1>3. PICK s \in ServiceNames : s = u.svc.name
  BY <1>1, UpsertCases
<1>4. ClientTypes'
  BY <1>1, <1>2, ClientTypesStay
<1>5. CASE UNCHANGED <<addrs, resolver, dns, counts, flows>>
  <2>1. EventTypes' /\ FlowTypes' /\ counts' \in [Routable -> Nat]
    BY <1>1, <1>2, <1>5 DEF EventTypes, FlowTypes
  <2>2. /\ TableTypes' /\ AddrsInstalled' /\ NamesHeld' /\ HostsUnder' /\ ReservedTaken'
        /\ EntriesInstalled' /\ WildcardsInstalled'
    BY <1>5, TablesStay
  <2> QED
    BY <1>4, <2>1, <2>2, TypeParts DEF TableInv
<1>6. ASSUME NEW c \in Configs \cup {NoConfig},
             RemoveService(s), installed' = [installed EXCEPT ![s] = c], ApplyDelta(installed[s], c), KillActive(s),
             addrs' = {} \/ (c # NoConfig /\ addrs' = Queued(c, s))
      PROVE  TableInv'
  <2>1. FlowTypes'
    BY <1>1, <1>6, KilledFlows DEF KillActive, FlowTypes
  <2>2. /\ TableTypes' /\ counts' \in [Routable -> Nat] /\ AddrsInstalled'
        /\ NamesHeld' /\ HostsUnder' /\ ReservedTaken' /\ EntriesInstalled' /\ WildcardsInstalled'
        /\ \A a \in addrs' : a.at \in Nat /\ a.service \in ServiceNames
    BY <1>2, <1>6, SwapKeepsTables
  <2>3. EventTypes'
    BY <1>1, <1>2, <2>2 DEF EventTypes
  <2> QED
    BY <1>4, <2>1, <2>2, <2>3, TypeParts DEF TableInv
<1> QED
  BY <1>1, <1>3, <1>5, <1>6, UpsertCases

\* An address is installed for the service whose config it is from.
LEMMA InstallAddressTables ==
  ASSUME TableInv, NEW a, InstallAddress(a)
  PROVE  TableInv'
<1>1. TypeOK /\ ClientTypes /\ EventTypes /\ TableTypes /\ FlowTypes /\ counts \in [Routable -> Nat]
  BY TypeParts DEF TableInv
<1>2. NamesHeld /\ HostsUnder /\ ReservedTaken /\ EntriesInstalled /\ WildcardsInstalled /\ AddrsInstalled
  BY DEF TableInv
<1>3. a \in addrs /\ addrs' = addrs \ {a} /\ UNCHANGED <<controller, client, removed, upserts, installed, counts, flows>>
  BY DEF InstallAddress, IsFirst
<1>4. ClientTypes' /\ EventTypes' /\ FlowTypes' /\ counts' \in [Routable -> Nat]
  BY <1>1, <1>3, ClientTypesStay DEF EventTypes, FlowTypes
<1>5. AddrsInstalled'
  BY <1>2, <1>3 DEF AddrsInstalled
<1>6. PICK s, n : s = a.service /\ n = a.addr[2]
  OBVIOUS
<1>7. s \in ServiceNames /\ installed[s] \in Configs /\ a.addr \in Elements(Addresses[installed[s]])
      /\ installed[s] # NoConfig
  BY <1>1, <1>2, <1>3, <1>6 DEF EventTypes, TableTypes, AddrsInstalled
<1>8. /\ a.addr[1] = "literal" => n \in Literals
      /\ a.addr[1] \in {"host", "wildcard"} => n \in Names
      /\ <<a.addr[1], n>> \in Elements(Addresses[installed[s]])
  BY <1>6, <1>7, AddressShape
<1>9. CASE a.addr[1] = "wildcard" /\ RegisterDomain(n, s) /\ PushWildcard(s, n) /\ UNCHANGED <<entries, hosts, ips, counter>>
  <2>1. domains \in [Names -> SUBSET ServiceNames] /\ domains' = [domains EXCEPT ![n] = @ \cup {s}] /\ n \in Names
    BY <1>1, <1>8, <1>9 DEF RegisterDomain, TableTypes
  <2>2. domains' \in [Names -> SUBSET ServiceNames]
    BY <2>1, <1>7
  <2>3. \A m \in Names : domains[m] \subseteq domains'[m] /\ domains'[m] \subseteq domains[m] \cup {s}
    BY <2>1
  <2>4. wildcards' \subseteq Wildcards /\ \A w \in wildcards' : w \in wildcards \/ (w.service = s /\ w.suffix = n)
    BY <1>1, <1>7, <1>9, <2>1, PushedWildcard
  <2>5. TableTypes'
    BY <1>1, <1>3, <1>9, <2>2, <2>4 DEF TableTypes
  <2>6. Taken' = Taken
    BY <1>9 DEF Taken
  <2>7. NamesHeld'
    <3>1. \A ip \in Taken' \ ReservedIps : ips'[ip] \in Names /\ hosts'[ips'[ip]].ip = ip
      BY <1>2, <1>9, <2>6 DEF NamesHeld
    <3>2. \A h \in Names : hosts'[h] # NoHost =>
            /\ hosts'[h].ip \notin ReservedIps /\ ips'[hosts'[h].ip] = h
            /\ hosts'[h].owners # {} \/ (hosts'[h].domain # NoDomain /\ domains'[hosts'[h].domain] # {})
      <4> SUFFICES ASSUME NEW h \in Names, hosts[h] # NoHost
                   PROVE  /\ hosts[h].ip \notin ReservedIps /\ ips[hosts[h].ip] = h
                          /\ hosts[h].owners # {} \/ (hosts[h].domain # NoDomain /\ domains'[hosts[h].domain] # {})
        BY <1>9
      <4>1. hosts[h].domain \in Names \cup {NoDomain}
        BY <1>1, HostShape
      <4> QED
        BY <4>1, <1>2, <2>3 DEF NamesHeld
    <3>3. \A m \in Names : \A t \in domains'[m] \cup hosts'[m].owners : installed'[t] # NoConfig
      BY <1>2, <1>3, <1>7, <1>9, <2>3 DEF NamesHeld
    <3> QED
      BY <3>1, <3>2, <3>3 DEF NamesHeld
  <2>8. HostsUnder' /\ ReservedTaken'
    BY <1>2, <1>9 DEF HostsUnder, ReservedTaken
  <2>9. EntriesInstalled'
    BY <1>2, <1>3, <1>9 DEF NetworksOf, EntriesInstalled
  <2>10. WildcardsInstalled'
    <3>1. \A w \in wildcards' : w.suffix \in Names
      BY <2>4 DEF Wildcards
    <3>2. \A w \in wildcards' : w.service \in domains'[w.suffix]
      BY <1>2, <2>1, <2>3, <2>4, <3>1 DEF WildcardsInstalled
    <3> QED
      BY <1>2, <1>3, <1>7, <1>8, <1>9, <2>4, <3>2 DEF WildcardsInstalled
  <2> QED
    BY <1>4, <1>5, <2>5, <2>7, <2>8, <2>9, <2>10, TypeParts DEF TableInv
<1>10. CASE a.addr[1] = "literal" /\ PushEntry(s, Network[n]) /\ UNCHANGED <<wildcards, dns>>
  <2>1. UNCHANGED <<hosts, domains, ips, counter>>
    BY <1>10 DEF dns
  <2>2. n \in Literals /\ Network[n] \in SUBSET AllIps /\ Network[n] \in NetworksOf(s)
    BY <1>8, <1>10 DEF AllIps, NetworksOf
  <2>3. entries' \subseteq Entries /\ \A e \in entries' : e \in entries \/ (e.service = s /\ e.cidr = Network[n])
    BY <1>1, <1>7, <1>10, <2>2, Pushed
  <2>4. TableTypes'
    BY <1>1, <1>3, <1>10, <2>1, <2>3 DEF TableTypes
  <2>5. Taken' = Taken
    BY <2>1 DEF Taken
  <2>6. NamesHeld' /\ HostsUnder' /\ ReservedTaken'
    BY <1>2, <1>3, <2>1, <2>5 DEF NamesHeld, HostsUnder, ReservedTaken
  <2>7. WildcardsInstalled'
    BY <1>2, <1>3, <1>10, <2>1 DEF WildcardsInstalled
  <2>8. EntriesInstalled'
    <3>1. \A t : NetworksOf(t)' = NetworksOf(t)
      BY <1>3 DEF NetworksOf
    <3> QED
      BY <1>2, <1>3, <1>7, <2>1, <2>2, <2>3, <3>1 DEF EntriesInstalled
  <2> QED
    BY <1>4, <1>5, <2>4, <2>6, <2>7, <2>8, TypeParts DEF TableInv
<1>11. ASSUME a.addr[1] = "host", NEW ip \in Ips, Register(n, s, ip), PushEntry(s, {ip}), UNCHANGED <<wildcards, domains>>
       PROVE  TableInv'
  <2>1. n \in Names /\ <<"host", n>> \in Elements(Addresses[installed[s]])
    BY <1>8, <1>11
  <2>2. entries' \subseteq Entries /\ \A e \in entries' : e \in entries \/ (e.service = s /\ e.cidr = {ip})
    <3>1. {ip} \in SUBSET AllIps
      BY <1>11 DEF AllIps
    <3> QED
      BY <1>1, <1>7, <1>11, <3>1, Pushed
  <2>3. /\ hosts' \in [Names -> HostEntries \cup {NoHost}]
        /\ ips' \in [Ips \cup ReservedIps -> Names \cup {"", NoName}] /\ counter' \in Ips
        /\ NamesHeld' /\ HostsUnder' /\ ReservedTaken'
        /\ \A h \in Names : hosts[h] # NoHost =>
             hosts'[h] # NoHost /\ hosts'[h].ip = hosts[h].ip /\ hosts[h].owners \subseteq hosts'[h].owners
        /\ hosts'[n] # NoHost /\ hosts'[n].ip = ip /\ s \in hosts'[n].owners
    <3>1. CASE /\ hosts[n] # NoHost /\ ip = hosts[n].ip /\ hosts' = [hosts EXCEPT ![n].owners = @ \cup {s}]
               /\ UNCHANGED <<ips, counter>>
      <4>1. ips' \in [Ips \cup ReservedIps -> Names \cup {"", NoName}] /\ counter' \in Ips
        BY <3>1, <1>1 DEF TableTypes
      <4>2. /\ hosts' \in [Names -> HostEntries \cup {NoHost}]
            /\ NamesHeld' /\ HostsUnder' /\ ReservedTaken'
            /\ \A h \in Names : hosts[h] # NoHost =>
                 hosts'[h] # NoHost /\ hosts'[h].ip = hosts[h].ip /\ hosts[h].owners \subseteq hosts'[h].owners
            /\ s \in hosts'[n].owners
        BY <3>1, <1>3, <1>7, <1>11, <2>1, SharingKeepsDns
      <4> QED
        BY <4>1, <4>2, <3>1, <2>1
    <3>2. CASE hosts[n] = NoHost /\ Allocate(n, NoDomain, {s}, ip)
      <4>1. {s} \in SUBSET ServiceNames /\ NoDomain \in Names \cup {NoDomain} /\ {s} # {}
            /\ \A t \in {s} : installed[t] # NoConfig
        BY <1>7
      <4>2. /\ hosts' \in [Names -> HostEntries \cup {NoHost}]
            /\ ips' \in [Ips \cup ReservedIps -> Names \cup {"", NoName}] /\ counter' \in Ips
            /\ NamesHeld' /\ HostsUnder' /\ ReservedTaken'
            /\ \A h \in Names : hosts[h] # NoHost => hosts'[h] = hosts[h]
            /\ hosts'[n] # NoHost /\ hosts'[n].ip = ip /\ hosts'[n].owners = {s}
        BY <4>1, <3>2, <1>3, <1>11, <2>1, AllocationKeepsDns
      <4> QED
        BY <4>2
    <3> QED
      BY <3>1, <3>2, <1>11 DEF Register
  <2>4. TableTypes'
    BY <1>1, <1>3, <1>11, <2>2, <2>3 DEF TableTypes
  <2>5. EntriesInstalled'
    <3> SUFFICES ASSUME NEW e \in entries'
                 PROVE  /\ installed'[e.service] # NoConfig
                        /\ \/ e.cidr \in NetworksOf(e.service)'
                           \/ \E h \in Names :
                                /\ hosts'[h] # NoHost /\ e.cidr = {hosts'[h].ip} /\ e.service \in hosts'[h].owners
                                /\ <<"host", h>> \in Elements(Addresses[installed'[e.service]])
      BY DEF EntriesInstalled
    <3>1. CASE e \in entries
      BY <3>1, <1>2, <1>3, <2>3, EntriesStay
    <3>2. CASE e.service = s /\ e.cidr = {ip}
      BY <3>2, <1>3, <1>7, <2>1, <2>3
    <3> QED
      BY <3>1, <3>2, <2>2
  <2>6. WildcardsInstalled'
    BY <1>2, <1>3, <1>11 DEF WildcardsInstalled
  <2> QED
    BY <1>4, <1>5, <2>3, <2>4, <2>5, <2>6, TypeParts DEF TableInv
<1>12. CASE UNCHANGED <<entries, wildcards, dns>>
  <2>1. UNCHANGED <<entries, wildcards, installed, hosts, domains, ips, counter>>
    BY <1>3, <1>12 DEF dns
  <2>2. TableTypes' /\ Taken' = Taken
    BY <1>1, <2>1 DEF TableTypes, Taken
  <2>3. NamesHeld' /\ HostsUnder' /\ ReservedTaken'
    BY <1>2, <2>1, <2>2 DEF NamesHeld, HostsUnder, ReservedTaken
  <2>4. EntriesInstalled' /\ WildcardsInstalled'
    BY <1>2, <2>1 DEF NetworksOf, EntriesInstalled, WildcardsInstalled
  <2> QED
    BY <1>4, <1>5, <2>2, <2>3, <2>4, TypeParts DEF TableInv
<1>13. \/ a.addr[1] = "wildcard" /\ RegisterDomain(n, s) /\ PushWildcard(s, n) /\ UNCHANGED <<entries, hosts, ips, counter>>
       \/ a.addr[1] = "literal" /\ PushEntry(s, Network[n]) /\ UNCHANGED <<wildcards, dns>>
       \/ a.addr[1] = "host" /\ (\E ip \in Ips : Register(n, s, ip) /\ PushEntry(s, {ip})) /\ UNCHANGED <<wildcards, domains>>
       \/ UNCHANGED <<entries, wildcards, dns>>
  BY <1>6 DEF InstallAddress
<1> QED
  BY <1>9, <1>10, <1>11, <1>12, <1>13

\* A name that is looked up gets an address of its own, under a domain with an owner.
LEMMA QueryTables ==
  ASSUME TableInv, NEW name \in Names, Query(name)
  PROVE  TableInv'
<1>1. TypeOK /\ ClientTypes /\ EventTypes /\ TableTypes /\ FlowTypes /\ counts \in [Routable -> Nat]
      /\ EntriesInstalled /\ WildcardsInstalled /\ AddrsInstalled
  BY TypeParts DEF TableInv
<1>2. hosts[name] = NoHost
      /\ UNCHANGED <<controller, client, removed, upserts, addrs, entries, wildcards, installed, domains, counts, flows>>
  BY DEF Query, events, resolver
<1>3. PICK domain \in Names, ip \in Ips : FindDomain(name, domain) /\ Allocate(name, domain, {}, ip)
  BY DEF Query
<1>4. domains[domain] # {} /\ domain \in Elements(Domains[name]) /\ domain # NoDomain
  BY <1>3, InterceptAssumption DEF FindDomain, Elements
<1>5. {} \in SUBSET ServiceNames /\ \A s \in {} : installed[s] # NoConfig
  OBVIOUS
<1>6. /\ hosts' \in [Names -> HostEntries \cup {NoHost}]
      /\ ips' \in [Ips \cup ReservedIps -> Names \cup {"", NoName}] /\ counter' \in Ips
      /\ NamesHeld' /\ HostsUnder' /\ ReservedTaken'
      /\ \A h \in Names : hosts[h] # NoHost => hosts'[h] = hosts[h]
  BY <1>2, <1>3, <1>4, <1>5, AllocationKeepsDns
<1>7. ClientTypes' /\ EventTypes' /\ TableTypes' /\ FlowTypes' /\ counts' \in [Routable -> Nat]
  BY <1>1, <1>2, <1>6, ClientTypesStay DEF EventTypes, TableTypes, FlowTypes
<1>8. AddrsInstalled' /\ WildcardsInstalled'
  BY <1>1, <1>2 DEF AddrsInstalled, WildcardsInstalled
<1>9. EntriesInstalled'
  BY <1>1, <1>2, <1>6, EntriesStay DEF EntriesInstalled
<1> QED
  BY <1>6, <1>7, <1>8, <1>9, TypeParts DEF TableInv

\* The cache after a poll.
LEMMA CacheUpdated ==
  ASSUME TypeOK, NEW n \in ServiceNames
  PROVE  /\ ApplyCacheUpdate(list)[n] \in Services \cup {NoService}
         /\ \A s \in Elements(list) : s.name = n => ApplyCacheUpdate(list)[n] = s
         /\ (~\E s \in Elements(list) : s.name = n) =>
              ApplyCacheUpdate(list)[n] = IF cache[n] \in RemovedServices(list) THEN NoService ELSE cache[n]
<1>1. list \in Lists /\ cache[n] \in Services \cup {NoService}
  BY DEF TypeOK
<1>2. Elements(list) \subseteq Services
  BY <1>1, ListElements
<1>3. \A s, t \in Elements(list) : s.name = t.name => s = t
  <2>1. \A i, j \in DOMAIN list : list[i].name = list[j].name => i = j
    BY <1>1, InterceptAssumption
  <2> QED
    BY <2>1 DEF Elements
<1>4. CASE \E s \in Elements(list) : s.name = n
  <2>1. PICK t : t = CHOOSE s \in Elements(list) : s.name = n
    OBVIOUS
  <2>2. t \in Elements(list) /\ t.name = n
    BY <1>4, <2>1
  <2>3. ApplyCacheUpdate(list)[n] = t
    BY <1>4, <2>1 DEF ApplyCacheUpdate
  <2> QED
    BY <1>2, <1>3, <1>4, <2>2, <2>3
<1>5. CASE ~\E s \in Elements(list) : s.name = n
  BY <1>1, <1>5 DEF ApplyCacheUpdate
<1> QED
  BY <1>4, <1>5

\* A new list touches the cache and the events, and none of the tables.
LEMMA FetchTables ==
  ASSUME TableInv, Fetch
  PROVE  TableInv'
<1>1. TypeOK /\ ClientTypes /\ EventTypes /\ FlowTypes /\ counts \in [Routable -> Nat]
  BY TypeParts DEF TableInv
<1>2. poll' = "sleep" /\ lastUpdate' = newTs /\ cache' = ApplyCacheUpdate(list)
      /\ removed' = RemovedServices(list) /\ upserts' = Upserts(list)
      /\ UNCHANGED <<list, stamp, errors, newTs, addrs, resolver, dns, counts, flows>>
  BY DEF Fetch, controller
<1>3. cache' \in [ServiceNames -> Services \cup {NoService}]
  <2>1. \A n \in ServiceNames : ApplyCacheUpdate(list)[n] \in Services \cup {NoService}
    BY <1>1, CacheUpdated
  <2>2. ApplyCacheUpdate(list) = [n \in ServiceNames |-> ApplyCacheUpdate(list)[n]]
    BY DEF ApplyCacheUpdate
  <2> QED
    BY <1>2, <2>1, <2>2
<1>4. ClientTypes'
  BY <1>1, <1>2, <1>3 DEF ClientTypes
<1>5. RemovedServices(list) \subseteq Services
  BY <1>1 DEF RemovedServices, Cached, ClientTypes
<1>6. \A u \in Upserts(list) : u.at \in Nat /\ u.svc \in Services
  <2> SUFFICES ASSUME NEW u \in Upserts(list)
               PROVE  u.at \in Nat /\ u.svc \in Services
    OBVIOUS
  <2>1. PICK i \in DOMAIN list : u = [at |-> i, svc |-> list[i]]
    BY DEF Upserts
  <2>2. list \in Seq(Services)
    BY <1>1, ListElements DEF ClientTypes
  <2>3. i \in Nat /\ list[i] \in Services
    BY <2>2
  <2> QED
    BY <2>1, <2>3
<1>7. EventTypes'
  BY <1>1, <1>2, <1>5, <1>6 DEF EventTypes
<1>8. FlowTypes' /\ counts' \in [Routable -> Nat]
  BY <1>1, <1>2 DEF FlowTypes
<1>9. /\ TableTypes' /\ AddrsInstalled' /\ NamesHeld' /\ HostsUnder' /\ ReservedTaken'
      /\ EntriesInstalled' /\ WildcardsInstalled'
  BY <1>2, TablesStay
<1> QED
  BY <1>4, <1>7, <1>8, <1>9, TypeParts DEF TableInv

\* Asking for the list, and the controller's changes.
LEMMA PollTables ==
  ASSUME TableInv, Change \/ Check \/ FetchErr
  PROVE  TableInv'
<1>1. ClientTypes /\ EventTypes /\ FlowTypes /\ counts \in [Routable -> Nat]
  BY TypeParts DEF TableInv
<1>2. UNCHANGED <<cache, lastUpdate, removed, upserts, addrs, resolver, dns, counts, flows>>
  BY DEF Change, Check, FetchErr, client, events
<1>3. EventTypes' /\ FlowTypes' /\ counts' \in [Routable -> Nat]
  BY <1>1, <1>2 DEF EventTypes, FlowTypes
<1>4. MaxChanges \in Nat /\ MaxErrors \in Nat
  BY InterceptAssumption
<1>5. CASE Change
  <2>1. stamp <= MaxChanges /\ stamp' = stamp + 1 /\ list' \in Lists /\ UNCHANGED <<errors, newTs, poll>>
    BY <1>5 DEF Change, client
  <2> QED
    <3>1. ClientTypes'
      BY <1>1, <1>2, <1>4, <2>1 DEF ClientTypes
    <3> QED
      BY <3>1, <1>2, <1>3, TablesStay, TypeParts DEF TableInv
<1>6. CASE Check
  <2>1. poll' \in {"list", "sleep"} /\ UNCHANGED <<list, stamp>>
    BY <1>1, <1>6 DEF Check, ClientTypes
  <2>2. newTs' \in {stamp, newTs, 0}
    BY <1>6 DEF Check
  <2>3. errors' = errors \/ (errors < MaxErrors /\ errors' = errors + 1)
    BY <1>6 DEF Check
  <2>4. ClientTypes'
    BY <1>1, <1>2, <1>4, <2>1, <2>2, <2>3 DEF ClientTypes
  <2> QED
    BY <2>4, <1>2, <1>3, TablesStay, TypeParts DEF TableInv
<1>7. CASE FetchErr
  <2>1. poll' = "sleep" /\ errors < MaxErrors /\ errors' = errors + 1 /\ UNCHANGED <<list, stamp, newTs>>
    BY <1>7 DEF FetchErr
  <2>2. ClientTypes'
    BY <1>1, <1>2, <1>4, <2>1 DEF ClientTypes
  <2> QED
    BY <2>2, <1>2, <1>3, TablesStay, TypeParts DEF TableInv
<1> QED
  BY <1>5, <1>6, <1>7

\* Nor does a flow, when it starts or ends.
LEMMA FlowTables ==
  ASSUME TableInv, NEW f \in Flows,
         FlowEnds(f) \/ \E ip \in AllIps, class \in AllClasses : Accept(f, ip, class)
  PROVE  TableInv'
<1>1. ClientTypes /\ EventTypes /\ TableTypes /\ FlowTypes /\ counts \in [Routable -> Nat]
  BY TypeParts DEF TableInv
<1>2. UNCHANGED <<controller, client, removed, upserts, addrs, resolver, dns, counts>>
  BY DEF FlowEnds, Accept, events
<1>3. ClientTypes' /\ EventTypes' /\ counts' \in [Routable -> Nat]
  BY <1>1, <1>2, ClientTypesStay DEF EventTypes
<1>4. PICK new : flows' = [flows EXCEPT ![f] = new] /\
        (new = NoFlow \/ \E s \in ServiceNames : new = [service |-> s, cfg |-> installed[s], killed |-> FALSE])
  BY DEF FlowEnds, Accept
<1>5. new \in [service : ServiceNames, cfg : Configs \cup {NoConfig}, killed : BOOLEAN] \cup {NoFlow}
  <2>1. CASE new = NoFlow
    BY <2>1
  <2>2. CASE \E s \in ServiceNames : new = [service |-> s, cfg |-> installed[s], killed |-> FALSE]
    <3>1. PICK s, c : s \in ServiceNames /\ c = installed[s] /\ new = [service |-> s, cfg |-> c, killed |-> FALSE]
      BY <2>2
    <3>2. c \in Configs \cup {NoConfig}
      BY <1>1, <3>1 DEF TableTypes
    <3>3. FALSE \in BOOLEAN
      OBVIOUS
    <3> QED
      BY <3>1, <3>2, <3>3
  <2> QED
    BY <1>4, <2>1, <2>2
<1>6. FlowTypes'
  BY <1>1, <1>4, <1>5 DEF FlowTypes
<1> QED
  BY <1>2, <1>3, <1>6, TablesStay, TypeParts DEF TableInv

\* At the start all is empty but for what is reserved.
LEMMA TableInit ==
  ASSUME Init
  PROVE  TableInv
<1>1. MaxChanges \in Nat /\ MaxErrors \in Nat
  BY InterceptAssumption
<1>2. ClientTypes
  BY <1>1 DEF Init, ClientTypes
<1>3. EventTypes /\ FlowTypes /\ counts \in [Routable -> Nat] /\ AddrsInstalled /\ EntriesInstalled /\ WildcardsInstalled
  BY DEF Init, EventTypes, FlowTypes, AddrsInstalled, EntriesInstalled, WildcardsInstalled
<1>4. counter \in Ips
  BY PoolSize DEF Init, Ips
<1>5. ips \in [Ips \cup ReservedIps -> Names \cup {"", NoName}]
      /\ \A ip \in Ips \cup ReservedIps : ips[ip] = IF ip \in ReservedIps THEN "" ELSE NoName
  BY DEF Init, SeededIps
<1>6. NoName # ""
  BY InterceptAssumption
<1>7. hosts = [n \in Names |-> NoHost] /\ domains = [n \in Names |-> {}]
  BY DEF Init
<1>8. TableTypes
  BY <1>4, <1>5, <1>7 DEF Init, TableTypes
<1>9. ReservedTaken
  BY <1>5, <1>6 DEF ReservedTaken
<1>10. HostsUnder
  BY <1>7 DEF HostsUnder, NoHost
<1>11. Taken \subseteq ReservedIps
  BY <1>5 DEF Taken
<1>12. \A n \in Names : hosts[n] = NoHost /\ domains[n] = {} /\ hosts[n].owners = {}
  BY <1>7 DEF NoHost
<1>13. NamesHeld
  BY <1>11, <1>12 DEF NamesHeld
<1> QED
  BY <1>2, <1>3, <1>8, <1>9, <1>10, <1>13, TypeParts DEF TableInv

\* No step breaks the tables.
LEMMA TableStep ==
  ASSUME TableInv, [Next]_vars
  PROVE  TableInv'
<1>1. CASE Change \/ Check \/ FetchErr
  BY <1>1, PollTables
<1>2. CASE Fetch
  BY <1>2, FetchTables
<1>3. CASE \E svc \in removed : RemovedEvent(svc)
  BY <1>3, RemovedEventTables
<1>4. CASE \E u \in upserts : UpsertEvent(u)
  BY <1>4, UpsertEventTables
<1>5. CASE \E a \in addrs : InstallAddress(a)
  BY <1>5, InstallAddressTables
<1>6. CASE \E name \in Names : Query(name)
  BY <1>6, QueryTables
<1>7. CASE \E f \in Flows, ip \in AllIps, class \in AllClasses : Accept(f, ip, class)
  BY <1>7, FlowTables
<1>8. CASE \E f \in Flows : FlowEnds(f)
  BY <1>8, FlowTables
<1>9. CASE UNCHANGED vars
  <2>1. UNCHANGED <<controller, client, removed, upserts, addrs, resolver, dns, counts, flows>>
    BY <1>9 DEF vars, events
  <2>2. ClientTypes /\ EventTypes /\ FlowTypes /\ counts \in [Routable -> Nat]
    BY TypeParts DEF TableInv
  <2>3. ClientTypes' /\ EventTypes' /\ FlowTypes' /\ counts' \in [Routable -> Nat]
    BY <2>1, <2>2, ClientTypesStay DEF EventTypes, FlowTypes
  <2> QED
    BY <2>1, <2>3, TablesStay, TypeParts DEF TableInv
<1> QED
  BY <1>1, <1>2, <1>3, <1>4, <1>5, <1>6, <1>7, <1>8, <1>9 DEF Next, Apply

----------------------------------------------------------------------------
(* Flows.                                                                  *)

\* What is looked up is installed.
LEMMA LookupInstalled ==
  ASSUME TableInv, NEW ip, NEW class, NEW s, Lookup(ip, class, s)
  PROVE  installed[s] # NoConfig
BY DEF TableInv, EntriesInstalled, WildcardsInstalled, Lookup

\* A config changes only along with the kill of the flows under it.
LEMMA FlowsStep ==
  ASSUME TableInv, FlowsCurrent, [Next]_vars
  PROVE  FlowsCurrent'
<1>1. installed \in [ServiceNames -> Configs \cup {NoConfig}] /\ TypeOK /\ FlowTypes
  BY TypeParts DEF TableInv, TypeOK
<1>2. \A f \in Flows : flows[f] # NoFlow => flows[f].service \in ServiceNames
  BY <1>1 DEF FlowTypes
<1>3. CASE UNCHANGED <<installed, flows>>
  BY <1>3 DEF FlowsCurrent
<1>4. ASSUME NEW s \in ServiceNames, NEW c, installed' = [installed EXCEPT ![s] = c], KillService(s)
      PROVE  FlowsCurrent'
  <2> SUFFICES ASSUME NEW f \in Flows, flows'[f] # NoFlow, ~flows'[f].killed
               PROVE  flows'[f].cfg # NoConfig /\ installed'[flows'[f].service] = flows'[f].cfg
    BY DEF FlowsCurrent
  <2>1. flows'[f] = flows[f] /\ flows[f].service # s
    BY <1>1, <1>4, KilledFlows
  <2>2. flows[f].cfg # NoConfig /\ installed[flows[f].service] = flows[f].cfg /\ flows[f].service \in ServiceNames
    BY <2>1, <1>2 DEF FlowsCurrent
  <2> QED
    BY <2>1, <2>2, <1>1, <1>4
<1>5. ASSUME NEW svc, RemovedEvent(svc)
      PROVE  FlowsCurrent'
  <2>1. svc \in Services
    BY <1>1, <1>5 DEF RemovedEvent, TypeOK
  <2>2. svc.name \in ServiceNames
    BY <2>1, ServiceShape
  <2> QED
    BY <2>2, <1>4, <1>5 DEF RemovedEvent, Withdraw
<1>6. ASSUME NEW u, UpsertEvent(u)
      PROVE  FlowsCurrent'
  <2>1. PICK s \in ServiceNames : s = u.svc.name
    BY <1>1, <1>6, UpsertCases
  <2>2. CASE UNCHANGED <<addrs, resolver, dns, counts, flows>>
    BY <2>2, <1>3 DEF resolver
  <2>3. ASSUME NEW c, installed' = [installed EXCEPT ![s] = c], KillActive(s)
        PROVE  FlowsCurrent'
    <3>1. CASE installed[s] # NoConfig
      BY <3>1, <2>3, <1>4 DEF KillActive
    <3>2. CASE installed[s] = NoConfig
      <4>1. UNCHANGED flows
        BY <3>2, <2>3 DEF KillActive
      <4> SUFFICES ASSUME NEW f \in Flows, flows[f] # NoFlow, ~flows[f].killed
                   PROVE  flows[f].cfg # NoConfig /\ installed'[flows[f].service] = flows[f].cfg
        BY <4>1 DEF FlowsCurrent
      <4>2. flows[f].cfg # NoConfig /\ installed[flows[f].service] = flows[f].cfg /\ flows[f].service \in ServiceNames
        BY <1>2 DEF FlowsCurrent
      <4> QED
        BY <4>2, <3>2, <2>3, <1>1
    <3> QED
      BY <3>1, <3>2
  <2> QED
    BY <1>1, <1>6, <2>1, <2>2, <2>3, UpsertCases
<1>7. ASSUME NEW f \in Flows, NEW ip, NEW class, Accept(f, ip, class)
      PROVE  FlowsCurrent'
  <2>1. PICK s \in ServiceNames :
          Lookup(ip, class, s) /\ flows' = [flows EXCEPT ![f] = [service |-> s, cfg |-> installed[s], killed |-> FALSE]]
    BY <1>7 DEF Accept
  <2>2. installed[s] # NoConfig /\ UNCHANGED installed
    BY <2>1, <1>7, LookupInstalled DEF Accept, resolver
  <2>3. flows \in [Flows -> [service : ServiceNames, cfg : Configs \cup {NoConfig}, killed : BOOLEAN] \cup {NoFlow}]
    BY <1>1 DEF FlowTypes
  <2>4. PICK new : new = [service |-> s, cfg |-> installed[s], killed |-> FALSE]
    OBVIOUS
  <2>5. new.service = s /\ new.cfg = installed[s] /\ flows' = [flows EXCEPT ![f] = new]
    BY <2>1, <2>4
  <2>6. flows'[f] = new /\ \A g \in Flows : g # f => flows'[g] = flows[g]
    BY <2>3, <2>5
  <2> QED
    BY <2>2, <2>5, <2>6 DEF FlowsCurrent
<1>8. ASSUME NEW f \in Flows, FlowEnds(f)
      PROVE  FlowsCurrent'
  <2>1. flows' = [flows EXCEPT ![f] = NoFlow] /\ UNCHANGED installed
    BY <1>8 DEF FlowEnds, resolver
  <2>2. flows'[f] = NoFlow /\ \A g \in Flows : g # f => flows'[g] = flows[g]
    BY <2>1, <1>1 DEF FlowTypes
  <2> QED
    BY <2>1, <2>2 DEF FlowsCurrent
<1>9. CASE \/ Change \/ Check \/ Fetch \/ FetchErr \/ UNCHANGED vars
           \/ (\E a \in addrs : InstallAddress(a)) \/ (\E name \in Names : Query(name))
  <2>1. UNCHANGED <<installed, flows>>
    BY <1>9 DEF Change, Check, Fetch, FetchErr, vars, InstallAddress, Query, resolver
  <2> QED
    BY <2>1, <1>3
<1> QED
  BY <1>5, <1>6, <1>7, <1>8, <1>9 DEF Next, Apply

----------------------------------------------------------------------------
(* Routes.                                                                 *)

\* Counting a set in which a part is replaced by something else.
LEMMA CountReplaced ==
  ASSUME NEW S, IsFiniteSet(S), NEW Old \in SUBSET S, NEW New, IsFiniteSet(New), New \cap (S \ Old) = {}
  PROVE  /\ IsFiniteSet((S \ Old) \cup New)
         /\ Cardinality((S \ Old) \cup New) = Deleted(Cardinality(S), Cardinality(Old)) + Cardinality(New)
<1>1. IsFiniteSet(Old) /\ IsFiniteSet(S \ Old) /\ Cardinality(S \ Old) = Cardinality(S) - Cardinality(S \cap Old)
  BY FS_Difference, FS_Subset
<1>2. S \cap Old = Old
  OBVIOUS
<1>3. IsFiniteSet((S \ Old) \cup New)
  BY <1>1, FS_Union
<1>4. Cardinality((S \ Old) \cup New) = Cardinality(S \ Old) + Cardinality(New) - Cardinality((S \ Old) \cap New)
  BY <1>1, FS_Union
<1>5. Cardinality((S \ Old) \cap New) = 0
  <2>1. (S \ Old) \cap New = {}
    OBVIOUS
  <2> QED
    BY <2>1, FS_EmptySet
<1>6. Cardinality(Old) <= Cardinality(S)
  BY FS_Subset
<1>7. Cardinality(S) \in Nat /\ Cardinality(Old) \in Nat /\ Cardinality(New) \in Nat
  BY <1>1, FS_CardinalityType
<1>8. PICK x, y, z : x = Cardinality(S) /\ y = Cardinality(Old) /\ z = Cardinality(New)
  OBVIOUS
<1>9. Cardinality((S \ Old) \cup New) = (x - y) + z - 0
  BY <1>1, <1>2, <1>4, <1>5, <1>8
<1>10. x \in Nat /\ y \in Nat /\ z \in Nat /\ y <= x
  BY <1>6, <1>7, <1>8
<1>11. (x - y) + z - 0 = Deleted(x, y) + z
  BY <1>10 DEF Deleted
<1> QED
  BY <1>3, <1>8, <1>9, <1>11

\* Pairs with one first element are as many as their second elements.
LEMMA PairsCounted ==
  ASSUME NEW s, NEW M, IsFiniteSet(M)
  PROVE  IsFiniteSet({s} \X M) /\ Cardinality({s} \X M) = Cardinality(M)
<1>1. Cardinality(M) \in Nat
  BY FS_CardinalityType
<1>2. IsFiniteSet({s}) /\ Cardinality({s}) = 1
  BY FS_Singleton
<1>3. IsFiniteSet({s} \X M) /\ Cardinality({s} \X M) = Cardinality({s}) * Cardinality(M)
  BY <1>2, FS_Product
<1> QED
  BY <1>1, <1>2, <1>3

\* One service's config is replaced, and its routes with it.
LEMMA SwapKeepsRoutes ==
  ASSUME TypeOK, RoutesMatch, OccurrencesFinite, NEW s \in ServiceNames, NEW c \in Configs \cup {NoConfig},
         installed' = [installed EXCEPT ![s] = c], ApplyDelta(installed[s], c)
  PROVE  RoutesMatch' /\ OccurrencesFinite'
<1>1. installed \in [ServiceNames -> Configs \cup {NoConfig}] /\ installed[s] \in Configs \cup {NoConfig}
  BY DEF TypeOK
<1> SUFFICES ASSUME NEW l \in Routable
             PROVE  counts'[l] = Cardinality(Occurrences(l)') /\ IsFiniteSet(Occurrences(l)')
  BY DEF RoutesMatch, OccurrencesFinite
<1> DEFINE Old == {s} \X Mentions(installed[s], l)
           New == {s} \X Mentions(c, l)
           S == Occurrences(l)
<1>2. S = UNION {{n} \X Mentions(installed[n], l) : n \in ServiceNames}
      /\ Occurrences(l)' = UNION {{n} \X Mentions(installed'[n], l) : n \in ServiceNames}
  BY DEF Occurrences
<1>3. installed'[s] = c /\ \A n \in ServiceNames : n # s => installed'[n] = installed[n]
  BY <1>1
<1>4. Old \subseteq S
  BY <1>2
<1>5. \A x \in S \ Old : \E n \in ServiceNames : n # s /\ x \in {n} \X Mentions(installed[n], l)
  BY <1>2
<1>6. New \cap (S \ Old) = {}
  BY <1>5
<1>7. Occurrences(l)' = (S \ Old) \cup New
  <2>1. \A x \in Occurrences(l)' : x \in (S \ Old) \cup New
    <3> SUFFICES ASSUME NEW x \in Occurrences(l)'
                 PROVE  x \in (S \ Old) \cup New
      OBVIOUS
    <3>1. PICK n \in ServiceNames : x \in {n} \X Mentions(installed'[n], l)
      BY <1>2
    <3>2. CASE n = s
      BY <3>1, <3>2, <1>3
    <3>3. CASE n # s
      BY <3>1, <3>3, <1>2, <1>3
    <3> QED
      BY <3>2, <3>3
  <2>2. \A x \in S \ Old : x \in Occurrences(l)'
    BY <1>2, <1>3, <1>5
  <2>3. \A x \in New : x \in Occurrences(l)'
    BY <1>2, <1>3
  <2> QED
    BY <2>1, <2>2, <2>3
<1>8. IsFiniteSet(S) /\ counts[l] = Cardinality(S)
  BY DEF OccurrencesFinite, RoutesMatch
<1>9. Cardinality(Old) = Cardinality(Mentions(installed[s], l)) /\ Cardinality(New) = Cardinality(Mentions(c, l))
      /\ IsFiniteSet(New)
  <2>1. PICK M, N : M = Mentions(installed[s], l) /\ N = Mentions(c, l)
    OBVIOUS
  <2>2. IsFiniteSet(M) /\ IsFiniteSet(N)
    BY <1>1, <2>1, MentionsFinite
  <2>3. Cardinality({s} \X M) = Cardinality(M)
    BY <2>2, PairsCounted
  <2>4. IsFiniteSet({s} \X N) /\ Cardinality({s} \X N) = Cardinality(N)
    BY <2>2, PairsCounted
  <2> QED
    BY <2>1, <2>3, <2>4
<1>10. counts'[l] = Deleted(counts[l], Cardinality(Mentions(installed[s], l))) + Cardinality(Mentions(c, l))
  BY DEF ApplyDelta
<1> HIDE DEF Old, New, S
<1>11. IsFiniteSet((S \ Old) \cup New)
       /\ Cardinality((S \ Old) \cup New) = Deleted(Cardinality(S), Cardinality(Old)) + Cardinality(New)
  BY <1>4, <1>6, <1>8, <1>9, CountReplaced
<1> QED
  BY <1>7, <1>8, <1>9, <1>10, <1>11

\* The counts move with what is installed.
LEMMA RoutesStep ==
  ASSUME TableInv, RoutesMatch, OccurrencesFinite, [Next]_vars
  PROVE  RoutesMatch' /\ OccurrencesFinite'
<1>1. TypeOK
  BY DEF TableInv
<1>2. CASE UNCHANGED <<installed, counts>>
  BY <1>2 DEF RoutesMatch, OccurrencesFinite, Occurrences
<1>3. ASSUME NEW svc, RemovedEvent(svc)
      PROVE  RoutesMatch' /\ OccurrencesFinite'
  <2>1. svc \in Services
    BY <1>1, <1>3 DEF RemovedEvent, TypeOK
  <2>2. svc.name \in ServiceNames
    BY <2>1, ServiceShape
  <2>3. installed' = [installed EXCEPT ![svc.name] = NoConfig] /\ ApplyDelta(installed[svc.name], NoConfig)
    BY <1>3 DEF RemovedEvent, Withdraw
  <2> QED
    BY <1>1, <2>2, <2>3, SwapKeepsRoutes
<1>4. ASSUME NEW u, UpsertEvent(u)
      PROVE  RoutesMatch' /\ OccurrencesFinite'
  <2>1. PICK s \in ServiceNames : s = u.svc.name
    BY <1>1, <1>4, UpsertCases
  <2>2. CASE UNCHANGED <<addrs, resolver, dns, counts, flows>>
    BY <2>2, <1>2 DEF resolver
  <2>3. CASE \E c \in Configs \cup {NoConfig} : installed' = [installed EXCEPT ![s] = c] /\ ApplyDelta(installed[s], c)
    BY <2>3, <1>1, SwapKeepsRoutes
  <2> QED
    BY <1>1, <1>4, <2>1, <2>2, <2>3, UpsertCases
<1>5. CASE \/ Change \/ Check \/ Fetch \/ FetchErr \/ UNCHANGED vars
           \/ (\E a \in addrs : InstallAddress(a)) \/ (\E name \in Names : Query(name))
           \/ (\E f \in Flows, ip \in AllIps, class \in AllClasses : Accept(f, ip, class))
           \/ (\E f \in Flows : FlowEnds(f))
  <2>1. UNCHANGED <<installed, counts>>
    BY <1>5 DEF Change, Check, Fetch, FetchErr, vars, InstallAddress, Query, Accept, FlowEnds, resolver
  <2> QED
    BY <2>1, <1>2
<1> QED
  BY <1>3, <1>4, <1>5 DEF Next, Apply

\* At the start there are no routes.
LEMMA RoutesInit ==
  ASSUME Init
  PROVE  RoutesMatch /\ OccurrencesFinite
<1> SUFFICES ASSUME NEW l \in Routable
             PROVE  counts[l] = Cardinality(Occurrences(l)) /\ IsFiniteSet(Occurrences(l))
  BY DEF RoutesMatch, OccurrencesFinite
<1>1. \A n \in ServiceNames : Mentions(installed[n], l) = {}
  BY DEF Init, Mentions
<1>2. Occurrences(l) = {}
  BY <1>1 DEF Occurrences
<1>3. counts[l] = 0
  BY DEF Init
<1> QED
  BY <1>2, <1>3, FS_EmptySet

----------------------------------------------------------------------------
(* Where a flow goes.                                                      *)

\* The first entry or wildcard that matches is of a service that names a network
\* with the address in it, the host, or a domain of it.
LEMMA ResolvesWhere ==
  ASSUME TableInv
  PROVE  ResolvesToOwner
<1>1. TypeOK /\ NamesHeld /\ HostsUnder /\ EntriesInstalled /\ WildcardsInstalled
  BY DEF TableInv
<1>3. DOMAIN ips = Ips \cup ReservedIps
  BY <1>1 DEF TypeOK
<1>2. ASSUME NEW ip \in AllIps, NEW class \in AllClasses, NEW s \in ServiceNames, Lookup(ip, class, s)
      PROVE  /\ installed[s] # NoConfig
             /\ \/ \E n \in NetworksOf(s) : ip \in n
                \/ ip \in Taken \ ReservedIps /\ Claims(s, ips[ip])
  <2>1. CASE \E e \in entries : Matches(e, ip, class) /\ s = e.service
    <3>1. PICK e \in entries : ip \in e.cidr /\ s = e.service
      BY <2>1 DEF Matches
    <3>2. CASE e.cidr \in NetworksOf(s)
      BY <3>1, <3>2, <1>1 DEF EntriesInstalled
    <3>3. CASE e.cidr \notin NetworksOf(s)
      <4>1. PICK h \in Names : /\ hosts[h] # NoHost /\ hosts[h].ip = ip /\ s \in hosts[h].owners
                               /\ <<"host", h>> \in Elements(Addresses[installed[s]])
        BY <3>1, <3>3, <1>1 DEF EntriesInstalled
      <4>2. installed[s] # NoConfig
        BY <3>1, <1>1 DEF EntriesInstalled
      <4>3. ip \notin ReservedIps /\ ips[ip] = h /\ ip \in Ips
        BY <4>1, <1>1, HostShape DEF NamesHeld
      <4>4. h # NoName
        BY <4>1, InterceptAssumption
      <4>5. ip \in Taken
        BY <1>3, <4>3, <4>4 DEF Taken
      <4> QED
        BY <4>1, <4>2, <4>3, <4>5 DEF Claims
    <3> QED
      BY <3>2, <3>3
  <2>2. CASE \E w \in wildcards : ClaimsDomain(w, DomainOf(ip), class) /\ s = w.service
    <3>1. PICK w, d : /\ w \in wildcards /\ s = w.service /\ d = DomainOf(ip) /\ d # NoDomain
                      /\ w.suffix \in Elements(Domains[d])
      BY <2>2 DEF ClaimsDomain
    <3>2. installed[s] # NoConfig /\ <<"wildcard", w.suffix>> \in Elements(Addresses[installed[s]])
      BY <3>1, <1>1 DEF WildcardsInstalled
    <3>3. PICK h : h = ips[ip] /\ h \in Names /\ hosts[h].ip = ip /\ d = hosts[h].domain
      BY <3>1 DEF DomainOf
    <3>4. hosts[h] # NoHost
      BY <3>1, <3>3 DEF NoHost
    <3>5. ip \notin ReservedIps
      BY <3>3, <3>4, <1>1 DEF NamesHeld
    <3>6. d \in Elements(Domains[h])
      BY <3>1, <3>3, <1>1 DEF HostsUnder
    <3>7. Elements(Domains[d]) \subseteq Elements(Domains[h])
      BY <3>3, <3>6, InterceptAssumption
    <3>8. Claims(s, h)
      <4>1. PICK a : a = <<"wildcard", w.suffix>>
        OBVIOUS
      <4>2. a \in Elements(Addresses[installed[s]]) /\ a[1] = "wildcard" /\ a[2] \in Elements(Domains[h])
        BY <4>1, <3>1, <3>2, <3>7
      <4> QED
        BY <4>2 DEF Claims
    <3>9. ip \in Taken
      <4>1. ip \in DOMAIN ips
        BY <3>1 DEF DomainOf
      <4> QED
        BY <3>3, <4>1, InterceptAssumption DEF Taken
    <3> QED
      BY <3>2, <3>3, <3>5, <3>8, <3>9
  <2> QED
    BY <1>2, <2>1, <2>2 DEF Lookup
<1> QED
  BY <1>2 DEF ResolvesToOwner

----------------------------------------------------------------------------
(* What is installed follows the list.                                     *)

\* One event is applied to the service s, whose config becomes c.
LEMMA EventApplied ==
  ASSUME TypeOK, NEW n \in ServiceNames, NEW s \in ServiceNames, n # s, Follows(n),
         UNCHANGED cache, UNCHANGED installed \/ \E c : installed' = [installed EXCEPT ![s] = c]
  PROVE  Follows(n)'
<1>1. installed'[n] = installed[n]
  BY DEF TypeOK
<1> QED
  BY <1>1 DEF Follows

\* With the last event of a name, the tables follow the cache: a service that is gone,
LEMMA RemovedEventFollows ==
  ASSUME TableInv, EventsCached, NEW svc, RemovedEvent(svc)
  PROVE  EventsCached'
<1>1. TypeOK /\ installed \in [ServiceNames -> Configs \cup {NoConfig}]
  BY DEF TableInv, TypeOK
<1>2. svc \in removed /\ removed' = removed \ {svc} /\ UNCHANGED <<cache, poll, upserts, addrs>>
  BY DEF RemovedEvent, Withdraw, client
<1>3. svc \in Services
  BY <1>1, <1>2 DEF TypeOK
<1>4. PICK s \in ServiceNames : s = svc.name
  BY <1>3, ServiceShape
<1>5. installed' = [installed EXCEPT ![s] = NoConfig]
  BY <1>4 DEF RemovedEvent, Withdraw
<1>6. \A n \in ServiceNames : Pending(n)' \/ Follows(n)'
  <2> SUFFICES ASSUME NEW n \in ServiceNames, ~Pending(n)'
               PROVE  Follows(n)'
    OBVIOUS
  <2>1. CASE n = s
    <3>1. ~\E u \in upserts : u.svc.name = s
      BY <2>1, <1>2 DEF Pending
    <3>2. cache[s] = NoService
      BY <3>1, <1>2, <1>4 DEF EventsCached
    <3>3. installed'[s] = NoConfig
      BY <1>1, <1>5
    <3> QED
      BY <2>1, <3>2, <3>3, <1>2 DEF Follows
  <2>2. CASE n # s
    <3>1. ~Pending(n)
      BY <2>2, <1>2, <1>4 DEF Pending
    <3>2. Follows(n)
      BY <3>1 DEF EventsCached
    <3> QED
      BY <3>2, <2>2, <1>1, <1>2, <1>5, EventApplied
  <2> QED
    BY <2>1, <2>2
<1>7. /\ poll' = "list" => ~Applying'
      /\ \A n \in ServiceNames : cache'[n] # NoService => cache'[n].name = n
      /\ \A u \in upserts' : cache'[u.svc.name] = u.svc
      /\ \A u, v \in upserts' : u.svc.name = v.svc.name => u = v
      /\ \A t \in removed' : cache'[t.name] = NoService \/ \E u \in upserts' : u.svc.name = t.name
  BY <1>2 DEF EventsCached, Applying
<1> QED
  BY <1>6, <1>7 DEF EventsCached

\* and one that is new or changed.
LEMMA UpsertEventFollows ==
  ASSUME TableInv, EventsCached, NEW u, UpsertEvent(u)
  PROVE  EventsCached'
<1>1. TypeOK /\ installed \in [ServiceNames -> Configs \cup {NoConfig}]
  BY DEF TableInv, TypeOK
<1>2. u \in upserts /\ removed = {} /\ upserts' = upserts \ {u} /\ removed' = {} /\ UNCHANGED <<cache, poll>>
  BY <1>1, UpsertCases DEF client
<1>3. PICK s \in ServiceNames : s = u.svc.name
  BY <1>1, UpsertCases
<1>4. cache[s] = u.svc /\ cache[s] # NoService
  <2>1. cache[s] = u.svc
    BY <1>2, <1>3 DEF EventsCached
  <2>2. u.svc \in Services /\ NoService \notin Services
    BY <1>1, UpsertCases, InterceptAssumption
  <2> QED
    BY <2>1, <2>2
<1>5. poll # "list"
  BY <1>2 DEF EventsCached, Applying
<1>6. UNCHANGED installed \/ \E c : installed' = [installed EXCEPT ![s] = c]
  BY <1>1, <1>3, UpsertCases DEF resolver
<1>7. Follows(s)'
  <2>1. CASE u.svc.dial /\ u.svc.cfg \in {NoConfig, installed[s]} /\ UNCHANGED <<addrs, resolver, dns, counts, flows>>
    BY <2>1, <1>2, <1>4 DEF Follows, resolver
  <2>2. CASE \E c \in Configs \cup {NoConfig} :
               /\ installed' = [installed EXCEPT ![s] = c]
               /\ (~u.svc.dial /\ c = NoConfig) \/ (u.svc.dial /\ c = u.svc.cfg)
    <3>1. (~u.svc.dial /\ installed'[s] = NoConfig) \/ (u.svc.dial /\ installed'[s] = u.svc.cfg)
      BY <2>2, <1>1
    <3> QED
      BY <3>1, <1>2, <1>4 DEF Follows
  <2> QED
    BY <1>1, <1>3, <2>1, <2>2, UpsertCases
<1>8. \A n \in ServiceNames : Pending(n)' \/ Follows(n)'
  <2> SUFFICES ASSUME NEW n \in ServiceNames, ~Pending(n)'
               PROVE  Follows(n)'
    OBVIOUS
  <2>1. CASE n = s
    BY <2>1, <1>7
  <2>2. CASE n # s
    <3>1. ~Pending(n)
      BY <2>2, <1>2, <1>3 DEF Pending
    <3>2. Follows(n)
      BY <3>1 DEF EventsCached
    <3> QED
      BY <3>2, <2>2, <1>1, <1>2, <1>6, EventApplied
  <2> QED
    BY <2>1, <2>2
<1>9. /\ poll' = "list" => ~Applying'
      /\ \A n \in ServiceNames : cache'[n] # NoService => cache'[n].name = n
      /\ \A v \in upserts' : cache'[v.svc.name] = v.svc
      /\ \A v, w \in upserts' : v.svc.name = w.svc.name => v = w
      /\ \A t \in removed' : cache'[t.name] = NoService \/ \E v \in upserts' : v.svc.name = t.name
  BY <1>2, <1>5 DEF EventsCached
<1> QED
  BY <1>8, <1>9 DEF EventsCached

\* The events of a poll are those that the change of the cache calls for.
LEMMA FetchFollows ==
  ASSUME TableInv, EventsCached, Fetch
  PROVE  EventsCached' /\ CacheFollows'
<1>1. TypeOK /\ list \in Lists /\ cache \in [ServiceNames -> Services \cup {NoService}]
  BY DEF TableInv, TypeOK
<1>2. poll = "list" /\ poll' = "sleep" /\ lastUpdate' = newTs
      /\ removed' = RemovedServices(list) /\ upserts' = Upserts(list)
      /\ UNCHANGED <<list, stamp, installed>>
  BY DEF Fetch, controller, resolver
<1>3. cache' = ApplyCacheUpdate(list)
  BY DEF Fetch
<1>4. Elements(list) \subseteq Services /\ \A s \in Elements(list) : s.name \in ServiceNames
  BY <1>1, ListElements
<1>5. NoService \notin Services
  BY InterceptAssumption
<1>6. \A n \in ServiceNames :
        /\ \A s \in Elements(list) : s.name = n => cache'[n] = s
        /\ (~\E s \in Elements(list) : s.name = n) =>
             cache'[n] = IF cache[n] \in RemovedServices(list) THEN NoService ELSE cache[n]
  BY <1>1, <1>3, CacheUpdated
<1>7. \A n \in ServiceNames : cache[n] # NoService => cache[n].name = n
  BY DEF EventsCached
<1>8. \A n \in ServiceNames : Follows(n)
  BY <1>2 DEF EventsCached, Applying, Pending
<1>9. \A n \in ServiceNames : cache'[n] # NoService => cache'[n].name = n
  BY <1>6, <1>7
<1>10. \A u \in Upserts(list) : u.svc \in Elements(list) /\ \E i \in DOMAIN list : u = [at |-> i, svc |-> list[i]]
  <2> SUFFICES ASSUME NEW u \in Upserts(list)
               PROVE  u.svc \in Elements(list) /\ \E i \in DOMAIN list : u = [at |-> i, svc |-> list[i]]
    OBVIOUS
  <2>1. PICK i \in DOMAIN list : u = [at |-> i, svc |-> list[i]]
    BY DEF Upserts
  <2>2. u.svc = list[i]
    BY <2>1
  <2> QED
    BY <2>1, <2>2 DEF Elements
<1>11. \A s \in Elements(list) : (\E u \in Upserts(list) : u.svc = s) \/ (~IsNew(s, list) /\ cache[s.name] = s)
  <2> SUFFICES ASSUME NEW s \in Elements(list), IsNew(s, list) \/ cache[s.name] # s
               PROVE  \E u \in Upserts(list) : u.svc = s
    OBVIOUS
  <2>1. PICK i \in DOMAIN list : s = list[i]
    BY DEF Elements
  <2>2. PICK u : u = [at |-> i, svc |-> list[i]]
    OBVIOUS
  <2>3. u \in Upserts(list)
    BY <2>1, <2>2 DEF Upserts, ServiceDetailsEqual
  <2> QED
    BY <2>1, <2>2, <2>3
<1>12. \A u \in upserts' : cache'[u.svc.name] = u.svc
  BY <1>2, <1>4, <1>6, <1>10
<1>13. \A u, v \in upserts' : u.svc.name = v.svc.name => u = v
  <2> SUFFICES ASSUME NEW u \in Upserts(list), NEW v \in Upserts(list), u.svc.name = v.svc.name
               PROVE  u = v
    BY <1>2
  <2>1. PICK i \in DOMAIN list : u = [at |-> i, svc |-> list[i]]
    BY <1>10
  <2>2. PICK j \in DOMAIN list : v = [at |-> j, svc |-> list[j]]
    BY <1>10
  <2>3. list[i].name = list[j].name
    BY <2>1, <2>2
  <2>4. i = j
    BY <2>3, <1>1, InterceptAssumption
  <2> QED
    BY <2>1, <2>2, <2>4
<1>14. \A t \in RemovedServices(list) : t \in Cached /\ t.id \notin Ids(list)
  BY DEF RemovedServices
<1>15. \A t \in Cached : t \in Services /\ t.name \in ServiceNames /\ cache[t.name] = t
  BY <1>1, <1>7 DEF Cached
<1>16. \A t \in removed' : cache'[t.name] = NoService \/ \E u \in upserts' : u.svc.name = t.name
  <2> SUFFICES ASSUME NEW t \in RemovedServices(list)
               PROVE  cache'[t.name] = NoService \/ \E u \in Upserts(list) : u.svc.name = t.name
    BY <1>2
  <2>1. t.name \in ServiceNames /\ cache[t.name] = t /\ t.id \notin Ids(list)
    BY <1>14, <1>15
  <2>2. CASE \E s \in Elements(list) : s.name = t.name
    <3>1. PICK s \in Elements(list) : s.name = t.name
      BY <2>2
    <3>2. IsNew(s, list)
      BY <2>1, <3>1 DEF IsNew
    <3> QED
      BY <3>1, <3>2, <1>11
  <2>3. CASE ~\E s \in Elements(list) : s.name = t.name
    BY <2>1, <2>3, <1>6
  <2> QED
    BY <2>2, <2>3
<1>17. \A n \in ServiceNames : Pending(n)' \/ Follows(n)'
  <2> SUFFICES ASSUME NEW n \in ServiceNames, ~Pending(n)'
               PROVE  Follows(n)'
    OBVIOUS
  <2>1. (~\E t \in RemovedServices(list) : t.name = n) /\ (~\E u \in Upserts(list) : u.svc.name = n)
    BY <1>2 DEF Pending
  <2>2. cache[n] \notin RemovedServices(list)
    <3>1. CASE cache[n] = NoService
      <4>1. NoService \notin Cached
        BY DEF Cached
      <4> QED
        BY <3>1, <4>1, <1>14
    <3>2. CASE cache[n] # NoService
      BY <3>2, <1>7, <2>1
    <3> QED
      BY <3>1, <3>2
  <2>3. cache'[n] = cache[n]
    <3>1. CASE \E s \in Elements(list) : s.name = n
      BY <3>1, <1>6, <1>11, <2>1
    <3>2. CASE ~\E s \in Elements(list) : s.name = n
      BY <3>2, <1>6, <2>2
    <3> QED
      BY <3>1, <3>2
  <2>4. Follows(n)
    BY <1>8
  <2> QED
    BY <1>2, <2>3, <2>4 DEF Follows
<1>18. EventsCached'
  BY <1>2, <1>9, <1>12, <1>13, <1>16, <1>17 DEF EventsCached
<1>19. CacheFollows'
  <2>1. \A s \in Elements(list) : cache'[s.name] = s
    BY <1>4, <1>6
  <2>2. \A n \in ServiceNames : cache'[n] # NoService => cache'[n].id \in Ids(list)
    <3> SUFFICES ASSUME NEW n \in ServiceNames, cache'[n] # NoService
                 PROVE  cache'[n].id \in Ids(list)
      OBVIOUS
    <3>1. CASE \E s \in Elements(list) : s.name = n
      BY <3>1, <1>6 DEF Ids
    <3>2. CASE ~\E s \in Elements(list) : s.name = n
      <4>1. cache'[n] = cache[n] /\ cache[n] \notin RemovedServices(list) /\ cache[n] # NoService
        BY <3>2, <1>6
      <4>2. cache[n] \in Cached
        BY <4>1 DEF Cached
      <4> QED
        BY <4>1, <4>2 DEF RemovedServices
    <3> QED
      BY <3>1, <3>2
  <2>3. UNCHANGED list
    BY <1>2
  <2> QED
    BY <2>1, <2>2, <2>3 DEF CacheFollows, Ids
<1> QED
  BY <1>18, <1>19

\* No step but these changes what there is to apply, or the cache.
LEMMA EventsStep ==
  ASSUME TableInv, EventsCached, CacheFollows, [Next]_vars
  PROVE  EventsCached' /\ CacheFollows'
<1>1. CASE Fetch
  BY <1>1, FetchFollows
<1>2. ASSUME UNCHANGED <<cache, removed, upserts, installed>>, poll' = "list" => ~Applying'
      PROVE  EventsCached'
  <2>1. \A n \in ServiceNames : (Pending(n)' <=> Pending(n)) /\ (Follows(n)' <=> Follows(n))
    BY <1>2 DEF Pending, Follows
  <2> QED
    BY <1>2, <2>1 DEF EventsCached
<1>3. ASSUME UNCHANGED <<list, stamp, cache, lastUpdate>>
      PROVE  CacheFollows'
  BY <1>3 DEF CacheFollows
<1>4. CASE Change
  <2>1. UNCHANGED <<cache, lastUpdate, poll, removed, upserts, addrs, installed>> /\ stamp' = stamp + 1
    BY <1>4 DEF Change, client, events, resolver
  <2>2. lastUpdate \in 0..stamp /\ stamp \in Nat
    BY TypeParts DEF TableInv, ClientTypes
  <2>3. lastUpdate' # stamp'
    BY <2>1, <2>2
  <2>4. poll' = "list" => ~Applying'
    BY <2>1 DEF EventsCached, Applying
  <2> QED
    BY <2>1, <2>3, <2>4, <1>2 DEF CacheFollows
<1>5. CASE Check \/ FetchErr
  <2>1. UNCHANGED <<list, stamp, cache, lastUpdate, removed, upserts, addrs, installed>>
    BY <1>5 DEF Check, FetchErr, events, resolver
  <2>2. poll' = "list" => ~Applying
    BY <1>5 DEF Check, FetchErr
  <2>3. Applying' = Applying
    BY <2>1 DEF Applying
  <2> QED
    BY <2>1, <2>2, <2>3, <1>2, <1>3
<1>6. CASE \E svc \in removed : RemovedEvent(svc)
  <2>1. UNCHANGED <<list, stamp, cache, lastUpdate>>
    BY <1>6 DEF RemovedEvent, controller, client
  <2> QED
    BY <2>1, <1>3, <1>6, RemovedEventFollows
<1>7. CASE \E u \in upserts : UpsertEvent(u)
  <2>1. UNCHANGED <<list, stamp, cache, lastUpdate>>
    BY <1>7 DEF UpsertEvent, controller, client
  <2> QED
    BY <2>1, <1>3, <1>7, UpsertEventFollows
<1>8. CASE \E a \in addrs : InstallAddress(a)
  <2>1. UNCHANGED <<list, stamp, cache, lastUpdate, poll, removed, upserts, installed>> /\ addrs # {}
    BY <1>8 DEF InstallAddress, controller, client
  <2>2. poll # "list"
    BY <2>1 DEF EventsCached, Applying
  <2> QED
    BY <2>1, <2>2, <1>2, <1>3
<1>9. CASE \/ (\E name \in Names : Query(name)) \/ (\E f \in Flows : FlowEnds(f)) \/ UNCHANGED vars
           \/ \E f \in Flows, ip \in AllIps, class \in AllClasses : Accept(f, ip, class)
  <2>1. UNCHANGED <<list, stamp, cache, lastUpdate, poll, removed, upserts, addrs, installed>>
    BY <1>9 DEF Query, FlowEnds, Accept, vars, controller, client, events, resolver
  <2>2. poll' = "list" => ~Applying'
    BY <2>1 DEF EventsCached, Applying
  <2> QED
    BY <2>1, <2>2, <1>2, <1>3
<1> QED
  BY <1>1, <1>4, <1>5, <1>6, <1>7, <1>8, <1>9 DEF Next, Apply

\* Before the first list nothing is cached, nothing installed.
LEMMA EventsInit ==
  ASSUME Init
  PROVE  EventsCached /\ CacheFollows
<1>1. ~Applying /\ lastUpdate # stamp
  BY DEF Init, Applying
<1>2. \A n \in ServiceNames : Follows(n) /\ cache[n] = NoService
  BY DEF Init, Follows
<1> QED
  BY <1>1, <1>2 DEF Init, EventsCached, CacheFollows

\* The events applied, the tables follow the cache, and the cache the list.
LEMMA FollowsList ==
  ASSUME TypeOK, EventsCached, CacheFollows
  PROVE  UpToDate
<1> SUFFICES ASSUME lastUpdate = stamp, ~Applying
             PROVE  /\ \A s \in Elements(list) :
                         /\ ~s.dial => installed[s.name] = NoConfig
                         /\ s.dial /\ s.cfg # NoConfig => installed[s.name] = s.cfg
                    /\ \A n \in ServiceNames :
                         installed[n] # NoConfig => cache[n] # NoService /\ cache[n].id \in Ids(list)
  BY DEF UpToDate
<1>1. \A n \in ServiceNames : Follows(n)
  BY DEF EventsCached, Applying, Pending
<1>2. NoService \notin Services /\ list \in Lists
  BY InterceptAssumption DEF TypeOK
<1>3. \A s \in Elements(list) : s \in Services /\ s.name \in ServiceNames /\ cache[s.name] = s
  BY <1>2, ListElements DEF CacheFollows
<1> QED
  BY <1>1, <1>2, <1>3 DEF Follows, CacheFollows

----------------------------------------------------------------------------
(* The theorems.                                                           *)

Inv ==
  /\ TableInv
  /\ RoutesMatch /\ OccurrencesFinite
  /\ FlowsCurrent
  /\ EventsCached /\ CacheFollows

\* The inductive invariant holds throughout: the tables agree with each other and
\* with what is installed, and what is installed with the cache, where no event is
\* still to be applied.
THEOREM InterceptInv == Spec => []Inv
<1>1. Init => Inv
  <2> SUFFICES ASSUME Init PROVE Inv
    OBVIOUS
  <2>1. FlowsCurrent
    BY DEF Init, FlowsCurrent
  <2> QED
    BY <2>1, TableInit, RoutesInit, EventsInit DEF Inv
<1>2. Inv /\ [Next]_vars => Inv'
  <2> SUFFICES ASSUME Inv, [Next]_vars PROVE Inv'
    OBVIOUS
  <2>1. TableInv /\ RoutesMatch /\ OccurrencesFinite /\ FlowsCurrent /\ EventsCached /\ CacheFollows
    BY DEF Inv
  <2> QED
    BY <2>1, TableStep, RoutesStep, FlowsStep, EventsStep DEF Inv
<1> QED
  BY <1>1, <1>2, PTL DEF Spec

\* The tables of the intercept have their shape.
THEOREM TypeCorrect == Spec => []TypeOK
<1>1. Inv => TypeOK
  BY DEF Inv, TableInv
<1> QED
  BY <1>1, InterceptInv, PTL

\* When the stamp is the controller's and the events of the poll are applied,
\* what is installed is what the list says, however the changes of the list and
\* the two requests of a poll interleave.
THEOREM InstalledUpToDate == Spec => []UpToDate
<1>1. Inv => UpToDate
  BY FollowsList DEF Inv, TableInv
<1> QED
  BY <1>1, InterceptInv, PTL

\* A route is counted once for each mention of it by an installed config.
THEOREM RoutesCounted == Spec => []RoutesMatch
<1>1. Inv => RoutesMatch
  BY DEF Inv
<1> QED
  BY <1>1, InterceptInv, PTL

\* The synthetic DNS gives an address to one name only, none that is reserved,
\* and keeps a name no longer than an installed service owns it or its domain, and
\* at least as long as a service is found by it.
THEOREM NamesOwned == Spec => []DnsOwned
<1>1. Inv => DnsOwned
  <2> SUFFICES ASSUME TableInv PROVE NamesKept
    BY DEF DnsOwned, Inv, TableInv
  <2>1. EntriesInstalled /\ WildcardsInstalled
    BY DEF TableInv
  <2> QED
    BY <2>1 DEF NamesKept, EntriesInstalled, WildcardsInstalled
<1> QED
  BY <1>1, InterceptInv, PTL

\* A flow goes to a service whose installed config names a network around its
\* address, or the host or a domain of the name that has the address; and if there
\* is none, nowhere.
THEOREM FlowsGoToOwner == Spec => []ResolvesToOwner
<1>1. Inv => ResolvesToOwner
  BY ResolvesWhere DEF Inv
<1> QED
  BY <1>1, InterceptInv, PTL

\* A flow that has not been killed runs under the config that is installed.
THEOREM FlowsUnderInstalled == Spec => []FlowsCurrent
<1>1. Inv => FlowsCurrent
  BY DEF Inv
<1> QED
  BY <1>1, InterceptInv, PTL
=============================================================================
