----------------------------- MODULE DnsForward -----------------------------
(***************************************************************************)
(* DNS queries that the intercept cannot answer itself: those forwarded to *)
(* the upstream servers (udp/upstream.rs), and those proxied over an edge  *)
(* connection to the service that hosts the domain (proxy_resolve).  Both  *)
(* find the query that an answer is for by its 16-bit id alone.  The loop  *)
(* and the tasks of the proxied connections share one thread.              *)
(*                                                                         *)
(* Queries are numbered as they come; an answer carries the number of the  *)
(* query that it was made for, which the code does not see.                *)
(***************************************************************************)
EXTENDS Naturals, Sequences, FiniteSets, Functions

CONSTANTS
  Menu,       \* queries that clients may ask: their id, kind and domain
  Servers,    \* upstream servers, none if they are not configured
  Domains,    \* wildcard domains
  Services,   \* services that may host one
  FirstHost,  \* those that do at first
  NoService,
  MaxQueries, \* bound: queries
  MaxTasks,   \* bound: proxied connections
  MaxMoves    \* bound: times that a domain changes its service

Ids == {m.id : m \in Menu}
Kinds == {"foreign", "record", "other"}
Queries == 1..MaxQueries
Tasks == 1..MaxTasks
None == 0

ASSUME DnsAssumption ==
  /\ IsFiniteSet(Servers)
  /\ NoService \notin Services /\ FirstHost \in [Domains -> Services]
  /\ \A m \in Menu : m.kind \in Kinds /\ m.domain \in Domains
  /\ MaxQueries \in Nat /\ MaxTasks \in Nat /\ MaxMoves \in Nat

VARIABLES
  asked,     \* the queries
  answer,    \* what a query was answered with
  pending,   \* UpstreamDns's pending, by id
  owed,      \* requests that a server has not answered
  fanout,    \* history: the queries that several servers took
  host,      \* the resolver's service of a domain
  moves,     \* how often one changed
  conns,     \* ProxyDns's conns: the task of a domain
  proxied,   \* ProxyDns's pending, by id
  evicted,   \* history: ids that were given up
  task,      \* where a task is, "stalled" if it is in a write for good
  serves,    \* its service
  jobs,      \* its queue
  hand,      \* the job it is writing
  closed,    \* the flag that the loop looks at
  peer,      \* the jobs written to it
  created,   \* how many tasks there are
  events     \* what the tasks have sent to the loop

upstream == <<pending, owed, fanout>>
tasks == <<task, serves, jobs, hand, closed, peer, created>>
vars == <<asked, answer, upstream, host, moves, conns, proxied, evicted, tasks, events>>

Unanswered == [what |-> "none", of |-> None]

Init ==
  /\ asked = <<>> /\ answer = [q \in Queries |-> Unanswered]
  /\ pending = <<>> /\ owed = {} /\ fanout = {}
  /\ host = FirstHost /\ moves = 0
  /\ conns = [d \in Domains |-> None] /\ proxied = <<>> /\ evicted = {}
  /\ task = [t \in Tasks |-> "none"] /\ serves = [t \in Tasks |-> NoService]
  /\ jobs = [t \in Tasks |-> <<>>] /\ hand = [t \in Tasks |-> None]
  /\ closed = [t \in Tasks |-> FALSE] /\ peer = [t \in Tasks |-> {}]
  /\ created = 0 /\ events = <<>>

Id(q) == asked[q].id
With(f, x, v) == [y \in DOMAIN f \cup {x} |-> IF y = x THEN v ELSE f[y]]
Without(f, x) == Restrict(f, DOMAIN f \ {x})
Reply(q, what, of) == answer' = [answer EXCEPT ![q] = [what |-> what, of |-> of]]

----------------------------------------------------------------------------
(* serve_dns_datagram: handle_query and what becomes of it.                *)

\* Fault: a query takes the place of one in flight under its id.
NeverInFlight(id, waiting) == FALSE

\* Both tables drop a query whose id is in flight.
InFlight(id, waiting) == id \in DOMAIN waiting

\* UpstreamDns::forward: one in flight under this id stands for both.
Forward(q, id) ==
  IF InFlight(id, pending) THEN UNCHANGED <<answer, upstream>>
  ELSE \E took \in SUBSET Servers :
         IF took = {} THEN Reply(q, "refused", q) /\ UNCHANGED upstream
         ELSE /\ pending' = With(pending, id, q)
              /\ owed' = owed \cup (took \X {q})
              /\ fanout' = IF Cardinality(took) > 1 THEN fanout \cup {q} ELSE fanout
              /\ UNCHANGED answer

\* live_handle: a connection that is closed, or goes to another service, is
\* replaced; its task goes on with what it was given.
Usable(d) == conns[d] # None /\ ~closed[conns[d]] /\ serves[conns[d]] = host[d]

\* send_job, or ensure_conn without a job, on the live handle.
OnLiveHandle(d, job) ==
  IF Usable(d) THEN jobs' = [jobs EXCEPT ![conns[d]] = @ \o job]
                    /\ UNCHANGED <<conns, task, serves, created>>
  ELSE /\ created < MaxTasks /\ created' = created + 1
       /\ conns' = [conns EXCEPT ![d] = created']
       /\ task' = [task EXCEPT ![created'] = "connect"]
       /\ serves' = [serves EXCEPT ![created'] = host[d]]
       /\ jobs' = [jobs EXCEPT ![created'] = job]

\* ProxyDns::handle_forward.
HandleForward(q, id, d) ==
  \/ /\ InFlight(id, proxied)
     /\ UNCHANGED <<answer, conns, proxied, task, serves, jobs, created>>
  \/ /\ ~InFlight(id, proxied) /\ host[d] = NoService
     /\ Reply(q, "servfail", q)
     /\ UNCHANGED <<conns, proxied, task, serves, jobs, created>>
  \/ /\ ~InFlight(id, proxied) /\ host[d] # NoService
     /\ OnLiveHandle(d, <<q>>)
     /\ proxied' = With(proxied, id, q)
     /\ UNCHANGED answer

\* A query for a name outside the domains is forwarded, or refused; MX, SRV and
\* TXT records of a domain are proxied, and for any other type the connection is
\* made ready.  (One for an address that is known is answered at once: Intercept.)
Ask(m) ==
  LET q == Len(asked) + 1 IN
  /\ q <= MaxQueries /\ asked' = Append(asked, m)
  /\ \/ /\ m.kind = "foreign" /\ Forward(q, m.id)
        /\ UNCHANGED <<conns, proxied, task, serves, jobs, created>>
     \/ m.kind = "record" /\ HandleForward(q, m.id, m.domain) /\ UNCHANGED upstream
     \/ /\ m.kind = "other" /\ Reply(q, "notimpl", q) /\ UNCHANGED <<upstream, proxied>>
        /\ IF host[m.domain] = NoService THEN UNCHANGED <<conns, task, serves, jobs, created>>
                                         ELSE OnLiveHandle(m.domain, <<>>)
  /\ UNCHANGED <<host, moves, evicted, hand, closed, peer, events>>

----------------------------------------------------------------------------
(* The loop's other branches.                                              *)

\* match_response: to whoever waits under the id, or to nobody.
UpstreamResponse(s, of) ==
  /\ <<s, of>> \in owed /\ owed' = owed \ {<<s, of>>}
  /\ IF Id(of) \in DOMAIN pending
     THEN Reply(pending[Id(of)], "answer", of) /\ pending' = Without(pending, Id(of))
     ELSE UNCHANGED <<answer, pending>>
  /\ UNCHANGED <<asked, fanout, host, moves, conns, proxied, evicted, tasks, events>>

\* on_event: a chunk that is an answer, or a job that failed.
OnEvent ==
  /\ events # <<>> /\ events' = Tail(events)
  /\ LET of == Head(events).of
         what == IF Head(events).kind = "data" THEN "answer" ELSE "servfail"
     IN IF Id(of) \in DOMAIN proxied
        THEN Reply(proxied[Id(of)], what, of) /\ proxied' = Without(proxied, Id(of))
        ELSE UNCHANGED <<answer, proxied>>
  /\ UNCHANGED <<asked, upstream, host, moves, conns, evicted, tasks>>

\* The ticker: what is too old is given up, and closed connections are let go.
Tick(old) ==
  /\ old \subseteq DOMAIN pending \cup DOMAIN proxied
  /\ pending' = Restrict(pending, DOMAIN pending \ old)
  /\ proxied' = Restrict(proxied, DOMAIN proxied \ old)
  /\ evicted' = evicted \cup old
  /\ conns' = [d \in Domains |-> IF conns[d] # None /\ closed[conns[d]] THEN None ELSE conns[d]]
  /\ UNCHANGED <<asked, answer, owed, fanout, host, moves, tasks, events>>

\* A service is added or withdrawn (see Intercept).
Move(d, s) ==
  /\ moves < MaxMoves /\ moves' = moves + 1 /\ host[d] # s
  /\ host' = [host EXCEPT ![d] = s]
  /\ UNCHANGED <<asked, answer, upstream, conns, proxied, evicted, tasks, events>>

----------------------------------------------------------------------------
(* run_proxy_conn.                                                         *)

Goto(t, label) == task' = [task EXCEPT ![t] = label]
Failed(q) == [kind |-> "failed", of |-> q]

\* Fault: the jobs that are still queued are dropped with the queue.
StopForgetting(t, failed) ==
  /\ closed' = [closed EXCEPT ![t] = TRUE]
  /\ jobs' = [jobs EXCEPT ![t] = <<>>]
  /\ events' = events \o failed

\* closed, then fail_queued, with no await in between.
Stop(t, failed) ==
  /\ closed' = [closed EXCEPT ![t] = TRUE]
  /\ jobs' = [jobs EXCEPT ![t] = <<>>]
  /\ events' = events \o failed \o [i \in DOMAIN jobs[t] |-> Failed(jobs[t][i])]

Connected(t) ==
  /\ task[t] = "connect" /\ Goto(t, "run")
  /\ UNCHANGED <<asked, answer, upstream, host, moves, conns, proxied, evicted,
                 serves, jobs, hand, closed, peer, created, events>>

ConnectErr(t) ==
  /\ task[t] = "connect" /\ Goto(t, "ended") /\ Stop(t, <<>>)
  /\ UNCHANGED <<asked, answer, upstream, host, moves, conns, proxied, evicted,
                 serves, hand, peer, created>>

TakeJob(t) ==
  /\ task[t] = "run" /\ jobs[t] # <<>>
  /\ Goto(t, "write")
  /\ hand' = [hand EXCEPT ![t] = Head(jobs[t])] /\ jobs' = [jobs EXCEPT ![t] = Tail(@)]
  /\ UNCHANGED <<asked, answer, upstream, host, moves, conns, proxied, evicted,
                 serves, closed, peer, created, events>>

WriteJob(t) ==
  /\ task[t] = "write"
  /\ hand' = [hand EXCEPT ![t] = None]
  /\ \/ /\ Goto(t, "run") /\ peer' = [peer EXCEPT ![t] = @ \cup {hand[t]}]
        /\ UNCHANGED <<jobs, closed, events>>
     \/ Goto(t, "close") /\ Stop(t, <<Failed(hand[t])>>) /\ UNCHANGED peer
  /\ UNCHANGED <<asked, answer, upstream, host, moves, conns, proxied, evicted, serves, created>>

\* Fault: the task keeps a sender of its own queue, and never sees it close.
JobsGoneNever(t) == FALSE

\* The handle is gone and every job written.
JobsGone(t) ==
  /\ task[t] = "run" /\ jobs[t] = <<>> /\ t \notin Range(conns)
  /\ Goto(t, "close") /\ Stop(t, <<>>)
  /\ UNCHANGED <<asked, answer, upstream, host, moves, conns, proxied, evicted,
                 serves, hand, peer, created>>

\* The peer answers, in any order and each job once.
Chunk(t) ==
  /\ task[t] = "run"
  /\ \E q \in peer[t] : /\ peer' = [peer EXCEPT ![t] = @ \ {q}]
                        /\ events' = Append(events, [kind |-> "data", of |-> q])
  /\ UNCHANGED <<asked, answer, upstream, host, moves, conns, proxied, evicted,
                 task, serves, jobs, hand, closed, created>>

\* It closes the connection, or the read fails.
PeerEnds(t) ==
  /\ task[t] = "run" /\ Goto(t, "close") /\ Stop(t, <<>>)
  /\ UNCHANGED <<asked, answer, upstream, host, moves, conns, proxied, evicted,
                 serves, hand, peer, created>>

Close(t) ==
  /\ task[t] = "close" /\ Goto(t, "ended")
  /\ UNCHANGED <<asked, answer, upstream, host, moves, conns, proxied, evicted,
                 serves, jobs, hand, closed, peer, created, events>>

\* The connect, the write and the close all write to the shared channel, untimed:
\* if its transport takes no more, the task stays there, with what it holds.
Stall(t) ==
  /\ task[t] \in {"connect", "write", "close"} /\ Goto(t, "stalled")
  /\ UNCHANGED <<asked, answer, upstream, host, moves, conns, proxied, evicted,
                 serves, jobs, hand, closed, peer, created, events>>

----------------------------------------------------------------------------
TaskStep(t) == \/ Connected(t) \/ ConnectErr(t) \/ TakeJob(t) \/ WriteJob(t)
               \/ JobsGone(t) \/ Close(t)

Next ==
  \/ \E m \in Menu : Ask(m)
  \/ \E s \in Servers, of \in Queries : UpstreamResponse(s, of)
  \/ OnEvent
  \/ \E old \in SUBSET Ids : Tick(old)
  \/ \E d \in Domains, s \in Services \cup {NoService} : Move(d, s)
  \/ \E t \in Tasks : TaskStep(t) \/ Chunk(t) \/ PeerEnds(t) \/ Stall(t)

Spec == Init /\ [][Next]_vars

\* Tasks are polled; connects and writes that are not stalled end.  No peer need
\* answer.
FairSpec == Spec /\ WF_vars(OnEvent) /\ \A t \in Tasks : WF_vars(TaskStep(t))

----------------------------------------------------------------------------
\* proxy_resolve: a proxied query that is still waiting has not fallen between
\* the loop and a task: its job is queued in a task that has not given up, is
\* being written, was written, or has an event on its way.
Underway(q) ==
  \/ \E t \in Tasks : /\ task[t] \in {"connect", "run", "write", "stalled"}
                      /\ q = hand[t] \/ q \in Range(jobs[t])
  \/ \E t \in Tasks : q \in peer[t]
  \/ \E i \in DOMAIN events : events[i].of = q
NoLostQuery == \A id \in DOMAIN proxied : Underway(proxied[id])

\* Who asks gets the answer to the question that was asked, unless the id had
\* been used by an earlier query that was given up, or one that several servers
\* were asked: then a late answer to that one is taken for the new one's.
AnswersOwn ==
  \A q \in 1..Len(asked) :
    LET of == answer[q].of IN
    of \notin {None, q} =>
      /\ Id(of) = Id(q) /\ of < q
      /\ Id(q) \in evicted \/ \E p \in fanout : p < q /\ Id(p) = Id(q)

\* A task whose domain has gone to another one writes what it was given, and ends:
\* nothing but a write that the channel never takes keeps it.
TaskEnds ==
  \A t \in Tasks : t <= created /\ t \notin Range(conns) ~> task[t] \in {"ended", "stalled"}
=============================================================================
