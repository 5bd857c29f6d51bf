-------------------------- MODULE DnsForwardProofs --------------------------
(***************************************************************************)
(* For any number of queries, upstream servers, domains, services and      *)
(* connections: no proxied query is lost between the loop and the tasks,   *)
(* and a query is answered with another one's answer only if its id had    *)
(* been given up or fanned out before.  The argument: a proxied query is   *)
(* in one place at a time, a queue, a hand, a connection or the events     *)
(* (Once), and its id is taken until it is answered or given up (Tokens);  *)
(* what a server owes is for the query in flight under its id, or for one  *)
(* that was given up or fanned out (Requests).                             *)
(***************************************************************************)
EXTENDS DnsForward, SequenceTheorems, FiniteSetTheorems, TLAPS

Event == [kind : {"data", "failed"}, of : Queries]

TypeOK ==
  /\ asked \in Seq(Menu) /\ Len(asked) <= MaxQueries
  /\ answer \in [Queries -> [what : {"none", "refused", "servfail", "notimpl", "answer"},
                             of : 0..MaxQueries]]
  /\ owed \subseteq Servers \X Queries /\ fanout \subseteq Queries
  /\ host \in [Domains -> Services \cup {NoService}]
  /\ created \in 0..MaxTasks /\ conns \in [Domains -> 0..created]
  /\ task \in [Tasks -> {"none", "connect", "run", "write", "close", "ended", "stalled"}]
  /\ serves \in [Tasks -> Services \cup {NoService}]
  /\ jobs \in [Tasks -> Seq(Queries)] /\ hand \in [Tasks -> 0..MaxQueries]
  /\ closed \in [Tasks -> BOOLEAN] /\ peer \in [Tasks -> SUBSET Queries]
  /\ events \in Seq(Event)

\* A table knows each query by its id.
Waits(table) == \A id \in DOMAIN table : table[id] \in 1..Len(asked) /\ Id(table[id]) = id

\* A task that is not created has no job; one that is not closed will come to
\* its jobs, unless it is stalled; and one that is not writing has nothing in hand.
Working ==
  /\ \A t \in Tasks : t > created => jobs[t] = <<>> /\ task[t] = "none"
  /\ \A t \in Tasks : t <= created /\ ~closed[t] => task[t] \in {"connect", "run", "write", "stalled"}
  /\ \A t \in Tasks : /\ task[t] = "write" => hand[t] # None
                      /\ task[t] \notin {"write", "stalled"} => hand[t] = None

\* A query is in a queue of jobs, and once in it; and likewise in the events.
Has(s, q) == \E i \in 1..Len(s) : s[i] = q
Apart(s) == \A i, j \in 1..Len(s) : s[i] = s[j] => i = j
Tells(s, q) == \E i \in 1..Len(s) : s[i].of = q
Distinct(s) == \A i, j \in 1..Len(s) : s[i].of = s[j].of => i = j

Places == ({"job", "hand", "peer"} \X Tasks) \cup {<<"event", 0>>}

\* A proxied query is nowhere but at place l.
Sole(q, l) ==
  /\ \A t \in Tasks : Has(jobs[t], q) => l = <<"job", t>>
  /\ \A t \in Tasks : hand[t] = q => l = <<"hand", t>>
  /\ \A t \in Tasks : q \in peer[t] => l = <<"peer", t>>
  /\ Tells(events, q) => l = <<"event", 0>>

Once ==
  /\ \A t \in Tasks : Apart(jobs[t])
  /\ Distinct(events)
  /\ \A q \in Queries : \E l \in Places : Sole(q, l)

\* What a task or an event holds of q; an id that is not given up is q's until then.
Token(q) == (\E t \in Tasks : Has(jobs[t], q) \/ hand[t] = q \/ q \in peer[t]) \/ Tells(events, q)
Tokens ==
  \A q \in Queries : Token(q) =>
    /\ q <= Len(asked)
    /\ Id(q) \in evicted \/ (Id(q) \in DOMAIN proxied /\ proxied[Id(q)] = q)
    /\ Id(q) \in DOMAIN proxied => q <= proxied[Id(q)]

\* An earlier query, or this one, that several servers were asked.
FannedOut(q) == \E p \in fanout : p <= q /\ Id(p) = Id(q)

Requests ==
  /\ \A p \in fanout : p <= Len(asked)
  /\ \A s \in Servers, q \in Queries : <<s, q>> \in owed =>
       /\ q <= Len(asked)
       /\ (Id(q) \in DOMAIN pending /\ pending[Id(q)] = q) \/ Id(q) \in evicted \/ FannedOut(q)
       /\ Id(q) \in DOMAIN pending => q <= pending[Id(q)]
  /\ \A r, s \in Servers, q \in Queries : <<r, q>> \in owed /\ <<s, q>> \in owed /\ r # s => q \in fanout

Unasked == \A q \in Queries : q > Len(asked) => answer[q].of = None

Inv == /\ TypeOK /\ Waits(pending) /\ Waits(proxied) /\ Working
       /\ Once /\ Tokens /\ Requests /\ Unasked

----------------------------------------------------------------------------
(* Queues of jobs and of events.                                           *)

\* The events of a and then of b tell of the queries that either tells of.
LEMMA ConcatTells ==
  ASSUME NEW a \in Seq(Event), NEW b \in Seq(Event)
  PROVE  /\ a \o b \in Seq(Event)
         /\ \A q : Tells(a \o b, q) <=> Tells(a, q) \/ Tells(b, q)
         /\ Distinct(a) /\ Distinct(b) /\ (\A q \in Queries : ~(Tells(a, q) /\ Tells(b, q)))
              => Distinct(a \o b)
<1>1. PICK m, n \in Nat : Len(a) = m /\ Len(b) = n
  OBVIOUS
<1>2. /\ a \o b \in Seq(Event) /\ Len(a \o b) = m + n
      /\ \A i \in 1..(m + n) : (a \o b)[i] = IF i <= m THEN a[i] ELSE b[i - m]
  BY <1>1, ConcatProperties
<1>3. PICK ab \in Seq(Event) : ab = a \o b
  BY <1>2
<1>4. \A i \in 1..m : i \in 1..(m + n) /\ ab[i] = a[i]
  <2> SUFFICES ASSUME NEW i \in 1..m PROVE i \in 1..(m + n) /\ ab[i] = a[i]
    OBVIOUS
  <2>1. i \in 1..(m + n) /\ i <= m
    OBVIOUS
  <2> QED
    BY <1>2, <1>3, <2>1
<1>5. \A i \in 1..n : i + m \in 1..(m + n) /\ ab[i + m] = b[i]
  <2> SUFFICES ASSUME NEW i \in 1..n PROVE i + m \in 1..(m + n) /\ ab[i + m] = b[i]
    OBVIOUS
  <2>1. i + m \in 1..(m + n) /\ ~(i + m <= m) /\ (i + m) - m = i
    OBVIOUS
  <2> QED
    BY <1>2, <1>3, <2>1
<1>6. \A i \in 1..(m + n) : i \in 1..m \/ (i - m \in 1..n /\ ab[i] = b[i - m] /\ i = (i - m) + m)
  <2> SUFFICES ASSUME NEW i \in 1..(m + n), i \notin 1..m
               PROVE  i - m \in 1..n /\ ab[i] = b[i - m] /\ i = (i - m) + m
    OBVIOUS
  <2>1. i - m \in 1..n /\ ~(i <= m) /\ i = (i - m) + m
    OBVIOUS
  <2> QED
    BY <1>2, <1>3, <2>1
<1>7. \A q : Tells(ab, q) <=> Tells(a, q) \/ Tells(b, q)
  <2>1. ASSUME NEW q, Tells(ab, q) PROVE Tells(a, q) \/ Tells(b, q)
    BY <1>1, <1>2, <1>3, <1>4, <1>6, <2>1 DEF Tells
  <2>2. ASSUME NEW q, Tells(a, q) PROVE Tells(ab, q)
    BY <1>1, <1>2, <1>3, <1>4, <2>2 DEF Tells
  <2>3. ASSUME NEW q, Tells(b, q) PROVE Tells(ab, q)
    BY <1>1, <1>2, <1>3, <1>5, <2>3 DEF Tells
  <2> QED
    BY <2>1, <2>2, <2>3
<1>8. ASSUME Distinct(a), Distinct(b), \A q \in Queries : ~(Tells(a, q) /\ Tells(b, q))
      PROVE  Distinct(ab)
  <2>0. (\A i \in 1..m : Tells(a, a[i].of) /\ a[i].of \in Queries) /\ (\A i \in 1..n : Tells(b, b[i].of))
    <3>1. \A i \in 1..m : a[i] \in Event
      BY <1>1
    <3> QED
      BY <1>1, <3>1 DEF Tells, Event
  <2> SUFFICES ASSUME NEW i \in 1..(m + n), NEW j \in 1..(m + n), ab[i].of = ab[j].of PROVE i = j
    BY <1>2, <1>3 DEF Distinct
  <2>1. CASE i \in 1..m /\ j \in 1..m
    BY <1>1, <1>4, <1>8, <2>1 DEF Distinct
  <2>2. CASE i \in 1..m /\ j \notin 1..m
    BY <1>4, <1>6, <1>8, <2>0, <2>2
  <2>3. CASE i \notin 1..m /\ j \in 1..m
    BY <1>4, <1>6, <1>8, <2>0, <2>3
  <2>4. CASE i \notin 1..m /\ j \notin 1..m
    <3>1. i - m \in 1..n /\ j - m \in 1..n /\ b[i - m].of = b[j - m].of
      BY <1>6, <2>4
    <3>2. i - m = j - m
      BY <1>1, <1>8, <3>1 DEF Distinct
    <3> QED
      BY <1>6, <2>4, <3>2
  <2> QED
    BY <2>1, <2>2, <2>3, <2>4
<1> QED
  BY <1>2, <1>3, <1>7, <1>8

\* One event tells of one query, and none of none.
LEMMA OneTells ==
  ASSUME NEW e \in Event
  PROVE  /\ <<e>> \in Seq(Event) /\ Distinct(<<e>>)
         /\ \A q : Tells(<<e>>, q) <=> q = e.of
BY DEF Distinct, Tells

\* No event tells of nothing.
LEMMA NoneTells == <<>> \in Seq(Event) /\ Distinct(<<>>) /\ \A q : ~Tells(<<>>, q)
BY DEF Distinct, Tells

\* fail_queued tells of every job in the queue, once.
LEMMA FailedTells ==
  ASSUME NEW s \in Seq(Queries), NEW f, f = [i \in DOMAIN s |-> Failed(s[i])]
  PROVE  /\ f \in Seq(Event)
         /\ \A q : Tells(f, q) <=> Has(s, q)
         /\ Apart(s) => Distinct(f)
<1>1. PICK n \in Nat : Len(s) = n /\ DOMAIN s = 1..n
  BY LenProperties
<1>2. \A i \in 1..n : s[i] \in Queries
  BY <1>1
<1>3. \A i \in 1..n : f[i] \in Event /\ f[i].of = s[i]
  BY <1>1, <1>2 DEF Failed, Event
<1>4. f \in [1..n -> Event]
  BY <1>1, <1>3
<1>5. f \in Seq(Event)
  BY <1>4, SeqDef
<1>6. Len(f) = n
  BY <1>4, <1>5
<1>7. \A q : Tells(f, q) <=> Has(s, q)
  BY <1>1, <1>3, <1>6 DEF Tells, Has
<1>8. Apart(s) => Distinct(f)
  BY <1>1, <1>3, <1>6 DEF Apart, Distinct
<1> QED
  BY <1>5, <1>7, <1>8

\* The loop takes the first event: nothing tells of its query any more.
LEMMA TailTells ==
  ASSUME NEW s \in Seq(Event), s # <<>>
  PROVE  /\ Head(s) \in Event /\ Tail(s) \in Seq(Event) /\ Tells(s, Head(s).of)
         /\ \A q : Tells(Tail(s), q) => Tells(s, q)
         /\ \A q : Tells(s, q) => q = Head(s).of \/ Tells(Tail(s), q)
         /\ Distinct(s) => Distinct(Tail(s)) /\ ~Tells(Tail(s), Head(s).of)
<1>1. PICK n \in Nat : Len(s) = n + 1
  <2>1. Len(s) \in Nat /\ Len(s) # 0
    OBVIOUS
  <2> QED
    BY <2>1
<1>2. PICK h \in Event : h = Head(s) /\ s[1] = h
  BY <1>1
<1>3. PICK r \in Seq(Event) : r = Tail(s) /\ Len(r) = n /\ \A i \in 1..n : r[i] = s[i + 1]
  <2>1. /\ Tail(s) \in Seq(Event) /\ Len(Tail(s)) = Len(s) - 1
        /\ \A i \in 1..(Len(s) - 1) : Tail(s)[i] = s[i + 1]
    OBVIOUS
  <2>2. Len(s) - 1 = n
    BY <1>1
  <2> QED
    BY <2>1, <2>2
<1>4. \A i \in 1..n : i + 1 \in 1..(n + 1) /\ i + 1 # 1
  OBVIOUS
<1>5. \A i \in 1..(n + 1) : i = 1 \/ (i - 1 \in 1..n /\ (i - 1) + 1 = i)
  OBVIOUS
<1>6. Tells(s, h.of)
  BY <1>1, <1>2 DEF Tells
<1>7. ASSUME NEW q, Tells(r, q) PROVE Tells(s, q)
  BY <1>1, <1>3, <1>4, <1>7 DEF Tells
<1>8. ASSUME NEW q, Tells(s, q) PROVE q = h.of \/ Tells(r, q)
  <2>1. PICK i \in 1..(n + 1) : s[i].of = q
    BY <1>1, <1>8 DEF Tells
  <2>2. CASE i = 1
    BY <1>2, <2>1, <2>2
  <2>3. CASE i # 1
    <3>1. i - 1 \in 1..n /\ (i - 1) + 1 = i
      BY <1>5, <2>3
    <3>2. r[i - 1] = s[i]
      BY <1>3, <3>1
    <3> QED
      BY <1>3, <2>1, <3>1, <3>2 DEF Tells
  <2> QED
    BY <2>2, <2>3
<1>9. ASSUME Distinct(s) PROVE Distinct(r) /\ ~Tells(r, h.of)
  <2>1. ASSUME NEW i \in 1..n, NEW j \in 1..n, r[i].of = r[j].of PROVE i = j
    <3>1. s[i + 1].of = s[j + 1].of /\ i + 1 \in 1..(n + 1) /\ j + 1 \in 1..(n + 1)
      BY <1>3, <1>4, <2>1
    <3>2. i + 1 = j + 1
      BY <1>1, <1>9, <3>1 DEF Distinct
    <3> QED
      BY <3>2
  <2>2. ASSUME NEW i \in 1..n, r[i].of = h.of PROVE FALSE
    <3>1. s[i + 1].of = s[1].of /\ i + 1 \in 1..(n + 1) /\ 1 \in 1..(n + 1)
      BY <1>2, <1>3, <1>4, <2>2
    <3>2. i + 1 = 1
      BY <1>1, <1>9, <3>1 DEF Distinct
    <3> QED
      BY <1>4, <3>2
  <2> QED
    BY <1>3, <2>1, <2>2 DEF Distinct, Tells
<1> QED
  BY <1>2, <1>3, <1>6, <1>7, <1>8, <1>9

\* A task takes its first job: the queue does not have it any more.
LEMMA TailHas ==
  ASSUME NEW s \in Seq(Queries), s # <<>>
  PROVE  /\ Head(s) \in Queries /\ Tail(s) \in Seq(Queries) /\ Has(s, Head(s))
         /\ \A q : Has(Tail(s), q) => Has(s, q)
         /\ \A q : Has(s, q) => q = Head(s) \/ Has(Tail(s), q)
         /\ Apart(s) => Apart(Tail(s)) /\ ~Has(Tail(s), Head(s))
<1>1. PICK n \in Nat : Len(s) = n + 1
  <2>1. Len(s) \in Nat /\ Len(s) # 0
    OBVIOUS
  <2> QED
    BY <2>1
<1>2. PICK h \in Queries : h = Head(s) /\ s[1] = h
  BY <1>1
<1>3. PICK r \in Seq(Queries) : r = Tail(s) /\ Len(r) = n /\ \A i \in 1..n : r[i] = s[i + 1]
  <2>1. /\ Tail(s) \in Seq(Queries) /\ Len(Tail(s)) = Len(s) - 1
        /\ \A i \in 1..(Len(s) - 1) : Tail(s)[i] = s[i + 1]
    OBVIOUS
  <2>2. Len(s) - 1 = n
    BY <1>1
  <2> QED
    BY <2>1, <2>2
<1>4. \A i \in 1..n : i + 1 \in 1..(n + 1) /\ i + 1 # 1
  OBVIOUS
<1>5. \A i \in 1..(n + 1) : i = 1 \/ (i - 1 \in 1..n /\ (i - 1) + 1 = i)
  OBVIOUS
<1>6. Has(s, h)
  BY <1>1, <1>2 DEF Has
<1>7. ASSUME NEW q, Has(r, q) PROVE Has(s, q)
  BY <1>1, <1>3, <1>4, <1>7 DEF Has
<1>8. ASSUME NEW q, Has(s, q) PROVE q = h \/ Has(r, q)
  <2>1. PICK i \in 1..(n + 1) : s[i] = q
    BY <1>1, <1>8 DEF Has
  <2>2. CASE i = 1
    BY <1>2, <2>1, <2>2
  <2>3. CASE i # 1
    <3>1. i - 1 \in 1..n /\ (i - 1) + 1 = i
      BY <1>5, <2>3
    <3>2. r[i - 1] = s[i]
      BY <1>3, <3>1
    <3> QED
      BY <1>3, <2>1, <3>1, <3>2 DEF Has
  <2> QED
    BY <2>2, <2>3
<1>9. ASSUME Apart(s) PROVE Apart(r) /\ ~Has(r, h)
  <2>1. ASSUME NEW i \in 1..n, NEW j \in 1..n, r[i] = r[j] PROVE i = j
    <3>1. s[i + 1] = s[j + 1] /\ i + 1 \in 1..(n + 1) /\ j + 1 \in 1..(n + 1)
      BY <1>3, <1>4, <2>1
    <3>2. i + 1 = j + 1
      BY <1>1, <1>9, <3>1 DEF Apart
    <3> QED
      BY <3>2
  <2>2. ASSUME NEW i \in 1..n, r[i] = h PROVE FALSE
    <3>1. s[i + 1] = s[1] /\ i + 1 \in 1..(n + 1) /\ 1 \in 1..(n + 1)
      BY <1>2, <1>3, <1>4, <2>2
    <3>2. i + 1 = 1
      BY <1>1, <1>9, <3>1 DEF Apart
    <3> QED
      BY <1>4, <3>2
  <2> QED
    BY <1>3, <2>1, <2>2 DEF Apart, Has
<1> QED
  BY <1>2, <1>3, <1>6, <1>7, <1>8, <1>9

\* send_job puts a job at the end of the queue.
LEMMA JobHas ==
  ASSUME NEW s \in Seq(Queries), NEW x \in Queries
  PROVE  /\ s \o <<x>> \in Seq(Queries)
         /\ \A q : Has(s \o <<x>>, q) <=> Has(s, q) \/ q = x
         /\ Apart(s) /\ ~Has(s, x) => Apart(s \o <<x>>)
<1>1. PICK n \in Nat : Len(s) = n
  OBVIOUS
<1>2. PICK r \in Seq(Queries) : /\ r = s \o <<x>> /\ Len(r) = n + 1 /\ r[n + 1] = x
                                /\ \A i \in 1..n : r[i] = s[i]
  <2>1. s \o <<x>> = Append(s, x)
    OBVIOUS
  <2>2. /\ Append(s, x) \in Seq(Queries) /\ Len(Append(s, x)) = Len(s) + 1
        /\ Append(s, x)[Len(s) + 1] = x /\ \A i \in 1..Len(s) : Append(s, x)[i] = s[i]
    OBVIOUS
  <2> QED
    BY <1>1, <2>1, <2>2
<1>3. \A i : i \in 1..(n + 1) <=> i \in 1..n \/ i = n + 1
  OBVIOUS
<1>4. \A q : Has(r, q) <=> Has(s, q) \/ q = x
  BY <1>1, <1>2, <1>3 DEF Has
<1>5. Apart(s) /\ ~Has(s, x) => Apart(r)
  BY <1>1, <1>2, <1>3 DEF Apart, Has
<1> QED
  BY <1>2, <1>4, <1>5

----------------------------------------------------------------------------
(* What the operations do to the queues and to the tables.                 *)

\* Bounds and domains are what they look like.
LEMMA Numbers ==
  /\ Queries = 1..MaxQueries /\ Tasks = 1..MaxTasks /\ None = 0 /\ None \notin Queries
  /\ MaxQueries \in Nat /\ MaxTasks \in Nat
BY DnsAssumption DEF Queries, Tasks, None

\* A task that ends tells the loop of each job in its queue.
LEMMA StopEffect ==
  ASSUME TypeOK, NEW t \in Tasks, NEW failed \in Seq(Event), Stop(t, failed)
  PROVE  /\ events' \in Seq(Event) /\ jobs' \in [Tasks -> Seq(Queries)] /\ closed' \in [Tasks -> BOOLEAN]
         /\ closed'[t] /\ \A u \in Tasks : u # t => closed'[u] = closed[u] /\ jobs'[u] = jobs[u]
         /\ jobs'[t] = <<>> /\ \A q : ~Has(jobs'[t], q)
         /\ \A q : Tells(events', q) <=> Tells(events, q) \/ Tells(failed, q) \/ Has(jobs[t], q)
         /\ (/\ Distinct(events) /\ Distinct(failed) /\ Apart(jobs[t])
             /\ \A q \in Queries : /\ ~(Tells(events, q) /\ Tells(failed, q))
                                   /\ ~(Tells(events, q) /\ Has(jobs[t], q))
                                   /\ ~(Tells(failed, q) /\ Has(jobs[t], q)))
              => Distinct(events')
<1>1. events \in Seq(Event) /\ jobs[t] \in Seq(Queries) /\ jobs \in [Tasks -> Seq(Queries)] /\ closed \in [Tasks -> BOOLEAN]
  BY DEF TypeOK
<1>2. PICK f : f = [i \in DOMAIN jobs[t] |-> Failed(jobs[t][i])]
  OBVIOUS
<1>3. f \in Seq(Event) /\ (\A q : Tells(f, q) <=> Has(jobs[t], q)) /\ (Apart(jobs[t]) => Distinct(f))
  BY <1>1, <1>2, FailedTells
<1>4. PICK g \in Seq(Event) :
        /\ g = events \o failed
        /\ \A q : Tells(g, q) <=> Tells(events, q) \/ Tells(failed, q)
        /\ Distinct(events) /\ Distinct(failed) /\ (\A q \in Queries : ~(Tells(events, q) /\ Tells(failed, q)))
             => Distinct(g)
  BY <1>1, ConcatTells
<1>5. events' = g \o f
  BY <1>2, <1>4 DEF Stop
<1>6. /\ g \o f \in Seq(Event)
      /\ \A q : Tells(g \o f, q) <=> Tells(g, q) \/ Tells(f, q)
      /\ Distinct(g) /\ Distinct(f) /\ (\A q \in Queries : ~(Tells(g, q) /\ Tells(f, q))) => Distinct(g \o f)
  BY <1>3, <1>4, ConcatTells
<1>7. jobs' = [jobs EXCEPT ![t] = <<>>] /\ closed' = [closed EXCEPT ![t] = TRUE]
  BY DEF Stop
<1>8. jobs' \in [Tasks -> Seq(Queries)] /\ closed' \in [Tasks -> BOOLEAN]
  BY <1>1, <1>7
<1>9. /\ closed'[t] /\ jobs'[t] = <<>>
      /\ \A u \in Tasks : u # t => closed'[u] = closed[u] /\ jobs'[u] = jobs[u]
  BY <1>1, <1>7
<1>10. \A q : ~Has(jobs'[t], q)
  BY <1>9 DEF Has
<1>11. \A q : Tells(events', q) <=> Tells(events, q) \/ Tells(failed, q) \/ Has(jobs[t], q)
  BY <1>3, <1>4, <1>5, <1>6
<1>12. ASSUME Distinct(events), Distinct(failed), Apart(jobs[t]),
              \A q \in Queries : /\ ~(Tells(events, q) /\ Tells(failed, q))
                                 /\ ~(Tells(events, q) /\ Has(jobs[t], q))
                                 /\ ~(Tells(failed, q) /\ Has(jobs[t], q))
       PROVE  Distinct(events')
  <2>1. Distinct(g) /\ Distinct(f)
    BY <1>3, <1>4, <1>12
  <2>2. \A q \in Queries : ~(Tells(g, q) /\ Tells(f, q))
    BY <1>3, <1>4, <1>12
  <2> QED
    BY <1>5, <1>6, <2>1, <2>2
<1> QED
  BY <1>5, <1>6, <1>8, <1>9, <1>10, <1>11, <1>12

\* live_handle gives a task that is not closed, an old one or a new one.
LEMMA LiveHandle ==
  ASSUME TypeOK, Working, NEW d \in Domains, NEW job \in Seq(Queries), OnLiveHandle(d, job)
  PROVE  \E t \in Tasks :
           /\ jobs' = [jobs EXCEPT ![t] = jobs[t] \o job]
           /\ task' \in [Tasks -> {"none", "connect", "run", "write", "close", "ended", "stalled"}]
           /\ task'[t] \in {"connect", "run", "write", "stalled"} /\ (\A l \in {"write", "stalled"} : task'[t] = l <=> task[t] = l)
           /\ \A u \in Tasks : u # t => task'[u] = task[u]
           /\ created' \in 0..MaxTasks /\ conns' \in [Domains -> 0..created']
           /\ serves' \in [Tasks -> Services \cup {NoService}]
           /\ \A u \in Tasks : u # t /\ u <= created' => u <= created
           /\ \A u \in Tasks : u > created' => u # t /\ u > created
<1>0. /\ conns \in [Domains -> 0..created] /\ created \in 0..MaxTasks /\ jobs \in [Tasks -> Seq(Queries)]
      /\ task \in [Tasks -> {"none", "connect", "run", "write", "close", "ended", "stalled"}]
      /\ serves \in [Tasks -> Services \cup {NoService}] /\ host[d] \in Services \cup {NoService}
  BY DEF TypeOK
<1>1. CASE Usable(d)
  <2>1. jobs' = [jobs EXCEPT ![conns[d]] = jobs[conns[d]] \o job] /\ UNCHANGED <<conns, task, serves, created>>
    BY <1>1 DEF OnLiveHandle
  <2>2. conns[d] \in Tasks /\ conns[d] <= created /\ ~closed[conns[d]]
    BY <1>0, <1>1, Numbers DEF Usable
  <2>3. task[conns[d]] \in {"connect", "run", "write", "stalled"}
    BY <2>2 DEF Working
  <2>4. \A u \in Tasks : u > created => u # conns[d]
    BY <1>0, <2>2, Numbers
  <2> QED
    BY <1>0, <2>1, <2>2, <2>3, <2>4
<1>2. CASE ~Usable(d)
  <2>1. /\ created < MaxTasks /\ created' = created + 1
        /\ conns' = [conns EXCEPT ![d] = created + 1]
        /\ task' = [task EXCEPT ![created + 1] = "connect"]
        /\ serves' = [serves EXCEPT ![created + 1] = host[d]]
        /\ jobs' = [jobs EXCEPT ![created + 1] = job]
    BY <1>2 DEF OnLiveHandle
  <2>2. created + 1 \in Tasks /\ created + 1 > created /\ created' \in 0..MaxTasks
    BY <1>0, <2>1, Numbers
  <2>3. jobs[created + 1] = <<>> /\ task[created + 1] = "none"
    BY <2>2 DEF Working
  <2>4. jobs[created + 1] \o job = job
    BY <2>3
  <2>5. /\ task' \in [Tasks -> {"none", "connect", "run", "write", "close", "ended", "stalled"}]
        /\ task'[created + 1] = "connect" /\ \A u \in Tasks : u # created + 1 => task'[u] = task[u]
    BY <1>0, <2>1, <2>2
  <2>6. serves' \in [Tasks -> Services \cup {NoService}]
    BY <1>0, <2>1, <2>2
  <2>7. conns' \in [Domains -> 0..created']
    BY <1>0, <2>1, <2>2
  <2>8. /\ \A u \in Tasks : u # created + 1 /\ u <= created' => u <= created
        /\ \A u \in Tasks : u > created' => u # created + 1 /\ u > created
    BY <1>0, <2>1, Numbers
  <2> QED
    BY <2>1, <2>2, <2>3, <2>4, <2>5, <2>6, <2>7, <2>8
<1> QED
  BY <1>1, <1>2

\* A query gets the next number, and the ids of the others do not change.
LEMMA AskNumbers ==
  ASSUME TypeOK, NEW m \in Menu, Ask(m), NEW q, q = Len(asked) + 1
  PROVE  /\ asked' \in Seq(Menu) /\ Len(asked) \in Nat
         /\ Len(asked') = q /\ q \in Queries /\ q > Len(asked)
         /\ Id(q)' = m.id /\ \A p \in 1..Len(asked) : Id(p)' = Id(p)
         /\ m.domain \in Domains
<1>1. asked' = Append(asked, m) /\ q <= MaxQueries /\ asked \in Seq(Menu)
  BY DEF Ask, TypeOK
<1>2. /\ asked' \in Seq(Menu) /\ Len(asked) \in Nat /\ Len(asked') = q
      /\ asked'[q] = m /\ \A p \in 1..Len(asked) : asked'[p] = asked[p]
  BY <1>1
<1>3. q \in Queries /\ q > Len(asked)
  BY <1>1, <1>2, Numbers
<1>4. m.domain \in Domains
  BY DnsAssumption
<1> QED
  BY <1>2, <1>3, <1>4 DEF Id

\* What may become of a query that is asked: it is dropped, answered at once,
\* forwarded, or proxied.
Dropped == UNCHANGED <<answer, upstream, conns, proxied, task, serves, jobs, created>>
AtOnce(m, q) ==
  /\ \E what \in {"refused", "servfail", "notimpl"} : Reply(q, what, q)
  /\ UNCHANGED <<upstream, proxied>>
  /\ UNCHANGED <<conns, task, serves, jobs, created>> \/ OnLiveHandle(m.domain, <<>>)
Forwarded(m, q) ==
  /\ m.id \notin DOMAIN pending
  /\ \E took \in SUBSET Servers :
       /\ pending' = With(pending, m.id, q) /\ owed' = owed \cup (took \X {q})
       /\ fanout' = IF Cardinality(took) > 1 THEN fanout \cup {q} ELSE fanout
  /\ UNCHANGED <<answer, conns, proxied, task, serves, jobs, created>>
Proxied(m, q) ==
  /\ m.id \notin DOMAIN proxied /\ proxied' = With(proxied, m.id, q)
  /\ OnLiveHandle(m.domain, <<q>>) /\ UNCHANGED <<answer, upstream>>

\* serve_dns_datagram does one of the four.
LEMMA AskCases ==
  ASSUME NEW m \in Menu, Ask(m), NEW q, q = Len(asked) + 1
  PROVE  /\ Dropped \/ AtOnce(m, q) \/ Forwarded(m, q) \/ Proxied(m, q)
         /\ UNCHANGED <<host, moves, evicted, hand, closed, peer, events>>
<1>1. UNCHANGED <<host, moves, evicted, hand, closed, peer, events>>
  BY DEF Ask
<1> SUFFICES Dropped \/ AtOnce(m, q) \/ Forwarded(m, q) \/ Proxied(m, q)
  BY <1>1
<1>2. CASE m.kind = "foreign" /\ Forward(q, m.id) /\ UNCHANGED <<conns, proxied, task, serves, jobs, created>>
  <2>1. CASE InFlight(m.id, pending)
    BY <1>2, <2>1 DEF Forward, Dropped
  <2>2. CASE ~InFlight(m.id, pending)
    <3>1. PICK took \in SUBSET Servers :
             IF took = {} THEN Reply(q, "refused", q) /\ UNCHANGED upstream
             ELSE /\ pending' = With(pending, m.id, q)
                  /\ owed' = owed \cup (took \X {q})
                  /\ fanout' = IF Cardinality(took) > 1 THEN fanout \cup {q} ELSE fanout
                  /\ UNCHANGED answer
      BY <1>2, <2>2 DEF Forward
    <3>2. CASE took = {}
      BY <1>2, <3>1, <3>2 DEF AtOnce
    <3>3. CASE took # {}
      BY <1>2, <2>2, <3>1, <3>3 DEF Forwarded, InFlight
    <3> QED
      BY <3>2, <3>3
  <2> QED
    BY <2>1, <2>2
<1>3. CASE m.kind = "record" /\ HandleForward(q, m.id, m.domain) /\ UNCHANGED upstream
  <2>1. CASE UNCHANGED <<answer, conns, proxied, task, serves, jobs, created>>
    BY <1>3, <2>1 DEF Dropped
  <2>2. CASE Reply(q, "servfail", q) /\ UNCHANGED <<conns, proxied, task, serves, jobs, created>>
    BY <1>3, <2>2 DEF AtOnce
  <2>3. CASE /\ ~InFlight(m.id, proxied) /\ OnLiveHandle(m.domain, <<q>>)
             /\ proxied' = With(proxied, m.id, q) /\ UNCHANGED answer
    BY <1>3, <2>3 DEF Proxied, InFlight
  <2> QED
    BY <1>3, <2>1, <2>2, <2>3 DEF HandleForward
<1>4. CASE /\ m.kind = "other" /\ Reply(q, "notimpl", q) /\ UNCHANGED <<upstream, proxied>>
           /\ IF host[m.domain] = NoService THEN UNCHANGED <<conns, task, serves, jobs, created>>
                                            ELSE OnLiveHandle(m.domain, <<>>)
  BY <1>4 DEF AtOnce
<1> QED
  BY <1>1, <1>2, <1>3, <1>4 DEF Ask

----------------------------------------------------------------------------
(* The steps.                                                              *)

\* No step of the loop or of a task breaks the types.
LEMMA TypeStep ==
  ASSUME TypeOK, Working, [Next]_vars PROVE TypeOK'
<1> USE Numbers
<1>0. /\ asked \in Seq(Menu) /\ Len(asked) <= MaxQueries
      /\ answer \in [Queries -> [what : {"none", "refused", "servfail", "notimpl", "answer"},
                                 of : 0..MaxQueries]]
      /\ owed \subseteq Servers \X Queries /\ fanout \subseteq Queries
      /\ conns \in [Domains -> 0..created]
      /\ task \in [Tasks -> {"none", "connect", "run", "write", "close", "ended", "stalled"}]
      /\ jobs \in [Tasks -> Seq(Queries)] /\ hand \in [Tasks -> 0..MaxQueries]
      /\ peer \in [Tasks -> SUBSET Queries] /\ events \in Seq(Event)
  BY DEF TypeOK
<1>r. ASSUME NEW q, NEW what \in {"refused", "servfail", "notimpl", "answer"}, NEW of \in Queries,
             Reply(q, what, of)
      PROVE  answer' \in [Queries -> [what : {"none", "refused", "servfail", "notimpl", "answer"},
                                      of : 0..MaxQueries]]
  <2>1. [what |-> what, of |-> of] \in [what : {"none", "refused", "servfail", "notimpl", "answer"}, of : 0..MaxQueries]
    OBVIOUS
  <2> QED
    BY <1>0, <1>r, <2>1 DEF Reply
<1>t. ASSUME NEW t \in Tasks, NEW label \in {"connect", "run", "write", "close", "ended", "stalled"}, Goto(t, label)
      PROVE  task' \in [Tasks -> {"none", "connect", "run", "write", "close", "ended", "stalled"}]
  BY <1>0, <1>t DEF Goto
<1>1. ASSUME NEW m \in Menu, Ask(m) PROVE TypeOK'
  <2>0. PICK q : q = Len(asked) + 1
    OBVIOUS
  <2>1. asked' \in Seq(Menu) /\ Len(asked') = q /\ q \in Queries /\ m.domain \in Domains
    BY <1>1, <2>0, AskNumbers
  <2>2. Len(asked') <= MaxQueries
    BY <2>1
  <2>3. /\ Dropped \/ AtOnce(m, q) \/ Forwarded(m, q) \/ Proxied(m, q)
        /\ UNCHANGED <<host, moves, evicted, hand, closed, peer, events>>
    BY <1>1, <2>0, AskCases
  <2>h. ASSUME NEW job \in Seq(Queries), OnLiveHandle(m.domain, job)
        PROVE  /\ jobs' \in [Tasks -> Seq(Queries)]
               /\ task' \in [Tasks -> {"none", "connect", "run", "write", "close", "ended", "stalled"}]
               /\ created' \in 0..MaxTasks /\ conns' \in [Domains -> 0..created']
               /\ serves' \in [Tasks -> Services \cup {NoService}]
    <3>1. PICK t \in Tasks :
             /\ jobs' = [jobs EXCEPT ![t] = jobs[t] \o job]
             /\ task' \in [Tasks -> {"none", "connect", "run", "write", "close", "ended", "stalled"}]
             /\ created' \in 0..MaxTasks /\ conns' \in [Domains -> 0..created']
             /\ serves' \in [Tasks -> Services \cup {NoService}]
      BY <2>1, <2>h, LiveHandle
    <3>2. jobs[t] \o job \in Seq(Queries)
      BY <1>0, <2>h
    <3> QED
      BY <1>0, <3>1, <3>2
  <2>4. CASE Dropped
    BY <2>1, <2>2, <2>3, <2>4 DEF TypeOK, Dropped, upstream
  <2>5. CASE AtOnce(m, q)
    <3>1. answer' \in [Queries -> [what : {"none", "refused", "servfail", "notimpl", "answer"}, of : 0..MaxQueries]]
      BY <1>r, <2>1, <2>5 DEF AtOnce
    <3>2. UNCHANGED <<owed, fanout>>
      BY <2>5 DEF AtOnce, upstream
    <3>3. CASE UNCHANGED <<conns, task, serves, jobs, created>>
      BY <2>1, <2>2, <2>3, <3>1, <3>2, <3>3 DEF TypeOK
    <3>4. CASE OnLiveHandle(m.domain, <<>>)
      <4>1. <<>> \in Seq(Queries)
        OBVIOUS
      <4> QED
        BY <2>1, <2>2, <2>3, <2>h, <3>1, <3>2, <3>4, <4>1 DEF TypeOK
    <3> QED
      BY <2>5, <3>3, <3>4 DEF AtOnce
  <2>6. CASE Forwarded(m, q)
    <3>1. PICK took \in SUBSET Servers :
            /\ owed' = owed \cup (took \X {q})
            /\ fanout' = IF Cardinality(took) > 1 THEN fanout \cup {q} ELSE fanout
      BY <2>6 DEF Forwarded
    <3>2. owed' \subseteq Servers \X Queries /\ fanout' \subseteq Queries
      BY <1>0, <2>1, <3>1
    <3> QED
      BY <2>1, <2>2, <2>3, <2>6, <3>2 DEF TypeOK, Forwarded
  <2>7. CASE Proxied(m, q)
    <3>1. <<q>> \in Seq(Queries)
      BY <2>1
    <3> QED
      BY <2>1, <2>2, <2>3, <2>7, <2>h, <3>1 DEF TypeOK, Proxied, upstream
  <2> QED
    BY <2>3, <2>4, <2>5, <2>6, <2>7
<1>2. ASSUME NEW s \in Servers, NEW of \in Queries, UpstreamResponse(s, of) PROVE TypeOK'
  <2>1. answer' \in [Queries -> [what : {"none", "refused", "servfail", "notimpl", "answer"}, of : 0..MaxQueries]]
    <3>1. CASE answer' = answer
      BY <1>0, <3>1
    <3>2. CASE Reply(pending[Id(of)], "answer", of)
      BY <1>r, <3>2
    <3> QED
      BY <1>2, <3>1, <3>2 DEF UpstreamResponse
  <2>2. owed' \subseteq Servers \X Queries
    BY <1>2, <1>0 DEF UpstreamResponse
  <2> QED
    BY <1>2, <2>1, <2>2 DEF TypeOK, UpstreamResponse, tasks
<1>3. ASSUME OnEvent PROVE TypeOK'
  <2>1. Head(events) \in Event /\ events' \in Seq(Event)
    BY <1>3, <1>0, TailTells DEF OnEvent
  <2>2. Head(events).of \in Queries
    BY <2>1 DEF Event
  <2>3. answer' \in [Queries -> [what : {"none", "refused", "servfail", "notimpl", "answer"}, of : 0..MaxQueries]]
    <3>1. CASE answer' = answer
      BY <1>0, <3>1
    <3>2. CASE \E what \in {"answer", "servfail"} : Reply(proxied[Id(Head(events).of)], what, Head(events).of)
      BY <1>r, <2>2, <3>2
    <3> QED
      BY <1>3, <3>1, <3>2 DEF OnEvent
  <2> QED
    BY <1>3, <2>1, <2>3 DEF TypeOK, OnEvent, tasks, upstream
<1>4. ASSUME NEW old \in SUBSET Ids, Tick(old) PROVE TypeOK'
  <2>1. conns' \in [Domains -> 0..created]
    BY <1>4, <1>0 DEF Tick, TypeOK
  <2> QED
    BY <1>4, <2>1 DEF TypeOK, Tick, tasks
<1>5. ASSUME NEW d \in Domains, NEW s \in Services \cup {NoService}, Move(d, s) PROVE TypeOK'
  BY <1>5 DEF TypeOK, Move, tasks, upstream
<1>6. ASSUME NEW t \in Tasks, Connected(t) PROVE TypeOK'
  <2>1. task' \in [Tasks -> {"none", "connect", "run", "write", "close", "ended", "stalled"}]
    BY <1>6, <1>t DEF Connected
  <2> QED
    BY <1>6, <2>1 DEF TypeOK, Connected, upstream
<1>7. ASSUME NEW t \in Tasks, ConnectErr(t) PROVE TypeOK'
  <2>1. Stop(t, <<>>) /\ <<>> \in Seq(Event)
    BY <1>7 DEF ConnectErr
  <2>2. events' \in Seq(Event) /\ jobs' \in [Tasks -> Seq(Queries)] /\ closed' \in [Tasks -> BOOLEAN]
    BY <2>1, StopEffect
  <2>3. task' \in [Tasks -> {"none", "connect", "run", "write", "close", "ended", "stalled"}]
    BY <1>7, <1>t DEF ConnectErr
  <2> QED
    BY <1>7, <2>2, <2>3 DEF TypeOK, ConnectErr, upstream, tasks
<1>8. ASSUME NEW t \in Tasks, TakeJob(t) PROVE TypeOK'
  <2>1. task' \in [Tasks -> {"none", "connect", "run", "write", "close", "ended", "stalled"}]
    BY <1>8, <1>t DEF TakeJob
  <2>2. Head(jobs[t]) \in Queries /\ Tail(jobs[t]) \in Seq(Queries)
    BY <1>8, <1>0, TailHas DEF TakeJob
  <2>3. hand' \in [Tasks -> 0..MaxQueries]
    <3>1. hand' = [hand EXCEPT ![t] = Head(jobs[t])] /\ Head(jobs[t]) \in 0..MaxQueries
      BY <1>8, <2>2 DEF TakeJob
    <3> QED
      BY <1>0, <3>1
  <2>4. jobs' \in [Tasks -> Seq(Queries)]
    <3>1. jobs' = [jobs EXCEPT ![t] = Tail(jobs[t])]
      BY <1>8 DEF TakeJob
    <3> QED
      BY <1>0, <2>2, <3>1
  <2> QED
    BY <1>8, <2>1, <2>3, <2>4 DEF TypeOK, TakeJob, upstream
<1>9. ASSUME NEW t \in Tasks, WriteJob(t) PROVE TypeOK'
  <2>1. hand[t] \in Queries
    BY <1>9, <1>0 DEF WriteJob, Working
  <2>2. hand' \in [Tasks -> 0..MaxQueries]
    BY <1>9, <1>0 DEF WriteJob
  <2>3. task' \in [Tasks -> {"none", "connect", "run", "write", "close", "ended", "stalled"}]
    BY <1>9, <1>t DEF WriteJob
  <2>4. CASE peer' = [peer EXCEPT ![t] = peer[t] \cup {hand[t]}] /\ UNCHANGED <<jobs, closed, events>>
    <3>1. peer' \in [Tasks -> SUBSET Queries]
      BY <1>0, <2>1, <2>4
    <3> QED
      BY <1>9, <2>2, <2>3, <2>4, <3>1 DEF TypeOK, WriteJob, upstream
  <2>5. CASE Stop(t, <<Failed(hand[t])>>) /\ UNCHANGED peer
    <3>1. Failed(hand[t]) \in Event
      BY <2>1 DEF Failed, Event
    <3>2. events' \in Seq(Event) /\ jobs' \in [Tasks -> Seq(Queries)] /\ closed' \in [Tasks -> BOOLEAN]
      BY <2>5, <3>1, OneTells, StopEffect
    <3> QED
      BY <1>9, <2>2, <2>3, <2>5, <3>2 DEF TypeOK, WriteJob, upstream
  <2> QED
    BY <1>9, <2>4, <2>5 DEF WriteJob
<1>10. ASSUME NEW t \in Tasks, JobsGone(t) PROVE TypeOK'
  <2>1. Stop(t, <<>>) /\ <<>> \in Seq(Event)
    BY <1>10 DEF JobsGone
  <2>2. events' \in Seq(Event) /\ jobs' \in [Tasks -> Seq(Queries)] /\ closed' \in [Tasks -> BOOLEAN]
    BY <2>1, StopEffect
  <2>3. task' \in [Tasks -> {"none", "connect", "run", "write", "close", "ended", "stalled"}]
    BY <1>10, <1>t DEF JobsGone
  <2> QED
    BY <1>10, <2>2, <2>3 DEF TypeOK, JobsGone, upstream, tasks
<1>11. ASSUME NEW t \in Tasks, Close(t) PROVE TypeOK'
  <2>1. task' \in [Tasks -> {"none", "connect", "run", "write", "close", "ended", "stalled"}]
    BY <1>11, <1>t DEF Close
  <2> QED
    BY <1>11, <2>1 DEF TypeOK, Close, upstream
<1>12. ASSUME NEW t \in Tasks, Chunk(t) PROVE TypeOK'
  <2>1. PICK q \in peer[t] : /\ peer' = [peer EXCEPT ![t] = peer[t] \ {q}]
                             /\ events' = Append(events, [kind |-> "data", of |-> q])
    BY <1>12 DEF Chunk
  <2>2. q \in Queries
    BY <1>0
  <2>3. [kind |-> "data", of |-> q] \in Event
    BY <2>2 DEF Event
  <2>4. events' \in Seq(Event)
    BY <1>0, <2>1, <2>3
  <2>5. peer' \in [Tasks -> SUBSET Queries]
    BY <1>0, <2>1
  <2> QED
    BY <1>12, <2>4, <2>5 DEF TypeOK, Chunk, upstream
<1>13. ASSUME NEW t \in Tasks, PeerEnds(t) PROVE TypeOK'
  <2>1. Stop(t, <<>>) /\ <<>> \in Seq(Event)
    BY <1>13 DEF PeerEnds
  <2>2. events' \in Seq(Event) /\ jobs' \in [Tasks -> Seq(Queries)] /\ closed' \in [Tasks -> BOOLEAN]
    BY <2>1, StopEffect
  <2>3. task' \in [Tasks -> {"none", "connect", "run", "write", "close", "ended", "stalled"}]
    BY <1>13, <1>t DEF PeerEnds
  <2> QED
    BY <1>13, <2>2, <2>3 DEF TypeOK, PeerEnds, upstream, tasks
<1>14. ASSUME UNCHANGED vars PROVE TypeOK'
  BY <1>14 DEF TypeOK, vars, upstream, tasks
<1>15. ASSUME NEW t \in Tasks, Stall(t) PROVE TypeOK'
  <2>1. task' \in [Tasks -> {"none", "connect", "run", "write", "close", "ended", "stalled"}]
    BY <1>15, <1>t DEF Stall
  <2> QED
    BY <1>15, <2>1 DEF TypeOK, Stall, upstream
<1> QED
  BY <1>1, <1>2, <1>3, <1>4, <1>5, <1>6, <1>7, <1>8, <1>9, <1>10, <1>11, <1>12, <1>13, <1>14, <1>15 DEF Next, TaskStep

\* A task keeps its jobs until it has failed them, and a new one has none.
LEMMA WorkingStep ==
  ASSUME TypeOK, Working, [Next]_vars PROVE Working'
<1>0. /\ task \in [Tasks -> {"none", "connect", "run", "write", "close", "ended", "stalled"}]
      /\ jobs \in [Tasks -> Seq(Queries)] /\ hand \in [Tasks -> 0..MaxQueries]
      /\ closed \in [Tasks -> BOOLEAN] /\ created \in Nat
  BY Numbers DEF TypeOK
<1>1. ASSUME NEW m \in Menu, Ask(m) PROVE Working'
  <2>0. PICK q : q = Len(asked) + 1
    OBVIOUS
  <2>1. q \in Queries /\ m.domain \in Domains
    BY <1>1, <2>0, AskNumbers
  <2>3. /\ Dropped \/ AtOnce(m, q) \/ Forwarded(m, q) \/ Proxied(m, q)
        /\ UNCHANGED <<host, moves, evicted, hand, closed, peer, events>>
    BY <1>1, <2>0, AskCases
  <2>4. CASE UNCHANGED <<conns, task, serves, jobs, created>>
    BY <2>3, <2>4 DEF Working
  <2>5. CASE \E job \in Seq(Queries) : OnLiveHandle(m.domain, job)
    <3>1. PICK job \in Seq(Queries) : OnLiveHandle(m.domain, job)
      BY <2>5
    <3>2. PICK t \in Tasks :
             /\ jobs' = [jobs EXCEPT ![t] = jobs[t] \o job]
             /\ task'[t] \in {"connect", "run", "write", "stalled"} /\ (\A l \in {"write", "stalled"} : task'[t] = l <=> task[t] = l)
             /\ \A u \in Tasks : u # t => task'[u] = task[u]
             /\ \A u \in Tasks : u # t /\ u <= created' => u <= created
             /\ \A u \in Tasks : u > created' => u # t /\ u > created
      BY <2>1, <3>1, LiveHandle
    <3>3. \A u \in Tasks : u # t => jobs'[u] = jobs[u]
      BY <1>0, <3>2
    <3>4. \A u \in Tasks : u > created' => jobs'[u] = <<>> /\ task'[u] = "none"
      BY <3>2, <3>3 DEF Working
    <3>5. \A u \in Tasks : u <= created' /\ ~closed'[u] => task'[u] \in {"connect", "run", "write", "stalled"}
      BY <2>3, <3>2 DEF Working
    <3>6. \A u \in Tasks : /\ task'[u] = "write" => hand'[u] # None
                           /\ task'[u] \notin {"write", "stalled"} => hand'[u] = None
      BY <2>3, <3>2 DEF Working
    <3> QED
      BY <3>4, <3>5, <3>6 DEF Working
  <2>6. <<>> \in Seq(Queries) /\ <<q>> \in Seq(Queries)
    BY <2>1
  <2> QED
    BY <2>3, <2>4, <2>5, <2>6 DEF Dropped, AtOnce, Forwarded, Proxied
<1>2. ASSUME NEW s \in Servers, NEW of \in Queries, UpstreamResponse(s, of) PROVE Working'
  BY <1>2 DEF Working, UpstreamResponse, tasks
<1>3. ASSUME OnEvent PROVE Working'
  BY <1>3 DEF Working, OnEvent, tasks
<1>4. ASSUME NEW old \in SUBSET Ids, Tick(old) PROVE Working'
  BY <1>4 DEF Working, Tick, tasks
<1>5. ASSUME NEW d \in Domains, NEW s \in Services \cup {NoService}, Move(d, s) PROVE Working'
  BY <1>5 DEF Working, Move, tasks
<1>6. ASSUME NEW t \in Tasks, Connected(t) PROVE Working'
  <2>1. /\ task[t] = "connect" /\ task'[t] = "run" /\ \A u \in Tasks : u # t => task'[u] = task[u]
        /\ UNCHANGED <<jobs, hand, closed, created>>
    BY <1>6, <1>0 DEF Connected, Goto
  <2> QED
    BY <2>1 DEF Working
<1>7. ASSUME NEW t \in Tasks, ConnectErr(t) PROVE Working'
  <2>1. Stop(t, <<>>) /\ <<>> \in Seq(Event) /\ task[t] \in {"connect", "run"}
        /\ UNCHANGED <<created, hand, peer>>
        /\ task'[t] \in {"close", "ended"} /\ \A u \in Tasks : u # t => task'[u] = task[u]
    BY <1>7, <1>0 DEF ConnectErr, Goto
  <2>2. /\ jobs'[t] = <<>> /\ closed'[t]
        /\ \A u \in Tasks : u # t => closed'[u] = closed[u] /\ jobs'[u] = jobs[u]
    BY <2>1, StopEffect
  <2>3. ~(t > created)
    BY <2>1 DEF Working
  <2> QED
    BY <2>1, <2>2, <2>3 DEF Working
<1>8. ASSUME NEW t \in Tasks, TakeJob(t) PROVE Working'
  <2>1. /\ task[t] = "run" /\ task'[t] = "write" /\ \A u \in Tasks : u # t => task'[u] = task[u]
        /\ UNCHANGED <<closed, created>>
    BY <1>8, <1>0 DEF TakeJob, Goto
  <2>2. Head(jobs[t]) \in Queries
    BY <1>8, <1>0, TailHas DEF TakeJob
  <2>3. hand'[t] # None /\ \A u \in Tasks : u # t => hand'[u] = hand[u]
    BY <1>8, <1>0, <2>2, Numbers DEF TakeJob
  <2>4. ~(t > created)
    BY <2>1 DEF Working
  <2>5. \A u \in Tasks : u # t => jobs'[u] = jobs[u]
    BY <1>8, <1>0 DEF TakeJob
  <2> QED
    BY <2>1, <2>3, <2>4, <2>5 DEF Working
<1>9. ASSUME NEW t \in Tasks, WriteJob(t) PROVE Working'
  <2>1. /\ task[t] = "write" /\ hand'[t] = None /\ (\A u \in Tasks : u # t => hand'[u] = hand[u])
        /\ created' = created
    BY <1>9, <1>0 DEF WriteJob
  <2>2. ~(t > created) /\ hand[t] \in Queries
    BY <1>0, <2>1, Numbers DEF Working
  <2>3. CASE Goto(t, "run") /\ UNCHANGED <<jobs, closed, events>>
    <3>1. task'[t] = "run" /\ \A u \in Tasks : u # t => task'[u] = task[u]
      BY <1>0, <2>3 DEF Goto
    <3> QED
      BY <2>1, <2>3, <3>1 DEF Working
  <2>4. CASE Goto(t, "close") /\ Stop(t, <<Failed(hand[t])>>)
    <3>1. task'[t] = "close" /\ \A u \in Tasks : u # t => task'[u] = task[u]
      BY <1>0, <2>4 DEF Goto
    <3>2. Failed(hand[t]) \in Event
      BY <2>2 DEF Failed, Event
    <3>3. /\ jobs'[t] = <<>> /\ closed'[t]
          /\ \A u \in Tasks : u # t => closed'[u] = closed[u] /\ jobs'[u] = jobs[u]
      BY <2>4, <3>2, OneTells, StopEffect
    <3> QED
      BY <2>1, <2>2, <3>1, <3>3 DEF Working
  <2> QED
    BY <1>9, <2>3, <2>4 DEF WriteJob
<1>10. ASSUME NEW t \in Tasks, JobsGone(t) PROVE Working'
  <2>1. Stop(t, <<>>) /\ <<>> \in Seq(Event) /\ task[t] \in {"connect", "run"}
        /\ UNCHANGED <<created, hand, peer>>
        /\ task'[t] \in {"close", "ended"} /\ \A u \in Tasks : u # t => task'[u] = task[u]
    BY <1>10, <1>0 DEF JobsGone, Goto
  <2>2. /\ jobs'[t] = <<>> /\ closed'[t]
        /\ \A u \in Tasks : u # t => closed'[u] = closed[u] /\ jobs'[u] = jobs[u]
    BY <2>1, StopEffect
  <2>3. ~(t > created)
    BY <2>1 DEF Working
  <2> QED
    BY <2>1, <2>2, <2>3 DEF Working
<1>11. ASSUME NEW t \in Tasks, Close(t) PROVE Working'
  <2>1. /\ task[t] = "close" /\ task'[t] = "ended" /\ \A u \in Tasks : u # t => task'[u] = task[u]
        /\ UNCHANGED <<jobs, hand, closed, created>>
    BY <1>11, <1>0 DEF Close, Goto
  <2> QED
    BY <2>1 DEF Working
<1>12. ASSUME NEW t \in Tasks, Chunk(t) PROVE Working'
  BY <1>12 DEF Working, Chunk
<1>13. ASSUME NEW t \in Tasks, PeerEnds(t) PROVE Working'
  <2>1. Stop(t, <<>>) /\ <<>> \in Seq(Event) /\ task[t] \in {"connect", "run"}
        /\ UNCHANGED <<created, hand, peer>>
        /\ task'[t] \in {"close", "ended"} /\ \A u \in Tasks : u # t => task'[u] = task[u]
    BY <1>13, <1>0 DEF PeerEnds, Goto
  <2>2. /\ jobs'[t] = <<>> /\ closed'[t]
        /\ \A u \in Tasks : u # t => closed'[u] = closed[u] /\ jobs'[u] = jobs[u]
    BY <2>1, StopEffect
  <2>3. ~(t > created)
    BY <2>1 DEF Working
  <2> QED
    BY <2>1, <2>2, <2>3 DEF Working
<1>14. ASSUME UNCHANGED vars PROVE Working'
  BY <1>14 DEF Working, vars, tasks
<1>15. ASSUME NEW t \in Tasks, Stall(t) PROVE Working'
  <2>1. /\ task[t] \in {"connect", "write", "close"} /\ task'[t] = "stalled"
        /\ \A u \in Tasks : u # t => task'[u] = task[u]
        /\ UNCHANGED <<jobs, hand, closed, created>>
    BY <1>15, <1>0 DEF Stall, Goto
  <2> QED
    BY <2>1 DEF Working
<1> QED
  BY <1>1, <1>2, <1>3, <1>4, <1>5, <1>6, <1>7, <1>8, <1>9, <1>10, <1>11, <1>12, <1>13, <1>14, <1>15 DEF Next, TaskStep

\* The two tables know each query by its id.
LEMMA WaitsStep ==
  ASSUME TypeOK, Waits(pending), Waits(proxied), [Next]_vars
  PROVE  Waits(pending)' /\ Waits(proxied)'
<1>u. ASSUME asked' = asked, pending' = pending, proxied' = proxied
      PROVE  Waits(pending)' /\ Waits(proxied)'
  BY <1>u DEF Waits, Id
<1>1. ASSUME NEW m \in Menu, Ask(m) PROVE Waits(pending)' /\ Waits(proxied)'
  <2>0. PICK q : q = Len(asked) + 1
    OBVIOUS
  <2>1. /\ Len(asked) \in Nat /\ Len(asked') = q /\ q \in Queries
        /\ Id(q)' = m.id /\ \A p \in 1..Len(asked) : Id(p)' = Id(p)
    BY <1>1, <2>0, AskNumbers
  <2>2. q \in 1..Len(asked') /\ \A p \in 1..Len(asked) : p \in 1..Len(asked')
    BY <2>0, <2>1
  <2>3. Dropped \/ AtOnce(m, q) \/ Forwarded(m, q) \/ Proxied(m, q)
    BY <1>1, <2>0, AskCases
  <2>4. pending' = pending \/ pending' = With(pending, m.id, q)
    BY <2>3 DEF Dropped, AtOnce, Forwarded, Proxied, upstream
  <2>5. proxied' = proxied \/ proxied' = With(proxied, m.id, q)
    BY <2>3 DEF Dropped, AtOnce, Forwarded, Proxied, upstream
  <2>6. \A id \in DOMAIN pending' : pending'[id] \in 1..Len(asked') /\ asked'[pending'[id]].id = id
    BY <2>1, <2>2, <2>4 DEF Waits, With, Id
  <2>7. \A id \in DOMAIN proxied' : proxied'[id] \in 1..Len(asked') /\ asked'[proxied'[id]].id = id
    BY <2>1, <2>2, <2>5 DEF Waits, With, Id
  <2> QED
    BY <2>6, <2>7 DEF Waits, Id
<1>2. ASSUME NEW s \in Servers, NEW of \in Queries, UpstreamResponse(s, of) PROVE Waits(pending)' /\ Waits(proxied)'
  <2>1. asked' = asked /\ proxied' = proxied
    BY <1>2 DEF UpstreamResponse
  <2>2. pending' = pending \/ pending' = Without(pending, Id(of))
    BY <1>2 DEF UpstreamResponse
  <2> QED
    BY <2>1, <2>2 DEF Waits, Without, Restrict, Id
<1>3. ASSUME OnEvent PROVE Waits(pending)' /\ Waits(proxied)'
  <2>1. asked' = asked /\ pending' = pending
    BY <1>3 DEF OnEvent, upstream
  <2>2. proxied' = proxied \/ proxied' = Without(proxied, Id(Head(events).of))
    BY <1>3 DEF OnEvent
  <2> QED
    BY <2>1, <2>2 DEF Waits, Without, Restrict, Id
<1>4. ASSUME NEW old \in SUBSET Ids, Tick(old) PROVE Waits(pending)' /\ Waits(proxied)'
  <2>1. asked' = asked
    BY <1>4 DEF Tick
  <2>2. /\ pending' = Restrict(pending, DOMAIN pending \ old)
        /\ proxied' = Restrict(proxied, DOMAIN proxied \ old)
    BY <1>4 DEF Tick
  <2> QED
    BY <2>1, <2>2 DEF Waits, Restrict, Id
<1>5. ASSUME NEW d \in Domains, NEW s \in Services \cup {NoService}, Move(d, s) PROVE Waits(pending)' /\ Waits(proxied)'
  BY <1>5, <1>u DEF Move, upstream
<1>6. ASSUME NEW t \in Tasks, Connected(t) PROVE Waits(pending)' /\ Waits(proxied)'
  BY <1>6, <1>u DEF Connected, upstream
<1>7. ASSUME NEW t \in Tasks, ConnectErr(t) PROVE Waits(pending)' /\ Waits(proxied)'
  BY <1>7, <1>u DEF ConnectErr, upstream
<1>8. ASSUME NEW t \in Tasks, TakeJob(t) PROVE Waits(pending)' /\ Waits(proxied)'
  BY <1>8, <1>u DEF TakeJob, upstream
<1>9. ASSUME NEW t \in Tasks, WriteJob(t) PROVE Waits(pending)' /\ Waits(proxied)'
  BY <1>9, <1>u DEF WriteJob, upstream
<1>10. ASSUME NEW t \in Tasks, JobsGone(t) PROVE Waits(pending)' /\ Waits(proxied)'
  BY <1>10, <1>u DEF JobsGone, upstream
<1>11. ASSUME NEW t \in Tasks, Close(t) PROVE Waits(pending)' /\ Waits(proxied)'
  BY <1>11, <1>u DEF Close, upstream
<1>12. ASSUME NEW t \in Tasks, Chunk(t) PROVE Waits(pending)' /\ Waits(proxied)'
  BY <1>12, <1>u DEF Chunk, upstream
<1>13. ASSUME NEW t \in Tasks, PeerEnds(t) PROVE Waits(pending)' /\ Waits(proxied)'
  BY <1>13, <1>u DEF PeerEnds, upstream
<1>14. ASSUME UNCHANGED vars PROVE Waits(pending)' /\ Waits(proxied)'
  BY <1>14, <1>u DEF vars, upstream
<1>15. ASSUME NEW t \in Tasks, Stall(t) PROVE Waits(pending)' /\ Waits(proxied)'
  BY <1>15, <1>u DEF Stall, upstream
<1> QED
  BY <1>1, <1>2, <1>3, <1>4, <1>5, <1>6, <1>7, <1>8, <1>9, <1>10, <1>11, <1>12, <1>13, <1>14, <1>15 DEF Next, TaskStep

----------------------------------------------------------------------------
(* A proxied query is in one place at a time.                              *)

\* Nothing holds a query that nothing held.
Kept == \A q \in Queries : Token(q)' => Token(q)

\* A task that ends moves its queue, and the job it failed to write, to the events.
LEMMA StopMoves ==
  ASSUME TypeOK, Once, NEW t \in Tasks, NEW failed \in Seq(Event), Stop(t, failed),
         Distinct(failed), \A q \in Queries : Tells(failed, q) => q = hand[t] /\ q # hand'[t],
         hand'[t] \in {hand[t], None}, \A u \in Tasks : u # t => hand'[u] = hand[u],
         peer' = peer
  PROVE  Once' /\ Kept
<1>1. /\ events' \in Seq(Event) /\ jobs' \in [Tasks -> Seq(Queries)]
      /\ \A u \in Tasks : u # t => jobs'[u] = jobs[u]
      /\ jobs'[t] = <<>> /\ \A q : ~Has(jobs'[t], q)
      /\ \A q : Tells(events', q) <=> Tells(events, q) \/ Tells(failed, q) \/ Has(jobs[t], q)
      /\ (/\ Distinct(events) /\ Distinct(failed) /\ Apart(jobs[t])
          /\ \A q \in Queries : /\ ~(Tells(events, q) /\ Tells(failed, q))
                                /\ ~(Tells(events, q) /\ Has(jobs[t], q))
                                /\ ~(Tells(failed, q) /\ Has(jobs[t], q)))
           => Distinct(events')
  BY StopEffect
<1>2. \A q \in Queries : /\ ~(Tells(events, q) /\ Tells(failed, q))
                         /\ ~(Tells(events, q) /\ Has(jobs[t], q))
                         /\ ~(Tells(failed, q) /\ Has(jobs[t], q))
  <2> SUFFICES ASSUME NEW q \in Queries
               PROVE  /\ ~(Tells(events, q) /\ Tells(failed, q))
                      /\ ~(Tells(events, q) /\ Has(jobs[t], q))
                      /\ ~(Tells(failed, q) /\ Has(jobs[t], q))
    OBVIOUS
  <2>1. PICK l \in Places : Sole(q, l)
    BY DEF Once
  <2>2. /\ Tells(events, q) => l = <<"event", 0>>
        /\ Has(jobs[t], q) => l = <<"job", t>>
        /\ Tells(failed, q) => l = <<"hand", t>>
    BY <2>1 DEF Sole
  <2> QED
    BY <2>2
<1>3. Distinct(events')
  BY <1>1, <1>2 DEF Once
<1>4. \A u \in Tasks : Apart(jobs'[u])
  <2>1. Apart(<<>>)
    BY DEF Apart
  <2> QED
    BY <1>1, <2>1 DEF Once
<1>5. ASSUME NEW q \in Queries PROVE \E l \in Places : Sole(q, l)'
  <2>1. PICK l \in Places : Sole(q, l)
    BY DEF Once
  <2>2. /\ \A u \in Tasks : Has(jobs[u], q) => l = <<"job", u>>
        /\ \A u \in Tasks : hand[u] = q => l = <<"hand", u>>
        /\ \A u \in Tasks : q \in peer[u] => l = <<"peer", u>>
        /\ Tells(events, q) => l = <<"event", 0>>
        /\ q # None
    BY <2>1, Numbers DEF Sole
  <2>3. \A u \in Tasks : Has(jobs'[u], q) => u # t /\ Has(jobs[u], q)
    BY <1>1
  <2>4. \A u \in Tasks : hand'[u] = q => hand[u] = q
    BY <2>2
  <2>5. CASE Has(jobs[t], q) \/ Tells(failed, q)
    <3>1. \A u \in Tasks : ~Has(jobs'[u], q)
      BY <2>2, <2>3, <2>5
    <3>2. \A u \in Tasks : hand'[u] # q
      BY <2>2, <2>4, <2>5
    <3>3. \A u \in Tasks : q \notin peer'[u]
      BY <2>2, <2>5
    <3>4. Sole(q, <<"event", 0>>)'
      BY <3>1, <3>2, <3>3 DEF Sole
    <3>5. <<"event", 0>> \in Places
      BY DEF Places
    <3> QED
      BY <3>4, <3>5
  <2>6. CASE ~(Has(jobs[t], q) \/ Tells(failed, q))
    <3>1. Tells(events', q) => Tells(events, q)
      BY <1>1, <2>6
    <3>2. Sole(q, l)'
      BY <2>2, <2>3, <2>4, <3>1 DEF Sole
    <3> QED
      BY <3>2
  <2> QED
    BY <2>5, <2>6
<1>6. Once'
  BY <1>3, <1>4, <1>5 DEF Once
<1>7. ASSUME NEW q \in Queries, Token(q)' PROVE Token(q)
  <2>1. (\E u \in Tasks : Has(jobs'[u], q) \/ hand'[u] = q \/ q \in peer'[u]) \/ Tells(events', q)
    BY <1>7 DEF Token
  <2>2. \A u \in Tasks : Has(jobs'[u], q) => Has(jobs[u], q)
    BY <1>1
  <2>3. \A u \in Tasks : hand'[u] = q => hand[u] = q
    BY Numbers
  <2>4. Tells(events', q) => Tells(events, q) \/ hand[t] = q \/ Has(jobs[t], q)
    BY <1>1
  <2> QED
    BY <2>1, <2>2, <2>3, <2>4 DEF Token
<1> QED
  BY <1>6, <1>7 DEF Kept

\* A task takes a job from its queue in hand.
LEMMA TakeJobMoves ==
  ASSUME TypeOK, Working, Once, NEW t \in Tasks, TakeJob(t)
  PROVE  Once' /\ Kept
<1>0. /\ jobs \in [Tasks -> Seq(Queries)] /\ hand \in [Tasks -> 0..MaxQueries] /\ jobs[t] # <<>>
      /\ UNCHANGED <<peer, events>> /\ task[t] = "run"
  BY DEF TypeOK, TakeJob
<1>1. PICK h \in Queries, r \in Seq(Queries) :
        /\ h = Head(jobs[t]) /\ r = Tail(jobs[t])
        /\ Has(jobs[t], h) /\ (\A q : Has(r, q) => Has(jobs[t], q))
        /\ Apart(r) /\ ~Has(r, h)
  BY <1>0, TailHas DEF Once
<1>2. jobs' = [jobs EXCEPT ![t] = r] /\ hand' = [hand EXCEPT ![t] = h]
  BY <1>1 DEF TakeJob
<1>3. /\ jobs'[t] = r /\ \A u \in Tasks : u # t => jobs'[u] = jobs[u]
      /\ hand'[t] = h /\ \A u \in Tasks : u # t => hand'[u] = hand[u]
  BY <1>0, <1>2
<1>4. \A u \in Tasks : Apart(jobs'[u])
  BY <1>1, <1>3 DEF Once
<1>5. \A q \in Queries : \A u \in Tasks : Has(jobs'[u], q) => Has(jobs[u], q) /\ (u = t => q # h)
  BY <1>1, <1>3
<1>6. ASSUME NEW q \in Queries PROVE \E l \in Places : Sole(q, l)'
  <2>1. PICK l \in Places : Sole(q, l)
    BY DEF Once
  <2>2. CASE q = h
    <3>1. l = <<"job", t>>
      BY <1>1, <2>1, <2>2 DEF Sole
    <3>2. /\ \A u \in Tasks : ~Has(jobs'[u], q)
          /\ \A u \in Tasks : u # t => hand'[u] # q
          /\ \A u \in Tasks : q \notin peer'[u]
          /\ ~Tells(events', q)
      BY <1>0, <1>3, <1>5, <2>1, <2>2, <3>1 DEF Sole
    <3>3. Sole(q, <<"hand", t>>)'
      BY <3>2 DEF Sole
    <3>4. <<"hand", t>> \in Places
      BY DEF Places
    <3> QED
      BY <3>3, <3>4
  <2>3. CASE q # h
    <3>1. Sole(q, l)'
      BY <1>0, <1>3, <1>5, <2>1, <2>3 DEF Sole
    <3> QED
      BY <3>1
  <2> QED
    BY <2>2, <2>3
<1>7. Distinct(events')
  BY <1>0 DEF Once
<1>8. Kept
  BY <1>0, <1>1, <1>3, <1>5 DEF Kept, Token
<1> QED
  BY <1>4, <1>6, <1>7, <1>8 DEF Once

\* A job that is written is on the connection, and one that is not fails.
LEMMA WriteJobMoves ==
  ASSUME TypeOK, Working, Once, NEW t \in Tasks, WriteJob(t)
  PROVE  Once' /\ Kept
<1>0. /\ hand \in [Tasks -> 0..MaxQueries] /\ peer \in [Tasks -> SUBSET Queries]
      /\ hand' = [hand EXCEPT ![t] = None] /\ hand[t] \in Queries
  BY Numbers DEF TypeOK, WriteJob, Working
<1>1. hand'[t] = None /\ \A u \in Tasks : u # t => hand'[u] = hand[u]
  BY <1>0
<1>2. CASE peer' = [peer EXCEPT ![t] = peer[t] \cup {hand[t]}] /\ UNCHANGED <<jobs, closed, events>>
  <2>1. peer'[t] = peer[t] \cup {hand[t]} /\ \A u \in Tasks : u # t => peer'[u] = peer[u]
    BY <1>0, <1>2
  <2>2. ASSUME NEW q \in Queries PROVE \E l \in Places : Sole(q, l)'
    <3>1. PICK l \in Places : Sole(q, l)
      BY DEF Once
    <3>2. CASE q = hand[t]
      <4>1. l = <<"hand", t>>
        BY <3>1, <3>2 DEF Sole
      <4>2. /\ \A u \in Tasks : ~Has(jobs'[u], q)
            /\ \A u \in Tasks : hand'[u] # q
            /\ \A u \in Tasks : u # t => q \notin peer'[u]
            /\ ~Tells(events', q)
        BY <1>1, <1>2, <2>1, <3>1, <4>1, Numbers DEF Sole
      <4>3. Sole(q, <<"peer", t>>)'
        BY <4>2 DEF Sole
      <4>4. <<"peer", t>> \in Places
        BY DEF Places
      <4> QED
        BY <4>3, <4>4
    <3>3. CASE q # hand[t]
      <4>1. Sole(q, l)'
        BY <1>1, <1>2, <2>1, <3>1, <3>3, Numbers DEF Sole
      <4> QED
        BY <4>1
    <3> QED
      BY <3>2, <3>3
  <2>3. (\A u \in Tasks : Apart(jobs'[u])) /\ Distinct(events')
    BY <1>2 DEF Once
  <2>4. Kept
    BY <1>1, <1>2, <2>1, Numbers DEF Kept, Token
  <2> QED
    BY <2>2, <2>3, <2>4 DEF Once
<1>3. CASE Stop(t, <<Failed(hand[t])>>) /\ UNCHANGED peer
  <2>1. Failed(hand[t]) \in Event /\ Failed(hand[t]).of = hand[t]
    BY <1>0 DEF Failed, Event
  <2>2. /\ <<Failed(hand[t])>> \in Seq(Event) /\ Distinct(<<Failed(hand[t])>>)
        /\ \A q : Tells(<<Failed(hand[t])>>, q) <=> q = hand[t]
    BY <2>1, OneTells
  <2>3. \A q \in Queries : Tells(<<Failed(hand[t])>>, q) => q = hand[t] /\ q # hand'[t]
    BY <1>1, <2>2, Numbers
  <2> QED
    BY <1>1, <1>3, <2>2, <2>3, StopMoves
<1> QED
  BY <1>2, <1>3 DEF WriteJob

\* The peer's answer to a job is an event.
LEMMA ChunkMoves ==
  ASSUME TypeOK, Once, NEW t \in Tasks, Chunk(t)
  PROVE  Once' /\ Kept
<1>0. /\ peer \in [Tasks -> SUBSET Queries] /\ events \in Seq(Event) /\ UNCHANGED <<jobs, hand>>
  BY DEF TypeOK, Chunk
<1>1. PICK p \in peer[t] : /\ peer' = [peer EXCEPT ![t] = peer[t] \ {p}]
                           /\ events' = Append(events, [kind |-> "data", of |-> p])
  BY DEF Chunk
<1>2. p \in Queries /\ peer'[t] = peer[t] \ {p} /\ \A u \in Tasks : u # t => peer'[u] = peer[u]
  BY <1>0, <1>1
<1>3. PICK e \in Event : e = [kind |-> "data", of |-> p] /\ e.of = p
  <2>1. [kind |-> "data", of |-> p] \in Event
    BY <1>2 DEF Event
  <2> QED
    BY <2>1
<1>4. events' = events \o <<e>>
  BY <1>0, <1>1, <1>3
<1>5. PICK l0 \in Places : Sole(p, l0) /\ l0 = <<"peer", t>>
  BY <1>2 DEF Once, Sole
<1>6. ~Tells(events, p)
  BY <1>5 DEF Sole
<1>7. <<e>> \in Seq(Event) /\ Distinct(<<e>>) /\ \A q : Tells(<<e>>, q) <=> q = p
  BY <1>3, OneTells
<1>8. /\ \A q : Tells(events', q) <=> Tells(events, q) \/ Tells(<<e>>, q)
      /\ Distinct(events) /\ Distinct(<<e>>) /\ (\A q \in Queries : ~(Tells(events, q) /\ Tells(<<e>>, q)))
           => Distinct(events')
  BY <1>0, <1>4, <1>7, ConcatTells
<1>9. Distinct(events')
  BY <1>6, <1>7, <1>8 DEF Once
<1>10. ASSUME NEW q \in Queries PROVE \E l \in Places : Sole(q, l)'
  <2>1. CASE q = p
    <3>1. /\ \A u \in Tasks : ~Has(jobs'[u], q)
          /\ \A u \in Tasks : hand'[u] # q
          /\ \A u \in Tasks : q \notin peer'[u]
      BY <1>0, <1>2, <1>5, <2>1 DEF Sole
    <3>2. Sole(q, <<"event", 0>>)'
      BY <3>1 DEF Sole
    <3>3. <<"event", 0>> \in Places
      BY DEF Places
    <3> QED
      BY <3>2, <3>3
  <2>2. CASE q # p
    <3>1. PICK l \in Places : Sole(q, l)
      BY DEF Once
    <3>2. Sole(q, l)'
      BY <1>0, <1>2, <1>7, <1>8, <2>2, <3>1 DEF Sole
    <3> QED
      BY <3>2
  <2> QED
    BY <2>1, <2>2
<1>11. Kept
  BY <1>0, <1>2, <1>7, <1>8 DEF Kept, Token
<1> QED
  BY <1>0, <1>9, <1>10, <1>11 DEF Once

\* The loop takes an event, and nothing holds its query any more.
LEMMA EventMoves ==
  ASSUME TypeOK, Once, OnEvent, NEW p, p = Head(events).of
  PROVE  p \in Queries /\ Once' /\ Kept /\ ~Token(p)'
<1>0. events \in Seq(Event) /\ events # <<>> /\ events' = Tail(events) /\ UNCHANGED <<jobs, hand, peer>>
  BY DEF TypeOK, OnEvent, tasks
<1>1. p \in Queries
  BY <1>0, TailTells DEF Event
<1>2. /\ Tells(events, p) /\ (\A q : Tells(events', q) => Tells(events, q))
      /\ Distinct(events') /\ ~Tells(events', p)
  BY <1>0, <1>1, TailTells DEF Once
<1>3. ASSUME NEW q \in Queries PROVE \E l \in Places : Sole(q, l)'
  BY <1>0, <1>2 DEF Once, Sole
<1>4. Once'
  BY <1>0, <1>2, <1>3 DEF Once
<1>5. Kept
  BY <1>0, <1>2 DEF Kept, Token
<1>6. PICK l \in Places : Sole(p, l) /\ l = <<"event", 0>>
  BY <1>1, <1>2 DEF Once, Sole
<1>7. /\ \A u \in Tasks : ~Has(jobs'[u], p)
      /\ \A u \in Tasks : hand'[u] # p
      /\ \A u \in Tasks : p \notin peer'[u]
  BY <1>0, <1>6 DEF Sole
<1>8. ~Token(p)'
  BY <1>2, <1>7 DEF Token
<1> QED
  BY <1>1, <1>4, <1>5, <1>8

\* A connection that is made ready, without a job, holds nothing new.
LEMMA ReadyMoves ==
  ASSUME TypeOK, Working, Once, NEW d \in Domains, OnLiveHandle(d, <<>>), UNCHANGED <<hand, peer, events>>
  PROVE  /\ Once' /\ Kept /\ jobs' = jobs
         /\ \A u \in Tasks : task[u] \in {"connect", "run", "write", "stalled"} => task'[u] \in {"connect", "run", "write", "stalled"}
<1>1. <<>> \in Seq(Queries) /\ jobs \in [Tasks -> Seq(Queries)]
  BY DEF TypeOK
<1>2. PICK t \in Tasks : /\ jobs' = [jobs EXCEPT ![t] = jobs[t] \o <<>>]
                         /\ task'[t] \in {"connect", "run", "write", "stalled"}
                         /\ \A u \in Tasks : u # t => task'[u] = task[u]
  BY <1>1, LiveHandle
<1>3. jobs[t] \o <<>> = jobs[t]
  BY <1>1
<1>4. jobs' = jobs
  BY <1>1, <1>2, <1>3
<1> QED
  BY <1>2, <1>4 DEF Once, Sole, Kept, Token

\* A job that send_job queues is in that queue alone.
LEMMA JobMoves ==
  ASSUME TypeOK, Working, Once, NEW d \in Domains, NEW q \in Queries, ~Token(q),
         OnLiveHandle(d, <<q>>), UNCHANGED <<hand, peer, events>>
  PROVE  /\ Once' /\ \A p \in Queries : Token(p)' => Token(p) \/ p = q
         /\ \E t \in Tasks : task'[t] \in {"connect", "run", "write", "stalled"} /\ Has(jobs'[t], q)
         /\ \A u \in Tasks : /\ \A p : Has(jobs[u], p) => Has(jobs'[u], p)
                             /\ task[u] \in {"connect", "run", "write", "stalled"} => task'[u] \in {"connect", "run", "write", "stalled"}
<1>1. <<q>> \in Seq(Queries) /\ jobs \in [Tasks -> Seq(Queries)]
  BY DEF TypeOK
<1>2. PICK t \in Tasks : /\ jobs' = [jobs EXCEPT ![t] = jobs[t] \o <<q>>]
                         /\ task'[t] \in {"connect", "run", "write", "stalled"}
                         /\ \A u \in Tasks : u # t => task'[u] = task[u]
  BY <1>1, LiveHandle
<1>3. /\ jobs'[t] = jobs[t] \o <<q>> /\ \A u \in Tasks : u # t => jobs'[u] = jobs[u]
  BY <1>1, <1>2
<1>4. /\ \A p : Has(jobs'[t], p) <=> Has(jobs[t], p) \/ p = q
      /\ Apart(jobs[t]) /\ ~Has(jobs[t], q) => Apart(jobs'[t])
  BY <1>1, <1>3, JobHas
<1>5. /\ \A u \in Tasks : ~Has(jobs[u], q) /\ hand[u] # q /\ q \notin peer[u]
      /\ ~Tells(events, q)
  BY DEF Token
<1>6. \A u \in Tasks : Apart(jobs'[u])
  BY <1>3, <1>4, <1>5 DEF Once
<1>7. ASSUME NEW p \in Queries PROVE \E l \in Places : Sole(p, l)'
  <2>1. CASE p = q
    <3>1. Sole(p, <<"job", t>>)'
      BY <1>3, <1>5, <2>1 DEF Sole
    <3>2. <<"job", t>> \in Places
      BY DEF Places
    <3> QED
      BY <3>1, <3>2
  <2>2. CASE p # q
    <3>1. PICK l \in Places : Sole(p, l)
      BY DEF Once
    <3>2. Sole(p, l)'
      BY <1>3, <1>4, <2>2, <3>1 DEF Sole
    <3> QED
      BY <3>2
  <2> QED
    BY <2>1, <2>2
<1>8. Once'
  BY <1>6, <1>7 DEF Once
<1>9. \A p \in Queries : Token(p)' => Token(p) \/ p = q
  BY <1>3, <1>4 DEF Token
<1>10. \A u \in Tasks : \A p : Has(jobs[u], p) => Has(jobs'[u], p)
  BY <1>3, <1>4
<1> QED
  BY <1>2, <1>4, <1>8, <1>9, <1>10

\* A proxied query is in one place, and its id is taken until it is answered.
LEMMA TokensStep ==
  ASSUME TypeOK, Working, Waits(proxied), Once, Tokens, [Next]_vars
  PROVE  Once' /\ Tokens'
<1>k. ASSUME Once', Kept, UNCHANGED <<asked, proxied, evicted>> PROVE Once' /\ Tokens'
  BY <1>k DEF Kept, Tokens, Id
<1>1. ASSUME NEW m \in Menu, Ask(m) PROVE Once' /\ Tokens'
  <2>0. PICK q : q = Len(asked) + 1
    OBVIOUS
  <2>1. /\ Len(asked) \in Nat /\ Len(asked') = q /\ q \in Queries /\ q > Len(asked) /\ m.domain \in Domains
        /\ Id(q)' = m.id /\ \A p \in 1..Len(asked) : Id(p)' = Id(p)
    BY <1>1, <2>0, AskNumbers
  <2>2. /\ Dropped \/ AtOnce(m, q) \/ Forwarded(m, q) \/ Proxied(m, q)
        /\ UNCHANGED <<host, moves, evicted, hand, closed, peer, events>>
    BY <1>1, <2>0, AskCases
  <2>3. \A p \in Queries : p <= Len(asked) => p \in 1..Len(asked) /\ p <= Len(asked') /\ p <= q
    BY <2>0, <2>1, Numbers
  <2>4. ASSUME Kept, proxied' = proxied PROVE Tokens'
    BY <2>1, <2>2, <2>3, <2>4 DEF Kept, Tokens
  <2>5. CASE UNCHANGED <<jobs, proxied>>
    <3>1. Once' /\ Kept
      BY <2>2, <2>5 DEF Once, Sole, Kept, Token
    <3> QED
      BY <2>4, <2>5, <3>1
  <2>6. CASE OnLiveHandle(m.domain, <<>>) /\ proxied' = proxied
    <3>1. Once' /\ Kept
      BY <2>1, <2>2, <2>6, ReadyMoves
    <3> QED
      BY <2>4, <2>6, <3>1
  <2>7. CASE Proxied(m, q)
    <3>1. ~Token(q)
      BY <2>1 DEF Tokens
    <3>2. Once' /\ \A p \in Queries : Token(p)' => Token(p) \/ p = q
      BY <2>1, <2>2, <2>7, <3>1, JobMoves DEF Proxied
    <3>3. /\ m.id \notin DOMAIN proxied /\ m.id \in DOMAIN proxied' /\ proxied'[m.id] = q
          /\ \A id : id # m.id => (id \in DOMAIN proxied' <=> id \in DOMAIN proxied)
          /\ \A id \in DOMAIN proxied : proxied'[id] = proxied[id]
      BY <2>7 DEF Proxied, With
    <3>4. ASSUME NEW p \in Queries, Token(p)'
          PROVE  /\ p <= Len(asked')
                 /\ Id(p)' \in evicted' \/ (Id(p)' \in DOMAIN proxied' /\ proxied'[Id(p)'] = p)
                 /\ Id(p)' \in DOMAIN proxied' => p <= proxied'[Id(p)']
      <4>1. CASE p = q
        BY <2>1, <3>3, <4>1
      <4>2. CASE Token(p)
        <5>1. p <= Len(asked) /\ Id(p)' = Id(p) /\ p <= Len(asked') /\ p <= q
          BY <2>1, <2>3, <4>2 DEF Tokens
        <5>2. CASE Id(p) = m.id
          BY <2>2, <3>3, <4>2, <5>1, <5>2 DEF Tokens
        <5>3. CASE Id(p) # m.id
          BY <2>2, <3>3, <4>2, <5>1, <5>3 DEF Tokens
        <5> QED
          BY <5>2, <5>3
      <4> QED
        BY <3>2, <3>4, <4>1, <4>2
    <3> QED
      BY <3>2, <3>4 DEF Tokens
  <2> QED
    BY <2>2, <2>5, <2>6, <2>7 DEF Dropped, AtOnce, Forwarded
<1>2. ASSUME NEW s \in Servers, NEW of \in Queries, UpstreamResponse(s, of) PROVE Once' /\ Tokens'
  <2>1. Once' /\ Kept
    BY <1>2 DEF UpstreamResponse, tasks, Once, Sole, Kept, Token
  <2> QED
    BY <1>2, <1>k, <2>1 DEF UpstreamResponse
<1>3. ASSUME OnEvent PROVE Once' /\ Tokens'
  <2>1. PICK of : of = Head(events).of
    OBVIOUS
  <2>2. of \in Queries /\ Once' /\ Kept /\ ~Token(of)' /\ Token(of)
    <3>1. of \in Queries /\ Once' /\ Kept /\ ~Token(of)'
      BY <1>3, <2>1, EventMoves
    <3>2. Tells(events, of)
      BY <1>3, <2>1, TailTells DEF OnEvent, TypeOK
    <3> QED
      BY <3>1, <3>2 DEF Token
  <2>3. /\ asked' = asked /\ evicted' = evicted
        /\ proxied' = IF Id(of) \in DOMAIN proxied THEN Without(proxied, Id(of)) ELSE proxied
    BY <1>3, <2>1 DEF OnEvent
  <2>4. ASSUME NEW q \in Queries, Token(q)'
        PROVE  /\ q <= Len(asked')
               /\ Id(q) \in evicted' \/ (Id(q) \in DOMAIN proxied' /\ proxied'[Id(q)] = q)
               /\ Id(q) \in DOMAIN proxied' => q <= proxied'[Id(q)]
    <3>1. Token(q) /\ q # of
      BY <2>2, <2>4 DEF Kept
    <3>2. CASE Id(q) # Id(of)
      BY <2>3, <3>1, <3>2 DEF Tokens, Without, Restrict
    <3>3. CASE Id(q) = Id(of)
      <4>1. Id(q) \in evicted
        BY <2>2, <3>1, <3>3 DEF Tokens
      <4> QED
        BY <2>3, <3>1, <3>3, <4>1 DEF Tokens, Without, Restrict
    <3> QED
      BY <3>2, <3>3
  <2>5. \A q : Id(q)' = Id(q)
    BY <2>3 DEF Id
  <2> QED
    BY <2>2, <2>4, <2>5 DEF Tokens
<1>4. ASSUME NEW old \in SUBSET Ids, Tick(old) PROVE Once' /\ Tokens'
  <2>1. Once' /\ Kept
    BY <1>4 DEF Tick, tasks, Once, Sole, Kept, Token
  <2>2. asked' = asked /\ evicted' = evicted \cup old /\ proxied' = Restrict(proxied, DOMAIN proxied \ old)
    BY <1>4 DEF Tick
  <2>3. Tokens'
    BY <2>1, <2>2 DEF Kept, Tokens, Id, Restrict
  <2> QED
    BY <2>1, <2>3
<1>5. ASSUME NEW d \in Domains, NEW s \in Services \cup {NoService}, Move(d, s) PROVE Once' /\ Tokens'
  <2>1. Once' /\ Kept
    BY <1>5 DEF Move, tasks, Once, Sole, Kept, Token
  <2> QED
    BY <1>5, <1>k, <2>1 DEF Move
<1>6. ASSUME NEW t \in Tasks, Connected(t) PROVE Once' /\ Tokens'
  <2>1. Once' /\ Kept
    BY <1>6 DEF Connected, tasks, Once, Sole, Kept, Token
  <2> QED
    BY <1>6, <1>k, <2>1 DEF Connected
<1>7. ASSUME NEW t \in Tasks, ConnectErr(t) PROVE Once' /\ Tokens'
  <2>1. Stop(t, <<>>) /\ UNCHANGED <<hand, peer>>
    BY <1>7 DEF ConnectErr
  <2>2. Once' /\ Kept
    BY <2>1, NoneTells, StopMoves
  <2> QED
    BY <1>7, <1>k, <2>2 DEF ConnectErr
<1>8. ASSUME NEW t \in Tasks, TakeJob(t) PROVE Once' /\ Tokens'
  <2>1. Once' /\ Kept
    BY <1>8, TakeJobMoves
  <2> QED
    BY <1>8, <1>k, <2>1 DEF TakeJob
<1>9. ASSUME NEW t \in Tasks, WriteJob(t) PROVE Once' /\ Tokens'
  <2>1. Once' /\ Kept
    BY <1>9, WriteJobMoves
  <2> QED
    BY <1>9, <1>k, <2>1 DEF WriteJob
<1>10. ASSUME NEW t \in Tasks, JobsGone(t) PROVE Once' /\ Tokens'
  <2>1. Stop(t, <<>>) /\ UNCHANGED <<hand, peer>>
    BY <1>10 DEF JobsGone
  <2>2. Once' /\ Kept
    BY <2>1, NoneTells, StopMoves
  <2> QED
    BY <1>10, <1>k, <2>2 DEF JobsGone
<1>11. ASSUME NEW t \in Tasks, Close(t) PROVE Once' /\ Tokens'
  <2>1. Once' /\ Kept
    BY <1>11 DEF Close, tasks, Once, Sole, Kept, Token
  <2> QED
    BY <1>11, <1>k, <2>1 DEF Close
<1>12. ASSUME NEW t \in Tasks, Chunk(t) PROVE Once' /\ Tokens'
  <2>1. Once' /\ Kept
    BY <1>12, ChunkMoves
  <2> QED
    BY <1>12, <1>k, <2>1 DEF Chunk
<1>13. ASSUME NEW t \in Tasks, PeerEnds(t) PROVE Once' /\ Tokens'
  <2>1. Stop(t, <<>>) /\ UNCHANGED <<hand, peer>>
    BY <1>13 DEF PeerEnds
  <2>2. Once' /\ Kept
    BY <2>1, NoneTells, StopMoves
  <2> QED
    BY <1>13, <1>k, <2>2 DEF PeerEnds
<1>14. ASSUME UNCHANGED vars PROVE Once' /\ Tokens'
  <2>1. Once' /\ Kept
    BY <1>14 DEF vars, tasks, Once, Sole, Kept, Token
  <2> QED
    BY <1>14, <1>k, <2>1 DEF vars
<1>15. ASSUME NEW t \in Tasks, Stall(t) PROVE Once' /\ Tokens'
  <2>1. Once' /\ Kept
    BY <1>15 DEF Stall, tasks, Once, Sole, Kept, Token
  <2> QED
    BY <1>15, <1>k, <2>1 DEF Stall
<1> QED
  BY <1>1, <1>2, <1>3, <1>4, <1>5, <1>6, <1>7, <1>8, <1>9, <1>10, <1>11, <1>12, <1>13, <1>14, <1>15 DEF Next, TaskStep

----------------------------------------------------------------------------
(* No query is lost.                                                       *)

\* Underway, in the terms of the lemmas.
Live(q) ==
  \/ \E t \in Tasks : task[t] \in {"connect", "run", "write", "stalled"} /\ (hand[t] = q \/ Has(jobs[t], q))
  \/ \E t \in Tasks : q \in peer[t]
  \/ Tells(events, q)
AllLive == \A id \in DOMAIN proxied : Live(proxied[id])

\* What is live is underway.
LEMMA LiveUnderway == TypeOK /\ AllLive => NoLostQuery
<1> SUFFICES ASSUME TypeOK, NEW q, Live(q) PROVE Underway(q)
  BY DEF AllLive, NoLostQuery
<1>1. \A t \in Tasks : Has(jobs[t], q) => q \in Range(jobs[t])
  BY DEF Has, Range, TypeOK
<1>2. Tells(events, q) => \E i \in DOMAIN events : events[i].of = q
  BY DEF Tells, TypeOK
<1> QED
  BY <1>1, <1>2 DEF Live, Underway

\* No step of a task, and no step of the loop beside the query's own answer or
\* its eviction, makes a query fall between them.
LEMMA LiveStep ==
  ASSUME TypeOK, Working, Waits(proxied), Once, Tokens, AllLive, [Next]_vars
  PROVE  AllLive'
<1>0. /\ task \in [Tasks -> {"none", "connect", "run", "write", "close", "ended", "stalled"}]
      /\ jobs \in [Tasks -> Seq(Queries)] /\ hand \in [Tasks -> 0..MaxQueries]
      /\ peer \in [Tasks -> SUBSET Queries] /\ events \in Seq(Event)
  BY DEF TypeOK
<1>q. \A id \in DOMAIN proxied : proxied[id] \in Queries
  <2>1. Len(asked) \in Nat /\ Len(asked) <= MaxQueries
    BY DEF TypeOK
  <2>2. \A q \in 1..Len(asked) : q \in Queries
    BY <2>1, Numbers
  <2> QED
    BY <2>2 DEF Waits
<1>k. ASSUME proxied' = proxied, \A q \in Queries : Live(q) => Live(q)' PROVE AllLive'
  BY <1>k, <1>q DEF AllLive
<1>1. ASSUME NEW m \in Menu, Ask(m) PROVE AllLive'
  <2>0. PICK q : q = Len(asked) + 1
    OBVIOUS
  <2>1. Len(asked) \in Nat /\ q \in Queries /\ q > Len(asked) /\ m.domain \in Domains
    BY <1>1, <2>0, AskNumbers
  <2>2. /\ Dropped \/ AtOnce(m, q) \/ Forwarded(m, q) \/ Proxied(m, q)
        /\ UNCHANGED <<host, moves, evicted, hand, closed, peer, events>>
    BY <1>1, <2>0, AskCases
  <2>3. CASE UNCHANGED <<task, jobs, proxied>>
    <3>1. \A p \in Queries : Live(p) => Live(p)'
      BY <2>2, <2>3 DEF Live
    <3> QED
      BY <1>k, <2>3, <3>1
  <2>4. CASE OnLiveHandle(m.domain, <<>>) /\ proxied' = proxied
    <3>1. /\ jobs' = jobs
          /\ \A u \in Tasks : task[u] \in {"connect", "run", "write", "stalled"} => task'[u] \in {"connect", "run", "write", "stalled"}
      BY <2>1, <2>2, <2>4, ReadyMoves
    <3>2. \A p \in Queries : Live(p) => Live(p)'
      BY <2>2, <3>1 DEF Live
    <3> QED
      BY <1>k, <2>4, <3>2
  <2>5. CASE Proxied(m, q)
    <3>0. q \in Queries /\ ~(q <= Len(asked))
      BY <2>0, <2>1, Numbers
    <3>1. ~Token(q)
      BY <3>0 DEF Tokens
    <3>2. /\ \E t \in Tasks : task'[t] \in {"connect", "run", "write", "stalled"} /\ Has(jobs'[t], q)
          /\ \A u \in Tasks : /\ \A p : Has(jobs[u], p) => Has(jobs'[u], p)
                              /\ task[u] \in {"connect", "run", "write", "stalled"} => task'[u] \in {"connect", "run", "write", "stalled"}
      BY <2>1, <2>2, <2>5, <3>1, JobMoves DEF Proxied
    <3>3. Live(q)' /\ \A p \in Queries : Live(p) => Live(p)'
      BY <2>2, <3>2 DEF Live
    <3>4. \A id \in DOMAIN proxied' : proxied'[id] = q \/ (id \in DOMAIN proxied /\ proxied'[id] = proxied[id])
      BY <2>5 DEF Proxied, With
    <3> QED
      BY <1>q, <3>3, <3>4 DEF AllLive
  <2> QED
    BY <2>2, <2>3, <2>4, <2>5 DEF Dropped, AtOnce, Forwarded
<1>2. ASSUME NEW s \in Servers, NEW of \in Queries, UpstreamResponse(s, of) PROVE AllLive'
  <2>1. \A q : Live(q) => Live(q)'
    BY <1>2 DEF UpstreamResponse, tasks, Live
  <2> QED
    BY <1>2, <1>k, <2>1 DEF UpstreamResponse
<1>3. ASSUME OnEvent PROVE AllLive'
  <2>1. PICK of : of = Head(events).of
    OBVIOUS
  <2>2. /\ events # <<>> /\ events' = Tail(events) /\ UNCHANGED <<task, jobs, hand, peer>>
        /\ proxied' = IF Id(of) \in DOMAIN proxied THEN Without(proxied, Id(of)) ELSE proxied
    BY <1>3, <2>1 DEF OnEvent, tasks
  <2>3. \A q : Tells(events, q) => q = of \/ Tells(events', q)
    BY <1>0, <2>1, <2>2, TailTells
  <2>4. ASSUME NEW id \in DOMAIN proxied', NEW p, p = proxied'[id] PROVE Live(p)'
    <3>1. id \in DOMAIN proxied /\ proxied'[id] = proxied[id] /\ id # Id(of)
      BY <2>2 DEF Without, Restrict
    <3>2. PICK q \in Queries : q = proxied[id]
      BY <1>q, <3>1
    <3>3. Live(q) /\ q # of
      BY <3>1, <3>2 DEF AllLive, Waits
    <3>4. Live(q)'
      BY <2>2, <2>3, <3>3 DEF Live
    <3> QED
      BY <2>4, <3>1, <3>2, <3>4
  <2>5. \A id \in DOMAIN proxied' : Live(proxied[id])'
    <3> SUFFICES ASSUME NEW id \in DOMAIN proxied' PROVE Live(proxied[id])'
      OBVIOUS
    <3>1. PICK p : p = proxied'[id]
      OBVIOUS
    <3>2. Live(p)'
      BY <2>4, <3>1
    <3> QED
      BY <3>1, <3>2 DEF Live
  <2> QED
    BY <2>5 DEF AllLive
<1>4. ASSUME NEW old \in SUBSET Ids, Tick(old) PROVE AllLive'
  <2>1. proxied' = Restrict(proxied, DOMAIN proxied \ old) /\ UNCHANGED <<task, jobs, hand, peer, events>>
    BY <1>4 DEF Tick, tasks
  <2>2. \A q \in Queries : Live(q) => Live(q)'
    BY <2>1 DEF Live
  <2>3. \A id \in DOMAIN proxied' : id \in DOMAIN proxied /\ proxied'[id] = proxied[id]
    BY <2>1 DEF Restrict
  <2> QED
    BY <1>q, <2>2, <2>3 DEF AllLive
<1>5. ASSUME NEW d \in Domains, NEW s \in Services \cup {NoService}, Move(d, s) PROVE AllLive'
  <2>1. \A q : Live(q) => Live(q)'
    BY <1>5 DEF Move, tasks, Live
  <2> QED
    BY <1>5, <1>k, <2>1 DEF Move
<1>6. ASSUME NEW t \in Tasks, Connected(t) PROVE AllLive'
  <2>1. /\ task'[t] = "run" /\ \A u \in Tasks : u # t => task'[u] = task[u]
        /\ UNCHANGED <<jobs, hand, peer, events, proxied>>
    BY <1>6, <1>0 DEF Connected, Goto
  <2>2. \A q \in Queries : Live(q) => Live(q)'
    BY <2>1 DEF Live
  <2> QED
    BY <1>k, <2>1, <2>2
<1>7. ASSUME NEW t \in Tasks, ConnectErr(t) PROVE AllLive'
  <2>0. task[t] = "connect" /\ hand[t] = None
    BY <1>7 DEF ConnectErr, Working
  <2>1. /\ Stop(t, <<>>) /\ <<>> \in Seq(Event) /\ UNCHANGED <<hand, peer, proxied>>
        /\ hand[t] = None /\ \A u \in Tasks : u # t => task'[u] = task[u]
    BY <1>7, <1>0, <2>0 DEF ConnectErr, Goto
  <2>2. /\ \A u \in Tasks : u # t => jobs'[u] = jobs[u]
        /\ \A q : Tells(events', q) <=> Tells(events, q) \/ Tells(<<>>, q) \/ Has(jobs[t], q)
    BY <2>1, StopEffect
  <2>3. \A q \in Queries : Live(q) => Live(q)'
    BY <2>1, <2>2, Numbers DEF Live
  <2> QED
    BY <1>k, <2>1, <2>3
<1>8. ASSUME NEW t \in Tasks, TakeJob(t) PROVE AllLive'
  <2>1. /\ task[t] = "run" /\ task'[t] = "write" /\ \A u \in Tasks : u # t => task'[u] = task[u]
        /\ UNCHANGED <<peer, events, proxied>> /\ hand[t] = None
    BY <1>8, <1>0 DEF TakeJob, Goto, Working
  <2>2. /\ hand' = [hand EXCEPT ![t] = Head(jobs[t])] /\ jobs' = [jobs EXCEPT ![t] = Tail(jobs[t])]
        /\ jobs[t] # <<>>
    BY <1>8 DEF TakeJob
  <2>3. /\ hand'[t] = Head(jobs[t]) /\ jobs'[t] = Tail(jobs[t])
        /\ \A u \in Tasks : u # t => hand'[u] = hand[u] /\ jobs'[u] = jobs[u]
    BY <1>0, <2>2
  <2>4. \A q : Has(jobs[t], q) => q = hand'[t] \/ Has(jobs'[t], q)
    BY <1>0, <2>2, <2>3, TailHas
  <2>5. \A q \in Queries : Live(q) => Live(q)'
    BY <2>1, <2>3, <2>4, Numbers DEF Live
  <2> QED
    BY <1>k, <2>1, <2>5
<1>9. ASSUME NEW t \in Tasks, WriteJob(t) PROVE AllLive'
  <2>1. /\ task[t] = "write" /\ hand'[t] = None /\ (\A u \in Tasks : u # t => hand'[u] = hand[u])
        /\ hand[t] \in Queries /\ proxied' = proxied /\ \A u \in Tasks : u # t => task'[u] = task[u]
    BY <1>9, <1>0, Numbers DEF WriteJob, Working, Goto
  <2>2. CASE Goto(t, "run") /\ peer' = [peer EXCEPT ![t] = peer[t] \cup {hand[t]}] /\ UNCHANGED <<jobs, closed, events>>
    <3>1. task'[t] = "run" /\ hand[t] \in peer'[t] /\ \A u \in Tasks : peer[u] \subseteq peer'[u]
      BY <1>0, <2>2 DEF Goto
    <3>2. \A q \in Queries : Live(q) => Live(q)'
      BY <2>1, <2>2, <3>1 DEF Live
    <3> QED
      BY <1>k, <2>1, <3>2
  <2>3. CASE Stop(t, <<Failed(hand[t])>>) /\ UNCHANGED peer
    <3>1. Failed(hand[t]) \in Event /\ Failed(hand[t]).of = hand[t]
      BY <2>1 DEF Failed, Event
    <3>2. /\ <<Failed(hand[t])>> \in Seq(Event)
          /\ \A q : Tells(<<Failed(hand[t])>>, q) <=> q = hand[t]
      BY <3>1, OneTells
    <3>3. /\ \A u \in Tasks : u # t => jobs'[u] = jobs[u]
          /\ \A q : Tells(events', q) <=> Tells(events, q) \/ Tells(<<Failed(hand[t])>>, q) \/ Has(jobs[t], q)
      BY <2>3, <3>2, StopEffect
    <3>4. \A q \in Queries : Live(q) => Live(q)'
      BY <2>1, <2>3, <3>2, <3>3 DEF Live
    <3> QED
      BY <1>k, <2>1, <3>4
  <2> QED
    BY <1>9, <2>2, <2>3 DEF WriteJob
<1>10. ASSUME NEW t \in Tasks, JobsGone(t) PROVE AllLive'
  <2>0. task[t] = "run" /\ hand[t] = None
    BY <1>10 DEF JobsGone, Working
  <2>1. /\ Stop(t, <<>>) /\ <<>> \in Seq(Event) /\ UNCHANGED <<hand, peer, proxied>>
        /\ hand[t] = None /\ \A u \in Tasks : u # t => task'[u] = task[u]
    BY <1>10, <1>0, <2>0 DEF JobsGone, Goto
  <2>2. /\ \A u \in Tasks : u # t => jobs'[u] = jobs[u]
        /\ \A q : Tells(events', q) <=> Tells(events, q) \/ Tells(<<>>, q) \/ Has(jobs[t], q)
    BY <2>1, StopEffect
  <2>3. \A q \in Queries : Live(q) => Live(q)'
    BY <2>1, <2>2, Numbers DEF Live
  <2> QED
    BY <1>k, <2>1, <2>3
<1>11. ASSUME NEW t \in Tasks, Close(t) PROVE AllLive'
  <2>1. /\ task[t] = "close" /\ \A u \in Tasks : u # t => task'[u] = task[u]
        /\ UNCHANGED <<jobs, hand, peer, events, proxied>>
    BY <1>11, <1>0 DEF Close, Goto
  <2>2. \A q \in Queries : Live(q) => Live(q)'
    BY <2>1 DEF Live
  <2> QED
    BY <1>k, <2>1, <2>2
<1>12. ASSUME NEW t \in Tasks, Chunk(t) PROVE AllLive'
  <2>1. PICK p \in peer[t] : /\ peer' = [peer EXCEPT ![t] = peer[t] \ {p}]
                             /\ events' = Append(events, [kind |-> "data", of |-> p])
    BY <1>12 DEF Chunk
  <2>2. UNCHANGED <<task, jobs, hand, proxied>>
    BY <1>12 DEF Chunk
  <2>3. PICK e \in Event : e = [kind |-> "data", of |-> p] /\ e.of = p
    <3>1. p \in Queries
      BY <1>0
    <3>2. [kind |-> "data", of |-> p] \in Event
      BY <3>1 DEF Event
    <3> QED
      BY <3>2
  <2>4. events' = events \o <<e>> /\ <<e>> \in Seq(Event)
    BY <1>0, <2>1, <2>3
  <2>5. (\A q : Tells(events', q) <=> Tells(events, q) \/ Tells(<<e>>, q)) /\ Tells(<<e>>, p)
    BY <1>0, <2>3, <2>4, ConcatTells, OneTells
  <2>6. \A u \in Tasks : \A q \in peer[u] : q = p \/ q \in peer'[u]
    BY <1>0, <2>1
  <2>7. \A q \in Queries : Live(q) => Live(q)'
    BY <2>2, <2>5, <2>6 DEF Live
  <2> QED
    BY <1>k, <2>2, <2>7
<1>13. ASSUME NEW t \in Tasks, PeerEnds(t) PROVE AllLive'
  <2>0. task[t] = "run" /\ hand[t] = None
    BY <1>13 DEF PeerEnds, Working
  <2>1. /\ Stop(t, <<>>) /\ <<>> \in Seq(Event) /\ UNCHANGED <<hand, peer, proxied>>
        /\ hand[t] = None /\ \A u \in Tasks : u # t => task'[u] = task[u]
    BY <1>13, <1>0, <2>0 DEF PeerEnds, Goto
  <2>2. /\ \A u \in Tasks : u # t => jobs'[u] = jobs[u]
        /\ \A q : Tells(events', q) <=> Tells(events, q) \/ Tells(<<>>, q) \/ Has(jobs[t], q)
    BY <2>1, StopEffect
  <2>3. \A q \in Queries : Live(q) => Live(q)'
    BY <2>1, <2>2, Numbers DEF Live
  <2> QED
    BY <1>k, <2>1, <2>3
<1>14. ASSUME UNCHANGED vars PROVE AllLive'
  <2>1. \A q : Live(q) => Live(q)'
    BY <1>14 DEF vars, tasks, Live
  <2> QED
    BY <1>14, <1>k, <2>1 DEF vars
<1>15. ASSUME NEW t \in Tasks, Stall(t) PROVE AllLive'
  <2>1. /\ task'[t] = "stalled" /\ \A u \in Tasks : u # t => task'[u] = task[u]
        /\ UNCHANGED <<jobs, hand, peer, events, proxied>>
    BY <1>15, <1>0 DEF Stall, Goto
  <2>2. \A q \in Queries : Live(q) => Live(q)'
    BY <2>1 DEF Live
  <2> QED
    BY <1>k, <2>1, <2>2
<1> QED
  BY <1>1, <1>2, <1>3, <1>4, <1>5, <1>6, <1>7, <1>8, <1>9, <1>10, <1>11, <1>12, <1>13, <1>14, <1>15 DEF Next, TaskStep

----------------------------------------------------------------------------
(* Answers and their queries.                                              *)

\* Two servers are more than one.
LEMMA TwoServers ==
  ASSUME NEW took \in SUBSET Servers, NEW r \in took, NEW s \in took, r # s
  PROVE  Cardinality(took) > 1
<1>1. IsFiniteSet(took)
  BY DnsAssumption, FS_Subset
<1>2. {r, s} \subseteq took /\ IsFiniteSet({r}) /\ Cardinality({r}) = 1
  BY FS_Singleton
<1>3. Cardinality({r} \cup {s}) = 2 /\ {r} \cup {s} = {r, s}
  BY <1>2, FS_AddElement
<1>4. Cardinality({r, s}) <= Cardinality(took)
  BY <1>1, <1>2, FS_Subset
<1>5. Cardinality(took) \in Nat
  BY <1>1, FS_CardinalityType
<1> QED
  BY <1>3, <1>4, <1>5

\* What a server owes is for the query in flight under its id, or for one
\* that was given up or fanned out.
LEMMA RequestsStep ==
  ASSUME TypeOK, Waits(pending), Requests, [Next]_vars PROVE Requests'
<1>0. owed \subseteq Servers \X Queries /\ fanout \subseteq Queries
  BY DEF TypeOK
<1>k. ASSUME UNCHANGED <<asked, pending, owed, fanout, evicted>> PROVE Requests'
  BY <1>k DEF Requests, FannedOut, Id
<1>1. ASSUME NEW m \in Menu, Ask(m) PROVE Requests'
  <2>0. PICK q : q = Len(asked) + 1
    OBVIOUS
  <2>1. /\ Len(asked) \in Nat /\ Len(asked') = q /\ q \in Queries /\ q > Len(asked)
        /\ Id(q)' = m.id /\ \A p \in 1..Len(asked) : Id(p)' = Id(p)
    BY <1>1, <2>0, AskNumbers
  <2>2. /\ Dropped \/ AtOnce(m, q) \/ Forwarded(m, q) \/ Proxied(m, q)
        /\ evicted' = evicted
    BY <1>1, <2>0, AskCases
  <2>3. \A p \in Queries : p <= Len(asked) => p \in 1..Len(asked) /\ p <= Len(asked') /\ p <= q /\ p # q
    BY <2>0, <2>1, Numbers
  <2>4. ASSUME NEW p \in Queries, p <= Len(asked), FannedOut(p), fanout \subseteq fanout'
        PROVE  FannedOut(p)'
    <3>1. PICK r \in fanout : r <= p /\ Id(r) = Id(p)
      BY <2>4 DEF FannedOut
    <3>2. r \in Queries /\ r <= Len(asked)
      BY <1>0, <3>1 DEF Requests
    <3>3. Id(r)' = Id(p)'
      BY <2>1, <2>3, <2>4, <3>1, <3>2
    <3> QED
      BY <2>4, <3>1, <3>3 DEF FannedOut
  <2>5. CASE UNCHANGED upstream
    <3>1. UNCHANGED <<pending, owed, fanout>>
      BY <2>5 DEF upstream
    <3>2. \A p \in fanout' : p <= Len(asked')
      BY <1>0, <2>3, <3>1 DEF Requests
    <3>3. ASSUME NEW s \in Servers, NEW p \in Queries, <<s, p>> \in owed
          PROVE  /\ p <= Len(asked')
                 /\ (Id(p)' \in DOMAIN pending /\ pending[Id(p)'] = p) \/ Id(p)' \in evicted \/ FannedOut(p)'
                 /\ Id(p)' \in DOMAIN pending => p <= pending[Id(p)']
      <4>1. p <= Len(asked) /\ p <= Len(asked') /\ Id(p)' = Id(p)
        BY <2>1, <2>3, <3>3 DEF Requests
      <4>2. FannedOut(p) => FannedOut(p)'
        BY <2>4, <3>1, <4>1
      <4> QED
        BY <3>3, <4>1, <4>2 DEF Requests
    <3>4. \A r, s \in Servers, p \in Queries : <<r, p>> \in owed /\ <<s, p>> \in owed /\ r # s => p \in fanout
      BY DEF Requests
    <3> QED
      BY <2>2, <3>1, <3>2, <3>3, <3>4 DEF Requests
  <2>6. CASE Forwarded(m, q)
    <3>1. PICK took \in SUBSET Servers :
             /\ m.id \notin DOMAIN pending
             /\ pending' = With(pending, m.id, q) /\ owed' = owed \cup (took \X {q})
             /\ fanout' = IF Cardinality(took) > 1 THEN fanout \cup {q} ELSE fanout
      BY <2>6 DEF Forwarded
    <3>2. /\ m.id \in DOMAIN pending' /\ pending'[m.id] = q
          /\ \A id : id # m.id => (id \in DOMAIN pending' <=> id \in DOMAIN pending)
          /\ \A id \in DOMAIN pending : pending'[id] = pending[id]
      BY <3>1 DEF With
    <3>3. fanout \subseteq fanout' /\ \A p \in fanout' : p \in fanout \/ p = q
      BY <3>1
    <3>4. \A p \in fanout' : p <= Len(asked')
      <4>1. q <= Len(asked')
        BY <2>1, Numbers
      <4> QED
        BY <1>0, <2>3, <3>3, <4>1 DEF Requests
    <3>5. \A s \in Servers, p \in Queries : <<s, p>> \in owed' => <<s, p>> \in owed \/ (s \in took /\ p = q)
      BY <3>1
    <3>6. ASSUME NEW s \in Servers, NEW p \in Queries, <<s, p>> \in owed'
          PROVE  /\ p <= Len(asked')
                 /\ (Id(p)' \in DOMAIN pending' /\ pending'[Id(p)'] = p) \/ Id(p)' \in evicted' \/ FannedOut(p)'
                 /\ Id(p)' \in DOMAIN pending' => p <= pending'[Id(p)']
      <4>1. CASE p = q
        BY <2>1, <3>2, <4>1, Numbers
      <4>2. CASE <<s, p>> \in owed
        <5>1. p <= Len(asked) /\ p <= Len(asked') /\ Id(p)' = Id(p) /\ p <= q
          BY <2>1, <2>3, <4>2 DEF Requests
        <5>2. FannedOut(p) => FannedOut(p)'
          BY <2>4, <3>3, <5>1
        <5>3. /\ (Id(p) \in DOMAIN pending /\ pending[Id(p)] = p) \/ Id(p) \in evicted \/ FannedOut(p)
              /\ Id(p) \in DOMAIN pending => p <= pending[Id(p)]
          BY <4>2 DEF Requests
        <5>4. CASE Id(p) = m.id
          BY <2>2, <3>1, <3>2, <5>1, <5>2, <5>3, <5>4
        <5>5. CASE Id(p) # m.id
          BY <2>2, <3>2, <5>1, <5>2, <5>3, <5>5
        <5> QED
          BY <5>4, <5>5
      <4> QED
        BY <3>5, <3>6, <4>1, <4>2
    <3>7. ASSUME NEW r \in Servers, NEW s \in Servers, NEW p \in Queries,
                 <<r, p>> \in owed', <<s, p>> \in owed', r # s
          PROVE  p \in fanout'
      <4>1. CASE p = q
        <5>1. <<r, p>> \notin owed /\ <<s, p>> \notin owed
          BY <2>3, <4>1 DEF Requests
        <5>2. r \in took /\ s \in took
          BY <3>5, <3>7, <5>1
        <5>3. Cardinality(took) > 1
          BY <3>7, <5>2, TwoServers
        <5> QED
          BY <3>1, <4>1, <5>3
      <4>2. CASE p # q
        BY <3>3, <3>5, <3>7, <4>2 DEF Requests
      <4> QED
        BY <4>1, <4>2
    <3> QED
      BY <3>4, <3>6, <3>7 DEF Requests
  <2> QED
    BY <2>2, <2>5, <2>6 DEF Dropped, AtOnce, Proxied
<1>2. ASSUME NEW s \in Servers, NEW of \in Queries, UpstreamResponse(s, of) PROVE Requests'
  <2>1. /\ <<s, of>> \in owed /\ owed' = owed \ {<<s, of>>} /\ UNCHANGED <<asked, fanout, evicted>>
        /\ pending' = IF Id(of) \in DOMAIN pending THEN Without(pending, Id(of)) ELSE pending
    BY <1>2 DEF UpstreamResponse
  <2>2. \A q : Id(q)' = Id(q) /\ (FannedOut(q) => FannedOut(q)')
    BY <2>1 DEF Id, FannedOut
  <2>3. /\ of <= Len(asked)
        /\ (Id(of) \in DOMAIN pending /\ pending[Id(of)] = of) \/ Id(of) \in evicted \/ FannedOut(of)
        /\ Id(of) \in DOMAIN pending => of <= pending[Id(of)]
    BY <2>1 DEF Requests
  <2>4. ASSUME NEW r \in Servers, NEW q \in Queries, <<r, q>> \in owed'
        PROVE  /\ q <= Len(asked)
               /\ (Id(q) \in DOMAIN pending' /\ pending'[Id(q)] = q) \/ Id(q) \in evicted \/ FannedOut(q)
               /\ Id(q) \in DOMAIN pending' => q <= pending'[Id(q)]
    <3>1. <<r, q>> \in owed /\ <<r, q>> # <<s, of>>
      BY <2>1, <2>4
    <3>2. /\ q <= Len(asked)
          /\ (Id(q) \in DOMAIN pending /\ pending[Id(q)] = q) \/ Id(q) \in evicted \/ FannedOut(q)
          /\ Id(q) \in DOMAIN pending => q <= pending[Id(q)]
      BY <3>1 DEF Requests
    <3>3. CASE Id(q) # Id(of) \/ Id(of) \notin DOMAIN pending
      <4>1. (Id(q) \in DOMAIN pending' <=> Id(q) \in DOMAIN pending) /\ (Id(q) \in DOMAIN pending => pending'[Id(q)] = pending[Id(q)])
        BY <2>1, <3>3 DEF Without, Restrict
      <4> QED
        BY <3>2, <4>1
    <3>4. CASE Id(q) = Id(of) /\ Id(of) \in DOMAIN pending
      <4>1. Id(q) \notin DOMAIN pending'
        BY <2>1, <3>4 DEF Without, Restrict
      <4>2. ASSUME pending[Id(q)] = q, q = of PROVE FannedOut(q)
        <5>1. r # s
          BY <3>1, <4>2
        <5>2. q \in fanout /\ q <= q
          BY <2>1, <3>1, <4>2, <5>1, Numbers DEF Requests
        <5> QED
          BY <5>2 DEF FannedOut
      <4>3. ASSUME pending[Id(q)] = q, q # of PROVE Id(q) \in evicted \/ FannedOut(q)
        <5>1. of <= q /\ (Id(q) \in evicted \/ FannedOut(of))
          BY <2>3, <3>4, <4>3
        <5>2. ASSUME FannedOut(of) PROVE FannedOut(q)
          <6>1. PICK p \in fanout : p <= of /\ Id(p) = Id(of)
            BY <5>2 DEF FannedOut
          <6>2. p <= q
            BY <1>0, <5>1, <6>1, Numbers
          <6> QED
            BY <3>4, <6>1, <6>2 DEF FannedOut
        <5> QED
          BY <5>1, <5>2
      <4> QED
        BY <3>2, <4>1, <4>2, <4>3
    <3> QED
      BY <3>3, <3>4
  <2>5. \A p \in fanout' : p <= Len(asked')
    BY <2>1 DEF Requests
  <2>6. \A r, u \in Servers, q \in Queries : <<r, q>> \in owed' /\ <<u, q>> \in owed' /\ r # u => q \in fanout'
    BY <2>1 DEF Requests
  <2> QED
    BY <2>1, <2>2, <2>4, <2>5, <2>6 DEF Requests
<1>3. ASSUME OnEvent PROVE Requests'
  BY <1>3, <1>k DEF OnEvent, upstream
<1>4. ASSUME NEW old \in SUBSET Ids, Tick(old) PROVE Requests'
  <2>1. /\ UNCHANGED <<asked, owed, fanout>> /\ evicted' = evicted \cup old
        /\ pending' = Restrict(pending, DOMAIN pending \ old)
    BY <1>4 DEF Tick
  <2>2. \A q : Id(q)' = Id(q) /\ (FannedOut(q) => FannedOut(q)')
    BY <2>1 DEF Id, FannedOut
  <2>3. \A id : /\ id \in DOMAIN pending' => id \in DOMAIN pending /\ pending'[id] = pending[id]
                /\ id \in DOMAIN pending => id \in DOMAIN pending' \/ id \in evicted'
    BY <2>1 DEF Restrict
  <2>4. ASSUME NEW s \in Servers, NEW q \in Queries, <<s, q>> \in owed
        PROVE  /\ q <= Len(asked)
               /\ (Id(q) \in DOMAIN pending' /\ pending'[Id(q)] = q) \/ Id(q) \in evicted' \/ FannedOut(q)
               /\ Id(q) \in DOMAIN pending' => q <= pending'[Id(q)]
    BY <2>1, <2>3, <2>4 DEF Requests
  <2>5. /\ \A p \in fanout' : p <= Len(asked')
        /\ \A r, u \in Servers, q \in Queries : <<r, q>> \in owed' /\ <<u, q>> \in owed' /\ r # u => q \in fanout'
    BY <2>1 DEF Requests
  <2> QED
    BY <2>1, <2>2, <2>4, <2>5 DEF Requests
<1>5. ASSUME NEW d \in Domains, NEW s \in Services \cup {NoService}, Move(d, s) PROVE Requests'
  BY <1>5, <1>k DEF Move, upstream
<1>6. ASSUME NEW t \in Tasks, Connected(t) PROVE Requests'
  BY <1>6, <1>k DEF Connected, upstream
<1>7. ASSUME NEW t \in Tasks, ConnectErr(t) PROVE Requests'
  BY <1>7, <1>k DEF ConnectErr, upstream
<1>8. ASSUME NEW t \in Tasks, TakeJob(t) PROVE Requests'
  BY <1>8, <1>k DEF TakeJob, upstream
<1>9. ASSUME NEW t \in Tasks, WriteJob(t) PROVE Requests'
  BY <1>9, <1>k DEF WriteJob, upstream
<1>10. ASSUME NEW t \in Tasks, JobsGone(t) PROVE Requests'
  BY <1>10, <1>k DEF JobsGone, upstream
<1>11. ASSUME NEW t \in Tasks, Close(t) PROVE Requests'
  BY <1>11, <1>k DEF Close, upstream
<1>12. ASSUME NEW t \in Tasks, Chunk(t) PROVE Requests'
  BY <1>12, <1>k DEF Chunk, upstream
<1>13. ASSUME NEW t \in Tasks, PeerEnds(t) PROVE Requests'
  BY <1>13, <1>k DEF PeerEnds, upstream
<1>14. ASSUME UNCHANGED vars PROVE Requests'
  BY <1>14, <1>k DEF vars, upstream
<1>15. ASSUME NEW t \in Tasks, Stall(t) PROVE Requests'
  BY <1>15, <1>k DEF Stall, upstream
<1> QED
  BY <1>1, <1>2, <1>3, <1>4, <1>5, <1>6, <1>7, <1>8, <1>9, <1>10, <1>11, <1>12, <1>13, <1>14, <1>15 DEF Next, TaskStep

\* What AnswersOwn says of a query that was answered with the answer to of.
Own(q, of) ==
  \/ of \in {None, q}
  \/ /\ Id(of) = Id(q) /\ of < q
     /\ Id(q) \in evicted \/ \E p \in fanout : p < q /\ Id(p) = Id(q)
AllOwn == \A q \in 1..Len(asked) : Own(q, answer[q].of)

\* The two say the same.
LEMMA OwnAnswers == AllOwn <=> AnswersOwn
BY DEF AllOwn, Own, AnswersOwn

\* An answer reaches the query that it was made for, or one that uses an id
\* again that was given up or fanned out.
LEMMA OwnStep ==
  ASSUME TypeOK, Waits(pending), Waits(proxied), Once, Tokens, Requests, Unasked, AllOwn, [Next]_vars
  PROVE  Unasked' /\ AllOwn'
<1>0. /\ answer \in [Queries -> [what : {"none", "refused", "servfail", "notimpl", "answer"},
                                 of : 0..MaxQueries]]
      /\ Len(asked) \in Nat /\ Len(asked) <= MaxQueries /\ fanout \subseteq Queries
  BY DEF TypeOK
<1>q. \A q \in 1..Len(asked) : q \in Queries /\ q <= Len(asked)
  BY <1>0, Numbers
<1>k. ASSUME UNCHANGED <<asked, answer, fanout>>, evicted \subseteq evicted' PROVE Unasked' /\ AllOwn'
  BY <1>k DEF Unasked, AllOwn, Own, Id
<1>r. ASSUME NEW w \in 1..Len(asked), NEW of \in Queries, NEW what, Reply(w, what, of), Own(w, of),
             UNCHANGED <<asked, fanout, evicted>>
      PROVE  Unasked' /\ AllOwn'
  <2>1. answer'[w].of = of /\ \A q \in Queries : q # w => answer'[q] = answer[q]
    BY <1>0, <1>q, <1>r DEF Reply
  <2>2. Unasked'
    <3>1. \A q \in Queries : q > Len(asked) => q # w
      BY <1>0, <1>r, Numbers
    <3> QED
      BY <1>r, <2>1, <3>1 DEF Unasked
  <2>3. \A q \in 1..Len(asked) : Own(q, answer'[q].of)
    BY <1>q, <1>r, <2>1 DEF AllOwn
  <2>4. \A q \in 1..Len(asked') : q \in 1..Len(asked)
    BY <1>r
  <2>5. AllOwn'
    BY <1>r, <2>3, <2>4 DEF AllOwn, Own, Id
  <2> QED
    BY <2>2, <2>5
<1>1. ASSUME NEW m \in Menu, Ask(m) PROVE Unasked' /\ AllOwn'
  <2>0. PICK q : q = Len(asked) + 1
    OBVIOUS
  <2>1. /\ Len(asked) \in Nat /\ Len(asked') = q /\ q \in Queries /\ q > Len(asked)
        /\ \A p \in 1..Len(asked) : Id(p)' = Id(p)
    BY <1>1, <2>0, AskNumbers
  <2>2. /\ Dropped \/ AtOnce(m, q) \/ Forwarded(m, q) \/ Proxied(m, q)
        /\ evicted' = evicted
    BY <1>1, <2>0, AskCases
  <2>3. /\ answer'[q].of \in {None, q} /\ \A p \in Queries : p # q => answer'[p] = answer[p]
    <3>1. answer[q].of = None
      BY <2>1 DEF Unasked
    <3>2. CASE answer' = answer
      BY <3>1, <3>2
    <3>3. CASE \E what \in {"refused", "servfail", "notimpl"} : Reply(q, what, q)
      BY <1>0, <2>1, <3>3 DEF Reply
    <3> QED
      BY <2>2, <3>2, <3>3 DEF Dropped, AtOnce, Forwarded, Proxied
  <2>4. fanout \subseteq fanout'
    BY <2>2 DEF Dropped, AtOnce, Forwarded, Proxied, upstream
  <2>5. Unasked'
    <3>1. \A p \in Queries : p > Len(asked') => p > Len(asked) /\ p # q
      BY <2>0, <2>1, Numbers
    <3> QED
      BY <2>3, <3>1 DEF Unasked
  <2>6. ASSUME NEW p \in 1..Len(asked), NEW of, of = answer[p].of PROVE Own(p, of)'
    <3>1. Own(p, of) /\ Id(p)' = Id(p) /\ p \in Queries /\ p <= Len(asked) /\ of \in 0..MaxQueries
      BY <1>0, <1>q, <2>1, <2>6 DEF AllOwn
    <3>2. CASE of \in {None, p}
      BY <3>2 DEF Own
    <3>3. CASE of \notin {None, p}
      <4>1. of \in 1..Len(asked)
        BY <1>0, <3>1, <3>3, Numbers DEF Own
      <4>2. Id(of)' = Id(p)' /\ of < p
        BY <2>1, <3>1, <3>3, <4>1 DEF Own
      <4>3. ASSUME NEW r \in fanout, r < p PROVE Id(r)' = Id(r)
        <5>1. r \in 1..Len(asked)
          BY <1>0, <3>1, <4>3, Numbers DEF Requests
        <5> QED
          BY <2>1, <5>1
      <4>4. Id(p)' \in evicted' \/ \E r \in fanout' : r < p /\ Id(r)' = Id(p)'
        BY <2>2, <2>4, <3>1, <3>3, <4>3 DEF Own
      <4> QED
        BY <4>2, <4>4 DEF Own
    <3> QED
      BY <3>2, <3>3
  <2>7. ASSUME NEW p \in 1..Len(asked'), NEW of, of = answer'[p].of PROVE Own(p, of)'
    <3>1. p = q \/ p \in 1..Len(asked)
      BY <2>0, <2>1
    <3>2. CASE p = q
      BY <2>3, <2>7, <3>2 DEF Own
    <3>3. CASE p \in 1..Len(asked)
      <4>1. p \in Queries /\ p # q
        BY <1>q, <2>1, <3>3
      <4> QED
        BY <2>3, <2>6, <2>7, <3>3, <4>1
    <3> QED
      BY <3>1, <3>2, <3>3
  <2>8. \A p \in 1..Len(asked') : Own(p, answer[p].of)'
    <3> SUFFICES ASSUME NEW p \in 1..Len(asked') PROVE Own(p, answer[p].of)'
      OBVIOUS
    <3>1. PICK of : of = answer'[p].of
      OBVIOUS
    <3>2. Own(p, of)'
      BY <2>7, <3>1
    <3> QED
      BY <3>1, <3>2 DEF Own
  <2> QED
    BY <2>5, <2>8 DEF AllOwn
<1>2. ASSUME NEW s \in Servers, NEW of \in Queries, UpstreamResponse(s, of) PROVE Unasked' /\ AllOwn'
  <2>1. <<s, of>> \in owed /\ UNCHANGED <<asked, fanout, evicted>>
    BY <1>2 DEF UpstreamResponse
  <2>2. CASE Id(of) \in DOMAIN pending
    <3>1. PICK w : w = pending[Id(of)]
      OBVIOUS
    <3>2. Reply(w, "answer", of) /\ w \in 1..Len(asked) /\ Id(w) = Id(of)
      BY <1>2, <2>2, <3>1 DEF UpstreamResponse, Waits
    <3>3. of <= w /\ (w = of \/ Id(of) \in evicted \/ FannedOut(of))
      BY <2>1, <2>2, <3>1 DEF Requests
    <3>4. ASSUME w # of PROVE Own(w, of)
      <4>1. of < w
        BY <3>2, <3>3, <3>4, Numbers
      <4>2. ASSUME FannedOut(of) PROVE \E p \in fanout : p < w /\ Id(p) = Id(w)
        <5>1. PICK p \in fanout : p <= of /\ Id(p) = Id(of)
          BY <4>2 DEF FannedOut
        <5>2. p < w
          BY <1>0, <3>2, <4>1, <5>1, Numbers
        <5> QED
          BY <3>2, <5>1, <5>2
      <4> QED
        BY <3>2, <3>3, <3>4, <4>1, <4>2 DEF Own
    <3>5. Own(w, of)
      BY <3>4 DEF Own
    <3> QED
      BY <1>r, <2>1, <3>2, <3>5
  <2>3. CASE Id(of) \notin DOMAIN pending
    BY <1>2, <1>k, <2>1, <2>3 DEF UpstreamResponse
  <2> QED
    BY <2>2, <2>3
<1>3. ASSUME OnEvent PROVE Unasked' /\ AllOwn'
  <2>0. PICK of : of = Head(events).of
    OBVIOUS
  <2>1. of \in Queries /\ Token(of) /\ UNCHANGED <<asked, fanout, evicted>>
    <3>1. of \in Queries
      BY <1>3, <2>0, EventMoves
    <3>2. Tells(events, of)
      BY <1>3, <2>0, TailTells DEF OnEvent, TypeOK
    <3> QED
      BY <1>3, <3>1, <3>2 DEF Token, OnEvent, upstream
  <2>2. CASE Id(of) \in DOMAIN proxied
    <3>1. PICK w : w = proxied[Id(of)]
      OBVIOUS
    <3>2. PICK what : Reply(w, what, of)
      BY <1>3, <2>0, <2>2, <3>1 DEF OnEvent
    <3>3. w \in 1..Len(asked) /\ Id(w) = Id(of)
      BY <2>2, <3>1 DEF Waits
    <3>4. of <= w /\ (w = of \/ Id(of) \in evicted)
      BY <2>1, <2>2, <3>1 DEF Tokens
    <3>5. w = of \/ of < w
      BY <2>1, <3>3, <3>4, Numbers
    <3>6. Own(w, of)
      BY <3>3, <3>4, <3>5 DEF Own
    <3> QED
      BY <1>r, <2>1, <3>2, <3>3, <3>6
  <2>3. CASE Id(of) \notin DOMAIN proxied
    <3>1. answer' = answer
      BY <1>3, <2>0, <2>3 DEF OnEvent
    <3> QED
      BY <1>k, <2>1, <3>1
  <2> QED
    BY <2>2, <2>3
<1>4. ASSUME NEW old \in SUBSET Ids, Tick(old) PROVE Unasked' /\ AllOwn'
  BY <1>4, <1>k DEF Tick, upstream
<1>5. ASSUME NEW d \in Domains, NEW s \in Services \cup {NoService}, Move(d, s) PROVE Unasked' /\ AllOwn'
  BY <1>5, <1>k DEF Move, upstream
<1>6. ASSUME NEW t \in Tasks, Connected(t) PROVE Unasked' /\ AllOwn'
  BY <1>6, <1>k DEF Connected, upstream
<1>7. ASSUME NEW t \in Tasks, ConnectErr(t) PROVE Unasked' /\ AllOwn'
  BY <1>7, <1>k DEF ConnectErr, upstream
<1>8. ASSUME NEW t \in Tasks, TakeJob(t) PROVE Unasked' /\ AllOwn'
  BY <1>8, <1>k DEF TakeJob, upstream
<1>9. ASSUME NEW t \in Tasks, WriteJob(t) PROVE Unasked' /\ AllOwn'
  BY <1>9, <1>k DEF WriteJob, upstream
<1>10. ASSUME NEW t \in Tasks, JobsGone(t) PROVE Unasked' /\ AllOwn'
  BY <1>10, <1>k DEF JobsGone, upstream
<1>11. ASSUME NEW t \in Tasks, Close(t) PROVE Unasked' /\ AllOwn'
  BY <1>11, <1>k DEF Close, upstream
<1>12. ASSUME NEW t \in Tasks, Chunk(t) PROVE Unasked' /\ AllOwn'
  BY <1>12, <1>k DEF Chunk, upstream
<1>13. ASSUME NEW t \in Tasks, PeerEnds(t) PROVE Unasked' /\ AllOwn'
  BY <1>13, <1>k DEF PeerEnds, upstream
<1>14. ASSUME UNCHANGED vars PROVE Unasked' /\ AllOwn'
  BY <1>14, <1>k DEF vars, upstream
<1>15. ASSUME NEW t \in Tasks, Stall(t) PROVE Unasked' /\ AllOwn'
  BY <1>15, <1>k DEF Stall, upstream
<1> QED
  BY <1>1, <1>2, <1>3, <1>4, <1>5, <1>6, <1>7, <1>8, <1>9, <1>10, <1>11, <1>12, <1>13, <1>14, <1>15 DEF Next, TaskStep

----------------------------------------------------------------------------
(* The theorems.                                                           *)

\* The intercept starts with no query, no task and no event.
LEMMA InvInit == Init => Inv /\ AllLive /\ AllOwn
<1> SUFFICES ASSUME Init PROVE Inv /\ AllLive /\ AllOwn
  OBVIOUS
<1> USE Numbers
<1>1. asked = <<>> /\ Len(asked) = 0 /\ events = <<>> /\ Len(events) = 0 /\ created = 0
  BY DEF Init
<1>2. asked \in Seq(Menu) /\ Len(asked) <= MaxQueries /\ events \in Seq(Event) /\ created \in 0..MaxTasks
  BY <1>1
<1>3. answer \in [Queries -> [what : {"none", "refused", "servfail", "notimpl", "answer"}, of : 0..MaxQueries]]
  BY DEF Init, Unanswered
<1>4. owed \subseteq Servers \X Queries /\ fanout \subseteq Queries /\ host \in [Domains -> Services \cup {NoService}]
  BY DnsAssumption DEF Init
<1>5. conns \in [Domains -> 0..created] /\ task \in [Tasks -> {"none", "connect", "run", "write", "close", "ended", "stalled"}]
  BY <1>1 DEF Init
<1>6. serves \in [Tasks -> Services \cup {NoService}] /\ hand \in [Tasks -> 0..MaxQueries]
  BY DEF Init
<1>7. jobs \in [Tasks -> Seq(Queries)]
  BY DEF Init
<1>8. closed \in [Tasks -> BOOLEAN] /\ peer \in [Tasks -> SUBSET Queries]
  BY DEF Init
<1>9. TypeOK
  BY <1>2, <1>3, <1>4, <1>5, <1>6, <1>7, <1>8 DEF TypeOK
<1>10. DOMAIN pending = {} /\ DOMAIN proxied = {}
  BY DEF Init
<1>11. Waits(pending) /\ Waits(proxied) /\ AllLive
  BY <1>10 DEF Waits, AllLive
<1>12. \A t \in Tasks : jobs[t] = <<>> /\ task[t] = "none" /\ hand[t] = 0 /\ peer[t] = {} /\ t > created
  BY <1>1 DEF Init
<1>13. Working
  BY <1>1, <1>12 DEF Working
<1>14. \A t \in Tasks, q \in Queries : ~Has(jobs[t], q) /\ hand[t] # q /\ q \notin peer[t]
  BY <1>12 DEF Has
<1>15. \A q : ~Tells(events, q)
  BY <1>1 DEF Tells
<1>16. Tokens
  BY <1>14, <1>15 DEF Tokens, Token
<1>17. Once
  <2>1. \A t \in Tasks : Apart(jobs[t])
    BY <1>12 DEF Apart
  <2>2. Distinct(events)
    BY <1>1 DEF Distinct
  <2>3. <<"event", 0>> \in Places
    BY DEF Places
  <2>4. \A q \in Queries : Sole(q, <<"event", 0>>)
    BY <1>14, <1>15 DEF Sole
  <2> QED
    BY <2>1, <2>2, <2>3, <2>4 DEF Once
<1>18. Requests
  BY DEF Init, Requests
<1>19. Unasked
  BY DEF Init, Unasked, Unanswered
<1>20. AllOwn
  BY <1>1 DEF AllOwn
<1> QED
  BY <1>9, <1>11, <1>13, <1>16, <1>17, <1>18, <1>19, <1>20 DEF Inv

\* Every step of the intercept preserves what the properties follow from.
LEMMA InvStep == Inv /\ AllLive /\ AllOwn /\ [Next]_vars => (Inv /\ AllLive /\ AllOwn)'
BY TypeStep, WaitsStep, WorkingStep, TokensStep, LiveStep, RequestsStep, OwnStep DEF Inv

\* The tables, queues and tasks of the DNS server keep their types.
THEOREM TypeCorrect == Spec => []TypeOK
<1>1. Inv => TypeOK
  BY DEF Inv
<1> QED
  BY <1>1, InvInit, InvStep, PTL DEF Spec

\* proxy_resolve: no proxied query falls between the loop and a task, whatever
\* the connection does while the loop hands it jobs.
THEOREM NoLostQueryCorrect == Spec => []NoLostQuery
<1>1. Inv /\ AllLive => NoLostQuery
  BY LiveUnderway DEF Inv
<1> QED
  BY <1>1, InvInit, InvStep, PTL DEF Spec

\* udp/upstream.rs and proxy_resolve: who asks gets the answer to the question
\* that was asked, unless the id had been given up or fanned out before.
THEOREM AnswersOwnCorrect == Spec => []AnswersOwn
BY OwnAnswers, InvInit, InvStep, PTL DEF Spec
=============================================================================
