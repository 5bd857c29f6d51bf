---------------------------- MODULE ConnIdAlloc ----------------------------
(***************************************************************************)
(* Connection ids of an edge channel: alloc_conn_id over the counter       *)
(* next_conn_id, called by dial, by send_bind and by accept without a lock *)
(* around it, and the two maps its `in_use` looks into.                    *)
(***************************************************************************)
EXTENDS Integers, FiniteSets

CONSTANTS
  Conns,    \* callers that register their id in conns: dials and accepts
  Binds,    \* callers that register their id in binds
  Modulus   \* the counter is an integer modulo this: 2^32 for AtomicU32

MIN_CONN_ID == 0
MAX_CONN_ID == ((Modulus - 1) \div 2) - 1

Callers == Conns \cup Binds

\* There are far fewer tasks than ids above the range, so that the callers that
\* draw one do not wrap the counter before one of them rewinds it.
ASSUME AllocAssumption ==
  /\ Modulus \in Nat /\ MAX_CONN_ID > MIN_CONN_ID + 1
  /\ Conns \cap Binds = {} /\ "none" \notin Callers
  /\ IsFiniteSet(Callers) /\ Cardinality(Callers) <= Modulus - MAX_CONN_ID

VARIABLES
  counter,    \* ChannelState.next_conn_id
  conns,      \* ChannelState.conns: who receives what is sent to each id
  binds,      \* ChannelState.binds
  pc,
  id,         \* the candidate, and then the id, of each caller
  rewound,    \* history: the counter was rewound
  overlapped  \* history: two callers allocated at the same time

allocVars == <<counter, conns, binds, pc, id, rewound, overlapped>>

Ids == 0..(Modulus - 1)
Allocating == {"add", "conns", "binds", "rewind", "register"}

AllocTypeOK ==
  /\ counter \in Ids
  /\ conns \in [Ids -> Conns \cup {"none"}] /\ binds \in [Ids -> Binds \cup {"none"}]
  /\ pc \in [Callers -> Allocating \cup {"idle", "live"}]
  /\ id \in [Callers -> Ids]
  /\ rewound \in BOOLEAN /\ overlapped \in BOOLEAN

AllocInit ==
  /\ counter = 0
  /\ conns = [i \in Ids |-> "none"] /\ binds = [i \in Ids |-> "none"]
  /\ pc = [c \in Callers |-> "idle"] /\ id = [c \in Callers |-> 0]
  /\ rewound = FALSE /\ overlapped = FALSE

Goto(c, label) == pc' = [pc EXCEPT ![c] = label]

StartAlloc(c) ==
  /\ pc[c] = "idle"
  /\ Goto(c, "add")
  /\ overlapped' = (overlapped \/ \E other \in Callers : pc[other] \in Allocating)
  /\ UNCHANGED <<counter, conns, binds, id, rewound>>

\* fetch_add(1).wrapping_add(1).
FetchAdd(c) ==
  /\ pc[c] = "add"
  /\ counter' = (counter + 1) % Modulus
  /\ id' = [id EXCEPT ![c] = counter']
  /\ Goto(c, "conns")
  /\ UNCHANGED <<conns, binds, rewound, overlapped>>

\* conn_id_in_use, the first of its two locks.
InUseByConn(c) ==
  /\ pc[c] = "conns"
  /\ Goto(c, IF conns[id[c]] # "none" THEN "add" ELSE "binds")
  /\ UNCHANGED <<counter, conns, binds, id, rewound, overlapped>>

\* Fault: the range is closed at its upper end.
OutOfRangeByOne(i) == i < MIN_CONN_ID \/ i > MAX_CONN_ID

OutOfRange(i) == i < MIN_CONN_ID \/ i >= MAX_CONN_ID

\* Fault: only the map of conns is asked.
InUseByBindOmitted(c) ==
  /\ pc[c] = "binds"
  /\ Goto(c, IF OutOfRange(id[c]) THEN "rewind" ELSE "register")
  /\ UNCHANGED <<counter, conns, binds, id, rewound, overlapped>>

\* The second lock; then the candidate is skipped, out of range, or returned.
InUseByBind(c) ==
  /\ pc[c] = "binds"
  /\ Goto(c, IF binds[id[c]] # "none" THEN "add"
             ELSE IF OutOfRange(id[c]) THEN "rewind" ELSE "register")
  /\ UNCHANGED <<counter, conns, binds, id, rewound, overlapped>>

\* store(min_id), and another turn.
Rewind(c) ==
  /\ pc[c] = "rewind"
  /\ counter' = MIN_CONN_ID
  /\ rewound' = TRUE
  /\ Goto(c, "add")
  /\ UNCHANGED <<conns, binds, id, overlapped>>

\* register_conn and register_bind insert, over whatever is there.
RegisterId(c) ==
  /\ pc[c] = "register"
  /\ conns' = IF c \in Conns THEN [conns EXCEPT ![id[c]] = c] ELSE conns
  /\ binds' = IF c \in Binds THEN [binds EXCEPT ![id[c]] = c] ELSE binds
  /\ Goto(c, "live")
  /\ UNCHANGED <<counter, id, rewound, overlapped>>

\* close, unbind or a failed dial removes the id, whoever is there.
Release(c) ==
  /\ pc[c] = "live"
  /\ conns' = IF c \in Conns THEN [conns EXCEPT ![id[c]] = "none"] ELSE conns
  /\ binds' = IF c \in Binds THEN [binds EXCEPT ![id[c]] = "none"] ELSE binds
  /\ Goto(c, "idle")
  /\ UNCHANGED <<counter, id, rewound, overlapped>>

AllocNext ==
  \E c \in Callers : \/ StartAlloc(c) \/ FetchAdd(c) \/ InUseByConn(c) \/ InUseByBind(c)
                    \/ Rewind(c) \/ RegisterId(c) \/ Release(c)

AllocSpec == AllocInit /\ [][AllocNext]_allocVars

----------------------------------------------------------------------------
Holding(c) == pc[c] \in {"register", "live"}

Unique == \A c, d \in Callers : c # d /\ Holding(c) /\ Holding(d) => id[c] # id[d]

\* Ids that the router allocates start at half the range: every id that is
\* handed out stays below it, and a live caller's entry is found under its id,
\* for as long as the ids are unique.
IdsUsable ==
  \A c \in Callers :
    /\ Holding(c) => MIN_CONN_ID <= id[c] /\ id[c] < MAX_CONN_ID
    /\ pc[c] = "live" /\ ~(rewound /\ overlapped)
         => IF c \in Conns THEN conns[id[c]] = c ELSE binds[id[c]] = c

\* No two conns or binds of a channel hold one id, as long as the counter was
\* never rewound, or if it was, as long as no two callers ever allocated at the
\* same time.
UniqueUnlessRaced == (rewound /\ overlapped) \/ Unique
=============================================================================
