----------------------------- MODULE ApiSession -----------------------------
(***************************************************************************)
(* The api session of an EdgeClient and what hangs from it: the token that *)
(* every request to the controller carries, the cache of dial sessions and *)
(* the ephemeral certificate of a password login.  Concurrent connects     *)
(* (edge/conn/flow.rs), the refresh timer (edge/refresh/timer.rs), the     *)
(* hourly session refresh (edge/session_refresh/tick.rs) and the public    *)
(* refresh() share them, and coordinate through `reauth_lock`.             *)
(*                                                                         *)
(* Tokens and dial sessions are numbered as the controller mints them.     *)
(* One service is enough: the cache has one entry per service and only the *)
(* clear after a re-authentication is about all of them.  A step ends where*)
(* the code awaits, or lets go of a lock.                                  *)
(***************************************************************************)
EXTENDS Naturals, FiniteSets, Sequences

CONSTANTS
  Flows,        \* invocations of connect
  Cancels,      \* those whose connect timeout may drop them
  Kinds,        \* the kinds of api session that are considered
  Logins,       \* the logins that are considered
  MaxTokens,    \* bound: tokens the controller mints
  MaxSessions,  \* bound: dial sessions, two for each flow and one to start with
  MaxErrors,    \* bound: requests and dials that fail for other reasons
  Events        \* bound: which of AllEvents happen

\* "parked" is an OIDC session that came without a refresh token.
AllKinds == {"legacy", "oidc", "parked"}
AllLogins == {"cert", "updb"}

\* A token expires, a dial session is deleted, the timers fire, the user calls
\* refresh, the service poll finds the service gone.
AllEvents == {"expire", "delete", "timer", "tick", "refresh", "removed"}

Actors == Flows \cup {"timer", "user"}

ASSUME SessionAssumption ==
  /\ Cancels \subseteq Flows /\ Kinds \subseteq AllKinds /\ Logins \subseteq AllLogins
  /\ {"none", "timer", "user"} \cap Flows = {}
  /\ MaxTokens \in Nat \ {0} /\ MaxErrors \in Nat
  /\ MaxSessions \in Nat \ {0} /\ MaxSessions >= 1 + 2 * Cardinality(Flows)
  /\ Events \subseteq AllEvents

VARIABLES
  kind,      \* AuthToken::session_type
  login,     \* whether there is a session certificate to hold
  token,     \* EdgeClient.token
  lock,      \* holder of reauth_lock
  cache,     \* dial_sessions: the session cached for the service, 0 if none
  cert,      \* the token that the certificate was minted under, 0 if it is stale
  certLock,  \* holder of the certificate's lock
  pc,        \* where each actor is
  used,      \* the token an actor read
  minted,    \* the token that the controller gave to an actor
  op,        \* what a flow has wrapped in with_reauth_retry, or "routers": the
             \* probe that it makes for a session without edge routers
  again,     \* it is at its second attempt
  sess,      \* the session a flow holds
  dials,     \* which of its two dials it is at
  tick,      \* the session refresh's pc
  tickToken, \* the token it read
  snap,      \* the session in its snapshot
  tokens,    \* controller: tokens minted
  valid,     \* controller: the tokens it accepts
  under,     \* controller: the token that each session was minted under
  alive,     \* controller: the sessions that exist
  errors,    \* failures so far
  evicted,   \* history: sessions that were taken out of the cache
  alone      \* history: the flows beside which no other flow has run

client == <<kind, login, token, lock, cache, cert, certLock>>
actors == <<pc, used, minted>>
flow   == <<op, again, sess, dials>>
refresher == <<tick, tickToken, snap>>
controller == <<tokens, valid, under, alive, errors>>
history == <<evicted, alone>>
vars == <<client, actors, flow, refresher, controller, history>>

Tokens == 1..MaxTokens
Sessions == 1..MaxSessions

Ended == {"idle", "connected", "failed", "cancelled"}
FlowPcs == Ended \cup {"op", "holder", "request", "certminted", "lookup", "insert", "open",
                       "pool", "dial", "probe", "probing", "recache", "evict"}
\* "cert" is for the channel that a flow opens; "spare" for those that it has
\* opened in the background beside the one from the pool.
CertOps == {"cert", "spare"}
Reauth == {"gate", "auth", "store", "clear", "certgate"}

Pcs == FlowPcs \cup Reauth \cup {"sleep", "get", "getstore"}
Ops == {"resolve", "create", "routers"} \cup CertOps

ClientTyped ==
  /\ kind \in Kinds /\ login \in Logins
  /\ token \in Tokens /\ lock \in Actors \cup {"none"}
  /\ cache \in Sessions \cup {0} /\ cert \in Tokens \cup {0} /\ certLock \in Flows \cup {"none"}
ActorsTyped ==
  pc \in [Actors -> Pcs] /\ used \in [Actors -> Tokens] /\ minted \in [Actors -> Tokens \cup {0}]
FlowTyped ==
  /\ op \in [Flows -> Ops] /\ again \in [Flows -> BOOLEAN]
  /\ sess \in [Flows -> Sessions \cup {0}] /\ dials \in [Flows -> 1..2]
RefresherTyped ==
  /\ tick \in {"sleep", "snapshot", "probe", "recache", "purge"}
  /\ tickToken \in Tokens /\ snap \in Sessions \cup {0}
ControllerTyped ==
  /\ tokens \in Tokens /\ valid \subseteq 1..tokens
  /\ under \in Seq(Tokens) /\ Len(under) <= MaxSessions /\ alive \subseteq 1..Len(under)
  /\ errors \in 0..MaxErrors
HistoryTyped == evicted \subseteq Sessions /\ alone \subseteq Flows

Typed == ClientTyped /\ ActorsTyped /\ FlowTyped /\ RefresherTyped /\ ControllerTyped /\ HistoryTyped

\* Whoever is between the gate and its release holds reauth_lock, and nobody
\* else; the certificate's lock is held over the minting of a new one.
Held ==
  /\ \A a \in Actors : lock = a <=> pc[a] \in {"auth", "store", "clear", "certgate"}
  /\ \A f \in Flows : certLock = f <=> op[f] \in CertOps /\ pc[f] \in {"request", "certminted"}

TypeOK == Typed /\ Held

\* A client that has authenticated; an earlier connect may have left a session
\* in the cache, and the certificate may be near its end.
Init ==
  /\ kind \in Kinds /\ login \in Logins
  /\ token = 1 /\ lock = "none" /\ certLock = "none"
  /\ cache \in {0, 1} /\ cert \in IF login = "updb" THEN {0, 1} ELSE {0}
  /\ pc = [a \in Actors |-> IF a = "timer" THEN "sleep" ELSE "idle"]
  /\ used = [a \in Actors |-> 1] /\ minted = [a \in Actors |-> 0]
  /\ op = [f \in Flows |-> "resolve"] /\ again = [f \in Flows |-> FALSE]
  /\ sess = [f \in Flows |-> 0] /\ dials = [f \in Flows |-> 1]
  /\ tick = "sleep" /\ tickToken = 1 /\ snap = 0
  /\ tokens = 1 /\ valid = {1}
  /\ under = IF cache = 0 THEN <<>> ELSE <<1>>
  /\ alive = IF cache = 0 THEN {} ELSE {1}
  /\ errors = 0 /\ evicted = {} /\ alone = {}

Goto(a, label) == pc' = [pc EXCEPT ![a] = label]

\* A failure that is neither a 401 nor a dead session: the transport, a 5xx.
SomethingFails == errors < MaxErrors /\ errors' = errors + 1

\* What leaves the cache, and what goes in.
Uncache == /\ cache' = 0
           /\ evicted' = evicted \cup ({cache} \ {0})

----------------------------------------------------------------------------
(* with_reauth_retry, around the requests of a flow.                       *)

InFlight == {f \in Flows : pc[f] \notin Ended}

\* connect_inner: resolve the service first.  refresh() borrows the client
\* exclusively, so no connect is in flight beside it.
Start(f) ==
  /\ pc[f] = "idle" /\ pc["user"] = "idle"
  /\ Goto(f, "op")
  /\ alone' = IF InFlight = {} THEN alone \cup {f} ELSE alone \ InFlight
  /\ UNCHANGED <<client, used, minted, flow, refresher, controller, evicted>>

Wrap(f, what) ==
  /\ op' = [op EXCEPT ![f] = what]
  /\ again' = [again EXCEPT ![f] = FALSE]
  /\ Goto(f, "op")

ReadToken(f) ==
  /\ pc[f] = "op"
  /\ used' = [used EXCEPT ![f] = token]
  /\ Goto(f, IF op[f] \in CertOps THEN "holder" ELSE "request")
  /\ UNCHANGED <<client, minted, flow, refresher, controller, history>>

\* channel_client_config: a certificate that is fresh is used as it is; a stale
\* one is minted again while the lock is held.
Holder(f) ==
  /\ pc[f] = "holder" /\ certLock = "none"
  /\ IF cert # 0 THEN Goto(f, "dial") /\ UNCHANGED certLock
                 ELSE Goto(f, "request") /\ certLock' = f
  /\ UNCHANGED <<kind, login, token, lock, cache, cert, used, minted, flow, refresher,
                 controller, history>>

\* The lock on the certificate is let go when the wrapped operation returns.
LetGo(f) == certLock' = IF certLock = f THEN "none" ELSE certLock

\* The controller accepts the request and its answer is on the way.
Accepted(f) ==
  /\ pc[f] = "request" /\ used[f] \in valid
  /\ \/ /\ op[f] = "resolve" /\ Goto(f, "lookup")
        /\ UNCHANGED <<sess, under, alive>>
     \/ /\ op[f] = "create" /\ Len(under) < MaxSessions
        /\ under' = Append(under, used[f])
        /\ alive' = alive \cup {Len(under')}
        /\ sess' = [sess EXCEPT ![f] = Len(under')]
        /\ Goto(f, "insert")
     \/ /\ op[f] \in CertOps /\ Goto(f, "certminted")
        /\ UNCHANGED <<sess, under, alive>>
  /\ UNCHANGED <<client, used, minted, op, again, dials, refresher, tokens, valid, errors, history>>

AfterFailedDial(f) == IF dials[f] = 1 THEN "probe" ELSE "failed"

\* The error of the wrapped operation.  A certificate that cannot be had is a
\* failed dial, or only means that no other channels are opened in the
\* background; anything else ends the flow.
OpFails(f) ==
  Goto(f, IF op[f] = "cert" THEN AfterFailedDial(f)
          ELSE IF op[f] = "spare" THEN "dial" ELSE "failed")

\* Fault: the lock on the certificate is kept over the re-authentication.
UnauthorizedKeepingHolder(f) ==
  /\ pc[f] = "request" /\ used[f] \notin valid
  /\ IF again[f] THEN OpFails(f) ELSE Goto(f, "gate")
  /\ UNCHANGED <<client, used, minted, flow, refresher, controller, history>>

\* Fault: a 401 ends the operation.
UnauthorizedFatal(f) ==
  /\ pc[f] = "request" /\ used[f] \notin valid
  /\ OpFails(f)
  /\ LetGo(f)
  /\ UNCHANGED <<kind, login, token, lock, cache, cert, used, minted, flow, refresher,
                 controller, history>>

\* A 401: re-authenticate and try once more.
Unauthorized(f) ==
  /\ pc[f] = "request" /\ used[f] \notin valid
  /\ IF again[f] THEN OpFails(f) ELSE Goto(f, "gate")
  /\ LetGo(f)
  /\ UNCHANGED <<kind, login, token, lock, cache, cert, used, minted, flow, refresher,
                 controller, history>>

\* Any other failure.  The creation of a session is retried with a backoff if
\* the failure may pass, and until its time is up.
RequestErr(f) ==
  /\ pc[f] = "request" /\ SomethingFails
  /\ \/ OpFails(f) /\ UNCHANGED <<op, again>>
     \/ op[f] = "create" /\ Wrap(f, "create")
  /\ LetGo(f)
  /\ UNCHANGED <<kind, login, token, lock, cache, cert, used, minted, sess, dials, refresher,
                 tokens, valid, under, alive, history>>

CertStored(f) ==
  /\ pc[f] = "certminted"
  /\ cert' = used[f] /\ certLock' = "none"
  /\ Goto(f, "dial")
  /\ UNCHANGED <<kind, login, token, lock, cache, used, minted, flow, refresher, controller, history>>

----------------------------------------------------------------------------
(* get_or_create_dial_session and dial_with_refresh_retry.                 *)

Lookup(f) ==
  /\ pc[f] = "lookup"
  /\ IF cache # 0 THEN /\ sess' = [sess EXCEPT ![f] = cache]
                       /\ Goto(f, "open") /\ UNCHANGED <<op, again>>
                  ELSE Wrap(f, "create") /\ UNCHANGED sess
  /\ UNCHANGED <<client, used, minted, dials, refresher, controller, history>>

\* cache_dial_session: a blind insert of what the controller has just minted.
Insert(f) ==
  /\ pc[f] = "insert"
  /\ cache' = sess[f]
  /\ evicted' = evicted \cup ({cache} \ {0})
  /\ Goto(f, "open")
  /\ UNCHANGED <<kind, login, token, lock, cert, certLock, used, minted, flow, refresher,
                 controller, alone>>

\* open_or_reuse_pooled_channel: a session without edge routers is refreshed
\* first (recover_empty_edge_routers).
Open(f) ==
  /\ pc[f] = "open"
  /\ \/ Goto(f, "pool") /\ UNCHANGED op
     \/ Goto(f, "probe") /\ op' = [op EXCEPT ![f] = "routers"]
  /\ UNCHANGED <<client, used, minted, again, sess, dials, refresher, controller, history>>

\* A channel from the pool, or a new one.  To open one, for this flow or in the
\* background, a password login needs its certificate.
Pool(f) ==
  /\ pc[f] = "pool"
  /\ \/ Goto(f, "dial") /\ UNCHANGED <<op, again>>
     \/ login = "updb" /\ \E what \in CertOps : Wrap(f, what)
  /\ UNCHANGED <<client, used, minted, sess, dials, refresher, controller, history>>

\* The dial's outcome: connected, an invalid session, or some other failure.
Dial(f) ==
  /\ pc[f] = "dial"
  /\ \/ sess[f] \in alive /\ Goto(f, "connected") /\ UNCHANGED errors
     \/ sess[f] \notin alive /\ Goto(f, "evict") /\ UNCHANGED errors
     \/ SomethingFails /\ Goto(f, AfterFailedDial(f))
  /\ UNCHANGED <<client, used, minted, flow, refresher, tokens, valid, under, alive, history>>

\* refresh_session: a probe with the token as it is, without the retry.
ProbeStart(f) ==
  /\ pc[f] = "probe"
  /\ used' = [used EXCEPT ![f] = token]
  /\ Goto(f, "probing")
  /\ UNCHANGED <<client, minted, flow, refresher, controller, history>>

\* Any error of the probe counts as a dead session; while it is for the sake of
\* the edge routers, it is a failed dial.
ProbeFails(f) ==
  /\ Goto(f, IF op[f] = "routers" THEN AfterFailedDial(f) ELSE "evict")
  /\ op' = [op EXCEPT ![f] = "resolve"]

\* recover_empty_edge_routers evicts whatever is cached after a 404 to the probe
\* of a legacy session.
Probe(f) ==
  /\ pc[f] = "probing"
  /\ \/ /\ used[f] \in valid /\ sess[f] \in alive
        /\ Goto(f, "recache")
        /\ UNCHANGED <<op, errors, cache, evicted>>
     \/ /\ used[f] \notin valid \/ sess[f] \notin alive
        /\ ProbeFails(f)
        /\ IF op[f] = "routers" /\ kind = "legacy" /\ used[f] \in valid
             THEN Uncache ELSE UNCHANGED <<cache, evicted>>
        /\ UNCHANGED errors
     \/ /\ SomethingFails
        /\ ProbeFails(f)
        /\ UNCHANGED <<cache, evicted>>
  /\ UNCHANGED <<kind, login, token, lock, cert, certLock, used, minted, again, sess, dials,
                 refresher, tokens, valid, under, alive, alone>>

\* Fault: the refreshed session is written over whatever is there.
RecacheBlind(s) == cache' = s /\ evicted' = evicted \cup ({cache} \ {0, s})

\* recache_refreshed_dial_session: s with its routers renewed takes the place
\* of s, and of nothing else.
Recache(s) ==
  /\ cache' = IF cache = s THEN s ELSE cache
  /\ UNCHANGED evicted

\* The session lives: the flow returns the error of its first dial, or opens its
\* channel if there are edge routers now.
RecacheAlive(f) ==
  /\ pc[f] = "recache"
  /\ Recache(sess[f])
  /\ op' = [op EXCEPT ![f] = "resolve"]
  /\ \/ Goto(f, IF op[f] = "routers" THEN "pool" ELSE "failed") /\ UNCHANGED errors
     \/ op[f] = "routers" /\ SomethingFails /\ Goto(f, AfterFailedDial(f))
  /\ UNCHANGED <<kind, login, token, lock, cert, certLock, used, minted, again, sess, dials,
                 refresher, tokens, valid, under, alive, alone>>

\* evict_dial_session, whatever is there; a second dial follows the first.
Evict(f) ==
  /\ pc[f] = "evict"
  /\ Uncache
  /\ Goto(f, IF dials[f] = 1 THEN "lookup" ELSE "failed")
  /\ dials' = [dials EXCEPT ![f] = 2]
  /\ UNCHANGED <<kind, login, token, lock, cert, certLock, used, minted, op, again, sess,
                 refresher, controller, alone>>

\* The connect timeout drops the flow where it awaits; locks are let go.
Cancel(f) ==
  /\ f \in Cancels
  /\ pc[f] \in {"holder", "request", "certminted", "insert", "dial", "probing", "recache",
                "gate", "auth", "store", "certgate"}
  /\ Goto(f, "cancelled")
  /\ lock' = IF lock = f THEN "none" ELSE lock
  /\ LetGo(f)
  /\ UNCHANGED <<kind, login, token, cache, cert, used, minted, flow, refresher, controller, history>>

----------------------------------------------------------------------------
(* do_reauthenticate, and do_oidc_session_refresh, which clears nothing.   *)

\* It is done, or was not needed: a flow tries once more, a timer sleeps.
ReauthOk(a) ==
  /\ pc' = [pc EXCEPT ![a] = IF a \in Flows THEN "op" ELSE IF a = "timer" THEN "sleep" ELSE "idle"]
  /\ again' = IF a \in Flows THEN [again EXCEPT ![a] = TRUE] ELSE again

\* Fault: no look at the token after the lock is taken.
GateUnchecked(a) ==
  /\ pc[a] = "gate" /\ lock = "none"
  /\ IF kind = "parked"
       THEN ReauthOk(a) /\ UNCHANGED lock
       ELSE lock' = a /\ Goto(a, "auth") /\ UNCHANGED again
  /\ UNCHANGED <<kind, login, token, cache, cert, certLock, used, minted, op, sess, dials,
                 refresher, controller, history>>

\* Take the lock; go on only if the token is still the one that was refused.
Gate(a) ==
  /\ pc[a] = "gate" /\ lock = "none"
  /\ IF token # used[a] \/ kind = "parked"
       THEN ReauthOk(a) /\ UNCHANGED lock
       ELSE lock' = a /\ Goto(a, "auth") /\ UNCHANGED again
  /\ UNCHANGED <<kind, login, token, cache, cert, certLock, used, minted, op, sess, dials,
                 refresher, controller, history>>

\* POST /authenticate, or the token exchange.
Authenticate(a) ==
  /\ pc[a] = "auth" /\ tokens < MaxTokens
  /\ tokens' = tokens + 1
  /\ valid' = valid \cup {tokens'}
  /\ minted' = [minted EXCEPT ![a] = tokens']
  /\ Goto(a, "store")
  /\ UNCHANGED <<client, used, flow, refresher, under, alive, errors, history>>

\* It fails: with_reauth_retry returns the 401 it began with.
AuthenticateErr(a) ==
  /\ pc[a] = "auth"
  /\ SomethingFails \/ (tokens = MaxTokens /\ UNCHANGED errors)
  /\ lock' = "none"
  /\ IF a \in Flows THEN OpFails(a) ELSE Goto(a, IF a = "timer" THEN "sleep" ELSE "idle")
  /\ UNCHANGED <<kind, login, token, cache, cert, certLock, used, minted, flow, refresher,
                 tokens, valid, under, alive, history>>

Store(a) ==
  /\ pc[a] = "store"
  /\ token' = minted[a]
  /\ IF kind = "legacy" THEN Goto(a, "clear") /\ UNCHANGED <<lock, again>>
                        ELSE ReauthOk(a) /\ lock' = "none"
  /\ UNCHANGED <<kind, login, cache, cert, certLock, used, minted, op, sess, dials, refresher,
                 controller, history>>

\* dial_sessions.clear(): all were minted under the api session that is gone.
Clear(a) ==
  /\ pc[a] = "clear"
  /\ Uncache
  /\ IF login = "updb" THEN Goto(a, "certgate") /\ UNCHANGED <<lock, again>>
                       ELSE ReauthOk(a) /\ lock' = "none"
  /\ UNCHANGED <<kind, login, token, cert, certLock, used, minted, op, sess, dials, refresher,
                 controller, alone>>

\* holder.lock().await.invalidate().
Invalidate(a) ==
  /\ pc[a] = "certgate" /\ certLock = "none"
  /\ cert' = 0 /\ lock' = "none"
  /\ ReauthOk(a)
  /\ UNCHANGED <<kind, login, token, cache, certLock, used, minted, op, sess, dials, refresher,
                 controller, history>>

----------------------------------------------------------------------------
(* run_refreshes, and EdgeClient::refresh, which only a legacy session     *)
(* enters by do_refresh_get.  The controller returns the token it was asked*)
(* about, with a later expiry.                                             *)

TimerWake ==
  /\ "timer" \in Events /\ pc["timer"] = "sleep" /\ kind # "parked"
  /\ used' = [used EXCEPT !["timer"] = token]
  /\ Goto("timer", IF kind = "legacy" THEN "get" ELSE "gate")
  /\ UNCHANGED <<client, minted, flow, refresher, controller, history>>

UserRefresh ==
  /\ "refresh" \in Events /\ pc["user"] = "idle" /\ InFlight = {}
  /\ used' = [used EXCEPT !["user"] = token]
  /\ Goto("user", IF kind = "legacy" THEN "get" ELSE "gate")
  /\ UNCHANGED <<client, minted, flow, refresher, controller, history>>

\* GET /current-api-session: the timer re-authenticates at a 401.
Get(a) ==
  /\ pc[a] = "get"
  /\ \/ used[a] \in valid /\ Goto(a, "getstore") /\ UNCHANGED errors
     \/ used[a] \notin valid /\ Goto(a, IF a = "timer" THEN "gate" ELSE "idle") /\ UNCHANGED errors
     \/ SomethingFails /\ Goto(a, IF a = "timer" THEN "sleep" ELSE "idle")
  /\ UNCHANGED <<client, used, minted, flow, refresher, tokens, valid, under, alive, history>>

\* Fault: the refreshed token is stored without a look at the current one.
GuardedStoreUnguarded ==
  /\ pc["timer"] = "getstore" /\ lock = "none"
  /\ token' = used["timer"]
  /\ Goto("timer", "sleep")
  /\ UNCHANGED <<kind, login, lock, cache, cert, certLock, used, minted, flow, refresher,
                 controller, history>>

\* guarded_store_refresh: under the lock, and only over the token it used.
GuardedStore ==
  /\ pc["timer"] = "getstore" /\ lock = "none"
  /\ token' = IF token = used["timer"] THEN used["timer"] ELSE token
  /\ Goto("timer", "sleep")
  /\ UNCHANGED <<kind, login, lock, cache, cert, certLock, used, minted, flow, refresher,
                 controller, history>>

\* set_token_and_expiry: refresh() asks neither the lock nor the token.
UserStore ==
  /\ pc["user"] = "getstore"
  /\ token' = used["user"]
  /\ Goto("user", "idle")
  /\ UNCHANGED <<kind, login, lock, cache, cert, certLock, used, minted, flow, refresher,
                 controller, history>>

----------------------------------------------------------------------------
(* session_refresh_tick, and the service poll.                             *)

TickElsewhere == <<actors, flow, tokens, valid, under, alive>>

TickStart ==
  /\ "tick" \in Events /\ tick = "sleep"
  /\ tickToken' = token /\ tick' = "snapshot"
  /\ UNCHANGED <<client, snap, errors, history, TickElsewhere>>

TickSnapshot ==
  /\ tick = "snapshot"
  /\ snap' = cache
  /\ tick' = IF cache = 0 THEN "sleep" ELSE "probe"
  /\ UNCHANGED <<client, tickToken, errors, history, TickElsewhere>>

\* Fault: any error of the controller proves the session dead.
ProvenDeadAnyError == tickToken \notin valid \/ snap \notin alive

\* is_proven_dead: a 404 to a legacy session, which a 401 precludes.
ProvenDead == kind = "legacy" /\ tickToken \in valid /\ snap \notin alive

TickProbe ==
  /\ tick = "probe"
  /\ \/ tickToken \in valid /\ snap \in alive /\ tick' = "recache" /\ UNCHANGED errors
     \/ ProvenDead /\ tick' = "purge" /\ UNCHANGED errors
     \/ /\ ~ProvenDead /\ (tickToken \notin valid \/ snap \notin alive)
        /\ tick' = "sleep" /\ UNCHANGED errors
     \/ SomethingFails /\ tick' = "sleep"
  /\ UNCHANGED <<client, tickToken, snap, history, TickElsewhere>>

TickRecache ==
  /\ tick = "recache"
  /\ Recache(snap)
  /\ tick' = "sleep"
  /\ UNCHANGED <<kind, login, token, lock, cert, certLock, tickToken, snap, errors, alone,
                 TickElsewhere>>

\* evict_dead_dial_session: only if it is still the session of the snapshot.
TickPurge ==
  /\ tick = "purge"
  /\ IF cache = snap THEN Uncache ELSE UNCHANGED <<cache, evicted>>
  /\ tick' = "sleep"
  /\ UNCHANGED <<kind, login, token, lock, cert, certLock, tickToken, snap, errors, alone,
                 TickElsewhere>>

\* store_and_process_free: the service is gone from the list.
ServiceRemoved ==
  /\ "removed" \in Events /\ cache # 0
  /\ Uncache
  /\ UNCHANGED <<kind, login, token, lock, cert, certLock, actors, flow, refresher, controller, alone>>

(* The controller.                                                         *)

\* The dial sessions of a legacy api session end with it.
ExpireToken(t) ==
  /\ "expire" \in Events /\ t \in valid /\ t < MaxTokens
  /\ valid' = valid \ {t}
  /\ alive' = IF kind = "legacy" THEN {s \in alive : under[s] # t} ELSE alive
  /\ UNCHANGED <<client, actors, flow, refresher, tokens, under, errors, history>>

DeleteSession(s) ==
  /\ "delete" \in Events /\ s \in alive
  /\ SomethingFails
  /\ alive' = alive \ {s}
  /\ UNCHANGED <<client, actors, flow, refresher, tokens, valid, under, history>>

----------------------------------------------------------------------------
Await(a) == Gate(a) \/ Invalidate(a)
Reauthenticate(a) == Authenticate(a) \/ AuthenticateErr(a) \/ Store(a) \/ Clear(a)

FlowStep(f) ==
  \/ ReadToken(f) \/ Accepted(f) \/ Unauthorized(f) \/ RequestErr(f) \/ CertStored(f)
  \/ Lookup(f) \/ Insert(f) \/ Open(f) \/ Pool(f) \/ Dial(f) \/ ProbeStart(f) \/ Probe(f)
  \/ RecacheAlive(f) \/ Evict(f)

Refresh == Get("timer") \/ Get("user") \/ GuardedStore \/ UserStore
Tick == TickSnapshot \/ TickProbe \/ TickRecache \/ TickPurge

Next ==
  \/ \E f \in Flows : Start(f) \/ FlowStep(f) \/ Holder(f) \/ Cancel(f)
  \/ \E a \in Actors : Await(a) \/ Reauthenticate(a)
  \/ TimerWake \/ UserRefresh \/ Refresh
  \/ TickStart \/ Tick \/ ServiceRemoved
  \/ \E t \in Tokens : ExpireToken(t)
  \/ \E s \in Sessions : DeleteSession(s)

Spec == Init /\ [][Next]_vars

\* Requests are answered, or time out; tasks are polled; and the locks, which
\* are tokio mutexes, are handed out in the order in which they are asked for.
FairSpec ==
  /\ Spec
  /\ \A f \in Flows : WF_vars(FlowStep(f)) /\ SF_vars(Holder(f))
  /\ \A a \in Actors : WF_vars(Reauthenticate(a)) /\ SF_vars(Await(a))
  /\ WF_vars(Refresh)

----------------------------------------------------------------------------
(* Safety.                                                                 *)

\* conn/retry.rs: a session that was taken out of the cache never comes back,
\* by the tick or by a probe that took it for alive before it was evicted.
NoResurrection == cache \notin evicted

\* At most one re-authentication per token: whoever is about to authenticate,
\* or to store what it got, does it for the token that is still current, so
\* that concurrent 401s collapse to one request.
OneReauthPerToken ==
  \A a \in Actors : pc[a] \in {"auth", "store"} => used[a] = token

\* A connect with no other beside it survives the expiry of a legacy api session
\* wherever it strikes: if nothing else goes wrong, it does not fail.  (A session
\* of an OIDC login outlives its token.  If the token expires under the probe for
\* edge routers, and the timer exchanges it before the second probe, that one
\* finds the session alive and the connect returns the 401 of the first.)
ExpiryRecovered ==
  \A f \in alone :
    /\ pc[f] = "failed" /\ errors = 0 /\ kind = "legacy"
    /\ Cardinality((1..tokens) \ valid) <= 1
    => \E g \in Flows : pc[g] = "cancelled"

(* Action properties.                                                      *)

\* A token is never replaced by an older one: the answer to a refresh that was
\* overtaken by a re-authentication does not bring the old token back.
TokenNeverBack == [][token' >= token]_vars

\* The tick takes out of the cache only what does not exist any more, though
\* it reads the token, the cache and the controller at three different times.
PurgeOnlyDead == [][tick = "purge" /\ tick' = "sleep" /\ cache' # cache => cache \notin alive]_vars

(* Liveness, under FairSpec.                                               *)

\* No connect waits for ever on another's lock: the certificate's lock is let
\* go before reauth_lock is asked for.
FlowEnds == \A f \in Flows : pc[f] # "idle" ~> pc[f] \in Ended
=============================================================================
