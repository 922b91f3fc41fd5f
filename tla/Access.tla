--------------------------------- MODULE Access ---------------------------------
(***************************************************************************)
(* API keys and what they authorise: the rows (db/models.py,               *)
(* db/repositories.py), the dependencies of the REST endpoints             *)
(* (auth/dependencies.py, api/routes.py), the control socket (api/ws.py),  *)
(* the command line (auth/cli.py) and a restart of the API process         *)
(* (api/app.py).                                                           *)
(*                                                                         *)
(* The handlers are tasks of one event loop and give way at every query,   *)
(* commit and receive; a step of an actor is what it does between two of   *)
(* these.  A row that was read is kept (expire_on_commit is False) and is  *)
(* not read again, neither by the request nor by the socket.               *)
(*                                                                         *)
(* Only the endpoints with an effect are modelled.  Whether the limiter    *)
(* admits a command is left open (RateLimiter has its rule).               *)
(***************************************************************************)
EXTENDS FiniteSets

CONSTANTS
  Keys,      \* the keys that are ever made
  Scopes,    \* the scopes each is made with
  Expiring,  \* the keys made with an expires_at
  Requests,  \* bound on the REST requests in progress
  Sockets    \* bound on the control sockets

Actors == Requests \cup Sockets

ASSUME AccessAssumption ==
  /\ Scopes \in [Keys -> SUBSET {"read", "write", "admin"}]
  /\ Expiring \subseteq Keys
  /\ Requests \cap Sockets = {}

\* The scope each endpoint requires.
Needs == [command |-> "write", create |-> "admin", revoke |-> "admin"]

VARIABLES
  row,      \* api_keys, per key: "absent", "active" or "revoked"
  expired,  \* the keys whose expires_at is past
  request,  \* per request: [stage, key, endpoint, target, active]
  socket,   \* per socket: [stage, key, active, write]
  effect,   \* what this step brought about: [by, key, endpoint], or NoEffect
  holders   \* history, per key no longer valid: the actors that passed its check
            \* before it ended and are still there

vars == <<row, expired, request, socket, effect, holders>>

NoEffect == [by |-> "nobody", key |-> "none", endpoint |-> "none"]

FreeRequest == [stage |-> "free", key |-> "none", endpoint |-> "none",
                target |-> "none", active |-> FALSE]
FreeSocket == [stage |-> "free", key |-> "none", active |-> FALSE, write |-> FALSE]

Init ==
  /\ row = [k \in Keys |-> "absent"]
  /\ expired = {}
  /\ request = [r \in Requests |-> FreeRequest]
  /\ socket = [s \in Sockets |-> FreeSocket]
  /\ effect = NoEffect
  /\ holders = [k \in Keys |-> {}]

-----------------------------------------------------------------------------
(***************************************************************************)
(* Rows                                                                    *)
(***************************************************************************)
IsPresent(k) == row[k] # "absent"
IsActiveOrRevoked(k) == IsPresent(k)
IsActive(k)  == row[k] = "active"
\* For the history and the property: a key that is in force.
Valid(k) == row[k] = "active" /\ k \notin expired

\* The actors that have read the row of k as an active one: a revocation is too
\* late for all of them, the clock only for those past the comparison.
Reading(k)  == {r \in Requests : request[r].key = k /\ request[r].active}
                 \cup {s \in Sockets : socket[s].key = k /\ socket[s].active}
PastCheck(k) == {a \in Reading(k) :
                   IF a \in Requests THEN request[a].stage # "found"
                   ELSE socket[a].stage = "open"}

Create(k) == row' = [row EXCEPT ![k] = "active"]

RevokeRow(k) == row' = [row EXCEPT ![k] = "revoked"]

HoldersAtRevoke(k) == IF Valid(k) THEN [holders EXCEPT ![k] = Reading(k)] ELSE holders

\* Time passes expires_at.
Expire(k) ==
  /\ k \in Expiring \ expired /\ IsPresent(k)
  /\ expired' = expired \cup {k}
  /\ holders' = IF Valid(k) THEN [holders EXCEPT ![k] = PastCheck(k)] ELSE
                [holders EXCEPT ![k] = @ \cap PastCheck(k)]
  /\ effect' = NoEffect
  /\ UNCHANGED <<row, request, socket>>

\* auth/cli.py, on the server and without a key.
CliCreate(k) ==
  /\ row[k] = "absent"
  /\ Create(k)
  /\ effect' = NoEffect
  /\ UNCHANGED <<expired, request, socket, holders>>

CliRevoke(k) ==
  /\ IsPresent(k)
  /\ RevokeRow(k)
  /\ holders' = HoldersAtRevoke(k)
  /\ effect' = NoEffect
  /\ UNCHANGED <<expired, request, socket>>

-----------------------------------------------------------------------------
(***************************************************************************)
(* REST requests                                                           *)
(***************************************************************************)
Gone(a) == holders' = [k \in Keys |-> holders[k] \ {a}]

Answer(r) ==
  /\ request' = [request EXCEPT ![r] = FreeRequest]
  /\ Gone(r)

Proceed(r, stage) ==
  /\ request' = [request EXCEPT ![r].stage = stage]
  /\ UNCHANGED holders

Send(r, k, endpoint, target) ==
  /\ request[r].stage = "free"
  /\ request' = [request EXCEPT ![r] = [stage |-> "sent", key |-> k, endpoint |-> endpoint,
                                        target |-> target, active |-> FALSE]]
  /\ effect' = NoEffect
  /\ UNCHANGED <<row, expired, socket, holders>>

\* get_by_hash: 401 for an unknown key, 500 when the database fails.
Lookup(r) ==
  /\ request[r].stage = "sent"
  /\ \/ /\ IsPresent(request[r].key)
        /\ request' = [request EXCEPT ![r].stage = "found",
                                      ![r].active = IsActive(request[r].key)]
        /\ UNCHANGED holders
     \/ Answer(r)
  /\ effect' = NoEffect
  /\ UNCHANGED <<row, expired, socket>>

\* The row that was read is active and, by the clock of now, not expired: touch it.
Admit(r) ==
  /\ request[r].stage = "found"
  /\ IF request[r].active /\ request[r].key \notin expired
     THEN Proceed(r, "touched")
     ELSE Answer(r)
  /\ effect' = NoEffect
  /\ UNCHANGED <<row, expired, socket>>

\* The session commits, or fails although a failed touch is forgiven; then
\* require_scope.
AuthoriseAny(r) ==
  /\ request[r].stage = "touched"
  /\ Proceed(r, IF request[r].endpoint = "command" THEN "limit" ELSE "granted")
  /\ effect' = NoEffect
  /\ UNCHANGED <<row, expired, socket>>
Authorise(r) ==
  /\ request[r].stage = "touched"
  /\ \/ /\ Needs[request[r].endpoint] \in Scopes[request[r].key]
        /\ Proceed(r, IF request[r].endpoint = "command" THEN "limit" ELSE "granted")
     \/ Answer(r)
  /\ effect' = NoEffect
  /\ UNCHANGED <<row, expired, socket>>

\* enforce_rate_limit, a dependency of the commands only, runs in a thread.
Limit(r) ==
  /\ request[r].stage = "limit"
  /\ Proceed(r, "granted") \/ Answer(r)
  /\ effect' = NoEffect
  /\ UNCHANGED <<row, expired, socket>>

Effect(r) == effect' = [by |-> r, key |-> request[r].key, endpoint |-> request[r].endpoint]

\* The handlers.  POST /mode and POST /command stand behind the same checks.
HandleCommand(r) ==
  /\ request[r].endpoint = "command"
  /\ Effect(r)
  /\ UNCHANGED row
  /\ Gone(r)

\* A key made here has no expires_at.
HandleCreate(r) ==
  /\ request[r].endpoint = "create" /\ row[request[r].target] = "absent"
  /\ request[r].target \notin Expiring
  /\ Effect(r)
  /\ Create(request[r].target)
  /\ Gone(r)

HandleRevoke(r) ==
  /\ request[r].endpoint = "revoke" /\ IsPresent(request[r].target)
  /\ Effect(r)
  /\ RevokeRow(request[r].target)
  /\ holders' = [k \in Keys |-> HoldersAtRevoke(request[r].target)[k] \ {r}]

\* 404, or the database fails.
HandleFails(r) ==
  /\ request[r].endpoint # "command"
  /\ effect' = NoEffect
  /\ UNCHANGED row
  /\ Gone(r)

Handle(r) ==
  /\ request[r].stage = "granted"
  /\ request' = [request EXCEPT ![r] = FreeRequest]
  /\ HandleCommand(r) \/ HandleCreate(r) \/ HandleRevoke(r) \/ HandleFails(r)
  /\ UNCHANGED <<expired, socket>>

-----------------------------------------------------------------------------
(***************************************************************************)
(* Control sockets                                                         *)
(***************************************************************************)
Connect(s, k) ==
  /\ socket[s].stage = "free"
  /\ socket' = [socket EXCEPT ![s] = [stage |-> "sent", key |-> k, active |-> FALSE,
                                      write |-> FALSE]]
  /\ effect' = NoEffect
  /\ UNCHANGED <<row, expired, request, holders>>

Close(s) ==
  /\ socket' = [socket EXCEPT ![s] = FreeSocket]
  /\ Gone(s)

\* The row is read and the session committed; any failure closes with 4001.
SocketLookup(s) ==
  /\ socket[s].stage = "sent"
  /\ \/ /\ IsPresent(socket[s].key)
        /\ socket' = [socket EXCEPT ![s].stage = "found",
                                    ![s].active = IsActive(socket[s].key)]
        /\ UNCHANGED holders
     \/ Close(s)
  /\ effect' = NoEffect
  /\ UNCHANGED <<row, expired, request>>

Accept(s) ==
  /\ socket[s].stage = "found"
  /\ IF socket[s].active /\ socket[s].key \notin expired
     THEN /\ socket' = [socket EXCEPT ![s].stage = "open",
                                      ![s].write = "write" \in Scopes[socket[s].key]]
          /\ UNCHANGED holders
     ELSE Close(s)
  /\ effect' = NoEffect
  /\ UNCHANGED <<row, expired, request>>

\* set_mode and command; anything else, or a command without the scope, is
\* answered and changes nothing.
Message(s) ==
  /\ socket[s].stage = "open" /\ socket[s].write
  /\ effect' = [by |-> s, key |-> socket[s].key, endpoint |-> "command"]
  /\ UNCHANGED <<row, expired, request, socket, holders>>

\* The peer leaves, or an exception ends the handler.
Disconnect(s) ==
  /\ socket[s].stage = "open"
  /\ Close(s)
  /\ effect' = NoEffect
  /\ UNCHANGED <<row, expired, request>>

-----------------------------------------------------------------------------
\* The API process ends and starts: what it held is gone, the rows are not.
Restart ==
  /\ request' = [r \in Requests |-> FreeRequest]
  /\ socket' = [s \in Sockets |-> FreeSocket]
  /\ holders' = [k \in Keys |-> {}]
  /\ effect' = NoEffect
  /\ UNCHANGED <<row, expired>>

RequestStep(r) ==
  \/ \E k \in Keys : Send(r, k, "command", "none")
  \/ \E k, target \in Keys, endpoint \in {"create", "revoke"} : Send(r, k, endpoint, target)
  \/ Lookup(r) \/ Admit(r) \/ Authorise(r) \/ Limit(r) \/ Handle(r)

SocketStep(s) ==
  \/ \E k \in Keys : Connect(s, k)
  \/ SocketLookup(s) \/ Accept(s) \/ Message(s) \/ Disconnect(s)

Next ==
  \/ \E k \in Keys : Expire(k) \/ CliCreate(k) \/ CliRevoke(k)
  \/ \E r \in Requests : RequestStep(r)
  \/ \E s \in Sockets : SocketStep(s)
  \/ Restart

Spec == Init /\ [][Next]_vars

-----------------------------------------------------------------------------
(***************************************************************************)
(* Properties                                                              *)
(***************************************************************************)
\* dependencies.py:3-8, ws.py:8-10: whatever a key brings about, through whichever
\* channel, it has the scope for; and it was made before.
EffectsAuthorised ==
  effect # NoEffect =>
    /\ row[effect.key] # "absent"
    /\ Needs[effect.endpoint] \in Scopes[effect.key]

\* A revoked or expired key brings about nothing more, but through the requests
\* and sockets that had passed its check before it ended and have lived on since:
\* each such request at most once, such a socket until it closes, and none after
\* a restart.
EndedKeysHaveNoEffect ==
  [][/\ effect' # NoEffect
     /\ row[effect'.key] # "absent" /\ ~ Valid(effect'.key)
     => /\ effect'.by \in holders[effect'.key]
        /\ effect'.by \in Requests => effect'.by \notin holders'[effect'.key]]_vars

-----------------------------------------------------------------------------
RequestType ==
  [stage : {"free", "sent", "found", "touched", "limit", "granted"},
   key : Keys \cup {"none"}, endpoint : DOMAIN Needs \cup {"none"},
   target : Keys \cup {"none"}, active : BOOLEAN]
SocketType ==
  [stage : {"free", "sent", "found", "open"}, key : Keys \cup {"none"},
   active : BOOLEAN, write : BOOLEAN]

\* Each stage of a request, and of a socket, carries what the checks before it
\* established.
TypeInv ==
  /\ row \in [Keys -> {"absent", "active", "revoked"}]
  /\ expired \subseteq Expiring /\ \A k \in expired : IsPresent(k)
  /\ request \in [Requests -> RequestType]
  /\ socket \in [Sockets -> SocketType]
  /\ holders \in [Keys -> SUBSET Actors]

RequestInv ==
  \A r \in Requests : LET q == request[r] IN
    /\ q.stage # "free" => q.key \in Keys /\ q.endpoint \in DOMAIN Needs
    /\ q.stage # "free" /\ q.endpoint # "command" => q.target \in Keys
    /\ q.stage \notin {"free", "sent"} => IsPresent(q.key)
    /\ q.stage \in {"free", "sent"} => ~ q.active
    /\ q.stage \in {"touched", "limit", "granted"} => q.active
    /\ q.stage \in {"limit", "granted"} => Needs[q.endpoint] \in Scopes[q.key]

SocketInv ==
  \A s \in Sockets : LET q == socket[s] IN
    /\ q.stage # "free" => q.key \in Keys
    /\ q.stage \in {"found", "open"} => IsPresent(q.key)
    /\ q.stage \in {"free", "sent"} => ~ q.active
    /\ q.stage = "open" => q.active
    /\ q.write => q.stage = "open" /\ "write" \in Scopes[q.key]

\* Of a key that has ended, every actor past its check is a holder, and while it
\* has not expired also every actor about to make it on a row read as active.
HolderInv ==
  \A k \in Keys : IsPresent(k) /\ ~ Valid(k) =>
    /\ PastCheck(k) \subseteq holders[k]
    /\ k \notin expired => Reading(k) \subseteq holders[k]

=============================================================================
