----------------------------- MODULE Access_proofs -----------------------------
(***************************************************************************)
(* Theorems about Access for any keys, scopes, requests and sockets.       *)
(***************************************************************************)
EXTENDS Access, TLAPS

AccessInv == TypeInv /\ RequestInv /\ SocketInv

\* A row that was made stays: it can be revoked and made no other way.
LEMMA RowsStay ==
  ASSUME TypeInv, [Next]_vars, NEW k \in Keys, IsPresent(k)
  PROVE  IsPresent(k)'
<1> USE DEF IsPresent, TypeInv
<1>1. ASSUME NEW x \in Keys, Expire(x) \/ CliCreate(x) \/ CliRevoke(x) PROVE IsPresent(k)'
  BY <1>1 DEF Expire, CliCreate, CliRevoke, Create, RevokeRow
<1>2. ASSUME NEW r \in Requests, Handle(r) PROVE IsPresent(k)'
  BY <1>2 DEF Handle, HandleCommand, HandleCreate, HandleRevoke, HandleFails, Create, RevokeRow
<1>3. ASSUME NEW r \in Requests, RequestStep(r), ~ Handle(r) PROVE UNCHANGED row
  BY <1>3 DEF RequestStep, Send, Lookup, Admit, Authorise, Limit
<1>4. ASSUME NEW s \in Sockets, SocketStep(s) PROVE UNCHANGED row
  BY <1>4 DEF SocketStep, Connect, SocketLookup, Accept, Message, Disconnect
<1>5. CASE Restart \/ UNCHANGED vars
  BY <1>5 DEF Restart, vars
<1>6. QED
  BY <1>1, <1>2, <1>3, <1>4, <1>5 DEF Next

\* The records of a request and of a socket stay of their type.
LEMMA RequestRecords ==
  ASSUME NEW q \in RequestType, NEW b \in BOOLEAN,
         NEW stage \in {"free", "sent", "found", "touched", "limit", "granted"}
  PROVE  /\ FreeRequest \in RequestType
         /\ [q EXCEPT !.stage = stage] \in RequestType
         /\ [q EXCEPT !.stage = stage, !.active = b] \in RequestType
BY DEF RequestType, FreeRequest

LEMMA SocketRecords ==
  ASSUME NEW q \in SocketType, NEW b \in BOOLEAN,
         NEW stage \in {"free", "sent", "found", "open"}
  PROVE  /\ FreeSocket \in SocketType
         /\ [q EXCEPT !.stage = stage, !.active = b] \in SocketType
         /\ [q EXCEPT !.stage = stage, !.write = b] \in SocketType
BY DEF SocketType, FreeSocket

LEMMA InitAccess == Init => AccessInv
<1> SUFFICES ASSUME Init PROVE AccessInv
  OBVIOUS
<1>1. TypeInv
  BY DEF Init, TypeInv, RequestType, SocketType, FreeRequest, FreeSocket
<1>2. RequestInv /\ SocketInv
  BY DEF Init, RequestInv, SocketInv, FreeRequest, FreeSocket
<1>3. QED
  BY <1>1, <1>2 DEF AccessInv

\* A step of the rows, or a restart.
LEMMA RowSteps ==
  ASSUME AccessAssumption, AccessInv,
         \/ \E k \in Keys : Expire(k) \/ CliCreate(k) \/ CliRevoke(k)
         \/ Restart
         \/ UNCHANGED vars
  PROVE  AccessInv'
<1> USE DEF AccessInv
<1>1. ASSUME NEW k \in Keys, Expire(k) PROVE AccessInv'
  <2>1. TypeInv'
    BY <1>1 DEF Expire, TypeInv, IsPresent, PastCheck, Reading, Valid, Actors
  <2>2. RequestInv' /\ SocketInv'
    BY <1>1 DEF Expire, RequestInv, SocketInv, IsPresent
  <2>3. QED
    BY <2>1, <2>2
<1>2. ASSUME NEW k \in Keys, CliCreate(k) PROVE AccessInv'
  <2>1. TypeInv'
    BY <1>2 DEF CliCreate, Create, TypeInv, IsPresent
  <2>2. RequestInv' /\ SocketInv'
    BY <1>2, <2>1 DEF CliCreate, Create, RequestInv, SocketInv, IsPresent, TypeInv
  <2>3. QED
    BY <2>1, <2>2
<1>3. ASSUME NEW k \in Keys, CliRevoke(k) PROVE AccessInv'
  <2>1. TypeInv'
    BY <1>3 DEF CliRevoke, RevokeRow, HoldersAtRevoke, TypeInv, IsPresent, Reading, Actors
  <2>2. RequestInv' /\ SocketInv'
    BY <1>3, <2>1 DEF CliRevoke, RevokeRow, RequestInv, SocketInv, IsPresent, TypeInv
  <2>3. QED
    BY <2>1, <2>2
<1>4. CASE Restart
  BY <1>4 DEF Restart, TypeInv, RequestInv, SocketInv, FreeRequest, FreeSocket,
     RequestType, SocketType, IsPresent
<1>5. CASE UNCHANGED vars
  BY <1>5 DEF vars, TypeInv, RequestInv, SocketInv, IsPresent
<1>6. QED
  BY <1>1, <1>2, <1>3, <1>4, <1>5

\* A request moves on to a stage whose demands it meets, or is answered; the
\* rows, if it changes them, are kept and well typed.
LEMMA RequestMoves ==
  ASSUME AccessAssumption, AccessInv, NEW r \in Requests,
         request' = [request EXCEPT ![r] = FreeRequest] \/
           \E stage \in {"found", "touched", "limit", "granted"} :
             /\ request' = [request EXCEPT ![r].stage = stage]
             /\ request[r].stage \notin {"free", "sent"}
             /\ stage \in {"touched", "limit", "granted"} => request[r].active
             /\ stage \in {"limit", "granted"} =>
                  Needs[request[r].endpoint] \in Scopes[request[r].key],
         row' \in [Keys -> {"absent", "active", "revoked"}],
         \A k \in Keys : IsPresent(k) => IsPresent(k)',
         holders' \in [Keys -> SUBSET Actors],
         UNCHANGED <<expired, socket>>
  PROVE  AccessInv'
<1> USE DEF AccessInv
<1>1. TypeInv'
  <2>1. request' \in [Requests -> RequestType]
    <3>1. request[r] \in RequestType
      BY DEF TypeInv
    <3>2. PICK q \in RequestType : request' = [request EXCEPT ![r] = q]
      BY <3>1, RequestRecords
    <3>3. QED
      BY <3>2 DEF TypeInv
  <2>2. QED
    BY <2>1 DEF TypeInv, AccessAssumption, IsPresent
<1>2. RequestInv'
  BY DEF TypeInv, RequestType, RequestInv, FreeRequest
<1>3. SocketInv'
  BY DEF TypeInv, SocketInv
<1>4. QED
  BY <1>1, <1>2, <1>3

\* A step of a request.
LEMMA RequestSteps ==
  ASSUME AccessAssumption, AccessInv, [Next]_vars, NEW r \in Requests, RequestStep(r)
  PROVE  AccessInv'
<1> USE DEF AccessInv
<1>1. \A k \in Keys : IsPresent(k) => IsPresent(k)'
  BY RowsStay
<1>2. CASE \/ \E k \in Keys : Send(r, k, "command", "none")
           \/ \E k, target \in Keys, endpoint \in {"create", "revoke"} :
                Send(r, k, endpoint, target)
  <2>1. PICK k \in Keys, target \in Keys \cup {"none"}, endpoint \in DOMAIN Needs :
           Send(r, k, endpoint, target) /\ (endpoint # "command" => target \in Keys)
    BY <1>2 DEF Needs
  <2>2. TypeInv'
    BY <2>1 DEF Send, TypeInv, RequestType, IsPresent
  <2>3. RequestInv'
    BY <2>1 DEF Send, TypeInv, RequestInv, IsPresent
  <2>4. SocketInv'
    BY <2>1 DEF Send, SocketInv, IsPresent
  <2>5. QED
    BY <2>2, <2>3, <2>4
<1>3. CASE Lookup(r)
  <2>1. CASE Answer(r)
    BY <1>1, <1>3, <2>1, RequestMoves DEF Lookup, Answer, Gone, TypeInv
  <2>2. CASE ~ Answer(r)
    <3>1. /\ IsPresent(request[r].key) /\ request[r].stage = "sent"
          /\ request' = [request EXCEPT ![r].stage = "found",
                                        ![r].active = IsActive(request[r].key)]
          /\ UNCHANGED <<row, expired, socket, holders>>
      BY <1>3, <2>2 DEF Lookup
    <3>2. TypeInv'
      <4>1. IsActive(request[r].key) \in BOOLEAN
        BY DEF IsActive
      <4>2. request[r] \in RequestType
        BY DEF TypeInv
      <4>3. request' \in [Requests -> RequestType]
        BY <3>1, <4>1, <4>2, RequestRecords DEF TypeInv
      <4>4. UNCHANGED <<row, expired, socket, holders>>
        BY <3>1
      <4>5. QED
        BY <4>3, <4>4 DEF TypeInv, IsPresent
    <3>3. RequestInv'
      BY <3>1 DEF TypeInv, RequestInv, IsPresent, IsActive
    <3>4. QED
      BY <3>1, <3>2, <3>3 DEF SocketInv, IsPresent
  <2>3. QED
    BY <2>1, <2>2
<1>4. CASE Admit(r)
  BY <1>1, <1>4, RequestMoves DEF Admit, Proceed, Answer, Gone, TypeInv
<1>5. CASE Authorise(r)
  <2>1. request[r].active
    BY <1>5 DEF Authorise, RequestInv
  <2>2. QED
    BY <1>1, <1>5, <2>1, RequestMoves DEF Authorise, Proceed, Answer, Gone, TypeInv
<1>6. CASE Limit(r)
  <2>1. request[r].active /\ Needs[request[r].endpoint] \in Scopes[request[r].key]
    BY <1>6 DEF Limit, RequestInv
  <2>2. QED
    BY <1>1, <1>6, <2>1, RequestMoves DEF Limit, Proceed, Answer, Gone, TypeInv
<1>7. CASE Handle(r)
  <2>1. row' \in [Keys -> {"absent", "active", "revoked"}]
    BY <1>7 DEF Handle, HandleCommand, HandleCreate, HandleRevoke, HandleFails, Create,
       RevokeRow, TypeInv
  <2>2. holders' \in [Keys -> SUBSET Actors]
    BY <1>7 DEF Handle, HandleCommand, HandleCreate, HandleRevoke, HandleFails, Gone,
       HoldersAtRevoke, Reading, Actors, TypeInv
  <2>3. QED
    BY <1>1, <1>7, <2>1, <2>2, RequestMoves DEF Handle
<1>8. QED
  BY <1>2, <1>3, <1>4, <1>5, <1>6, <1>7 DEF RequestStep

\* A step of a socket.
LEMMA SocketSteps ==
  ASSUME AccessAssumption, AccessInv, NEW s \in Sockets, SocketStep(s)
  PROVE  AccessInv'
<1> USE DEF AccessInv
<1>1. UNCHANGED <<row, expired, request>>
  BY DEF SocketStep, Connect, SocketLookup, Accept, Message, Disconnect
<1>2. RequestInv'
  BY <1>1 DEF RequestInv, IsPresent
<1>3. TypeInv'
  <2>1. CASE Close(s) \/ UNCHANGED <<socket, holders>>
    <3>1. FreeSocket \in SocketType
      BY DEF FreeSocket, SocketType
    <3>2. QED
      BY <1>1, <2>1, <3>1 DEF Close, Gone, TypeInv, IsPresent
  <2>2. ASSUME NEW k \in Keys, Connect(s, k) PROVE TypeInv'
    <3>1. [stage |-> "sent", key |-> k, active |-> FALSE, write |-> FALSE] \in SocketType
      BY DEF SocketType
    <3>2. QED
      BY <1>1, <2>2, <3>1 DEF Connect, TypeInv, IsPresent
  <2>3. CASE SocketLookup(s) /\ ~ Close(s)
    <3>1. PICK b \in BOOLEAN :
            /\ UNCHANGED holders
            /\ socket' = [socket EXCEPT ![s].stage = "found", ![s].active = b]
      BY <2>3 DEF SocketLookup, IsActive
    <3>2. socket' \in [Sockets -> SocketType]
      BY <3>1, SocketRecords DEF TypeInv
    <3>3. QED
      BY <1>1, <3>1, <3>2 DEF TypeInv, IsPresent
  <2>4. CASE Accept(s) /\ ~ Close(s)
    <3>1. /\ UNCHANGED holders
          /\ socket' = [socket EXCEPT ![s].stage = "open",
                                      ![s].write = ("write" \in Scopes[socket[s].key])]
      BY <2>4 DEF Accept
    <3>2. ("write" \in Scopes[socket[s].key]) \in BOOLEAN
      OBVIOUS
    <3>3. [socket[s] EXCEPT !.stage = "open",
                            !.write = ("write" \in Scopes[socket[s].key])] \in SocketType
      BY <3>2, SocketRecords DEF TypeInv
    <3>4. QED
      BY <1>1, <3>1, <3>3 DEF TypeInv, IsPresent
  <2>5. QED
    BY <2>1, <2>2, <2>3, <2>4 DEF SocketStep, Message, Disconnect
<1>4. SocketInv'
  <2>1. CASE socket' = [socket EXCEPT ![s] = FreeSocket] \/ UNCHANGED socket
    BY <1>1, <2>1 DEF SocketInv, TypeInv, FreeSocket, IsPresent
  <2>2. ASSUME NEW k \in Keys, Connect(s, k) PROVE SocketInv'
    BY <1>1, <2>2 DEF Connect, SocketInv, TypeInv, IsPresent
  <2>3. CASE SocketLookup(s) /\ ~ Close(s)
    BY <1>1, <2>3 DEF SocketLookup, SocketInv, TypeInv, SocketType, IsPresent, IsActive
  <2>4. CASE Accept(s) /\ ~ Close(s)
    BY <1>1, <2>4 DEF Accept, SocketInv, TypeInv, SocketType, IsPresent
  <2>5. QED
    BY <2>1, <2>2, <2>3, <2>4 DEF SocketStep, Message, Disconnect, Close
<1>5. QED
  BY <1>2, <1>3, <1>4

LEMMA AccessKept ==
  ASSUME AccessAssumption, AccessInv, [Next]_vars
  PROVE  AccessInv'
BY RowSteps, RequestSteps, SocketSteps DEF Next

\* Whatever a key brings about, through whichever endpoint or channel and however
\* requests, revocations and restarts interleave, it has the scope for.
THEOREM OnlyAuthorisedEffects == Spec => []EffectsAuthorised
<1> USE AccessAssumption
<1>1. Init => EffectsAuthorised
  BY DEF Init, EffectsAuthorised
<1>2. ASSUME AccessInv, EffectsAuthorised, [Next]_vars PROVE EffectsAuthorised'
  <2> USE DEF EffectsAuthorised
  <2>1. ASSUME NEW r \in Requests, Handle(r) PROVE EffectsAuthorised'
    <3>1. PICK k \in Keys : /\ k = request[r].key /\ IsPresent(k)
                            /\ Needs[request[r].endpoint] \in Scopes[k]
      BY <1>2, <2>1 DEF AccessInv, RequestInv, Handle
    <3>2. IsPresent(k)'
      BY <1>2, <3>1, RowsStay DEF AccessInv
    <3>3. effect' = NoEffect \/ Effect(r)
      BY <2>1 DEF Handle, HandleCommand, HandleCreate, HandleRevoke, HandleFails
    <3>4. QED
      BY <3>1, <3>2, <3>3 DEF Effect, IsPresent
  <2>2. ASSUME NEW s \in Sockets, Message(s) PROVE EffectsAuthorised'
    BY <1>2, <2>2 DEF AccessInv, SocketInv, Message, Needs, IsPresent
  <2>3. CASE UNCHANGED vars
    BY <1>2, <2>3 DEF vars
  <2>4. CASE effect' = NoEffect
    BY <2>4
  <2>5. QED
    BY <1>2, <2>1, <2>2, <2>3, <2>4 DEF Next, Expire, CliCreate, CliRevoke, RequestStep,
       Send, Lookup, Admit, Authorise, Limit, SocketStep, Connect, SocketLookup, Accept,
       Disconnect, Restart
<1>3. Init => AccessInv
  BY InitAccess
<1>4. AccessInv /\ [Next]_vars => AccessInv'
  BY AccessKept
<1>5. QED
  BY <1>1, <1>2, <1>3, <1>4, PTL DEF Spec

-----------------------------------------------------------------------------
(***************************************************************************)
(* Keys that have ended.                                                   *)
(***************************************************************************)

\* A holder of an ended key stays one; so it is enough to follow, for one key and
\* one actor, how the actor came to hold a row of the key as active.
LEMMA HolderSteps ==
  ASSUME AccessAssumption, AccessInv, HolderInv, [Next]_vars
  PROVE  HolderInv'
<1> SUFFICES ASSUME NEW k \in Keys, IsPresent(k)', ~ Valid(k)',
                    NEW a \in Reading(k)', a \in PastCheck(k)' \/ k \notin expired'
             PROVE  a \in holders'[k]
  BY DEF HolderInv, PastCheck
<1> USE DEF AccessInv, AccessAssumption, Actors
<1>1. \/ a \in Requests /\ request'[a].key = k /\ request'[a].active
      \/ a \in Sockets /\ socket'[a].key = k /\ socket'[a].active
  BY DEF Reading
<1>2. ASSUME IsPresent(k), ~ Valid(k), a \in Reading(k), a \in PastCheck(k) \/ k \notin expired
      PROVE  a \in holders[k]
  BY <1>2 DEF HolderInv
<1>3. ASSUME NEW x \in Keys, Expire(x) PROVE a \in holders'[k]
  <2>1. UNCHANGED <<row, request, socket>> /\ expired' = expired \cup {x}
    BY <1>3 DEF Expire
  <2>2. Reading(k)' = Reading(k) /\ PastCheck(k)' = PastCheck(k) /\ IsPresent(k)
    BY <2>1 DEF Reading, PastCheck, IsPresent
  <2>3. CASE k # x
    BY <1>2, <1>3, <2>1, <2>2, <2>3 DEF Expire, Valid, TypeInv
  <2>4. CASE k = x
    BY <1>2, <1>3, <2>1, <2>2, <2>4 DEF Expire, TypeInv
  <2>5. QED
    BY <2>3, <2>4
<1>4. ASSUME NEW x \in Keys, CliCreate(x) PROVE a \in holders'[k]
  <2>1. k # x
    BY <1>4 DEF CliCreate, Create, Valid, TypeInv, IsPresent
  <2>2. row'[k] = row[k] /\ UNCHANGED <<expired, request, socket, holders>>
    BY <1>4, <2>1 DEF CliCreate, Create, TypeInv
  <2>3. Reading(k)' = Reading(k) /\ PastCheck(k)' = PastCheck(k)
    BY <2>2 DEF Reading, PastCheck
  <2>4. QED
    BY <1>2, <2>2, <2>3 DEF IsPresent, Valid
<1>5. ASSUME NEW x \in Keys, CliRevoke(x) PROVE a \in holders'[k]
  <2>1. UNCHANGED <<expired, request, socket>>
    BY <1>5 DEF CliRevoke
  <2>2. Reading(k)' = Reading(k) /\ PastCheck(k)' = PastCheck(k)
    BY <2>1 DEF Reading, PastCheck
  <2>3. CASE k = x /\ Valid(x)
    BY <1>5, <2>2, <2>3 DEF CliRevoke, HoldersAtRevoke, TypeInv
  <2>4. CASE k # x \/ ~ Valid(x)
    <3>1. holders'[k] = holders[k] /\ IsPresent(k) /\ ~ Valid(k)
      BY <1>5, <2>1, <2>4 DEF CliRevoke, RevokeRow, HoldersAtRevoke, IsPresent, Valid, TypeInv
    <3>2. QED
      BY <1>2, <2>1, <2>2, <3>1
  <2>5. QED
    BY <2>3, <2>4
<1>6. CASE Restart
  BY <1>1, <1>6 DEF Restart, FreeRequest, FreeSocket
<1>7. CASE UNCHANGED vars
  <2>1. UNCHANGED <<row, expired, request, socket, holders>>
    BY <1>7 DEF vars
  <2>2. Reading(k)' = Reading(k) /\ PastCheck(k)' = PastCheck(k)
    BY <2>1 DEF Reading, PastCheck
  <2>3. QED
    BY <1>2, <2>1, <2>2 DEF IsPresent, Valid
<1>8. ASSUME NEW r \in Requests, RequestStep(r), ~ Handle(r) PROVE a \in holders'[k]
  <2>1. UNCHANGED <<row, expired, socket>>
    BY <1>8 DEF RequestStep, Send, Lookup, Admit, Authorise, Limit
  <2>2. IsPresent(k) /\ ~ Valid(k)
    BY <2>1 DEF IsPresent, Valid
  <2>3. CASE a # r
    <3>1. a \in Requests => request'[a] = request[a]
      BY <1>8, <2>3 DEF RequestStep, Send, Lookup, Admit, Authorise, Limit, Answer, Proceed, TypeInv
    <3>2. a \in holders[k] => a \in holders'[k]
      BY <1>8, <2>3 DEF RequestStep, Send, Lookup, Admit, Authorise, Limit, Answer, Proceed,
         Gone, TypeInv
    <3>3. a \in Reading(k) /\ (a \in PastCheck(k)' => a \in PastCheck(k))
      BY <1>1, <2>1, <3>1 DEF Reading, PastCheck
    <3>4. QED
      BY <1>2, <2>1, <2>2, <3>2, <3>3
  <2>4. CASE a = r
    <3>1. request'[r].key = k /\ request'[r].active
      BY <1>1, <2>4
    <3>2. ~ Answer(r)
      BY <3>1 DEF Answer, FreeRequest, TypeInv
    <3>3. CASE Lookup(r)
      <4>1. /\ request[r].key = k
            /\ request'[r].stage = "found"
            /\ IsActive(k)
        BY <3>1, <3>2, <3>3 DEF Lookup, TypeInv, RequestType
      <4>2. k \in expired /\ a \notin PastCheck(k)'
        BY <2>2, <2>4, <4>1 DEF IsActive, Valid, PastCheck
      <4>3. QED
        BY <2>1, <4>2
    <3>4. CASE Admit(r)
      <4>1. /\ request[r].key = k /\ request[r].active /\ k \notin expired
            /\ UNCHANGED holders
        BY <3>1, <3>2, <3>4 DEF Admit, Proceed, TypeInv, RequestType
      <4>2. a \in Reading(k)
        BY <2>4, <4>1 DEF Reading
      <4>3. QED
        BY <1>2, <2>2, <4>1, <4>2
    <3>5. CASE Authorise(r) \/ Limit(r)
      <4>1. /\ request[r].key = k /\ request[r].active /\ request[r].stage # "found"
            /\ UNCHANGED holders
        BY <3>1, <3>2, <3>5 DEF Authorise, Limit, Proceed, TypeInv, RequestType
      <4>2. a \in Reading(k) /\ a \in PastCheck(k)
        BY <2>4, <4>1 DEF Reading, PastCheck
      <4>3. QED
        BY <1>2, <2>2, <4>1, <4>2
    <3>6. ~ (\E x, target \in Keys, endpoint \in DOMAIN Needs :
               Send(r, x, endpoint, target) \/ Send(r, x, endpoint, "none"))
      BY <3>1 DEF Send, TypeInv
    <3>7. QED
      BY <1>8, <3>3, <3>4, <3>5, <3>6 DEF RequestStep, Needs
  <2>5. QED
    BY <2>3, <2>4
<1>9. ASSUME NEW r \in Requests, Handle(r) PROVE a \in holders'[k]
  <2>1. UNCHANGED <<expired, socket>> /\ request' = [request EXCEPT ![r] = FreeRequest]
    BY <1>9 DEF Handle
  <2>2. a # r /\ (a \in Requests => request'[a] = request[a])
    BY <1>1, <2>1 DEF FreeRequest, TypeInv
  <2>3. a \in Reading(k) /\ (a \in PastCheck(k)' => a \in PastCheck(k))
    BY <1>1, <2>1, <2>2 DEF Reading, PastCheck
  <2>4. CASE HandleCommand(r) \/ HandleFails(r)
    BY <1>2, <2>1, <2>2, <2>3, <2>4 DEF HandleCommand, HandleFails, Gone, IsPresent, Valid, TypeInv
  <2>5. CASE HandleCreate(r)
    <3>1. request[r].target \in Keys
      BY <1>9, <2>5 DEF HandleCreate, Handle, RequestInv
    <3>2. k # request[r].target
      BY <2>1, <2>5, <3>1 DEF HandleCreate, Create, Valid, TypeInv
    <3>3. row'[k] = row[k]
      BY <2>5, <3>1, <3>2 DEF HandleCreate, Create, TypeInv
    <3>4. QED
      BY <1>2, <2>1, <2>2, <2>3, <2>5, <3>3 DEF HandleCreate, Gone, IsPresent, Valid, TypeInv
  <2>6. CASE HandleRevoke(r)
    <3>1. PICK target \in Keys : target = request[r].target
      BY <1>9, <2>6 DEF HandleRevoke, Handle, RequestInv
    <3>2. holders'[k] = HoldersAtRevoke(target)[k] \ {r} /\ row' = [row EXCEPT ![target] = "revoked"]
      BY <2>6, <3>1 DEF HandleRevoke, RevokeRow
    <3>3. CASE k = target /\ Valid(target)
      BY <2>2, <2>3, <3>2, <3>3 DEF HoldersAtRevoke, TypeInv
    <3>4. CASE k # target \/ ~ Valid(target)
      <4>1. HoldersAtRevoke(target)[k] = holders[k]
        BY <3>4 DEF HoldersAtRevoke, TypeInv
      <4>2. IsPresent(k) /\ ~ Valid(k)
        BY <2>1, <2>6, <3>1, <3>2, <3>4 DEF HandleRevoke, IsPresent, Valid, TypeInv
      <4>3. QED
        BY <1>2, <2>1, <2>2, <2>3, <3>2, <4>1, <4>2
    <3>5. QED
      BY <3>3, <3>4
  <2>7. QED
    BY <1>9, <2>4, <2>5, <2>6 DEF Handle
<1>10. ASSUME NEW s \in Sockets, SocketStep(s) PROVE a \in holders'[k]
  <2>1. UNCHANGED <<row, expired, request>>
    BY <1>10 DEF SocketStep, Connect, SocketLookup, Accept, Message, Disconnect
  <2>2. IsPresent(k) /\ ~ Valid(k)
    BY <2>1 DEF IsPresent, Valid
  <2>3. CASE a # s \/ UNCHANGED <<socket, holders>>
    <3>1. a \in Sockets => socket'[a] = socket[a]
      BY <1>10, <2>3 DEF SocketStep, Connect, SocketLookup, Accept, Message, Disconnect, Close,
         TypeInv
    <3>2. a \in holders[k] => a \in holders'[k]
      BY <1>10, <2>3 DEF SocketStep, Connect, SocketLookup, Accept, Message, Disconnect, Close,
         Gone, TypeInv
    <3>3. a \in Reading(k) /\ (a \in PastCheck(k)' => a \in PastCheck(k))
      BY <1>1, <2>1, <3>1 DEF Reading, PastCheck
    <3>4. QED
      BY <1>2, <2>1, <2>2, <3>2, <3>3
  <2>4. CASE a = s /\ ~ UNCHANGED <<socket, holders>>
    <3>1. socket'[s].key = k /\ socket'[s].active
      BY <1>1, <2>4
    <3>2. ~ Close(s)
      BY <3>1 DEF Close, FreeSocket, TypeInv
    <3>3. \A x \in Keys : ~ Connect(s, x)
      BY <3>1 DEF Connect, TypeInv
    <3>4. CASE SocketLookup(s)
      <4>1. /\ socket[s].key = k
            /\ socket'[s].stage = "found"
            /\ IsActive(k)
        BY <3>1, <3>2, <3>4 DEF SocketLookup, TypeInv, SocketType
      <4>2. k \in expired /\ a \notin PastCheck(k)'
        BY <2>2, <2>4, <4>1 DEF IsActive, Valid, PastCheck
      <4>3. QED
        BY <2>1, <4>2
    <3>5. CASE Accept(s)
      <4>1. /\ socket[s].key = k /\ socket[s].active /\ k \notin expired
            /\ UNCHANGED holders
        BY <3>1, <3>2, <3>5 DEF Accept, TypeInv, SocketType
      <4>2. a \in Reading(k)
        BY <2>4, <4>1 DEF Reading
      <4>3. QED
        BY <1>2, <2>2, <4>1, <4>2
    <3>6. QED
      BY <1>10, <2>4, <3>2, <3>3, <3>4, <3>5 DEF SocketStep, Message, Disconnect
  <2>5. QED
    BY <2>3, <2>4
<1>11. QED
  BY <1>3, <1>4, <1>5, <1>6, <1>7, <1>8, <1>9, <1>10 DEF Next

LEMMA InitHolder == Init => HolderInv
BY DEF Init, HolderInv, IsPresent

\* A key that has ended brings about nothing, but through the requests and sockets
\* that had passed its check before: each request once, and none after a restart.
THEOREM EndedKeysAreInert == Spec => EndedKeysHaveNoEffect
<1> USE AccessAssumption
<1>1. ASSUME AccessInv, HolderInv, [Next]_vars,
             effect' # NoEffect, ~ UNCHANGED vars,
             row[effect'.key] # "absent", ~ Valid(effect'.key)
      PROVE  /\ effect'.by \in holders[effect'.key]
             /\ effect'.by \in Requests => effect'.by \notin holders'[effect'.key]
  <2> DEFINE k == effect'.key
  <2> USE <1>1 DEF AccessInv
  <2>1. ASSUME NEW r \in Requests, Handle(r)
        PROVE  effect'.by \in holders[k] /\ effect'.by \notin holders'[k]
    <3>1. effect' = [by |-> r, key |-> request[r].key, endpoint |-> request[r].endpoint]
      BY <2>1 DEF Handle, HandleCommand, HandleCreate, HandleRevoke, HandleFails, Effect
    <3>2. k = request[r].key /\ k \in Keys /\ effect'.by = r
      BY <2>1, <3>1 DEF Handle, RequestInv
    <3>3. r \in PastCheck(k)
      BY <2>1, <3>2 DEF Handle, RequestInv, PastCheck, Reading
    <3>4. r \in holders[k]
      BY <3>2, <3>3 DEF HolderInv, IsPresent
    <3>5. r \notin holders'[k]
      BY <2>1, <3>1, <3>2 DEF Handle, HandleCommand, HandleCreate, HandleRevoke, HandleFails,
         Gone, TypeInv
    <3>6. QED
      BY <3>2, <3>4, <3>5
  <2>2. ASSUME NEW s \in Sockets, Message(s)
        PROVE  effect'.by \in holders[k] /\ effect'.by \notin Requests
    <3>1. k = socket[s].key /\ k \in Keys /\ effect'.by = s
      BY <2>2 DEF Message, SocketInv
    <3>2. s \in PastCheck(k)
      BY <2>2, <3>1 DEF Message, SocketInv, PastCheck, Reading, AccessAssumption
    <3>3. QED
      BY <3>1, <3>2 DEF HolderInv, IsPresent, AccessAssumption
  <2>3. (\E r \in Requests : Handle(r)) \/ (\E s \in Sockets : Message(s))
    BY DEF Next, Expire, CliCreate, CliRevoke, RequestStep, Send, Lookup, Admit, Authorise,
       Limit, SocketStep, Connect, SocketLookup, Accept, Disconnect, Restart
  <2>4. QED
    BY <2>1, <2>2, <2>3
<1>2. AccessInv /\ HolderInv /\ [Next]_vars =>
        [/\ effect' # NoEffect
         /\ row[effect'.key] # "absent" /\ ~ Valid(effect'.key)
         => /\ effect'.by \in holders[effect'.key]
            /\ effect'.by \in Requests => effect'.by \notin holders'[effect'.key]]_vars
  BY <1>1
<1>3. Init => AccessInv /\ HolderInv
  BY InitAccess, InitHolder
<1>4. AccessInv /\ HolderInv /\ [Next]_vars => AccessInv' /\ HolderInv'
  BY AccessKept, HolderSteps
<1>5. QED
  BY <1>2, <1>3, <1>4, PTL DEF Spec, EndedKeysHaveNoEffect

=============================================================================
