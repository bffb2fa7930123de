--------------------------- MODULE CoreApiProofs ---------------------------
(***************************************************************************)
(* Safety of the WebSocket client for every bound on requests and retries. *)
(* One inductive invariant carries all of it: a request is in one of three *)
(* phases (not issued, waiting with a running timer and no callback run,   *)
(* settled with at most one), and the flags of the connection follow the   *)
(* socket.                                                                 *)
(***************************************************************************)
EXTENDS CoreApi, TLAPS

\* Ids that were not handed out yet have left no trace.
UnissuedIsFresh ==
  \A id \in RequestIds : id > requestId =>
    id \notin open /\ id \notin timers /\ calls[id] = 0 /\ kind[id] = "unsent"

\* The first connection attempt runs without the retry timer and without a retry.
QuietStart == ~reconnectActive => reconnectTries = 0

\* The request of a connected handler is one that registers a handler.
OpenIsHandled == \A id \in open : kind[id] \in HandlerKinds

RequestInv == OpenIsTimed /\ SettledAtMostOnce /\ UnissuedIsFresh /\ OpenIsHandled

\* A problem is raised by the one retry that reaches ProblemTries.
RaisedAtProblemTries ==
  /\ problems \in {0, 1}
  /\ reconnectTries < ProblemTries => problems = 0

ConnectionInv ==
  /\ AuthenticatedHere /\ RetryTimerMatchesSocket /\ QuietStart /\ AuthenticatedIsShown
  /\ RaisedAtProblemTries

IInv == TypeOK /\ RequestInv /\ ConnectionInv

-----------------------------------------------------------------------------

LEMMA InitIInv == Init => IInv
<1> SUFFICES ASSUME Init PROVE IInv
  OBVIOUS
<1> USE CoreApiAssumption
<1>1. TypeOK
  <2>1. connected \in BOOLEAN /\ reconnectActive \in BOOLEAN /\ coreConnected \in BOOLEAN
        /\ authAccepted \in BOOLEAN
    BY DEF Init
  <2>2. reconnectTries \in 0..MaxTries /\ requestId \in 0..MaxRequestId
    BY DEF Init, CoreApiAssumption
  <2> QED
    BY <2>1, <2>2 DEF Init, TypeOK, RequestIds
<1>2. RequestInv
  BY DEF Init, RequestInv, OpenIsTimed, SettledAtMostOnce, UnissuedIsFresh, OpenIsHandled,
         RequestIds
<1>3. ConnectionInv
  BY DEF Init, ConnectionInv, AuthenticatedHere, RetryTimerMatchesSocket, QuietStart,
         AuthenticatedIsShown, RaisedAtProblemTries
<1> QED
  BY <1>1, <1>2, <1>3 DEF IInv

(***************************************************************************)
(* What settling does to the request variables, whichever signal it is.    *)
(***************************************************************************)
LEMMA SettleEffect ==
  ASSUME TypeOK, NEW id \in RequestIds, NEW signal, NEW ok \in BOOLEAN,
         Settle(id, signal, ok)
  PROVE  /\ open' \subseteq open /\ id \notin open'
         /\ outcome' \in [RequestIds -> {"pending", "success", "fail", "silent"}]
         /\ calls' \in [RequestIds -> Nat]
         /\ \A r \in RequestIds : r # id => calls'[r] = calls[r]
         /\ id \in open => calls'[id] <= calls[id] + 1
         /\ id \notin open => calls'[id] = calls[id]
<1> DEFINE ran == Callback(kind[id], signal, ok)
<1>0. ran \in {"success", "fail", "silent"}
  BY DEF Callback
<1>1. CASE id \in open
  <2>1. /\ open' = open \ {id}
        /\ outcome' = [outcome EXCEPT ![id] = ran]
        /\ calls' = IF ran = "silent" THEN calls ELSE [calls EXCEPT ![id] = @ + 1]
    BY <1>1 DEF Settle, Release
  <2> HIDE DEF ran
  <2>2. QED
    BY <1>0, <1>1, <2>1 DEF TypeOK
<1>2. CASE id \notin open
  <2>1. UNCHANGED <<open, outcome, calls>>
    BY <1>2 DEF Settle
  <2>2. QED
    BY <1>2, <2>1 DEF TypeOK
<1> QED
  BY <1>1, <1>2

\* Cancelling a timer and settling its request in one step keeps the request invariant.
LEMMA SettleKeepsRequestInv ==
  ASSUME TypeOK, RequestInv, NEW id \in RequestIds, NEW signal, NEW ok \in BOOLEAN,
         RemoveRequestTimer(id), Settle(id, signal, ok), UNCHANGED <<requestId, kind>>
  PROVE  RequestInv' /\ timers' \subseteq RequestIds
<1> USE DEF TypeOK, RemoveRequestTimer, RequestInv
<1>1. OpenIsTimed'
  BY SettleEffect DEF OpenIsTimed
<1>2. SettledAtMostOnce'
  <2> SUFFICES ASSUME NEW r \in RequestIds
               PROVE  calls'[r] + (IF r \in open' THEN 1 ELSE 0) <= 1
    BY DEF SettledAtMostOnce
  <2>1. calls[r] + (IF r \in open THEN 1 ELSE 0) <= 1 /\ calls[r] \in Nat /\ calls'[r] \in Nat
    BY SettleEffect DEF SettledAtMostOnce
  <2>2. QED
    BY <2>1, SettleEffect
<1>3. UnissuedIsFresh'
  BY SettleEffect DEF UnissuedIsFresh
<1>4. OpenIsHandled'
  BY SettleEffect DEF OpenIsHandled
<1> QED
  BY <1>1, <1>2, <1>3, <1>4

LEMMA SendKeepsIInv ==
  ASSUME IInv, NEW k \in RequestKinds, SendRequest(k)
  PROVE  IInv'
<1> USE CoreApiAssumption DEF IInv, TypeOK, RequestIds
<1>1. requestId' = requestId + 1 /\ requestId' \in RequestIds
  BY DEF SendRequest
<1>2. TypeOK'
  <2>1. CASE UNCHANGED <<kind, timers, open, atCore>>
    BY <1>1, <2>1 DEF SendRequest
  <2>2. CASE ~UNCHANGED <<kind, timers, open, atCore>>
    <3>1. /\ kind' = [kind EXCEPT ![requestId'] = k]
          /\ timers' = timers \cup {requestId'}
          /\ open' = IF k \in HandlerKinds THEN open \cup {requestId'} ELSE open
          /\ atCore' = atCore \cup {requestId'}
      BY <2>2 DEF SendRequest
    <3>2. kind' \in [RequestIds -> RequestKinds \cup {"unsent"}]
      BY <1>1, <3>1
    <3>3. timers' \subseteq RequestIds /\ open' \subseteq RequestIds /\ atCore' \subseteq RequestIds
      BY <1>1, <3>1
    <3> QED
      BY <1>1, <3>2, <3>3 DEF SendRequest
  <2> QED
    BY <2>1, <2>2
<1>3. RequestInv'
  <2> USE DEF RequestInv
  <2>1. OpenIsTimed'
    BY <1>1 DEF SendRequest, OpenIsTimed
  <2>2. SettledAtMostOnce'
    <3> SUFFICES ASSUME NEW r \in RequestIds
                 PROVE  calls'[r] + (IF r \in open' THEN 1 ELSE 0) <= 1
      BY DEF SettledAtMostOnce
    <3>1. calls' = calls
      BY DEF SendRequest
    <3>2. CASE r = requestId'
      BY <1>1, <3>1, <3>2 DEF UnissuedIsFresh
    <3>3. CASE r # requestId'
      <4>1. r \in open' => r \in open
        BY <3>3 DEF SendRequest
      <4> QED
        BY <3>1, <4>1 DEF SettledAtMostOnce
    <3> QED
      BY <3>2, <3>3
  <2>3. UnissuedIsFresh'
    BY <1>1 DEF SendRequest, UnissuedIsFresh
  <2>4. OpenIsHandled'
    <3> SUFFICES ASSUME NEW r \in open' PROVE kind'[r] \in HandlerKinds
      BY DEF OpenIsHandled
    <3>1. CASE r \in open
      <4>1. r # requestId'
        BY <1>1, <3>1 DEF UnissuedIsFresh
      <4>2. kind'[r] = kind[r]
        BY <3>1, <4>1, <1>1 DEF SendRequest
      <4> QED
        BY <3>1, <4>2 DEF OpenIsHandled
    <3>2. CASE r \notin open
      <4>1. r = requestId' /\ k \in HandlerKinds /\ kind' = [kind EXCEPT ![requestId'] = k]
        BY <3>2 DEF SendRequest
      <4> QED
        BY <1>1, <4>1
    <3> QED
      BY <3>1, <3>2
  <2> QED
    BY <2>1, <2>2, <2>3, <2>4
<1>4. ConnectionInv'
  BY DEF SendRequest, ConnectionInv, AuthenticatedHere, RetryTimerMatchesSocket, QuietStart,
         AuthenticatedIsShown, RaisedAtProblemTries
<1> QED
  BY <1>2, <1>3, <1>4

LEMMA NextKeepsIInv == IInv /\ [Next]_vars => IInv'
<1> SUFFICES ASSUME IInv, [Next]_vars PROVE IInv'
  OBVIOUS
<1> USE CoreApiAssumption
<1>1. ASSUME NEW k \in HandlerKinds, SendRequest(k) PROVE IInv'
  BY <1>1, SendKeepsIInv DEF RequestKinds
<1>2. CASE AuthRequired
  BY <1>2, SendKeepsIInv DEF RequestKinds, AuthRequired
<1>3. ASSUME NEW id \in RequestIds, RequestTimeout(id) PROVE IInv'
  <2>1. RequestInv' /\ timers' \subseteq RequestIds
    BY <1>3, SettleKeepsRequestInv DEF IInv, RequestTimeout
  <2>2. TypeOK'
    BY <1>3, <2>1, SettleEffect DEF IInv, RequestTimeout, TypeOK
  <2>3. ConnectionInv'
    BY <1>3 DEF IInv, RequestTimeout, ConnectionInv, AuthenticatedHere,
                RetryTimerMatchesSocket, QuietStart, AuthenticatedIsShown, RaisedAtProblemTries
  <2> QED
    BY <2>1, <2>2, <2>3 DEF IInv
<1>4. ASSUME NEW id \in RequestIds, NEW signal \in {"result", "typed"}, NEW ok \in BOOLEAN,
             Response(id, signal, ok)
      PROVE  IInv'
  <2>1. RequestInv' /\ timers' \subseteq RequestIds
    BY <1>4, SettleKeepsRequestInv DEF IInv, Response
  <2>2. TypeOK'
    BY <1>4, <2>1, SettleEffect DEF IInv, Response, TypeOK
  <2>3. ConnectionInv'
    BY <1>4 DEF IInv, Response, ConnectionInv, AuthenticatedHere,
                RetryTimerMatchesSocket, QuietStart, AuthenticatedIsShown, RaisedAtProblemTries
  <2> QED
    BY <2>1, <2>2, <2>3 DEF IInv
<1>5. ASSUME NEW id \in RequestIds, NEW ok \in BOOLEAN, AuthResponse(id, ok) PROVE IInv'
  <2>1. TypeOK'
    BY <1>5 DEF IInv, AuthResponse, RemoveRequestTimer, TypeOK
  <2>2. RequestInv'
    <3>1. id \notin open /\ timers' = timers \ {id}
      BY <1>5 DEF IInv, AuthResponse, RemoveRequestTimer, RequestInv, OpenIsHandled,
                  HandlerKinds
    <3> QED
      BY <1>5, <3>1 DEF IInv, AuthResponse, RequestInv, OpenIsTimed, SettledAtMostOnce,
                        UnissuedIsFresh, OpenIsHandled
  <2>3. ConnectionInv'
    BY <1>5 DEF IInv, AuthResponse, ConnectionInv, AuthenticatedHere,
                RetryTimerMatchesSocket, QuietStart, AuthenticatedIsShown, RaisedAtProblemTries
  <2> QED
    BY <2>1, <2>2, <2>3 DEF IInv
<1>6. ASSUME SocketConnected \/ SocketUnconnected \/ SocketError \/ ReconnectTimeout
      PROVE  IInv'
  <2>1. TypeOK'
    <3>1. CASE SocketConnected
      <4>1. reconnectTries' \in 0..MaxTries
        BY <3>1 DEF IInv, SocketConnected, TypeOK
      <4> QED
        BY <3>1, <4>1 DEF IInv, SocketConnected, requestVars, TypeOK
    <3>2. CASE SocketUnconnected
      BY <3>2 DEF IInv, SocketUnconnected, requestVars, TypeOK
    <3>3. CASE SocketError
      BY <3>3 DEF IInv, SocketError, requestVars, TypeOK
    <3>4. CASE ReconnectTimeout
      <4>1. reconnectTries' \in 0..MaxTries /\ problems' \in Nat
        BY <3>4 DEF IInv, ReconnectTimeout, CountTry, TypeOK
      <4> QED
        BY <3>4, <4>1 DEF IInv, ReconnectTimeout, requestVars, TypeOK
    <3> QED
      BY <1>6, <3>1, <3>2, <3>3, <3>4
  <2>2. RequestInv'
    BY <1>6 DEF IInv, SocketConnected, SocketUnconnected, SocketError, ReconnectTimeout,
                requestVars, RequestInv, OpenIsTimed, SettledAtMostOnce, UnissuedIsFresh,
                OpenIsHandled
  <2>3. ConnectionInv'
    <3>1. AuthenticatedHere' /\ RetryTimerMatchesSocket' /\ QuietStart' /\ AuthenticatedIsShown'
      BY <1>6 DEF IInv, SocketConnected, SocketUnconnected, SocketError, ReconnectTimeout,
                  CountTry, TypeOK, ConnectionInv, AuthenticatedHere, RetryTimerMatchesSocket,
                  QuietStart, AuthenticatedIsShown
    <3>2. CASE SocketConnected \/ SocketUnconnected \/ SocketError
      BY <3>1, <3>2 DEF IInv, SocketConnected, SocketUnconnected, SocketError, ConnectionInv,
                  QuietStart, RaisedAtProblemTries
    <3>3. CASE ReconnectTimeout
      <4>1. reconnectTries \in 0..MaxTries /\ problems \in {0, 1}
            /\ (reconnectTries < ProblemTries => problems = 0)
        BY DEF IInv, TypeOK, ConnectionInv, RaisedAtProblemTries
      <4>2. reconnectTries' = CountTry
        BY <3>3 DEF ReconnectTimeout
      <4>3. problems' = IF CountTry = ProblemTries /\ CountTry # reconnectTries
                        THEN problems + 1 ELSE problems
        BY <3>3 DEF ReconnectTimeout, IsProblem
      <4>4. RaisedAtProblemTries'
        BY <4>1, <4>2, <4>3 DEF CountTry, RaisedAtProblemTries
      <4> QED
        BY <3>1, <4>4 DEF ConnectionInv
    <3> QED
      BY <1>6, <3>1, <3>2, <3>3 DEF ConnectionInv
  <2> QED
    BY <2>1, <2>2, <2>3 DEF IInv
<1>7. CASE UNCHANGED vars
  BY <1>7 DEF vars, requestVars, IInv, TypeOK, RequestInv, ConnectionInv, OpenIsTimed,
              SettledAtMostOnce, UnissuedIsFresh, OpenIsHandled, AuthenticatedHere,
              RetryTimerMatchesSocket, QuietStart, AuthenticatedIsShown, RaisedAtProblemTries
<1> QED
  BY <1>1, <1>2, <1>3, <1>4, <1>5, <1>6, <1>7 DEF Next

\* The inductive invariant holds in every reachable state; the properties below follow from it.
THEOREM IInvAlways == Spec => []IInv
  BY InitIInv, NextKeepsIInv, PTL DEF Spec

-----------------------------------------------------------------------------

\* The types of the client's state, for every number of requests and retries.
THEOREM TypeCorrect == Spec => []TypeOK
  BY IInvAlways, PTL DEF IInv

\* No caller is left waiting: a connected handler has a running timeout timer.
THEOREM HandlersAreTimed == Spec => []OpenIsTimed
  BY IInvAlways, PTL DEF IInv, RequestInv

\* The callbacks of a request run at most once, whatever arrives and whenever.
THEOREM CallbacksRunOnce == Spec => []SettledAtMostOnce
  BY IInvAlways, PTL DEF IInv, RequestInv

\* Authentication, retry timer and reported state are never left over from an earlier socket,
\* and an outage is reported at most once, however long it lasts.
THEOREM ConnectionFlagsFollowSocket == Spec => []FlagsFollowSocket
<1>1. IInv => FlagsFollowSocket
  BY DEF IInv, ConnectionInv, RaisedAtProblemTries, ProblemOncePerOutage, FlagsFollowSocket
<1>2. QED
  BY <1>1, IInvAlways, PTL

-----------------------------------------------------------------------------
(* The client implements RequestContract: every step issues one request,   *)
(* settles one, or changes nothing the contract speaks of.                 *)

SentIds == {id \in RequestIds : kind[id] \in HandlerKinds}

LEMMA SettleImplements ==
  ASSUME IInv, NEW id \in RequestIds, NEW signal, NEW ok \in BOOLEAN,
         Settle(id, signal, ok), UNCHANGED kind
  PROVE  Contract!Settle(id) \/ UNCHANGED Contract!vars
<1>1. CASE id \in open
  <2>1. calls[id] = 0
    BY <1>1 DEF IInv, TypeOK, RequestInv, SettledAtMostOnce
  <2>2. calls' \in {calls, [calls EXCEPT ![id] = 1]}
    BY <1>1, <2>1 DEF Settle, IInv, TypeOK
  <2> QED
    BY <1>1, <2>2 DEF Settle, Release, Contract!Settle
<1>2. CASE id \notin open
  BY <1>2 DEF Settle, Contract!vars
<1> QED
  BY <1>1, <1>2

LEMMA SendImplements ==
  ASSUME IInv, NEW k \in RequestKinds, SendRequest(k)
  PROVE  (\E r \in RequestIds : Contract!Issue(r)) \/ UNCHANGED Contract!vars
<1> USE CoreApiAssumption
<1>0. requestId' \in RequestIds /\ kind[requestId'] = "unsent"
  BY DEF SendRequest, IInv, TypeOK, RequestIds, RequestInv, UnissuedIsFresh
<1>1. CASE UNCHANGED <<kind, timers, open, atCore>>
  BY <1>1 DEF SendRequest, Contract!vars
<1>2. CASE ~UNCHANGED <<kind, timers, open, atCore>>
  <2>1. /\ kind' = [kind EXCEPT ![requestId'] = k]
        /\ open' = IF k \in HandlerKinds THEN open \cup {requestId'} ELSE open
        /\ calls' = calls
    BY <1>2 DEF SendRequest
  <2>2. requestId' \notin SentIds
    BY <1>0 DEF SentIds, HandlerKinds
  <2>3. SentIds' = IF k \in HandlerKinds THEN SentIds \cup {requestId'} ELSE SentIds
    BY <1>0, <2>1, <2>2 DEF SentIds, IInv, TypeOK
  <2>4. CASE k \in HandlerKinds
    BY <1>0, <2>1, <2>2, <2>3, <2>4 DEF Contract!Issue, SentIds
  <2>5. CASE k \notin HandlerKinds
    BY <2>1, <2>3, <2>5 DEF Contract!vars, SentIds
  <2> QED
    BY <2>4, <2>5
<1> QED
  BY <1>1, <1>2

LEMMA StepImplements == IInv /\ [Next]_vars => [Contract!Next]_(Contract!vars)
<1> SUFFICES ASSUME IInv, [Next]_vars
             PROVE  (\E r \in RequestIds : Contract!Issue(r) \/ Contract!Settle(r))
                    \/ UNCHANGED Contract!vars
  BY DEF Contract!Next
<1>1. ASSUME NEW k \in HandlerKinds, SendRequest(k)
      PROVE  (\E r \in RequestIds : Contract!Issue(r)) \/ UNCHANGED Contract!vars
  BY <1>1, SendImplements DEF RequestKinds
<1>2. CASE AuthRequired
  BY <1>2, SendImplements DEF RequestKinds, AuthRequired
<1>3. ASSUME NEW id \in RequestIds, RequestTimeout(id)
      PROVE  Contract!Settle(id) \/ UNCHANGED Contract!vars
  BY <1>3, SettleImplements DEF RequestTimeout
<1>4. ASSUME NEW id \in RequestIds, NEW signal \in {"result", "typed"}, NEW ok \in BOOLEAN,
             Response(id, signal, ok)
      PROVE  Contract!Settle(id) \/ UNCHANGED Contract!vars
  BY <1>4, SettleImplements DEF Response
<1>5. ASSUME NEW id \in RequestIds, NEW ok \in BOOLEAN, AuthResponse(id, ok)
      PROVE  UNCHANGED Contract!vars
  BY <1>5 DEF AuthResponse, Contract!vars
<1>6. ASSUME SocketConnected \/ SocketUnconnected \/ SocketError \/ ReconnectTimeout
      PROVE  UNCHANGED Contract!vars
  BY <1>6 DEF SocketConnected, SocketUnconnected, SocketError, ReconnectTimeout,
              requestVars, Contract!vars
<1>7. CASE UNCHANGED vars
  BY <1>7 DEF vars, requestVars, Contract!vars
<1> QED
  BY <1>1, <1>2, <1>3, <1>4, <1>5, <1>6, <1>7 DEF Next

\* Safety half of ImplementsContract, for every number of requests.
THEOREM ClientRefinesContract == Spec => Contract!Spec
<1>1. Init => Contract!Init
  BY DEF Init, Contract!Init, HandlerKinds
<1> QED
  BY <1>1, StepImplements, IInvAlways, PTL DEF Spec, Contract!Spec

=============================================================================
