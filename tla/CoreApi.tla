------------------------------ MODULE CoreApi ------------------------------
(***************************************************************************)
(* The WebSocket client of remote-core: core/core.cpp and the response     *)
(* handlers of core/core.h.  One Qt event loop runs everything, so every   *)
(* slot and every timer callback is one atomic step.                       *)
(*                                                                         *)
(* External and modelled from its use: QWebSocket (its states, valid only  *)
(* while connected) and the core, which may answer a request it received   *)
(* over the current connection at any time, in any order, more than once   *)
(* or never.  Assumed of it: a request registered with onResult() is       *)
(* answered with a message the client reads as a plain result.             *)
(***************************************************************************)
EXTENDS Naturals, FiniteSets

CONSTANTS
  MaxRequestId,     \* bound: requests issued in one behaviour
  ProblemTries,     \* the retry that raises connectionProblem (10)
  MaxTries          \* bound: the retry counter stops counting here

ASSUME CoreApiAssumption ==
  /\ MaxRequestId \in Nat
  /\ ProblemTries \in Nat \ {0}
  /\ MaxTries \in Nat /\ MaxTries > ProblemTries

RequestIds == 1..MaxRequestId

\* How the caller of a request registers for its answer; "auth" registers nothing.
HandlerKinds == {"onResult", "onResponseWithErrorResult", "onResponse"}
RequestKinds == HandlerKinds \cup {"auth"}

VARIABLES
  socket,            \* m_webSocket.state()
  connected,         \* m_connected: authenticated
  reconnectActive,   \* m_reconnectTimer->isActive()
  reconnectTries,    \* m_reconnectTries
  requestId,         \* m_requestId
  timers,            \* keys of m_timeoutTimers
  kind,              \* what was requested under an id, "unsent" if nothing was
  open,              \* ids whose handler is connected to the signals
  atCore,            \* ids the core received over the current connection
  coreConnected,     \* Controller::m_coreConnected, shown in the status bar
  calls,             \* history: callbacks run for an id
  outcome,           \* history: how an id was settled
  authAccepted,      \* history: the core accepted the token on this socket
  problems           \* history: connectionProblem signals in this outage

requestVars == <<requestId, timers, kind, open, calls, outcome>>
vars == <<socket, connected, reconnectActive, reconnectTries, atCore,
          coreConnected, authAccepted, problems, requestVars>>

TypeOK ==
  /\ socket \in {"unconnected", "connecting", "connected", "closing"}
  /\ connected \in BOOLEAN
  /\ reconnectActive \in BOOLEAN
  /\ reconnectTries \in 0..MaxTries
  /\ requestId \in 0..MaxRequestId
  /\ timers \subseteq RequestIds
  /\ kind \in [RequestIds -> RequestKinds \cup {"unsent"}]
  /\ open \subseteq RequestIds
  /\ atCore \subseteq RequestIds
  /\ coreConnected \in BOOLEAN
  /\ calls \in [RequestIds -> Nat]
  /\ outcome \in [RequestIds -> {"pending", "success", "fail", "silent"}]
  /\ authAccepted \in BOOLEAN
  /\ problems \in Nat

\* The constructor has called connect(); nothing was sent yet.
Init ==
  /\ socket = "connecting"
  /\ connected = FALSE
  /\ reconnectActive = FALSE
  /\ reconnectTries = 0
  /\ requestId = 0
  /\ timers = {}
  /\ kind = [id \in RequestIds |-> "unsent"]
  /\ open = {}
  /\ atCore = {}
  /\ coreConnected = FALSE
  /\ calls = [id \in RequestIds |-> 0]
  /\ outcome = [id \in RequestIds |-> "pending"]
  /\ authAccepted = FALSE
  /\ problems = 0

-----------------------------------------------------------------------------
(* Sending                                                                 *)

(***************************************************************************)
(* sendRequest() and the registration of the handler by its caller.  The   *)
(* id is used up before the socket is asked; if the socket takes nothing   *)
(* the caller sees -1 and registers no handler.                            *)
(***************************************************************************)
SendRequest(k) ==
  /\ connected \/ k = "auth"
  /\ requestId < MaxRequestId
  /\ requestId' = requestId + 1
  /\ \/ /\ socket = "connected"
        /\ kind' = [kind EXCEPT ![requestId'] = k]
        /\ timers' = timers \cup {requestId'}
        /\ open' = IF k \in HandlerKinds THEN open \cup {requestId'} ELSE open
        /\ atCore' = atCore \cup {requestId'}
     \/ UNCHANGED <<kind, timers, open, atCore>>
  /\ UNCHANGED <<socket, connected, reconnectActive, reconnectTries, coreConnected,
                 calls, outcome, authAccepted, problems>>

\* The auth_required event of the core; without a readable token nothing is sent.
AuthRequired ==
  /\ socket = "connected"
  /\ SendRequest("auth")

-----------------------------------------------------------------------------
(* Settling                                                                *)

\* The callback a handler runs for a signal carrying its request id.
Callback(k, signal, ok) ==
  CASE k = "onResult" /\ signal = "result" -> IF ok THEN "success" ELSE "fail"
    [] k = "onResponseWithErrorResult" /\ signal = "result" -> IF ok THEN "silent" ELSE "fail"
    [] k = "onResponseWithErrorResult" /\ signal = "typed" -> IF ok THEN "success" ELSE "silent"
    [] k = "onResponse" /\ signal = "typed" -> IF ok THEN "success" ELSE "fail"
    [] OTHER -> "silent"

\* The handler disconnects itself before it runs its callback.
Release(id) == open \ {id}

\* A signal for id reaches the handler, if one is still connected.
Settle(id, signal, ok) ==
  IF id \in open
  THEN LET ran == Callback(kind[id], signal, ok)
       IN /\ open' = Release(id)
          /\ outcome' = [outcome EXCEPT ![id] = ran]
          /\ calls' = IF ran = "silent" THEN calls ELSE [calls EXCEPT ![id] = @ + 1]
  ELSE UNCHANGED <<open, outcome, calls>>

\* removeRequestTimer()
RemoveRequestTimer(id) == timers' = timers \ {id}

\* Mutant: a timeout is not reported while the client is disconnected.
RequestTimeoutWhileUp(id) ==
  /\ id \in timers
  /\ RemoveRequestTimer(id)
  /\ IF connected THEN Settle(id, "result", FALSE) ELSE UNCHANGED <<open, outcome, calls>>
  /\ UNCHANGED <<socket, connected, reconnectActive, reconnectTries, requestId, kind,
                 atCore, coreConnected, authAccepted, problems>>

\* The single-shot timer of setupTimerForRequest(): the request is settled as a 408 result.
RequestTimeout(id) ==
  /\ id \in timers
  /\ RemoveRequestTimer(id)
  /\ Settle(id, "result", FALSE)
  /\ UNCHANGED <<socket, connected, reconnectActive, reconnectTries, requestId, kind,
                 atCore, coreConnected, authAccepted, problems>>

\* The signals the answers to a request may be turned into: an unread or unknown
\* message becomes a plain result.
AnswerSignals(k) == IF k = "onResult" THEN {"result"} ELSE {"result", "typed"}

\* processResponseMessage() for anything but the answer to auth.
Response(id, signal, ok) ==
  /\ socket = "connected"
  /\ id \in atCore /\ kind[id] \in HandlerKinds
  /\ signal \in AnswerSignals(kind[id])
  /\ RemoveRequestTimer(id)
  /\ Settle(id, signal, ok)
  /\ UNCHANGED <<socket, connected, reconnectActive, reconnectTries, requestId, kind,
                 atCore, coreConnected, authAccepted, problems>>

\* processAuthResult(), and Controller::onCoreConnected() on the connected() signal.
AuthResponse(id, ok) ==
  /\ socket = "connected"
  /\ id \in atCore /\ kind[id] = "auth"
  /\ RemoveRequestTimer(id)
  /\ IF ok
     THEN connected' = TRUE /\ authAccepted' = TRUE /\ coreConnected' = TRUE
     ELSE UNCHANGED <<connected, authAccepted, coreConnected>>
  /\ UNCHANGED <<socket, reconnectActive, reconnectTries, requestId, kind, open, atCore,
                 calls, outcome, problems>>

-----------------------------------------------------------------------------
(* The connection                                                          *)

\* onStateChanged(ConnectedState)
SocketConnected ==
  /\ socket = "connecting"
  /\ socket' = "connected"
  /\ reconnectActive' = FALSE
  /\ reconnectTries' = IF reconnectActive THEN 0 ELSE reconnectTries
  /\ problems' = 0
  /\ UNCHANGED <<connected, atCore, coreConnected, authAccepted, requestVars>>

\* Mutant: the authentication is kept across a lost connection.
SocketUnconnectedStillAuthenticated ==
  /\ socket # "unconnected"
  /\ socket' = "unconnected"
  /\ reconnectActive' = TRUE
  /\ atCore' = {}
  /\ authAccepted' = FALSE
  /\ UNCHANGED <<connected, reconnectTries, coreConnected, problems, requestVars>>

\* Mutant: every refused attempt starts counting retries anew.
SocketUnconnectedRecounts ==
  /\ socket # "unconnected"
  /\ socket' = "unconnected"
  /\ connected' = FALSE
  /\ reconnectActive' = TRUE
  /\ reconnectTries' = 0
  /\ atCore' = {}
  /\ authAccepted' = FALSE
  /\ UNCHANGED <<coreConnected, problems, requestVars>>

\* onStateChanged(UnconnectedState): the core is gone, refuses, or the close is through.
SocketUnconnected ==
  /\ socket # "unconnected"
  /\ socket' = "unconnected"
  /\ connected' = FALSE
  /\ reconnectActive' = TRUE
  /\ atCore' = {}
  /\ authAccepted' = FALSE
  /\ UNCHANGED <<reconnectTries, coreConnected, problems, requestVars>>

\* onError(): a valid socket is closed; m_connected follows with the state change.
SocketError ==
  /\ socket' = IF socket = "connected" THEN "closing" ELSE socket
  /\ reconnectActive' = TRUE
  /\ UNCHANGED <<connected, reconnectTries, atCore, coreConnected, authAccepted, problems,
                 requestVars>>

\* m_reconnectTries++ (the model stops counting at MaxTries)
CountTry == IF reconnectTries < MaxTries THEN reconnectTries + 1 ELSE reconnectTries

\* The retry that gives up on a quick return of the core.
IsProblem(tries) == tries = ProblemTries

(***************************************************************************)
(* onReconnectTimerTimeout() with connect(), and Controller::onCoreProblem *)
(* on the connectionProblem() signal.  Closing a socket on the device      *)
(* takes less than the 2 s interval, so the timer finds it closed.         *)
(***************************************************************************)
ReconnectTimeout ==
  /\ reconnectActive
  /\ socket # "closing"
  /\ reconnectTries' = CountTry
  /\ IF IsProblem(CountTry) /\ CountTry # reconnectTries
     THEN problems' = problems + 1 /\ coreConnected' = FALSE
     ELSE UNCHANGED <<problems, coreConnected>>
  /\ socket' = IF socket = "connected" THEN socket ELSE "connecting"
  /\ UNCHANGED <<connected, reconnectActive, atCore, authAccepted, requestVars>>

-----------------------------------------------------------------------------

Next ==
  \/ \E k \in HandlerKinds : SendRequest(k)
  \/ AuthRequired
  \/ \E id \in RequestIds : RequestTimeout(id)
  \/ \E id \in RequestIds, signal \in {"result", "typed"}, ok \in BOOLEAN :
       Response(id, signal, ok)
  \/ \E id \in RequestIds, ok \in BOOLEAN : AuthResponse(id, ok)
  \/ SocketConnected
  \/ SocketUnconnected
  \/ SocketError
  \/ ReconnectTimeout

Spec == Init /\ [][Next]_vars

(***************************************************************************)
(* Qt timers fire and a started close completes.  Nothing is assumed of    *)
(* the core: it may never answer and never come back.                      *)
(***************************************************************************)
Fairness ==
  /\ \A id \in RequestIds : WF_vars(RequestTimeout(id))
  /\ WF_vars(ReconnectTimeout)
  /\ WF_vars(socket = "closing" /\ SocketUnconnected)

FairSpec == Spec /\ Fairness

-----------------------------------------------------------------------------
(* Properties                                                              *)

(***************************************************************************)
(* A connected handler always has a running timeout timer: whatever path   *)
(* cancels the timer of a request (an answer, also one the client does not *)
(* read) settles the request in the same step.  Without it a caller waits  *)
(* for the life of the process.                                            *)
(***************************************************************************)
OpenIsTimed == open \subseteq timers

(***************************************************************************)
(* The callbacks of a request run at most once, whatever arrives: an       *)
(* answer after the 408 timeout, the same answer twice, a timeout after a  *)
(* reconnect.  And none has run while the handler is still connected.      *)
(***************************************************************************)
SettledAtMostOnce ==
  \A id \in RequestIds : calls[id] + (IF id \in open THEN 1 ELSE 0) <= 1

(***************************************************************************)
(* m_connected speaks of the socket that is there now: the core accepted   *)
(* the token on this very connection.  Requests would otherwise go out     *)
(* unauthenticated after a reconnect.                                      *)
(***************************************************************************)
AuthenticatedHere ==
  connected => authAccepted /\ socket \in {"connected", "closing"}

(***************************************************************************)
(* A client without a connection has the retry timer running, and an       *)
(* established one does not: no outage without retries, no retry counted   *)
(* against a healthy connection.                                           *)
(***************************************************************************)
RetryTimerMatchesSocket ==
  /\ socket \in {"unconnected", "closing"} => reconnectActive
  /\ socket = "connected" => ~reconnectActive /\ reconnectTries = 0

\* One outage raises the connection problem at most once, however long it lasts.
ProblemOncePerOutage == problems <= 1

\* The red dot stands for a reported problem: it never shows while authenticated.
AuthenticatedIsShown == connected => coreConnected

(***************************************************************************)
(* The flags of the connection speak of the socket that is there, not of   *)
(* an earlier one, and agree with each other, however losses, retries,     *)
(* errors and authentications follow each other (onStateChanged, onError,  *)
(* onReconnectTimerTimeout and processAuthResult each set some of them).   *)
(***************************************************************************)
FlagsFollowSocket ==
  /\ AuthenticatedHere
  /\ RetryTimerMatchesSocket
  /\ AuthenticatedIsShown
  /\ ProblemOncePerOutage

(***************************************************************************)
(* An outage ends, or it is reported: the retries never stop before the    *)
(* one that raises the problem.                                            *)
(***************************************************************************)
LongOutageReported ==
  socket = "unconnected" ~> socket = "connected" \/ problems > 0

-----------------------------------------------------------------------------
(* The abstract contract of a request                                      *)

Contract == INSTANCE RequestContract
              WITH Requests <- RequestIds,
                   issued <- {id \in RequestIds : kind[id] \in HandlerKinds},
                   waiting <- open,
                   ran <- calls

\* The client keeps the contract its callers rely on: see RequestContract.
ImplementsContract == Contract!FairSpec

=============================================================================
