-------------------------- MODULE RequestContract --------------------------
(***************************************************************************)
(* What the callers of core::Api rely on: a request that was sent waits    *)
(* for exactly one settlement, which runs at most one of its callbacks,    *)
(* and the settlement comes.  Nothing is said of connections, timers or    *)
(* answers.                                                                *)
(***************************************************************************)
EXTENDS Naturals

CONSTANT Requests

VARIABLES
  issued,     \* requests that were sent
  waiting,    \* requests whose settlement is outstanding
  ran         \* callbacks run per request

vars == <<issued, waiting, ran>>

Init ==
  /\ issued = {}
  /\ waiting = {}
  /\ ran = [r \in Requests |-> 0]

Issue(r) ==
  /\ r \notin issued
  /\ issued' = issued \cup {r}
  /\ waiting' = waiting \cup {r}
  /\ UNCHANGED ran

\* The callback may be none: a typed request answered without data.
Settle(r) ==
  /\ r \in waiting
  /\ waiting' = waiting \ {r}
  /\ ran' \in {ran, [ran EXCEPT ![r] = 1]}
  /\ UNCHANGED issued

Next == \E r \in Requests : Issue(r) \/ Settle(r)

Spec == Init /\ [][Next]_vars

FairSpec == Spec /\ \A r \in Requests : WF_vars(Settle(r))

=============================================================================
