------------------------- MODULE VerificationService -------------------------
(***************************************************************************)
(* What the trait VerificationService promises its caller: a request is    *)
(* answered at most once, and a verification result it is answered with is *)
(* the result of that request's program under that request's backend       *)
(* configuration.  How the request travels, which verifier thread serves   *)
(* it and whether that thread was reused are not visible here.             *)
(***************************************************************************)

CONSTANTS
  Requests,   \* the verification requests
  ConfigOf,   \* the backend_config field of each request
  Kinds       \* the variants of viper::VerificationResult

\* What a client holds for a request it sent: no answer yet, the Err value
\* of RemoteVerificationResult, or a failed HTTP exchange.
Waiting          == [tag |-> "waiting"]
VerifierPanicked == [tag |-> "VerifierPanicked"]
RequestFailed    == [tag |-> "RequestFailed"]

\* A result names the program and the configuration it was computed for.
Result(r, c, k) == [tag |-> "result", program |-> r, config |-> c, kind |-> k]

Results == {Result(r, ConfigOf[t], k) : r \in Requests, t \in Requests, k \in Kinds}

\* The answers that are right for request r.
RightAnswers(r) ==
  {Result(r, ConfigOf[r], k) : k \in Kinds} \cup {VerifierPanicked, RequestFailed}

VARIABLES
  sent,       \* the requests that a client has posted
  response    \* the answer each request got

vars == <<sent, response>>

Init ==
  /\ sent = {}
  /\ response = [r \in Requests |-> Waiting]

Send(r) ==
  /\ r \notin sent
  /\ sent' = sent \cup {r}
  /\ UNCHANGED response

Respond(r) ==
  /\ r \in sent
  /\ response[r] = Waiting
  /\ \E a \in RightAnswers(r) : response' = [response EXCEPT ![r] = a]
  /\ UNCHANGED sent

Next == \E r \in Requests : Send(r) \/ Respond(r)

Spec == Init /\ [][Next]_vars

\* With a service that does not stop, every posted request is answered.
FairSpec == Spec /\ \A r \in Requests : WF_vars(Respond(r))
=============================================================================
