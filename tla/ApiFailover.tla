----------------------------- MODULE ApiFailover -----------------------------
(***************************************************************************)
(* blurtjs over http: the api object's requests, the retries of its        *)
(* transport, and the failover to the next of its alternative endpoints.   *)
(*                                                                         *)
(* call and signedCall report their errors to notifyError; requests made   *)
(* with send do not, but are repeated by the transport they were given to, *)
(* at its own uri, if its options say so and do not except the method.     *)
(***************************************************************************)
EXTENDS Integers, Sequences, FiniteSets, SequencesExt

CONSTANTS
  Endpoints,   \* alternative_api_endpoints
  Urls,        \* the urls the application may choose
  Thresholds,  \* the values of failover_threshold it may choose
  Method,      \* the methods that requests made with send call
  Broadcast,   \* those that the transport does not repeat by default
  HttpRequest, \* requests that may be under way at a time
  Retries      \* the retry option: attempts after the first

ASSUME FailoverAssumption ==
  /\ Endpoints \in Seq(Urls) /\ Endpoints # <<>>
  /\ Thresholds \subseteq Nat \ {0} /\ Retries \in Nat
  /\ Broadcast \subseteq Method

VARIABLES
  options_url,         \* options.url
  api_index,           \* the endpoint in use (from 1)
  error_count,         \* errors since the last failover
  failover_threshold,  \* 0 while it is undefined
  retry,               \* the transport in use has a retry option
  nonRetriable,        \* nonRetriableOperations of the transport in use
  http                 \* the requests under way

optionVars == <<options_url, api_index, retry, nonRetriable>>
failoverVars == <<optionVars, error_count, failover_threshold, http>>

Idle == [how |-> "idle"]

(* The first place of the url in the list. *)
IndexOf(u) ==
  IF u \in Range(Endpoints)
  THEN CHOOSE i \in DOMAIN Endpoints :
         Endpoints[i] = u /\ \A j \in 1..i - 1 : Endpoints[j] # u
  ELSE 1

setOptions_KeepIndex(u, again, except) ==
  options_url' = u /\ retry' = again /\ nonRetriable' = except /\ UNCHANGED api_index

(* A new transport for the url, with the options of this call only. *)
setOptions(u, again, except) ==
  options_url' = u /\ retry' = again /\ nonRetriable' = except /\ api_index' = IndexOf(u)

(* The application chooses an endpoint, the retry option and, instead of   *)
(* the default list, the methods that are not repeated; failover works     *)
(* from the first time on that it also passes a threshold.                 *)
Configure(u, threshold, again, except) ==
  /\ failover_threshold' = IF threshold = 0 THEN failover_threshold ELSE threshold
  /\ setOptions(u, again, except)
  /\ UNCHANGED <<error_count, http>>

(* Whether the transport will repeat a request if it fails. *)
retriable(method) == method \notin nonRetriable /\ retry

Begin(r, started) ==
  /\ http[r] = Idle
  /\ http' = [http EXCEPT ![r] = started]
  /\ UNCHANGED <<optionVars, error_count, failover_threshold>>

(* call and signedCall. *)
startCall(r, how) == Begin(r, [how |-> how, uri |-> options_url, again |-> FALSE, attempt |-> 1])

(* A request keeps the transport it started with: its uri and its retries. *)
sendRequest(r, method) ==
  Begin(r, [how |-> "send", uri |-> options_url, again |-> retriable(method), attempt |-> 1])

End(r) == http' = [http EXCEPT ![r] = Idle]

Succeeds(r) ==
  /\ http[r] # Idle
  /\ End(r)
  /\ UNCHANGED <<optionVars, error_count, failover_threshold>>

(* notifyError counts the error, unless it is of the overseer, and moves   *)
(* on at the threshold.                                                    *)
notifyError(overseer) ==
  IF failover_threshold = 0 \/ overseer THEN UNCHANGED <<optionVars, error_count>>
  ELSE IF error_count + 1 < failover_threshold
  THEN error_count' = error_count + 1 /\ UNCHANGED optionVars
  ELSE /\ error_count' = 0
       /\ setOptions(Endpoints[IF api_index >= Len(Endpoints) THEN 1 ELSE api_index + 1],
                     FALSE, Broadcast)

(* rpc: the node answered with an error, which call does not report. *)
Reported(r, rpc) == http[r].how = "signedCall" \/ (http[r].how = "call" /\ ~rpc)

Fails(r, rpc, overseer) ==
  /\ http[r] # Idle
  /\ \/ /\ Reported(r, rpc) /\ End(r) /\ notifyError(overseer)
     \/ /\ http[r].how = "call" /\ rpc /\ End(r)
        /\ UNCHANGED <<optionVars, error_count>>
     \/ /\ http[r].how = "send" /\ http[r].again /\ http[r].attempt <= Retries
        /\ http' = [http EXCEPT ![r].attempt = @ + 1]
        /\ UNCHANGED <<optionVars, error_count>>
     \/ /\ http[r].how = "send" /\ (http[r].again => http[r].attempt > Retries) /\ End(r)
        /\ UNCHANGED <<optionVars, error_count>>
  /\ UNCHANGED failover_threshold

FailoverInit ==
  /\ options_url = Endpoints[1] /\ api_index = 1
  /\ error_count = 0 /\ failover_threshold = 0 /\ retry = FALSE /\ nonRetriable = Broadcast
  /\ http = [r \in HttpRequest |-> Idle]

FailoverNext ==
  \/ \E u \in Urls, t \in Thresholds \union {0}, again \in BOOLEAN, except \in {Broadcast, {}} :
       Configure(u, t, again, except)
  \/ \E r \in HttpRequest :
       \/ \E how \in {"call", "signedCall"} : startCall(r, how)
       \/ \E method \in Method : sendRequest(r, method)
       \/ Succeeds(r)
       \/ \E rpc, overseer \in BOOLEAN : Fails(r, rpc, overseer)

FailoverSpec == FailoverInit /\ [][FailoverNext]_failoverVars

-----------------------------------------------------------------------------
FailoverTypeOK ==
  /\ options_url \in Urls /\ api_index \in DOMAIN Endpoints
  /\ failover_threshold \in Thresholds \union {0}
  /\ error_count \in Nat /\ retry \in BOOLEAN /\ nonRetriable \subseteq Method

(* The error that reaches the threshold leaves the endpoint in use,        *)
(* wherever the application has put the client before, whatever threshold  *)
(* it has set since the errors were counted, and whichever endpoint they   *)
(* came from, if the list names no endpoint twice (notifyError).           *)
FailoverMoves ==
  [][\A r \in HttpRequest, rpc \in BOOLEAN :
       /\ IsInjective(Endpoints) /\ Len(Endpoints) > 1
       /\ Reported(r, rpc) /\ Fails(r, rpc, FALSE)
       /\ failover_threshold # 0 /\ error_count + 1 >= failover_threshold
       => options_url' # options_url]_failoverVars

=============================================================================
