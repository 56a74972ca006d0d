------------------------------ MODULE RpcClient ------------------------------
(***************************************************************************)
(* The dblurt client: Client.call and the retries and failover under it,   *)
(* with the two users of it that keep state across calls, sendOperations   *)
(* and the block stream.  The two share the client's current address.      *)
(*                                                                         *)
(* The clock is read in one place, when a fetch has failed: a call is then *)
(* late or not, and stays late until it sets its start anew.  An error of  *)
(* fetch has no code (HTTP status, fetch's own timeout, every error in a   *)
(* browser), a code of timeoutErrors or another code.  The endpoints are   *)
(* external: each knows the chain up to a last irreversible block of its   *)
(* own and two blocks more, which may be on a branch; a transaction enters *)
(* the chain at most once, and never after its expiration.                 *)
(***************************************************************************)
EXTENDS Integers, Sequences, Functions

CONSTANTS
  Addresses,          \* the array of urls the client is created with
  Healthy,            \* those of them that always answer
  FailoverThreshold,  \* ClientOptions.failoverThreshold
  Codes,              \* the kinds of errors the network can cause
  Options,            \* BlockchainStreamOptions: from and to, or Undefined
  Mode,               \* BlockchainStreamOptions.mode
  MaxSends,           \* bound: calls of sendOperations
  MaxLib              \* bound: blocks that become irreversible

Undefined == 0

ASSUME ClientAssumption ==
  /\ Addresses \in Seq(Range(Addresses)) /\ Addresses # <<>>
  /\ Healthy \subseteq Range(Addresses)
  /\ FailoverThreshold \in Nat \ {0} /\ MaxSends \in Nat \ {0} /\ MaxLib \in Nat \ {0}
  /\ Codes \subseteq {"none", "failover", "other"}
  /\ Options \subseteq [from : Nat, to : Nat]
  /\ Mode \in {"Irreversible", "Latest"}

VARIABLES
  currentAddress,  \* Client.currentAddress
  call,            \* the call each user of the client is waiting for
  sender,          \* sendOperations: where it is
  sends,           \* how often it has been called
  confirmed,       \* the calls that returned a confirmation
  stream,          \* getBlocks: where it is
  options,         \* what it was asked for
  current, seen,   \* the variables of getBlockNumbers
  asked,           \* the endpoint that reported current
  yielded,         \* the blocks it has yielded
  lib,             \* the endpoints' last irreversible blocks
  pending, chain, expired  \* transactions in a pool, on the chain, out of time

clientVars == <<currentAddress, call>>
sendVars == <<sender, sends, confirmed>>
streamVars == <<stream, options, current, seen, asked, yielded>>
netVars == <<lib, pending, chain, expired>>
vars == <<clientVars, sendVars, streamVars, netVars>>

User == {"sender", "stream"}

Url == Range(Addresses)

NoCall == [pc |-> "none"]

(* What a signed transaction is told apart by: the call of sendOperations  *)
(* it belongs to, and the signature it carries.                            *)
Tx == (1..MaxSends) \X (1..2)

-----------------------------------------------------------------------------
(* retryingFetch.                                                          *)

(* Where a url first stands in the list. *)
indexOf(url) ==
  CHOOSE i \in DOMAIN Addresses :
    Addresses[i] = url /\ \A j \in DOMAIN Addresses : Addresses[j] = url => i <= j

failover_NoWrap(url) ==
  Addresses[IF Len(Addresses) = indexOf(url) THEN indexOf(url) ELSE indexOf(url) + 1]

(* The next url of the list, the first after the last. *)
failover(url) ==
  Addresses[IF Len(Addresses) = indexOf(url) THEN 1 ELSE indexOf(url) + 1]

(* Client.call starts at the address in use.  reached: the endpoint has    *)
(* taken the request in.                                                   *)
StartCall(u, req, url) ==
  call' = [call EXCEPT ![u] =
             [pc |-> "fetch", req |-> req, addr |-> url, round |-> 0,
              late |-> FALSE, reached |-> FALSE]]

Fetching(u) == call[u].pc = "fetch"

(* The catch block decides: go on at the same address, go on at the next,  *)
(* or throw.  Only in time does the first apply; going on without a code   *)
(* does not restart the clock.                                             *)
SameAddress(u, code, late) ==
  /\ ~late
  /\ call' = [call EXCEPT ![u].pc = "sleep"]

NextAddress(u, code, late) ==
  /\ late /\ code = "none"
  /\ call' = [call EXCEPT ![u].pc = "sleep", ![u].addr = failover(@), ![u].late = TRUE]

NextRound_SameUrl(u, code, late) ==
  /\ late /\ code = "failover" /\ Len(Addresses) > 1
  /\ call[u].round < FailoverThreshold
  /\ call' = [call EXCEPT ![u].pc = "sleep",
                          ![u].round = @ + 1, ![u].late = FALSE]

NextRound(u, code, late) ==
  /\ late /\ code = "failover" /\ Len(Addresses) > 1
  /\ call[u].round < FailoverThreshold
  /\ call' = [call EXCEPT ![u].pc = "sleep", ![u].addr = failover(@),
                          ![u].round = @ + 1, ![u].late = FALSE]

Throw(u, code, late) ==
  /\ late
  /\ \/ code = "other"
     \/ code = "failover"
        /\ (Len(Addresses) = 1 \/ call[u].round >= FailoverThreshold)
  /\ call' = [call EXCEPT ![u].pc = "threw", ![u].req = [kind |-> code]]

(* fetch rejects, or the answer is not ok, before or after the timeout.    *)
(* The endpoint may have acted on the request before the connection broke. *)
Failure(u, late) ==
  /\ Fetching(u) /\ call[u].addr \notin Healthy
  /\ call[u].late => late
  /\ \E code \in Codes :
       \/ SameAddress(u, code, late)
       \/ NextAddress(u, code, late)
       \/ NextRound(u, code, late)
       \/ Throw(u, code, late)
  /\ UNCHANGED <<currentAddress, sendVars, streamVars, netVars>>

FetchFails(u) == \E late \in BOOLEAN : Failure(u, late)

(* The loop goes round after the backoff, with the same request. *)
Retry_Resigned(u) ==
  /\ call[u].pc = "sleep"
  /\ call' = [call EXCEPT ![u].pc = "fetch", ![u].reached = FALSE,
                ![u].req = IF @.kind = "broadcast" THEN [@ EXCEPT !.tx[2] = 2] ELSE @]
  /\ UNCHANGED <<currentAddress, sendVars, streamVars, netVars>>

Retry(u) ==
  /\ call[u].pc = "sleep"
  /\ call' = [call EXCEPT ![u].pc = "fetch", ![u].reached = FALSE]
  /\ UNCHANGED <<currentAddress, sendVars, streamVars, netVars>>

(* The end of Client.call: the address that answered becomes the address   *)
(* in use, whatever other calls have made it in the meantime.              *)
Answered(u) == Fetching(u) /\ currentAddress' = call[u].addr

(* response.error: the call throws it. *)
RpcError(u) ==
  /\ Answered(u) /\ call[u].addr \notin Healthy
  /\ call' = [call EXCEPT ![u].pc = "threw", ![u].req = [kind |-> "rpc"]]
  /\ UNCHANGED <<sendVars, streamVars, netVars>>

-----------------------------------------------------------------------------
(* sendOperations: the global properties first, from which the transaction *)
(* is built and signed, once; then the broadcast, which the endpoint       *)
(* answers when the transaction is in a block or has expired.              *)

sendOperations ==
  /\ sender = "idle" /\ sends < MaxSends
  /\ sender' = "props" /\ sends' = sends + 1
  /\ StartCall("sender", [kind |-> "props"], currentAddress)
  /\ UNCHANGED <<currentAddress, confirmed, streamVars, netVars>>

sign ==
  /\ sender = "props" /\ Answered("sender")
  /\ sender' = "broadcast"
  /\ StartCall("sender", [kind |-> "broadcast", tx |-> <<sends, 1>>], call["sender"].addr)
  /\ UNCHANGED <<sends, confirmed, streamVars, netVars>>

Broadcasting == sender = "broadcast" /\ Fetching("sender")

tx == call["sender"].req.tx

(* The endpoint takes a transaction it does not know. *)
Accept ==
  /\ Broadcasting /\ ~call["sender"].reached
  /\ tx \notin chain \union expired
  /\ pending' = pending \union {tx}
  /\ call' = [call EXCEPT !["sender"].reached = TRUE]
  /\ UNCHANGED <<currentAddress, sendVars, streamVars, lib, chain, expired>>

Returns(ok) ==
  /\ Answered("sender")
  /\ sender' = "idle"
  /\ confirmed' = IF ok THEN confirmed \union {sends} ELSE confirmed
  /\ call' = [call EXCEPT !["sender"] = NoCall]
  /\ UNCHANGED <<sends, streamVars, netVars>>

(* It answers with an error when it knows the transaction, or it is late. *)
Refused ==
  /\ Broadcasting /\ ~call["sender"].reached
  /\ tx \in chain \union expired \union pending
  /\ Returns(FALSE)

Confirmed ==
  /\ Broadcasting /\ call["sender"].reached /\ tx \in chain
  /\ Returns(TRUE)

ExpiredResult_Unchecked ==
  /\ Broadcasting /\ call["sender"].reached /\ tx \in expired \ chain
  /\ Returns(TRUE)

(* result.expired: the assertion throws. *)
ExpiredResult ==
  /\ Broadcasting /\ call["sender"].reached /\ tx \in expired \ chain
  /\ Returns(FALSE)

-----------------------------------------------------------------------------
(* getBlockNumbers and getBlocks.                                          *)

getCurrentBlockNum_Swapped(url) == IF Mode = "Latest" THEN lib[url] ELSE lib[url] + 2

(* What an endpoint reports as the number of the current block. *)
getCurrentBlockNum(url) == IF Mode = "Irreversible" THEN lib[url] ELSE lib[url] + 2

AskNumber(from) ==
  /\ stream = from
  /\ stream' = "number"
  /\ StartCall("stream", [kind |-> "number"], currentAddress)
  /\ UNCHANGED <<currentAddress, options, current, seen, asked, yielded, sendVars, netVars>>

StreamStarts == AskNumber("idle")

Wakes == AskNumber("sleep")

(* The inner loop: the next block below the current one, or a nap. *)
Loop(url) ==
  \/ /\ options.to # Undefined /\ yielded' # <<>> /\ seen' > options.to
     /\ stream' = "done" /\ call' = [call EXCEPT !["stream"] = NoCall]
  \/ /\ ~(options.to # Undefined /\ yielded' # <<>> /\ seen' > options.to)
     /\ \/ /\ current' > seen' /\ stream' = "block"
           /\ StartCall("stream", [kind |-> "block"], url)
        \/ /\ current' <= seen' /\ stream' = "sleep"
           /\ call' = [call EXCEPT !["stream"] = NoCall]

Number_Restarted ==
  LET url == call["stream"].addr
      num == getCurrentBlockNum(url)
  IN  /\ stream = "number" /\ Answered("stream")
      /\ current' = num /\ asked' = url /\ UNCHANGED yielded
      /\ \/ /\ seen = Undefined /\ options.from > num
            /\ stream' = "error" /\ UNCHANGED seen
            /\ call' = [call EXCEPT !["stream"] = NoCall]
         \/ /\ ~(seen = Undefined /\ options.from > num)
            /\ seen' = IF options.from # Undefined THEN options.from ELSE IF seen # Undefined THEN seen ELSE num
            /\ Loop(url)
      /\ UNCHANGED <<options, sendVars, netVars>>

(* The number arrives; the first one sets where the stream starts. *)
Number ==
  LET url == call["stream"].addr
      num == getCurrentBlockNum(url)
  IN  /\ stream = "number" /\ Answered("stream")
      /\ current' = num /\ asked' = url /\ UNCHANGED yielded
      /\ \/ /\ seen = Undefined /\ options.from > num
            /\ stream' = "error" /\ UNCHANGED seen
            /\ call' = [call EXCEPT !["stream"] = NoCall]
         \/ /\ ~(seen = Undefined /\ options.from > num)
            /\ seen' = IF seen # Undefined THEN seen
                       ELSE IF options.from # Undefined THEN options.from ELSE num
            /\ Loop(url)
      /\ UNCHANGED <<options, sendVars, netVars>>

(* What an endpoint may return as block num: the block of the final chain, *)
(* a block on a branch, or null.                                           *)
getBlock(url, num) ==
  IF num <= lib[url] THEN {"final"}
  ELSE IF num <= lib[url] + 2 THEN {"final", "branch"}
  ELSE {"null"}

Block ==
  LET url == call["stream"].addr
  IN  /\ stream = "block" /\ Answered("stream")
      /\ \E b \in getBlock(url, seen) :
           yielded' = Append(yielded, [num |-> seen, block |-> b, from |-> url, asked |-> asked])
      /\ seen' = seen + 1
      /\ UNCHANGED <<options, current, asked, sendVars, netVars>>
      /\ Loop(url)

-----------------------------------------------------------------------------
(* A rejected call ends sendOperations, and the stream for good. *)
Rejected(u) ==
  /\ call[u].pc = "threw"
  /\ call' = [call EXCEPT ![u] = NoCall]
  /\ \/ u = "sender" /\ sender' = "idle" /\ UNCHANGED stream
     \/ u = "stream" /\ stream' = "error" /\ UNCHANGED sender
  /\ UNCHANGED <<currentAddress, sends, confirmed, options, current, seen, asked, yielded, netVars>>

(* The network, external to the client. *)
Irreversible(url) ==
  /\ lib[url] < MaxLib
  /\ lib' = [lib EXCEPT ![url] = @ + 1]
  /\ UNCHANGED <<clientVars, sendVars, streamVars, pending, chain, expired>>

Include ==
  /\ \E t \in pending : chain' = chain \union {t} /\ pending' = pending \ {t}
  /\ UNCHANGED <<clientVars, sendVars, streamVars, lib, expired>>

Expire ==
  /\ sender = "broadcast" /\ sends \notin {t[1] : t \in expired}
  /\ expired' = expired \union ({sends} \X (1..2))
  /\ pending' = pending \ expired'
  /\ UNCHANGED <<clientVars, sendVars, streamVars, lib, chain>>

(* A client in use: an earlier call may have left it at any address. *)
Init ==
  /\ currentAddress \in Url
  /\ call = [u \in User |-> NoCall]
  /\ sender = "idle" /\ sends = 0 /\ confirmed = {}
  /\ stream = "idle" /\ options \in Options /\ current = 0 /\ seen = Undefined
  /\ asked = Addresses[1] /\ yielded = <<>>
  /\ lib \in [Url -> 1..2]
  /\ pending = {} /\ chain = {} /\ expired = {}

Next ==
  \/ \E u \in User : FetchFails(u) \/ Retry(u) \/ RpcError(u) \/ Rejected(u)
  \/ sendOperations \/ sign \/ Accept \/ Refused \/ Confirmed \/ ExpiredResult
  \/ StreamStarts \/ Wakes \/ Number \/ Block
  \/ \E url \in Url : Irreversible(url)
  \/ Include \/ Expire

Answers(u) ==
  \/ RpcError(u)
  \/ u = "sender" /\ (sign \/ Refused \/ Confirmed \/ ExpiredResult)
  \/ u = "stream" /\ (Number \/ Block)

CallGoesOn(u) ==
  \/ FetchFails(u) \/ Answers(u) \/ Retry(u) \/ Rejected(u)
  \/ u = "sender" /\ Accept

(* Timers fire, a fetch ends one way or the other, a call that is repeated *)
(* over and over is at last late, and blocks are made.                     *)
Fairness ==
  /\ \A u \in User :
       WF_vars(CallGoesOn(u)) /\ SF_vars(Failure(u, TRUE) \/ Answers(u))
  /\ WF_vars(StreamStarts \/ Wakes)
  /\ WF_vars(Expire) /\ WF_vars(\E url \in Url : Irreversible(url))

Spec == Init /\ [][Next]_vars /\ Fairness

-----------------------------------------------------------------------------
Request ==
  [kind : {"props", "number", "block"}] \cup [kind : {"broadcast"}, tx : Tx]
    \cup [kind : {"failover", "other", "rpc"}]  \* what a call has thrown

Call ==
  [pc : {"fetch", "sleep", "threw"}, req : Request, addr : Url,
   round : 0..FailoverThreshold, late : BOOLEAN, reached : BOOLEAN]

TypeOK ==
  /\ currentAddress \in Url /\ asked \in Url
  /\ call \in [User -> Call \cup {NoCall}]
  /\ sender \in {"idle", "props", "broadcast"} /\ sends \in 0..MaxSends
  /\ stream \in {"idle", "number", "block", "sleep", "done", "error"} /\ options \in Options
  /\ current \in Nat /\ seen \in Nat /\ lib \in [Url -> Nat \ {0}]
  /\ yielded \in Seq([num : Nat, block : {"final", "branch", "null"}, from : Url, asked : Url])
  /\ confirmed \subseteq 1..MaxSends
  /\ pending \subseteq Tx /\ chain \subseteq Tx /\ expired \subseteq Tx

(* What sendOperations confirms is on the chain, although its answer may   *)
(* come after lost connections, retries and a change of endpoint.          *)
ConfirmedOnChain == \A s \in confirmed : \E t \in chain : t[1] = s

(* However often a request is repeated, and at however many endpoints, the *)
(* operations of one sendOperations are applied at most once.              *)
AppliedAtMostOnce == \A t1, t2 \in chain : t1[1] = t2[1] => t1 = t2

(* A lost answer neither repeats nor invents an effect: what call and      *)
(* sendOperations send again, wherever, takes effect at most once, and     *)
(* what they report as confirmed has.                                      *)
EffectsAsReported == ConfirmedOnChain /\ AppliedAtMostOnce

(* As long as one endpoint answers, no endpoint is listed twice (failover  *)
(* finds only the first entry) and the threshold lets a call visit all of  *)
(* them, no call gives up with an error that asks for a failover.          *)
HealthyEndpointFound ==
  Healthy # {} /\ IsInjective(Addresses) /\ FailoverThreshold >= Len(Addresses) - 1
    => \A u \in User : call[u].pc = "threw" => call[u].req.kind # "failover"

(* The stream yields consecutive blocks from the first on, each once, and  *)
(* stops at to, although the endpoints it asks lag behind one another.     *)
StreamInOrder ==
  \A i \in DOMAIN yielded :
    /\ yielded[i].num = yielded[1].num + i - 1
    /\ options.from # Undefined => yielded[1].num = options.from
    /\ options.to # Undefined /\ i > 1 => yielded[i].num <= options.to

(* In Irreversible mode a block off the final chain, or no block, comes    *)
(* only from another endpoint than the one that reported the number.       *)
FinalUnlessMoved ==
  Mode = "Irreversible" =>
    \A i \in DOMAIN yielded :
      yielded[i].block # "final" => yielded[i].from # yielded[i].asked

(* The stream is a part of the final chain, in order, up to the blocks it  *)
(* takes from an endpoint that has not reported their number.              *)
StreamCorrect == StreamInOrder /\ FinalUnlessMoved

(* With a healthy endpoint sendOperations comes back, and the stream       *)
(* arrives at the last irreversible block, or they fail for good.          *)
Settles ==
  /\ sender # "idle" ~> sender = "idle"
  /\ <>(stream \in {"done", "error"} \/ seen >= MaxLib)

-----------------------------------------------------------------------------
(* What the proofs carry along.                                            *)

(* A call of sendOperations has one transaction, signed once, and nothing  *)
(* else of it is in a pool or on the chain.                                *)
SignedOnce ==
  /\ sender = "idle" <=> call["sender"] = NoCall
  /\ sender # "idle" => sends # 0
  /\ sender = "broadcast" /\ call["sender"].pc \in {"fetch", "sleep"} =>
       call["sender"].req = [kind |-> "broadcast", tx |-> <<sends, 1>>]
  /\ \A t \in pending \union chain : t[2] = 1

(* From address i the endpoint at h is a number of failovers away.         *)
Distance(i, h) == IF i <= h THEN h - i ELSE Len(Addresses) - i + h

(* The failovers a call has made have brought it nearer to an endpoint     *)
(* that answers: so many are left as lead there.                           *)
HealthyAhead ==
  Healthy # {} /\ IsInjective(Addresses) =>
    \A u \in User : call[u] # NoCall /\ call[u].pc # "threw" =>
      \E h \in DOMAIN Addresses :
        /\ Addresses[h] \in Healthy
        /\ call[u].round + Distance(indexOf(call[u].addr), h) <= Len(Addresses) - 1

(* Where the stream is, seen from what it has yielded and what it asks for *)
(* next.                                                                   *)
StreamPlace ==
  /\ yielded # <<>> => seen = yielded[1].num + Len(yielded)
  /\ yielded = <<>> /\ seen # Undefined /\ options.from # Undefined => seen = options.from
  /\ yielded # <<>> => seen # Undefined
  /\ stream \in {"number", "block"} <=> call["stream"] # NoCall
  /\ stream = "block" =>
       /\ seen # Undefined /\ seen < current
       /\ options.to # Undefined /\ yielded # <<>> => seen <= options.to
       /\ Mode = "Irreversible" => current <= lib[asked]

IInv ==
  TypeOK /\ EffectsAsReported /\ StreamCorrect /\ HealthyEndpointFound
    /\ SignedOnce /\ HealthyAhead /\ StreamPlace
=============================================================================
