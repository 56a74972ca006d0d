---------------------------- MODULE ClientProofs -----------------------------
(***************************************************************************)
(* Proofs about the clients.  RpcClient, for any list of endpoints, any    *)
(* threshold and any stream: retries and failovers neither repeat nor      *)
(* invent an effect, a call finds the endpoint that answers, and the       *)
(* stream yields consecutive blocks.  WsTransport, for any numbers of      *)
(* requests and sockets: answers reach their own requests, none is lost    *)
(* before a failure, and the stream has no gaps.  ApiFailover, for any     *)
(* list of endpoints: a failover leaves the endpoint that failed.          *)
(***************************************************************************)
EXTENDS RpcClient, WsTransport, ApiFailover,
        FiniteSetTheorems, SequenceTheorems, WellFoundedInduction, TLAPS

-----------------------------------------------------------------------------
(* The invariant in parts, each about one user of the client.              *)

ClientPart ==
  /\ currentAddress \in Url /\ call \in [User -> Call \cup {NoCall}]
  /\ HealthyEndpointFound /\ HealthyAhead

SenderPart ==
  /\ sender \in {"idle", "props", "broadcast"} /\ sends \in 0..MaxSends
  /\ confirmed \subseteq 1..MaxSends
  /\ pending \subseteq Tx /\ chain \subseteq Tx /\ expired \subseteq Tx
  /\ EffectsAsReported /\ SignedOnce

StreamPart ==
  /\ asked \in Url
  /\ stream \in {"idle", "number", "block", "sleep", "done", "error"} /\ options \in Options
  /\ current \in Nat /\ seen \in Nat /\ lib \in [Url -> Nat \ {0}]
  /\ yielded \in Seq([num : Nat, block : {"final", "branch", "null"}, from : Url, asked : Url])
  /\ StreamCorrect /\ StreamPlace

\* The invariant by the part of the client it is about.
LEMMA InvariantInParts == IInv <=> ClientPart /\ SenderPart /\ StreamPart
BY DEF IInv, TypeOK, ClientPart, SenderPart, StreamPart

-----------------------------------------------------------------------------
(* The rotation of the endpoints.                                          *)

\* Every set of naturals has a least element.
LEMMA Least ==
  ASSUME NEW S, S \subseteq Nat, S # {}
  PROVE  \E m \in S : \A n \in S : m <= n
<1>1. PICK m \in S : \A n \in S : <<n, m>> \notin OpToRel(<, Nat)
  BY NatLessThanWellFounded, WFMin, Zenon
<1>2. \A n \in S : ~(n < m)
  BY <1>1 DEF OpToRel
<1> QED BY <1>2

\* The list of endpoints.
LEMMA AddressList ==
  /\ Len(Addresses) \in Nat \ {0} /\ DOMAIN Addresses = 1..Len(Addresses)
  /\ \A i \in 1..Len(Addresses) : Addresses[i] \in Url
  /\ Healthy \subseteq Url
<1>1. /\ Len(Addresses) \in Nat /\ DOMAIN Addresses = 1..Len(Addresses)
      /\ Addresses \in [1..Len(Addresses) -> Range(Addresses)]
  BY LenProperties, ClientAssumption
<1>2. Len(Addresses) # 0
  BY EmptySeq, ClientAssumption
<1> QED BY <1>1, <1>2, ClientAssumption DEF Url

\* indexOf finds every url of the list.
LEMMA IndexFound ==
  ASSUME NEW url \in Url
  PROVE  indexOf(url) \in 1..Len(Addresses) /\ Addresses[indexOf(url)] = url
<1> DEFINE S == {i \in DOMAIN Addresses : Addresses[i] = url}
<1>1. S \subseteq Nat /\ S # {}
  BY AddressList DEF Url, Range
<1>2. \E i \in S : \A j \in S : i <= j
  BY <1>1, Least
<1>3. \E i \in DOMAIN Addresses :
         Addresses[i] = url /\ \A j \in DOMAIN Addresses : Addresses[j] = url => i <= j
  BY <1>2
<1> QED BY <1>3, AddressList DEF indexOf

\* The next endpoint is in the list, one place further, or the first.
LEMMA NextUrl ==
  ASSUME NEW url \in Url
  PROVE  /\ failover(url) \in Url
         /\ IsInjective(Addresses) =>
              indexOf(failover(url)) =
                IF Len(Addresses) = indexOf(url) THEN 1 ELSE indexOf(url) + 1
<1> DEFINE n == IF Len(Addresses) = indexOf(url) THEN 1 ELSE indexOf(url) + 1
<1>1. n \in 1..Len(Addresses)
  BY IndexFound, AddressList
<1>2. failover(url) = Addresses[n]
  BY DEF failover
<1> HIDE DEF n
<1>3. failover(url) \in Url
  BY <1>1, <1>2, AddressList
<1>4. ASSUME IsInjective(Addresses)
      PROVE  indexOf(failover(url)) = n
  <2>1. indexOf(failover(url)) \in 1..Len(Addresses) /\ Addresses[indexOf(failover(url))] = Addresses[n]
    BY <1>2, <1>3, IndexFound
  <2> QED BY <1>1, <1>4, <2>1, AddressList DEF IsInjective
<1> QED BY <1>3, <1>4 DEF n

\* A failover from an endpoint that does not answer comes one nearer.
LEMMA Nearer ==
  ASSUME IsInjective(Addresses), NEW url \in Url, url \notin Healthy,
         NEW h \in DOMAIN Addresses, Addresses[h] \in Healthy
  PROVE  Distance(indexOf(failover(url)), h) = Distance(indexOf(url), h) - 1
<1>1. indexOf(url) \in 1..Len(Addresses) /\ indexOf(url) # h /\ h \in 1..Len(Addresses)
  BY IndexFound, AddressList
<1>2. indexOf(failover(url)) = IF Len(Addresses) = indexOf(url) THEN 1 ELSE indexOf(url) + 1
  BY NextUrl
<1> QED BY <1>1, <1>2, AddressList DEF Distance

\* Wherever a call starts, every endpoint is fewer failovers away than there
\* are endpoints.
LEMMA StartsNear ==
  ASSUME NEW url \in Url, Healthy # {}
  PROVE  \E h \in DOMAIN Addresses :
           Addresses[h] \in Healthy /\ 0 + Distance(indexOf(url), h) <= Len(Addresses) - 1
<1>1. PICK g \in Healthy : TRUE
  OBVIOUS
<1>2. indexOf(g) \in DOMAIN Addresses /\ Addresses[indexOf(g)] \in Healthy
  BY AddressList, IndexFound
<1>3. indexOf(url) \in 1..Len(Addresses)
  BY IndexFound
<1>4. 0 + Distance(indexOf(url), indexOf(g)) <= Len(Addresses) - 1
  BY <1>2, <1>3, AddressList DEF Distance
<1> QED BY <1>2, <1>4

-----------------------------------------------------------------------------
(* The client: what becomes of a call.                                     *)

\* HealthyAhead, for one call.
Near(c) ==
  c # NoCall /\ c.pc # "threw" =>
    \E h \in DOMAIN Addresses :
      Addresses[h] \in Healthy /\ c.round + Distance(indexOf(c.addr), h) <= Len(Addresses) - 1

\* HealthyEndpointFound, for one call.
NotGivenUp(c) == c.pc = "threw" => c.req.kind # "failover"

\* No call is told from every call.
LEMMA NoCallIsNoCall == NoCall.pc = "none" /\ \A c \in Call : c # NoCall /\ c.pc # "none"
BY DEF NoCall, Call

\* One call changes: the client's part holds if the call is what it should be.
LEMMA OneCallMoves ==
  ASSUME ClientPart, NEW u \in User, NEW c \in Call \cup {NoCall},
         call' = [call EXCEPT ![u] = c], currentAddress' \in Url,
         Healthy # {} /\ IsInjective(Addresses) => Near(c),
         Healthy # {} /\ IsInjective(Addresses) /\ FailoverThreshold >= Len(Addresses) - 1
           => NotGivenUp(c)
  PROVE  ClientPart'
<1>1. call' \in [User -> Call \cup {NoCall}] /\ call'[u] = c
      /\ \A v \in User \ {u} : call'[v] = call[v]
  BY DEF ClientPart
<1>2. HealthyAhead'
  BY <1>1 DEF ClientPart, HealthyAhead, Near
<1>3. HealthyEndpointFound'
  BY <1>1 DEF ClientPart, HealthyEndpointFound, NotGivenUp
<1> QED BY <1>1, <1>2, <1>3 DEF ClientPart

\* A call that has not begun, or has ended.
LEMMA CallGone ==
  ASSUME ClientPart, NEW u \in User, call' = [call EXCEPT ![u] = NoCall], currentAddress' \in Url
  PROVE  ClientPart'
<1>1. Near(NoCall) /\ NotGivenUp(NoCall)
  BY DEF Near, NotGivenUp, NoCall
<1> QED BY <1>1, OneCallMoves

\* A new call.
LEMMA CallStarts ==
  ASSUME ClientPart, NEW u \in User, NEW req \in Request, NEW url \in Url,
         StartCall(u, req, url), currentAddress' \in Url
  PROVE  ClientPart' /\ call'[u] = [pc |-> "fetch", req |-> req, addr |-> url, round |-> 0,
                                    late |-> FALSE, reached |-> FALSE]
<1> DEFINE c == [pc |-> "fetch", req |-> req, addr |-> url, round |-> 0,
                 late |-> FALSE, reached |-> FALSE]
<1>1. c \in Call /\ c.pc = "fetch" /\ c.round = 0 /\ c.addr = url
  BY ClientAssumption DEF Call
<1>2. call' = [call EXCEPT ![u] = c]
  BY DEF StartCall
<1> HIDE DEF c
<1>3. Healthy # {} => Near(c)
  BY <1>1, StartsNear DEF Near
<1>4. NotGivenUp(c)
  BY <1>1 DEF NotGivenUp
<1>5. ClientPart'
  BY <1>1, <1>2, <1>3, <1>4, OneCallMoves
<1>6. call'[u] = c
  BY <1>2 DEF ClientPart
<1> QED BY <1>5, <1>6 DEF c

\* Steps that leave the client as it is.
LEMMA CallsUnchanged ==
  ASSUME ClientPart, UNCHANGED clientVars
  PROVE  ClientPart'
BY DEF ClientPart, clientVars, HealthyEndpointFound, HealthyAhead

\* A call goes on with the same request, or throws.
GoesOn(u) ==
  /\ call[u] \in Call /\ call[u].pc # "threw" /\ call'[u] \in Call
  /\ call'[u].pc = "threw" \/ call'[u].req = call[u].req
  /\ \A v \in User \ {u} : call'[v] = call[v]

\* A call that goes on leaves its caller where it waits.
LEMMA GoesOnKeeps ==
  ASSUME SenderPart, StreamPart, NEW u \in User, GoesOn(u),
         UNCHANGED <<sendVars, streamVars, netVars>>
  PROVE  SenderPart' /\ StreamPart'
<1>1. UNCHANGED <<sender, sends, confirmed, stream, options, current, seen, asked, yielded,
                  lib, pending, chain, expired>>
  BY DEF sendVars, streamVars, netVars
<1>2. \A v \in User : (call'[v] = NoCall) <=> (call[v] = NoCall)
  BY NoCallIsNoCall DEF GoesOn
<1>3. "sender" \in User /\ "stream" \in User
  BY DEF User
<1>4. ASSUME sender = "broadcast", call'["sender"].pc \in {"fetch", "sleep"}
      PROVE  call'["sender"].req = [kind |-> "broadcast", tx |-> <<sends, 1>>]
  <2>1. CASE u = "sender"
    <3>1. call["sender"].pc \in {"fetch", "sleep"} /\ call'["sender"].req = call["sender"].req
      BY <1>4, <2>1 DEF GoesOn, Call
    <3> QED BY <1>4, <3>1 DEF SenderPart, SignedOnce
  <2>2. CASE u # "sender"
    BY <1>3, <1>4, <2>2 DEF GoesOn, SenderPart, SignedOnce
  <2> QED BY <2>1, <2>2
<1>5. SignedOnce'
  BY <1>1, <1>2, <1>3, <1>4 DEF SenderPart, SignedOnce
<1>6. SenderPart'
  BY <1>1, <1>5 DEF SenderPart, EffectsAsReported, ConfirmedOnChain, AppliedAtMostOnce
<1>7. StreamPlace'
  BY <1>1, <1>2, <1>3 DEF StreamPart, StreamPlace
<1>8. StreamPart'
  BY <1>1, <1>7 DEF StreamPart, StreamCorrect, StreamInOrder, FinalUnlessMoved
<1> QED BY <1>6, <1>8

\* The catch block: every way to go on after a failed fetch.
LEMMA StepFailure ==
  ASSUME IInv, NEW u \in User, NEW late \in BOOLEAN, Failure(u, late)
  PROVE  IInv'
<1> DEFINE c == call[u]
<1>0. ClientPart /\ SenderPart /\ StreamPart
  BY InvariantInParts
<1>1. c \in Call /\ c.pc = "fetch" /\ c.addr \in Url /\ c.addr \notin Healthy /\ c.req \in Request
      /\ c.round \in 0..FailoverThreshold
  BY <1>0, NoCallIsNoCall DEF Failure, Fetching, ClientPart, Call
<1>2. UNCHANGED <<currentAddress, sendVars, streamVars, netVars>>
  BY DEF Failure
<1>3. PICK code \in Codes :
        SameAddress(u, code, late) \/ NextAddress(u, code, late)
          \/ NextRound(u, code, late) \/ Throw(u, code, late)
  BY DEF Failure
<1>4. failover(c.addr) \in Url
  BY <1>1, NextUrl
<1>5. currentAddress' \in Url /\ call \in [User -> Call \cup {NoCall}]
  BY <1>0, <1>2 DEF ClientPart
<1>6. ASSUME Healthy # {}, IsInjective(Addresses)
      PROVE  \E h \in DOMAIN Addresses :
               /\ Addresses[h] \in Healthy
               /\ c.round + Distance(indexOf(c.addr), h) <= Len(Addresses) - 1
               /\ Distance(indexOf(failover(c.addr)), h) = Distance(indexOf(c.addr), h) - 1
               /\ Distance(indexOf(c.addr), h) \in Nat \ {0}
  <2>1. PICK h \in DOMAIN Addresses :
          Addresses[h] \in Healthy /\ c.round + Distance(indexOf(c.addr), h) <= Len(Addresses) - 1
    BY <1>0, <1>1, <1>6, NoCallIsNoCall DEF ClientPart, HealthyAhead
  <2>2. Distance(indexOf(failover(c.addr)), h) = Distance(indexOf(c.addr), h) - 1
    BY <1>1, <1>6, <2>1, Nearer
  <2>3. indexOf(c.addr) \in 1..Len(Addresses) /\ indexOf(c.addr) # h /\ h \in 1..Len(Addresses)
    BY <1>1, <2>1, IndexFound, AddressList
  <2>4. Distance(indexOf(c.addr), h) \in Nat \ {0}
    BY <2>3, AddressList DEF Distance
  <2> QED BY <2>1, <2>2, <2>4
<1>7. CASE SameAddress(u, code, late)
  <2> DEFINE d == [c EXCEPT !.pc = "sleep"]
  <2>1. call' = [call EXCEPT ![u] = d]
    BY <1>5, <1>7 DEF SameAddress
  <2>2. d \in Call /\ d.pc = "sleep" /\ d.req = c.req /\ d.addr = c.addr /\ d.round = c.round
    BY <1>1 DEF Call
  <2> HIDE DEF d
  <2>3. Healthy # {} /\ IsInjective(Addresses) => Near(d)
    BY <1>6, <2>2 DEF Near
  <2>4. NotGivenUp(d)
    BY <2>2 DEF NotGivenUp
  <2>5. ClientPart'
    BY <1>0, <1>5, <2>1, <2>2, <2>3, <2>4, OneCallMoves
  <2>6. GoesOn(u)
    BY <1>1, <1>5, <2>1, <2>2 DEF GoesOn
  <2>7. SenderPart' /\ StreamPart'
    BY <1>0, <1>2, <2>6, GoesOnKeeps
  <2> QED BY <2>5, <2>7, InvariantInParts, PTL
<1>8. CASE NextAddress(u, code, late)
  <2> DEFINE d == [c EXCEPT !.pc = "sleep", !.addr = failover(c.addr), !.late = TRUE]
  <2>1. call' = [call EXCEPT ![u] = d]
    BY <1>1, <1>5, <1>8 DEF NextAddress, Call
  <2>2. d \in Call /\ d.pc = "sleep" /\ d.req = c.req /\ d.addr = failover(c.addr) /\ d.round = c.round
    BY <1>1, <1>4 DEF Call
  <2> HIDE DEF d
  <2>3. Healthy # {} /\ IsInjective(Addresses) => Near(d)
    BY <1>1, <1>6, <2>2, AddressList, ClientAssumption DEF Near
  <2>4. NotGivenUp(d)
    BY <2>2 DEF NotGivenUp
  <2>5. ClientPart'
    BY <1>0, <1>5, <2>1, <2>2, <2>3, <2>4, OneCallMoves
  <2>6. GoesOn(u)
    BY <1>1, <1>5, <2>1, <2>2 DEF GoesOn
  <2>7. SenderPart' /\ StreamPart'
    BY <1>0, <1>2, <2>6, GoesOnKeeps
  <2> QED BY <2>5, <2>7, InvariantInParts, PTL
<1>9. CASE NextRound(u, code, late)
  <2> DEFINE d == [c EXCEPT !.pc = "sleep", !.addr = failover(c.addr),
                            !.round = c.round + 1, !.late = FALSE]
  <2>1. call' = [call EXCEPT ![u] = d] /\ c.round < FailoverThreshold
    BY <1>1, <1>5, <1>9 DEF NextRound, Call
  <2>2. c.round + 1 \in 0..FailoverThreshold
    BY <1>1, <2>1, ClientAssumption
  <2>3. d \in Call /\ d.pc = "sleep" /\ d.req = c.req /\ d.addr = failover(c.addr)
        /\ d.round = c.round + 1
    BY <1>1, <1>4, <2>2 DEF Call
  <2> HIDE DEF d
  <2>4. Healthy # {} /\ IsInjective(Addresses) => Near(d)
    BY <1>1, <1>6, <2>3, AddressList, ClientAssumption DEF Near
  <2>5. NotGivenUp(d)
    BY <2>3 DEF NotGivenUp
  <2>6. ClientPart'
    BY <1>0, <1>5, <2>1, <2>3, <2>4, <2>5, OneCallMoves
  <2>7. GoesOn(u)
    BY <1>1, <1>5, <2>1, <2>3 DEF GoesOn
  <2>8. SenderPart' /\ StreamPart'
    BY <1>0, <1>2, <2>7, GoesOnKeeps
  <2> QED BY <2>6, <2>8, InvariantInParts, PTL
<1>10. CASE Throw(u, code, late)
  <2> DEFINE d == [c EXCEPT !.pc = "threw", !.req = [kind |-> code]]
  <2>1. call' = [call EXCEPT ![u] = d]
    BY <1>1, <1>5, <1>10 DEF Throw, Call
  <2>2. code \in {"failover", "other"}
        /\ (code = "failover" => Len(Addresses) = 1 \/ c.round >= FailoverThreshold)
    BY <1>10 DEF Throw
  <2>3. [kind |-> code] \in Request /\ [kind |-> code].kind = code
    BY <2>2 DEF Request
  <2>4. d \in Call /\ d.pc = "threw" /\ d.req = [kind |-> code]
    BY <1>1, <2>3 DEF Call
  <2> HIDE DEF d
  <2>5. Near(d)
    BY <2>4 DEF Near
  <2>6. ASSUME Healthy # {}, IsInjective(Addresses), FailoverThreshold >= Len(Addresses) - 1
        PROVE  NotGivenUp(d)
    <3> SUFFICES ASSUME code = "failover" PROVE FALSE
      BY <2>2, <2>3, <2>4 DEF NotGivenUp
    <3>1. c.round >= Len(Addresses) - 1
      BY <1>1, <2>2, <2>6, AddressList, ClientAssumption
    <3> QED BY <1>1, <1>6, <2>6, <3>1, AddressList, ClientAssumption
  <2>7. ClientPart'
    BY <1>0, <1>5, <2>1, <2>4, <2>5, <2>6, OneCallMoves
  <2>8. GoesOn(u)
    BY <1>1, <1>5, <2>1, <2>4 DEF GoesOn
  <2>9. SenderPart' /\ StreamPart'
    BY <1>0, <1>2, <2>8, GoesOnKeeps
  <2> QED BY <2>7, <2>9, InvariantInParts, PTL
<1> QED BY <1>3, <1>7, <1>8, <1>9, <1>10

\* The loop goes round, or the endpoint reports an error.
LEMMA StepRetryOrError ==
  ASSUME IInv, NEW u \in User, Retry(u) \/ RpcError(u)
  PROVE  IInv'
<1> DEFINE c == call[u]
<1>0. ClientPart /\ SenderPart /\ StreamPart
  BY InvariantInParts
<1>1. c \in Call /\ c.pc # "threw" /\ c.addr \in Url /\ call \in [User -> Call \cup {NoCall}]
  BY <1>0, NoCallIsNoCall DEF Retry, RpcError, Answered, Fetching, ClientPart, Call
<1>2. UNCHANGED <<sendVars, streamVars, netVars>> /\ currentAddress' \in Url
  BY <1>0, <1>1 DEF Retry, RpcError, Answered, ClientPart
<1>3. CASE Retry(u)
  <2> DEFINE d == [c EXCEPT !.pc = "fetch", !.reached = FALSE]
  <2>1. call' = [call EXCEPT ![u] = d]
    BY <1>1, <1>3 DEF Retry, Call
  <2>2. d \in Call /\ d.pc = "fetch" /\ d.req = c.req /\ d.addr = c.addr /\ d.round = c.round
    BY <1>1 DEF Call
  <2> HIDE DEF d
  <2>3. Healthy # {} /\ IsInjective(Addresses) => Near(d)
    BY <1>0, <1>1, <2>2, NoCallIsNoCall DEF Near, ClientPart, HealthyAhead
  <2>4. NotGivenUp(d)
    BY <2>2 DEF NotGivenUp
  <2>5. ClientPart'
    BY <1>0, <1>2, <2>1, <2>2, <2>3, <2>4, OneCallMoves
  <2>6. GoesOn(u)
    BY <1>1, <2>1, <2>2 DEF GoesOn
  <2>7. SenderPart' /\ StreamPart'
    BY <1>0, <1>2, <2>6, GoesOnKeeps
  <2> QED BY <2>5, <2>7, InvariantInParts, PTL
<1>4. CASE RpcError(u)
  <2> DEFINE d == [c EXCEPT !.pc = "threw", !.req = [kind |-> "rpc"]]
  <2>1. call' = [call EXCEPT ![u] = d]
    BY <1>1, <1>4 DEF RpcError, Call
  <2>2. [kind |-> "rpc"] \in Request /\ [kind |-> "rpc"].kind = "rpc"
    BY DEF Request
  <2>3. d \in Call /\ d.pc = "threw" /\ d.req = [kind |-> "rpc"]
    BY <1>1, <2>2 DEF Call
  <2> HIDE DEF d
  <2>4. Near(d) /\ NotGivenUp(d)
    BY <2>2, <2>3 DEF Near, NotGivenUp
  <2>5. ClientPart'
    BY <1>0, <1>2, <2>1, <2>3, <2>4, OneCallMoves
  <2>6. GoesOn(u)
    BY <1>1, <2>1, <2>3 DEF GoesOn
  <2>7. SenderPart' /\ StreamPart'
    BY <1>0, <1>2, <2>6, GoesOnKeeps
  <2> QED BY <2>5, <2>7, InvariantInParts, PTL
<1> QED BY <1>3, <1>4

-----------------------------------------------------------------------------
(* sendOperations.                                                         *)

\* Nothing of the stream changes.
LEMMA StreamUnchanged ==
  ASSUME StreamPart, UNCHANGED <<streamVars, lib>>, call'["stream"] = call["stream"]
  PROVE  StreamPart'
<1>1. UNCHANGED <<stream, options, current, seen, asked, yielded, lib>>
  BY DEF streamVars
<1>2. StreamPlace'
  BY <1>1 DEF StreamPart, StreamPlace
<1> QED BY <1>1, <1>2 DEF StreamPart, StreamCorrect, StreamInOrder, FinalUnlessMoved

\* Nothing of sendOperations and its transactions changes.
LEMMA SenderUnchanged ==
  ASSUME SenderPart, UNCHANGED <<sendVars, pending, chain, expired>>,
         call'["sender"] = call["sender"]
  PROVE  SenderPart'
BY DEF SenderPart, sendVars, EffectsAsReported, ConfirmedOnChain, AppliedAtMostOnce, SignedOnce

\* The client waits for two users.
LEMMA TwoUsers == User = {"sender", "stream"} /\ "sender" # "stream"
BY DEF User

\* Where sendOperations broadcasts, it broadcasts its one transaction.
LEMMA OneTransaction ==
  ASSUME IInv, Broadcasting
  PROVE  /\ tx = <<sends, 1>> /\ tx \in Tx /\ sends \in 1..MaxSends
         /\ call["sender"] \in Call /\ call["sender"].pc = "fetch" /\ call["sender"].addr \in Url
<1>1. sender = "broadcast" /\ call["sender"].pc = "fetch" /\ sends # 0
  BY DEF Broadcasting, Fetching, IInv, SignedOnce
<1>2. call["sender"] \in Call
  BY <1>1, NoCallIsNoCall, TwoUsers DEF IInv, TypeOK
<1>3. call["sender"].req = [kind |-> "broadcast", tx |-> <<sends, 1>>]
  BY <1>1 DEF IInv, SignedOnce
<1>4. tx = <<sends, 1>>
  BY <1>3 DEF tx
<1>5. sends \in 1..MaxSends
  BY <1>1, ClientAssumption DEF IInv, TypeOK
<1> QED BY <1>1, <1>2, <1>4, <1>5 DEF Tx, Call

\* The operations are signed and sent.
LEMMA StepSendOperations ==
  ASSUME IInv, sendOperations
  PROVE  IInv'
<1>0. ClientPart /\ SenderPart /\ StreamPart
  BY InvariantInParts
<1>1. /\ sender = "idle" /\ sends < MaxSends /\ sender' = "props" /\ sends' = sends + 1
      /\ StartCall("sender", [kind |-> "props"], currentAddress)
      /\ UNCHANGED <<currentAddress, confirmed, streamVars, netVars>>
  BY DEF sendOperations
<1>2. [kind |-> "props"] \in Request /\ currentAddress \in Url
  BY <1>0 DEF Request, ClientPart
<1> DEFINE c == [pc |-> "fetch", req |-> [kind |-> "props"], addr |-> currentAddress, round |-> 0,
                 late |-> FALSE, reached |-> FALSE]
<1>3. ClientPart' /\ call'["sender"] = c
  BY <1>0, <1>1, <1>2, CallStarts, TwoUsers
<1>4. c # NoCall
  BY DEF NoCall
<1>5. sends' \in 0..MaxSends /\ sends' # 0
  BY <1>0, <1>1, ClientAssumption DEF SenderPart
<1> HIDE DEF c
<1>6. SenderPart'
  BY <1>0, <1>1, <1>3, <1>4, <1>5
     DEF SenderPart, EffectsAsReported, ConfirmedOnChain, AppliedAtMostOnce, SignedOnce, netVars
<1>7. StreamPart'
  <2>1. call'["stream"] = call["stream"]
    BY <1>0, <1>1, TwoUsers DEF StartCall, ClientPart
  <2> QED BY <1>0, <1>1, <2>1, StreamUnchanged DEF netVars
<1> QED BY <1>3, <1>6, <1>7, InvariantInParts, PTL

\* The transaction is built and signed: once for every sendOperations.
LEMMA StepSign ==
  ASSUME IInv, sign
  PROVE  IInv'
<1>0. ClientPart /\ SenderPart /\ StreamPart
  BY InvariantInParts
<1>1. /\ sender = "props" /\ sender' = "broadcast" /\ currentAddress' = call["sender"].addr
      /\ call["sender"].pc = "fetch"
      /\ StartCall("sender", [kind |-> "broadcast", tx |-> <<sends, 1>>], call["sender"].addr)
      /\ UNCHANGED <<sends, confirmed, streamVars, netVars>>
  BY DEF sign, Answered, Fetching
<1>2. call["sender"].addr \in Url
  BY <1>0, <1>1, NoCallIsNoCall, TwoUsers DEF ClientPart, Call
<1>3. <<sends, 1>> \in Tx
  BY <1>0, <1>1, ClientAssumption DEF SenderPart, SignedOnce, Tx
<1>4. [kind |-> "broadcast", tx |-> <<sends, 1>>] \in Request
  BY <1>3 DEF Request
<1> DEFINE c == [pc |-> "fetch", req |-> [kind |-> "broadcast", tx |-> <<sends, 1>>],
                 addr |-> call["sender"].addr, round |-> 0, late |-> FALSE, reached |-> FALSE]
<1>5. ClientPart' /\ call'["sender"] = c
  BY <1>0, <1>1, <1>2, <1>4, CallStarts, TwoUsers
<1>6. c # NoCall /\ c.req = [kind |-> "broadcast", tx |-> <<sends, 1>>]
  BY DEF NoCall
<1> HIDE DEF c
<1>7. SenderPart'
  BY <1>0, <1>1, <1>5, <1>6
     DEF SenderPart, EffectsAsReported, ConfirmedOnChain, AppliedAtMostOnce, SignedOnce, netVars
<1>8. StreamPart'
  <2>1. call'["stream"] = call["stream"]
    BY <1>0, <1>1, TwoUsers DEF StartCall, ClientPart
  <2> QED BY <1>0, <1>1, <2>1, StreamUnchanged DEF netVars
<1> QED BY <1>5, <1>7, <1>8, InvariantInParts, PTL

\* The endpoint takes the transaction into its pool.
LEMMA StepAccept ==
  ASSUME IInv, Accept
  PROVE  IInv'
<1>0. ClientPart /\ SenderPart /\ StreamPart
  BY InvariantInParts
<1>1. /\ pending' = pending \union {tx} /\ call' = [call EXCEPT !["sender"].reached = TRUE]
      /\ UNCHANGED <<currentAddress, sendVars, streamVars, lib, chain, expired>>
  BY DEF Accept
<1>2. /\ tx = <<sends, 1>> /\ tx \in Tx /\ sends \in 1..MaxSends
      /\ call["sender"] \in Call /\ call["sender"].pc = "fetch"
  BY OneTransaction DEF Accept
<1> DEFINE d == [call["sender"] EXCEPT !.reached = TRUE]
<1>3. call' = [call EXCEPT !["sender"] = d] /\ call \in [User -> Call \cup {NoCall}]
  BY <1>0, <1>1 DEF ClientPart
<1>4. /\ d \in Call /\ d.pc = "fetch" /\ d.req = call["sender"].req /\ d.addr = call["sender"].addr
      /\ d.round = call["sender"].round
  BY <1>2 DEF Call
<1> HIDE DEF d
<1>5. (Healthy # {} /\ IsInjective(Addresses) => Near(d)) /\ NotGivenUp(d)
  BY <1>0, <1>2, <1>4, NoCallIsNoCall, TwoUsers DEF Near, NotGivenUp, ClientPart, HealthyAhead
<1>6. ClientPart'
  BY <1>0, <1>1, <1>3, <1>4, <1>5, OneCallMoves, TwoUsers DEF ClientPart
<1>7. call'["sender"] = d /\ call'["stream"] = call["stream"] /\ d # NoCall /\ call["sender"] # NoCall
  BY <1>2, <1>3, <1>4, NoCallIsNoCall, TwoUsers
<1>8. \A t \in pending' \union chain' : t[2] = 1
  <2>1. <<sends, 1>>[2] = 1
    OBVIOUS
  <2> QED BY <1>0, <1>1, <1>2, <2>1 DEF SenderPart, SignedOnce
<1>9. SignedOnce'
  BY <1>0, <1>1, <1>2, <1>4, <1>7, <1>8 DEF SenderPart, SignedOnce, sendVars
<1>10. SenderPart'
  BY <1>0, <1>1, <1>2, <1>9
     DEF SenderPart, EffectsAsReported, ConfirmedOnChain, AppliedAtMostOnce, sendVars
<1>11. StreamPart'
  BY <1>0, <1>1, <1>7, StreamUnchanged
<1> QED BY <1>6, <1>10, <1>11, InvariantInParts, PTL

\* sendOperations comes back: with a confirmation only for what is on the chain.
LEMMA StepOfResult ==
  ASSUME IInv, Refused \/ Confirmed \/ ExpiredResult
  PROVE  IInv'
<1>0. ClientPart /\ SenderPart /\ StreamPart
  BY InvariantInParts
<1>1. Broadcasting /\ (Returns(FALSE) \/ (Returns(TRUE) /\ tx \in chain))
  BY DEF Refused, Confirmed, ExpiredResult
<1>2. tx = <<sends, 1>> /\ sends \in 1..MaxSends /\ call["sender"].addr \in Url
  BY <1>1, OneTransaction
<1>3. /\ currentAddress' = call["sender"].addr /\ sender' = "idle"
      /\ call' = [call EXCEPT !["sender"] = NoCall]
      /\ UNCHANGED <<sends, streamVars, netVars>>
      /\ confirmed' = confirmed \/ (confirmed' = confirmed \union {sends} /\ <<sends, 1>> \in chain)
  BY <1>1, <1>2 DEF Returns, Answered
<1>4. ClientPart'
  BY <1>0, <1>2, <1>3, CallGone, TwoUsers
<1>5. call'["sender"] = NoCall /\ call'["stream"] = call["stream"]
  BY <1>0, <1>3, TwoUsers DEF ClientPart
<1>6. ConfirmedOnChain'
  <2> SUFFICES ASSUME NEW s \in confirmed' PROVE \E t \in chain : t[1] = s
    BY <1>3 DEF ConfirmedOnChain, netVars
  <2>1. CASE s \in confirmed
    BY <1>0, <2>1 DEF SenderPart, EffectsAsReported, ConfirmedOnChain
  <2>2. CASE s = sends /\ <<sends, 1>> \in chain
    <3>1. <<sends, 1>>[1] = s
      BY <2>2
    <3> QED BY <2>2, <3>1
  <2> QED BY <1>3, <2>1, <2>2
<1>7. SignedOnce'
  BY <1>0, <1>3, <1>5 DEF SenderPart, SignedOnce, netVars
<1>8. SenderPart'
  BY <1>0, <1>2, <1>3, <1>6, <1>7
     DEF SenderPart, EffectsAsReported, AppliedAtMostOnce, netVars
<1>9. StreamPart'
  BY <1>0, <1>3, <1>5, StreamUnchanged DEF netVars
<1> QED BY <1>4, <1>8, <1>9, InvariantInParts, PTL

\* A rejected call ends its caller.
LEMMA StepRejected ==
  ASSUME IInv, NEW u \in User, Rejected(u)
  PROVE  IInv'
<1>0. ClientPart /\ SenderPart /\ StreamPart
  BY InvariantInParts
<1>1. /\ call[u].pc = "threw" /\ call' = [call EXCEPT ![u] = NoCall]
      /\ UNCHANGED <<currentAddress, sends, confirmed, options, current, seen, asked, yielded, netVars>>
  BY DEF Rejected
<1>2. ClientPart'
  BY <1>0, <1>1, CallGone DEF ClientPart
<1>3. CASE u = "sender"
  <2>1. sender' = "idle" /\ stream' = stream
    BY <1>3 DEF Rejected
  <2>2. call'["sender"] = NoCall /\ call'["stream"] = call["stream"]
    BY <1>0, <1>1, <1>3, TwoUsers DEF ClientPart
  <2>3. SenderPart'
    BY <1>0, <1>1, <2>1, <2>2
       DEF SenderPart, EffectsAsReported, ConfirmedOnChain, AppliedAtMostOnce, SignedOnce, netVars
  <2>4. StreamPart'
    BY <1>0, <1>1, <2>1, <2>2, StreamUnchanged DEF streamVars, netVars
  <2> QED BY <1>2, <2>3, <2>4, InvariantInParts, PTL
<1>4. CASE u = "stream"
  <2>1. stream' = "error" /\ sender' = sender
    BY <1>4 DEF Rejected
  <2>2. call'["stream"] = NoCall /\ call'["sender"] = call["sender"]
    BY <1>0, <1>1, <1>4, TwoUsers DEF ClientPart
  <2>3. SenderPart'
    BY <1>0, <1>1, <2>1, <2>2, SenderUnchanged DEF sendVars, netVars
  <2>4. StreamPlace'
    BY <1>0, <1>1, <2>1, <2>2 DEF StreamPart, StreamPlace, netVars
  <2>5. StreamPart'
    BY <1>0, <1>1, <2>1, <2>4 DEF StreamPart, StreamCorrect, StreamInOrder, FinalUnlessMoved, netVars
  <2> QED BY <1>2, <2>3, <2>5, InvariantInParts, PTL
<1> QED BY <1>3, <1>4, TwoUsers

-----------------------------------------------------------------------------
(* The block stream.                                                       *)

\* Nothing of sendOperations changes when only the stream's call does.
LEMMA SenderAside ==
  ASSUME IInv, UNCHANGED <<sendVars, netVars>>, NEW c, call' = [call EXCEPT !["stream"] = c]
  PROVE  SenderPart'
<1>1. call'["sender"] = call["sender"]
  BY TwoUsers DEF IInv, TypeOK
<1> QED BY <1>1, InvariantInParts, SenderUnchanged DEF netVars

\* getBlockNumbers asks for the number of the current block.
LEMMA StepAskNumber ==
  ASSUME IInv, StreamStarts \/ Wakes
  PROVE  IInv'
<1>0. ClientPart /\ SenderPart /\ StreamPart
  BY InvariantInParts
<1>1. /\ stream' = "number" /\ StartCall("stream", [kind |-> "number"], currentAddress)
      /\ UNCHANGED <<currentAddress, options, current, seen, asked, yielded, sendVars, netVars>>
  BY DEF StreamStarts, Wakes, AskNumber
<1>2. [kind |-> "number"] \in Request /\ currentAddress \in Url
  BY <1>0 DEF Request, ClientPart
<1> DEFINE c == [pc |-> "fetch", req |-> [kind |-> "number"], addr |-> currentAddress, round |-> 0,
                 late |-> FALSE, reached |-> FALSE]
<1>3. ClientPart' /\ call'["stream"] = c
  BY <1>0, <1>1, <1>2, CallStarts, TwoUsers
<1>4. c # NoCall
  BY DEF NoCall
<1>5. SenderPart'
  BY <1>1, SenderAside DEF StartCall
<1> HIDE DEF c
<1>6. StreamPlace'
  BY <1>0, <1>1, <1>3, <1>4 DEF StreamPart, StreamPlace
<1>7. StreamPart'
  BY <1>0, <1>1, <1>6 DEF StreamPart, StreamCorrect, StreamInOrder, FinalUnlessMoved, netVars
<1> QED BY <1>3, <1>5, <1>7, InvariantInParts, PTL

\* Whatever the inner loop decides, the stream's part holds when what it looks
\* at is in order.
LEMMA LoopKeeps ==
  ASSUME IInv, NEW url \in Url, Loop(url), currentAddress' \in Url,
         UNCHANGED <<options, sendVars, netVars>>,
         asked' \in Url, current' \in Nat, seen' \in Nat \ {0},
         (yielded \in Seq([num : Nat, block : {"final", "branch", "null"}, from : Url, asked : Url]))',
         StreamCorrect',
         yielded' # <<>> => seen' = yielded'[1].num + Len(yielded'),
         yielded' = <<>> /\ options.from # Undefined => seen' = options.from,
         Mode = "Irreversible" => current' <= lib[asked']
  PROVE  IInv'
<1>0. ClientPart /\ SenderPart /\ StreamPart
  BY InvariantInParts
<1>1. /\ options' = options /\ lib' = lib /\ options.to \in Nat /\ options.from \in Nat
  BY <1>0, ClientAssumption DEF netVars, StreamPart
<1> DEFINE over == options.to # Undefined /\ yielded' # <<>> /\ seen' > options.to
<1>2. CASE stream' \in {"done", "sleep"} /\ call' = [call EXCEPT !["stream"] = NoCall]
  <2>1. ClientPart'
    BY <1>0, <1>2, CallGone, TwoUsers
  <2>2. SenderPart'
    BY <1>2, SenderAside
  <2>3. call'["stream"] = NoCall
    BY <1>0, <1>2, TwoUsers DEF ClientPart
  <2>4. StreamPlace'
    BY <1>1, <1>2, <2>3 DEF StreamPlace, Undefined
  <2>5. StreamPart'
    BY <1>0, <1>1, <1>2, <2>4 DEF StreamPart
  <2> QED BY <2>1, <2>2, <2>5, InvariantInParts, PTL
<1>3. CASE /\ ~over /\ current' > seen' /\ stream' = "block"
           /\ StartCall("stream", [kind |-> "block"], url)
  <2>1. [kind |-> "block"] \in Request
    BY DEF Request
  <2> DEFINE c == [pc |-> "fetch", req |-> [kind |-> "block"], addr |-> url, round |-> 0,
                   late |-> FALSE, reached |-> FALSE]
  <2>2. ClientPart' /\ call'["stream"] = c
    BY <1>0, <1>3, <2>1, CallStarts, TwoUsers
  <2>3. c # NoCall
    BY DEF NoCall
  <2>4. SenderPart'
    BY <1>3, SenderAside DEF StartCall
  <2> HIDE DEF c
  <2>5. StreamPlace'
    BY <1>1, <1>3, <2>2, <2>3 DEF StreamPlace, Undefined
  <2>6. StreamPart'
    BY <1>0, <1>1, <1>3, <2>5 DEF StreamPart
  <2> QED BY <2>2, <2>4, <2>6, InvariantInParts, PTL
<1> QED BY <1>2, <1>3 DEF Loop

\* The number of the current block arrives.
LEMMA StepNumber ==
  ASSUME IInv, Number
  PROVE  IInv'
<1>0. ClientPart /\ SenderPart /\ StreamPart
  BY InvariantInParts
<1> DEFINE url == call["stream"].addr
           num == getCurrentBlockNum(url)
<1>1. /\ stream = "number" /\ call["stream"].pc = "fetch" /\ currentAddress' = url
      /\ current' = num /\ asked' = url /\ yielded' = yielded
      /\ UNCHANGED <<options, sendVars, netVars>>
  BY DEF Number, Answered, Fetching
<1>2. url \in Url
  BY <1>0, <1>1, NoCallIsNoCall, TwoUsers DEF ClientPart, Call
<1>3. num \in Nat \ {0} /\ (Mode = "Irreversible" => num = lib[url])
  BY SMTT(40), <1>0, <1>2 DEF getCurrentBlockNum, StreamPart
<1>4. lib' = lib /\ options.from \in Nat /\ options.to \in Nat
  BY <1>0, <1>1, ClientAssumption DEF netVars, StreamPart
<1>5. StreamCorrect'
  BY <1>0, <1>1 DEF StreamPart, StreamCorrect, StreamInOrder, FinalUnlessMoved
<1>6. CASE /\ seen = Undefined /\ stream' = "error" /\ seen' = seen
           /\ call' = [call EXCEPT !["stream"] = NoCall]
  <2>1. ClientPart'
    BY <1>0, <1>1, <1>2, <1>6, CallGone, TwoUsers
  <2>2. SenderPart'
    BY <1>1, <1>6, SenderAside
  <2>3. call'["stream"] = NoCall
    BY <1>0, <1>6, TwoUsers DEF ClientPart
  <2>4. StreamPlace'
    BY <1>0, <1>1, <1>4, <1>6, <2>3 DEF StreamPart, StreamPlace
  <2>5. StreamPart'
    BY <1>0, <1>1, <1>2, <1>3, <1>4, <1>5, <1>6, <2>4 DEF StreamPart
  <2> QED BY <2>1, <2>2, <2>5, InvariantInParts, PTL
<1>7. CASE /\ seen' = IF seen # Undefined THEN seen
                      ELSE IF options.from # Undefined THEN options.from ELSE num
           /\ Loop(url)
  <2>1. seen' \in Nat \ {0}
    BY <1>0, <1>3, <1>4, <1>7 DEF Undefined, StreamPart
  <2>2. yielded' # <<>> => seen' = yielded'[1].num + Len(yielded')
    BY <1>0, <1>1, <1>7 DEF StreamPart, StreamPlace
  <2>3. yielded' = <<>> /\ options.from # Undefined => seen' = options.from
    BY <1>0, <1>1, <1>7 DEF StreamPart, StreamPlace
  <2>4. (yielded \in Seq([num : Nat, block : {"final", "branch", "null"}, from : Url, asked : Url]))'
    BY <1>0, <1>1 DEF StreamPart
  <2>5. Mode = "Irreversible" => current' <= lib[asked']
    BY <1>1, <1>3
  <2> QED BY <1>1, <1>2, <1>3, <1>5, <1>7, <2>1, <2>2, <2>3, <2>4, <2>5, LoopKeeps
<1> QED BY <1>6, <1>7 DEF Number

\* A block arrives and is yielded: the next number, no further than asked
\* for, and of the final chain if it comes from the endpoint that reported a
\* higher number as irreversible.
LEMMA StepBlock ==
  ASSUME IInv, Block
  PROVE  IInv'
<1>0. ClientPart /\ SenderPart /\ StreamPart
  BY InvariantInParts
<1> DEFINE url == call["stream"].addr
           Yield == [num : Nat, block : {"final", "branch", "null"}, from : Url, asked : Url]
           n == Len(yielded)
<1>1. /\ stream = "block" /\ call["stream"].pc = "fetch" /\ currentAddress' = url
      /\ seen' = seen + 1 /\ Loop(url)
      /\ UNCHANGED <<options, current, asked, sendVars, netVars>>
  BY DEF Block, Answered, Fetching
<1>2. PICK b \in getBlock(url, seen) :
        yielded' = Append(yielded, [num |-> seen, block |-> b, from |-> url, asked |-> asked])
  BY DEF Block
<1>3. url \in Url
  BY <1>0, <1>1, NoCallIsNoCall, TwoUsers DEF ClientPart, Call
<1>4. /\ lib' = lib /\ lib \in [Url -> Nat \ {0}] /\ asked \in Url /\ current \in Nat
      /\ seen \in Nat \ {0} /\ seen < current /\ yielded \in Seq(Yield)
      /\ (options.to # Undefined /\ yielded # <<>> => seen <= options.to)
      /\ (Mode = "Irreversible" => current <= lib[asked])
  BY <1>0, <1>1 DEF StreamPart, StreamPlace, netVars, Undefined
<1> DEFINE y == [num |-> seen, block |-> b, from |-> url, asked |-> asked]
<1>5. b \in {"final", "branch", "null"} /\ (seen <= lib[url] => b = "final")
  BY <1>3, <1>4 DEF getBlock
<1>6. y \in Yield /\ y.num = seen /\ y.block = b /\ y.from = url /\ y.asked = asked
  BY <1>3, <1>4, <1>5
<1>7. Mode = "Irreversible" /\ y.block # "final" => y.from # y.asked
  BY <1>3, <1>4, <1>5, <1>6
<1>8. options.from \in Nat /\ options.to \in Nat /\ options' = options
  BY <1>0, <1>1, ClientAssumption DEF StreamPart
<1>9. /\ yielded # <<>> => seen = yielded[1].num + n
      /\ yielded = <<>> /\ options.from # Undefined => seen = options.from
  BY <1>0, <1>4 DEF StreamPart, StreamPlace, Undefined
<1>10. StreamInOrder /\ FinalUnlessMoved
  BY <1>0 DEF StreamPart, StreamCorrect
<1> HIDE DEF y, Yield, url
<1>11. /\ yielded' \in Seq(Yield) /\ n \in Nat /\ DOMAIN yielded = 1..n
       /\ Len(yielded') = n + 1 /\ DOMAIN yielded' = 1..(n + 1)
       /\ yielded'[n + 1] = y /\ \A i \in 1..n : yielded'[i] = yielded[i]
       /\ (yielded = <<>> <=> n = 0) /\ yielded' # <<>>
  BY <1>2, <1>4, <1>6 DEF y
<1>12. yielded'[1].num + n = seen /\ yielded'[1].num \in Nat
  <2>0. yielded'[1].num \in Nat
    <3>1. 1 \in 1..Len(yielded')
      BY <1>11
    <3>2. yielded'[1] \in Yield
      BY <1>11, <3>1, ElementOfSeq
    <3> QED BY <3>2 DEF Yield
  <2>1. CASE n = 0
    BY <1>4, <1>6, <1>11, <2>1
  <2>2. CASE n # 0
    BY <1>9, <1>11, <2>0, <2>2
  <2> QED BY <2>0, <2>1, <2>2
<1>13. StreamInOrder'
  <2> SUFFICES ASSUME NEW i \in 1..(n + 1)
               PROVE  /\ yielded'[i].num = yielded'[1].num + i - 1
                      /\ options.from # Undefined => yielded'[1].num = options.from
                      /\ options.to # Undefined /\ i > 1 => yielded'[i].num <= options.to
    BY <1>8, <1>11 DEF StreamInOrder
  <2>1. options.from # Undefined => yielded'[1].num = options.from
    <3>1. CASE n = 0
      BY <1>6, <1>9, <1>11, <3>1
    <3>2. CASE n # 0
      BY <1>10, <1>11, <3>2 DEF StreamInOrder
    <3> QED BY <3>1, <3>2
  <2>2. CASE i = n + 1
    <3>1. yielded'[i].num = seen
      BY <1>6, <1>11, <2>2
    <3>2. seen = yielded'[1].num + i - 1
      BY <1>11, <1>12, <2>2
    <3>3. options.to # Undefined /\ i > 1 => seen <= options.to
      BY <1>4, <1>11, <2>2
    <3> QED BY <2>1, <3>1, <3>2, <3>3
  <2>3. CASE i \in 1..n
    <3>1. yielded'[i] = yielded[i] /\ yielded'[1] = yielded[1]
      BY <1>11, <2>3
    <3> QED BY <1>10, <1>11, <2>1, <2>3, <3>1 DEF StreamInOrder
  <2> QED BY <1>11, <2>2, <2>3
<1>14. FinalUnlessMoved'
  <2> SUFFICES ASSUME Mode = "Irreversible", NEW i \in 1..(n + 1), yielded'[i].block # "final"
               PROVE  yielded'[i].from # yielded'[i].asked
    BY <1>11 DEF FinalUnlessMoved
  <2>1. CASE i = n + 1
    BY <1>7, <1>11, <2>1
  <2>2. CASE i \in 1..n
    BY <1>10, <1>11, <2>2 DEF FinalUnlessMoved
  <2> QED BY <1>11, <2>1, <2>2
<1>15. yielded' # <<>> => seen' = yielded'[1].num + Len(yielded')
  BY <1>1, <1>4, <1>11, <1>12
<1>16. StreamCorrect'
  BY <1>13, <1>14 DEF StreamCorrect
<1>17. seen' \in Nat \ {0} /\ currentAddress' \in Url /\ asked' \in Url /\ current' \in Nat
       /\ (Mode = "Irreversible" => current' <= lib[asked'])
  BY <1>1, <1>3, <1>4
<1> USE DEF Yield
<1> QED BY <1>1, <1>3, <1>11, <1>15, <1>16, <1>17, LoopKeeps

-----------------------------------------------------------------------------
(* The network.                                                            *)

\* The nodes include, expire and finalize.
LEMMA StepOfNetwork ==
  ASSUME IInv, (\E url \in Url : Irreversible(url)) \/ Include \/ Expire
  PROVE  IInv'
<1>0. ClientPart /\ SenderPart /\ StreamPart
  BY InvariantInParts
<1>1. UNCHANGED <<clientVars, sendVars, streamVars>>
  BY DEF Irreversible, Include, Expire
<1>2. ClientPart'
  BY <1>0, <1>1, CallsUnchanged
<1>3. call' = call
  BY <1>1 DEF clientVars
<1>4. ASSUME NEW url \in Url, Irreversible(url)
      PROVE  IInv'
  <2>1. lib' = [lib EXCEPT ![url] = @ + 1] /\ UNCHANGED <<pending, chain, expired>>
    BY <1>4 DEF Irreversible
  <2>2. lib' \in [Url -> Nat \ {0}] /\ \A a \in Url : lib[a] <= lib'[a] /\ lib[a] \in Nat /\ lib'[a] \in Nat
    BY <1>0, <2>1 DEF StreamPart
  <2>3. SenderPart'
    BY <1>0, <1>1, <1>3, <2>1, SenderUnchanged
  <2>4. Mode = "Irreversible" /\ stream = "block" => current <= lib'[asked]
    BY <1>0, <2>2 DEF StreamPart, StreamPlace
  <2>5. StreamPlace'
    BY <1>0, <1>1, <1>3, <2>4 DEF StreamPart, StreamPlace, streamVars
  <2>6. StreamPart'
    BY <1>0, <1>1, <2>2, <2>5
       DEF StreamPart, StreamCorrect, StreamInOrder, FinalUnlessMoved, streamVars
  <2> QED BY <1>2, <2>3, <2>6, InvariantInParts, PTL
<1>5. CASE Include \/ Expire
  <2>1. /\ lib' = lib /\ chain \subseteq chain' /\ expired' \subseteq Tx
        /\ pending' \union chain' \subseteq pending \union chain
    <3>1. CASE Include
      BY <1>0, <3>1 DEF Include, SenderPart
    <3>2. CASE Expire
      <4>1. sends \in 1..MaxSends
        BY <1>0, <3>2, ClientAssumption DEF Expire, SenderPart, SignedOnce
      <4>2. {sends} \X (1..2) \subseteq Tx
        BY <4>1 DEF Tx
      <4> QED BY <1>0, <3>2, <4>2 DEF Expire, SenderPart
    <3> QED BY <1>5, <3>1, <3>2
  <2>2. StreamPart'
    BY <1>0, <1>1, <1>3, <2>1, StreamUnchanged
  <2>3. pending' \subseteq Tx /\ chain' \subseteq Tx
    BY <1>0, <2>1 DEF SenderPart
  <2>4. \A t \in pending' \union chain' : t[2] = 1
    BY <1>0, <2>1 DEF SenderPart, SignedOnce
  <2>5. AppliedAtMostOnce'
    <3> SUFFICES ASSUME NEW t1 \in chain', NEW t2 \in chain', t1[1] = t2[1] PROVE t1 = t2
      BY DEF AppliedAtMostOnce
    <3>1. t1[2] = t2[2] /\ t1 \in Tx /\ t2 \in Tx
      BY <2>3, <2>4
    <3> QED BY <3>1 DEF Tx
  <2>6. ConfirmedOnChain'
    BY <1>0, <1>1, <2>1 DEF SenderPart, EffectsAsReported, ConfirmedOnChain, sendVars
  <2>7. SignedOnce'
    BY <1>0, <1>1, <1>3, <2>4 DEF SenderPart, SignedOnce, sendVars
  <2>8. SenderPart'
    BY <1>0, <1>1, <2>1, <2>3, <2>5, <2>6, <2>7 DEF SenderPart, EffectsAsReported, sendVars
  <2> QED BY <1>2, <2>2, <2>8, InvariantInParts, PTL
<1> QED BY <1>4, <1>5

-----------------------------------------------------------------------------
(* The theorems.                                                           *)

\* At first nothing has been called.
LEMMA Initial == Init => IInv
<1> SUFFICES ASSUME Init PROVE IInv
  OBVIOUS
<1>1. /\ call = [u \in User |-> NoCall] /\ currentAddress \in Url
      /\ \A u \in User : call[u] = NoCall /\ call[u].pc = "none"
  BY NoCallIsNoCall DEF Init
<1>2. ClientPart
  BY <1>1 DEF ClientPart, HealthyAhead, HealthyEndpointFound
<1>3. call["sender"] = NoCall /\ call["stream"] = NoCall
  BY <1>1, TwoUsers
<1>4. SenderPart
  BY <1>3, ClientAssumption
     DEF Init, SenderPart, EffectsAsReported, ConfirmedOnChain, AppliedAtMostOnce, SignedOnce
<1>5. Addresses[1] \in Url
  BY AddressList
<1>6. StreamPart
  BY <1>3, <1>5
     DEF Init, StreamPart, StreamCorrect, StreamInOrder, FinalUnlessMoved, StreamPlace, Undefined
<1> QED BY <1>2, <1>4, <1>6, InvariantInParts

\* The invariant is inductive: every step of a call, of sendOperations, of the
\* stream and of the network keeps it.
THEOREM Invariant == Spec => []IInv
<1>1. ASSUME IInv, [Next]_vars
      PROVE  IInv'
  <2>1. ASSUME NEW u \in User, FetchFails(u) \/ Retry(u) \/ RpcError(u) \/ Rejected(u)
        PROVE  IInv'
    BY <1>1, <2>1, StepFailure, StepRetryOrError, StepRejected DEF FetchFails
  <2>2. CASE sendOperations \/ sign \/ Accept \/ Refused \/ Confirmed \/ ExpiredResult
    BY <1>1, <2>2, StepSendOperations, StepSign, StepAccept, StepOfResult
  <2>3. CASE StreamStarts \/ Wakes \/ Number \/ Block
    BY <1>1, <2>3, StepAskNumber, StepNumber, StepBlock
  <2>4. CASE (\E url \in Url : Irreversible(url)) \/ Include \/ Expire
    BY <1>1, <2>4, StepOfNetwork
  <2>5. CASE UNCHANGED vars
    <3>1. ClientPart /\ SenderPart /\ StreamPart
      BY <1>1, InvariantInParts
    <3>2. UNCHANGED <<clientVars, sendVars, streamVars, netVars>> /\ call' = call
      BY <2>5 DEF vars, clientVars
    <3>3. ClientPart' /\ SenderPart' /\ StreamPart'
      BY <3>1, <3>2, CallsUnchanged, SenderUnchanged, StreamUnchanged DEF netVars
    <3> QED BY <3>3, InvariantInParts, PTL
  <2> QED BY <1>1, <2>1, <2>2, <2>3, <2>4, <2>5 DEF Next
<1> QED BY <1>1, Initial, PTL DEF Spec

\* Type correctness of the client, its two users and the network.
THEOREM TypeCorrect == Spec => []TypeOK
<1>1. IInv => TypeOK
  BY DEF IInv
<1> QED BY <1>1, Invariant, PTL

\* Through any number of lost answers, retries and failovers, over any list
\* of endpoints, what one sendOperations sends takes effect at most once, and
\* what it reports as confirmed has taken effect.
THEOREM EffectsCorrect == Spec => []EffectsAsReported
<1>1. IInv => EffectsAsReported
  BY DEF IInv
<1> QED BY <1>1, Invariant, PTL

\* For any list of different endpoints of which one always answers, and a
\* threshold of at least one less than their number, no call ends with an
\* error that asks for a failover.
THEOREM FailoverCorrect == Spec => []HealthyEndpointFound
<1>1. IInv => HealthyEndpointFound
  BY DEF IInv
<1> QED BY <1>1, Invariant, PTL

\* For any from, to and endpoints that lag behind one another by any number of
\* blocks, the stream yields consecutive blocks, within its limits, and in
\* Irreversible mode only final ones unless the client has changed endpoints.
THEOREM StreamingCorrect == Spec => []StreamCorrect
<1>1. IInv => StreamCorrect
  BY DEF IInv
<1> QED BY <1>1, Invariant, PTL
-----------------------------------------------------------------------------
(* The web socket transport of blurtjs.                                    *)

Sending == [kind : {"props", "block"}, num : Nat, st : {"starting", "sent"}, promise : Socket]

Message == [id : Nat, num : Nat]

TransportTypes ==
  /\ TransportTypeOK
  /\ request \in [Slot -> Sending \cup {Free}]
  /\ wire \in [Socket -> SUBSET Message]
  /\ delivered \in Seq([asked : Nat, got : Nat])

\* Sockets are used one after the other, and only the last one can be alive;
\* start makes another only when it is not.
OneSocket ==
  /\ \E k \in 0..MaxSockets : \A s \in Socket : socket[s] = "unused" <=> k < s
  /\ \A s \in Socket : s # ws => socket[s] \in {"unused", "closed"}
  /\ \A s \in Socket : socket[s] \in {"unused", "connecting"} => wire[s] = {}
  /\ ws # Null => socket[ws] # "unused"
  /\ startPromise = Null \/ startPromise = ws
  /\ startPromise = Null => ws = Null \/ socket[ws] = "closed"

\* The map names each request that was sent once, under a number of its own.
MapOfSent ==
  /\ \A i \in DOMAIN requests : i < id
  /\ \A i \in DOMAIN requests : Pending(requests[i]) /\ request[requests[i]].st = "sent"
  /\ \A i, j \in DOMAIN requests : requests[i] = requests[j] => i = j

\* The answers to come on a socket that is alive are known to the map.
AnswersKnown ==
  \A s \in Socket : socket[s] = "open" =>
    \A m \in wire[s] : m.id \in DOMAIN requests /\ request[requests[m.id]].num = m.num

\* Until a socket fails or stop is called.
Unbroken ==
  /\ startPromise = ws
  /\ ws # Null => socket[ws] \in {"connecting", "open"}
  /\ \A s \in Socket : socket[s] = "open" => s \in wired
  /\ \A s \in opened : socket[s] = "open"
  /\ \A r \in Slot : Pending(r) =>
       \/ request[r].st = "starting" /\ request[r].promise = ws
       \/ /\ ws # Null /\ socket[ws] = "open"
          /\ \E m \in wire[ws] : m.id \in DOMAIN requests /\ requests[m.id] = r

\* The numbers passed on end with the last one.
EndsWithCurrent ==
  /\ emitted \in Seq(Int) /\ (currentNum = 0 => emitted = <<>>)
  /\ \A i \in DOMAIN emitted : emitted[i] = currentNum - Len(emitted) + i

TransportInv ==
  /\ TransportTypes /\ OneSocket /\ MapOfSent /\ AnswersKnown
  /\ \A i \in DOMAIN delivered : delivered[i].asked = delivered[i].got
  /\ ~broken => Unbroken
  /\ EndsWithCurrent

\* The constants of the transport.
LEMMA TransportConstants ==
  /\ IsFiniteSet(Slot) /\ MaxSockets \in Nat /\ MaxId \in Nat /\ MaxNum \in Nat
  /\ Null \notin Socket /\ Socket \subseteq Nat
BY TransportAssumption DEF Socket, Null

\* A request that is not free is one under way.
LEMMA PendingIsSending ==
  ASSUME TransportTypes, NEW r \in Slot, Pending(r)
  PROVE  request[r] \in Sending
<1>1. request[r] \in Sending \cup {Free}
  BY DEF TransportTypes
<1>2. request[r] # Free
  BY DEF Pending, Free
<1> QED BY <1>1, <1>2

\* The slots that are free, or will be.
LEMMA FreeSlotsSeq ==
  ASSUME NEW done \in SUBSET Slot
  PROVE  FreeSlots(done) \in Seq({r \in Slot : ~Pending(r)} \union done)
<1> DEFINE S == {r \in Slot : ~Pending(r)} \union done
           n == Cardinality(S)
<1>1. IsFiniteSet(S)
  BY TransportConstants, FS_Subset
<1>2. n \in Nat /\ ExistsBijection(1..n, S)
  BY <1>1, FS_CardinalityType
<1> HIDE DEF S
<1>3. \E f \in [1..n -> S] : IsInjective(f)
  BY <1>2 DEF ExistsBijection, Bijection, Injection, IsInjective
<1>4. FreeSlots(done) = CHOOSE f \in [1..n -> S] : IsInjective(f)
  BY DEF FreeSlots, SetToSeq, S
<1>5. FreeSlots(done) \in [1..n -> S]
  BY <1>3, <1>4
<1> HIDE DEF n
<1>6. FreeSlots(done) \in Seq(S)
  BY <1>2, <1>5
<1> QED BY <1>6 DEF S

\* The slots for new requests are free ones.
LEMMA SlotsForAsking ==
  ASSUME NEW done \in SUBSET Slot, NEW nums \in Seq(Nat), NEW kind,
         Len(nums) <= Len(FreeSlots(done))
  PROVE  \A r \in DOMAIN Asks(kind, nums, done) :
           /\ r \in Slot /\ (~Pending(r) \/ r \in done)
           /\ Asks(kind, nums, done)[r].kind = kind /\ Asks(kind, nums, done)[r].num \in Nat
<1> DEFINE S == {r \in Slot : ~Pending(r)} \union done
           free == FreeSlots(done)
<1>1. free \in Seq(S)
  BY FreeSlotsSeq
<1>2. \A r \in S : r \in Slot /\ (~Pending(r) \/ r \in done)
  OBVIOUS
<1> HIDE DEF S, free
<1>3. \A i \in DOMAIN nums : free[i] \in S
  BY <1>1 DEF free
<1>4. ASSUME NEW r \in {free[i] : i \in DOMAIN nums}
      PROVE  nums[CHOOSE i \in DOMAIN nums : free[i] = r] \in Nat
  <2>1. \E i \in DOMAIN nums : free[i] = r
    BY <1>4
  <2>2. (CHOOSE i \in DOMAIN nums : free[i] = r) \in DOMAIN nums
    BY <2>1
  <2> QED BY <2>2
<1>5. Asks(kind, nums, done) =
         [r \in {free[i] : i \in DOMAIN nums} |->
            [kind |-> kind, num |-> nums[CHOOSE i \in DOMAIN nums : free[i] = r]]]
  BY DEF Asks, free
<1> QED BY <1>2, <1>3, <1>4, <1>5

\* start leaves the socket in place, or makes the next one.
LEMMA StartGood ==
  ASSUME TransportInv, start
  PROVE  \/ /\ startPromise # Null /\ startPromise = ws /\ ws \in Socket
            /\ UNCHANGED <<socket, ws, startPromise>>
         \/ /\ startPromise = Null /\ (ws = Null \/ socket[ws] = "closed")
            /\ ws' \in Socket /\ startPromise' = ws'
            /\ socket[ws'] = "unused" /\ socket' = [socket EXCEPT ![ws'] = "connecting"]
            /\ \E k \in 0..MaxSockets : \A s \in Socket : socket'[s] = "unused" <=> k < s
<1>1. CASE startPromise # Null
  BY <1>1 DEF start, TransportInv, OneSocket, TransportTypes, TransportTypeOK, Null
<1>2. CASE startPromise = Null
  <2> DEFINE U == {t \in Socket : socket[t] # "unused"}
             s == Cardinality(U) + 1
  <2>1. /\ s \in Socket /\ socket' = [socket EXCEPT ![s] = "connecting"]
        /\ ws' = s /\ startPromise' = s
    BY <1>2 DEF start
  <2>2. PICK k \in 0..MaxSockets : \A t \in Socket : socket[t] = "unused" <=> k < t
    BY DEF TransportInv, OneSocket
  <2>3. MaxSockets \in Nat
    BY TransportConstants
  <2>4. U = 1..k
    BY <2>2, <2>3 DEF Socket
  <2>5. Cardinality(1..k) = k
    BY <2>2, <2>3, FS_Interval
  <2>6. s = k + 1
    BY <2>4, <2>5
  <2> HIDE DEF s, U
  <2>7. socket[s] = "unused"
    BY <2>1, <2>2, <2>3, <2>6
  <2>8. k + 1 \in 0..MaxSockets
    BY <2>1, <2>2, <2>3, <2>6 DEF Socket
  <2>9. socket \in [Socket -> {"unused", "connecting", "open", "closed"}]
    BY DEF TransportInv, TransportTypes, TransportTypeOK
  <2>10. \A t \in Socket : socket'[t] = "unused" <=> k + 1 < t
    <3> SUFFICES ASSUME NEW t \in Socket PROVE socket'[t] = "unused" <=> k + 1 < t
      OBVIOUS
    <3>1. t \in Nat /\ k \in Nat
      BY <2>2, <2>3, TransportConstants
    <3>2. CASE t = s
      BY <2>1, <2>6, <2>9, <3>1, <3>2
    <3>3. CASE t # s
      BY <2>1, <2>2, <2>6, <2>9, <3>1, <3>3
    <3> QED BY <3>2, <3>3
  <2> QED BY <1>2, <2>1, <2>7, <2>8, <2>10 DEF TransportInv, OneSocket
<1> QED BY <1>1, <1>2

\* What start makes of the sockets.
LEMMA StartKeepsSockets ==
  ASSUME TransportInv, start, wire' = wire
  PROVE  /\ OneSocket' /\ startPromise' = ws' /\ ws' \in Socket
         /\ socket' \in [Socket -> {"unused", "connecting", "open", "closed"}]
         /\ \A s \in Socket : socket'[s] # socket[s] =>
              s = ws' /\ socket[s] = "unused" /\ socket'[s] = "connecting"
         /\ ws' # ws => ws = Null \/ socket[ws] = "closed"
         /\ startPromise = Null => socket'[ws'] = "connecting"
<1>1. CASE /\ startPromise # Null /\ startPromise = ws /\ ws \in Socket
           /\ UNCHANGED <<socket, ws, startPromise>>
  BY <1>1 DEF TransportInv, OneSocket, TransportTypes, TransportTypeOK
<1>2. CASE /\ startPromise = Null /\ (ws = Null \/ socket[ws] = "closed")
           /\ ws' \in Socket /\ startPromise' = ws'
           /\ socket[ws'] = "unused" /\ socket' = [socket EXCEPT ![ws'] = "connecting"]
           /\ \E k \in 0..MaxSockets : \A s \in Socket : socket'[s] = "unused" <=> k < s
  <2>1. socket \in [Socket -> {"unused", "connecting", "open", "closed"}]
    BY DEF TransportInv, TransportTypes, TransportTypeOK
  <2>2. /\ socket'[ws'] = "connecting" /\ \A s \in Socket : s # ws' => socket'[s] = socket[s]
        /\ socket' \in [Socket -> {"unused", "connecting", "open", "closed"}]
    BY <1>2, <2>1
  <2>3. \A s \in Socket : s # ws' => socket'[s] \in {"unused", "closed"}
    <3> SUFFICES ASSUME NEW s \in Socket, s # ws' PROVE socket'[s] \in {"unused", "closed"}
      OBVIOUS
    <3>1. CASE s = ws
      BY <1>2, <2>2, <3>1, TransportConstants
    <3>2. CASE s # ws
      BY <2>2, <3>2 DEF TransportInv, OneSocket
    <3> QED BY <3>1, <3>2
  <2>4. \A s \in Socket : socket'[s] \in {"unused", "connecting"} => wire'[s] = {}
    BY <1>2, <2>2 DEF TransportInv, OneSocket
  <2>5. ws' # Null
    BY <1>2, TransportConstants
  <2>6. OneSocket'
    BY <1>2, <2>2, <2>3, <2>4, <2>5 DEF OneSocket
  <2> QED BY <1>2, <2>2, <2>6
<1> QED BY <1>1, <1>2, StartGood

\* A socket that is open is the one in use.
LEMMA OpenIsInUse ==
  ASSUME TransportInv, NEW s \in Socket, socket[s] \in {"open", "connecting"}
  PROVE  s = ws /\ startPromise = ws /\ ws # Null
<1>1. s = ws
  BY DEF TransportInv, OneSocket
<1>2. ws # Null
  BY <1>1, TransportConstants
<1> QED BY <1>1, <1>2 DEF TransportInv, OneSocket

\* At first no socket is open.
LEMMA TransportInitial == TransportInit => TransportInv
<1> SUFFICES ASSUME TransportInit PROVE TransportInv
  OBVIOUS
<1>1. MaxSockets \in Nat /\ MaxId \in Nat /\ MaxNum \in Nat
  BY TransportConstants
<1>2. TransportTypes
  <2>1. TransportTypeOK
    <3>1. 0 \in 0..MaxId /\ 0 \in 0..MaxNum
      BY <1>1
    <3>2. DOMAIN requests = {}
      BY DEF TransportInit
    <3>3. socket \in [Socket -> {"unused", "connecting", "open", "closed"}]
      BY DEF TransportInit
    <3> QED BY <3>1, <3>2, <3>3 DEF TransportInit, TransportTypeOK
  <2>2. delivered \in Seq([asked : Nat, got : Nat])
    BY DEF TransportInit
  <2>3. request \in [Slot -> Sending \cup {Free}] /\ wire \in [Socket -> SUBSET Message]
    BY DEF TransportInit
  <2> QED BY <2>1, <2>2, <2>3 DEF TransportTypes
<1>3. OneSocket
  <2>1. 0 \in 0..MaxSockets /\ \A s \in Socket : socket[s] = "unused" <=> 0 < s
    BY <1>1 DEF TransportInit, Socket
  <2>2. \A s \in Socket : socket[s] = "unused" /\ wire[s] = {}
    BY DEF TransportInit
  <2> QED BY <2>1, <2>2 DEF TransportInit, OneSocket
<1>4. MapOfSent /\ AnswersKnown
  BY DEF TransportInit, MapOfSent, AnswersKnown
<1>5. Unbroken
  <2>1. \A r \in Slot : ~Pending(r)
    BY DEF TransportInit, Pending, Free
  <2> QED BY <2>1 DEF TransportInit, Unbroken
<1>6. EndsWithCurrent
  BY DEF TransportInit, EndsWithCurrent
<1> QED BY <1>2, <1>3, <1>4, <1>5, <1>6 DEF TransportInv, TransportInit

\* A socket opens.
LEMMA OpenKeeps ==
  ASSUME TransportInv, NEW s \in Socket, onopen(s)
  PROVE  TransportInv'
<1>1. s = ws /\ startPromise = ws /\ ws # Null /\ ws \in Socket
  BY OpenIsInUse DEF onopen
<1>2. socket \in [Socket -> {"unused", "connecting", "open", "closed"}]
  BY DEF TransportInv, TransportTypes, TransportTypeOK
<1>3. /\ socket'[s] = "open" /\ \A t \in Socket : t # s => socket'[t] = socket[t]
      /\ socket' \in [Socket -> {"unused", "connecting", "open", "closed"}]
  BY <1>2 DEF onopen
<1>4. socket[s] = "connecting" /\ wire[s] = {}
  BY DEF onopen, TransportInv, OneSocket
<1>5. TransportTypes'
  BY <1>1, <1>3 DEF onopen, feedVars, TransportInv, TransportTypes, TransportTypeOK
<1>6. OneSocket'
  <2>1. PICK k \in 0..MaxSockets : \A t \in Socket : socket[t] = "unused" <=> k < t
    BY DEF TransportInv, OneSocket
  <2>2. \A t \in Socket : socket'[t] = "unused" <=> k < t
    BY <1>3, <1>4, <2>1
  <2>3. \A t \in Socket : t # ws' => socket'[t] \in {"unused", "closed"}
    BY <1>1, <1>3 DEF onopen, TransportInv, OneSocket
  <2>4. \A t \in Socket : socket'[t] \in {"unused", "connecting"} => wire'[t] = {}
    BY <1>3 DEF onopen, TransportInv, OneSocket
  <2> QED BY <1>1, <1>3, <2>2, <2>3, <2>4 DEF onopen, OneSocket
<1>7. MapOfSent'
  BY DEF onopen, TransportInv, MapOfSent, Pending
<1>8. AnswersKnown'
  BY <1>3, <1>4 DEF onopen, TransportInv, AnswersKnown
<1>9. ~broken' => Unbroken'
  <2> SUFFICES ASSUME Unbroken PROVE Unbroken'
    BY DEF onopen, TransportInv
  <2>1. \A t \in Socket : socket'[t] = "open" => t \in wired'
    BY <1>1, <1>3 DEF onopen, Unbroken
  <2>2. \A t \in opened' : socket'[t] = "open"
    BY <1>3 DEF onopen, Unbroken, TransportInv, TransportTypes, TransportTypeOK
  <2>3. \A r \in Slot : Pending(r)' =>
          \/ request'[r].st = "starting" /\ request'[r].promise = ws'
          \/ \E m \in wire'[ws'] : m.id \in DOMAIN requests' /\ requests'[m.id] = r
    BY DEF onopen, Unbroken, Pending
  <2> QED BY <1>1, <1>3, <2>1, <2>2, <2>3 DEF onopen, Unbroken
<1>10. EndsWithCurrent' /\ \A i \in DOMAIN delivered' : delivered'[i].asked = delivered'[i].got
  BY DEF onopen, feedVars, TransportInv, EndsWithCurrent
<1> QED BY <1>5, <1>6, <1>7, <1>8, <1>9, <1>10 DEF TransportInv

\* A socket in use that fails is closed; what else a failure leaves alone
\* keeps the invariant, since nothing is promised any more.
LEMMA FailureKeeps ==
  ASSUME TransportInv, broken', TransportTypeOK', MapOfSent',
         startPromise' = Null \/ startPromise' = ws', startPromise' = Null => ws' = Null \/ socket'[ws'] = "closed",
         ws' = Null \/ ws' = ws,
         \A s \in Socket : socket'[s] = socket[s] \/ (s = ws /\ socket'[s] = "closed"),
         ws' # ws => \A s \in Socket : s = ws => socket'[s] = "closed",
         requests' = requests \/ \A s \in Socket : socket'[s] # "open",
         UNCHANGED <<request, opened, wire, id, feedVars>>
  PROVE  TransportInv'
<1>1. TransportTypes'
  BY DEF feedVars, TransportInv, TransportTypes
<1>2. OneSocket'
  <2>1. PICK k \in 0..MaxSockets : \A t \in Socket : socket[t] = "unused" <=> k < t
    BY DEF TransportInv, OneSocket
  <2>2. \A t \in Socket : socket'[t] = "unused" <=> k < t
    <3> SUFFICES ASSUME NEW t \in Socket, socket'[t] # socket[t]
                 PROVE  socket[t] # "unused" /\ socket'[t] # "unused"
      BY <2>1
    <3>1. t = ws /\ socket'[t] = "closed" /\ ws # Null
      BY TransportConstants
    <3> QED BY <3>1 DEF TransportInv, OneSocket
  <2>3. \A t \in Socket : t # ws' => socket'[t] \in {"unused", "closed"}
    BY DEF TransportInv, OneSocket
  <2>4. \A t \in Socket : socket'[t] \in {"unused", "connecting"} => wire'[t] = {}
    BY DEF TransportInv, OneSocket
  <2>5. ws' # Null => socket'[ws'] # "unused"
    BY DEF TransportInv, OneSocket, TransportTypes, TransportTypeOK
  <2> QED BY <2>2, <2>3, <2>4, <2>5 DEF OneSocket
<1>3. AnswersKnown'
  BY DEF TransportInv, AnswersKnown
<1>4. EndsWithCurrent' /\ \A i \in DOMAIN delivered' : delivered'[i].asked = delivered'[i].got
  BY DEF feedVars, TransportInv, EndsWithCurrent
<1> QED BY <1>1, <1>2, <1>3, <1>4 DEF TransportInv

\* A socket cannot be opened.
LEMMA OpenFailsKeeps ==
  ASSUME TransportInv, NEW s \in Socket, OpenFails(s)
  PROVE  TransportInv'
<1>1. s = ws /\ startPromise = ws /\ ws # Null /\ ws \in Socket
  BY OpenIsInUse DEF OpenFails
<1>2. socket \in [Socket -> {"unused", "connecting", "open", "closed"}]
  BY DEF TransportInv, TransportTypes, TransportTypeOK
<1>3. /\ socket'[s] = "closed" /\ \A t \in Socket : t # s => socket'[t] = socket[t]
      /\ socket' \in [Socket -> {"unused", "connecting", "open", "closed"}]
  BY <1>2 DEF OpenFails
<1>4. TransportTypeOK'
  BY <1>1, <1>3 DEF OpenFails, feedVars, TransportInv, TransportTypes, TransportTypeOK
<1>5. MapOfSent'
  BY DEF OpenFails, TransportInv, MapOfSent, Pending
<1> QED BY <1>1, <1>3, <1>4, <1>5, FailureKeeps DEF OpenFails

\* A socket closes.
LEMMA CloseKeeps ==
  ASSUME TransportInv, NEW s \in Socket, onClose(s)
  PROVE  TransportInv'
<1>1. s = ws /\ startPromise = ws /\ ws # Null /\ ws \in Socket
  BY OpenIsInUse DEF onClose
<1>2. socket \in [Socket -> {"unused", "connecting", "open", "closed"}]
  BY DEF TransportInv, TransportTypes, TransportTypeOK
<1>3. /\ socket'[s] = "closed" /\ \A t \in Socket : t # s => socket'[t] = socket[t]
      /\ socket' \in [Socket -> {"unused", "connecting", "open", "closed"}]
  BY <1>2 DEF onClose
<1>4. TransportTypeOK'
  BY <1>1, <1>3 DEF onClose, feedVars, TransportInv, TransportTypes, TransportTypeOK
<1>5. MapOfSent'
  BY DEF onClose, TransportInv, MapOfSent, Pending
<1> QED BY <1>1, <1>3, <1>4, <1>5, FailureKeeps DEF onClose

\* The transport is stopped.
LEMMA StopKeeps ==
  ASSUME TransportInv, stop, broken' = TRUE, UNCHANGED <<request, opened, wire, id, feedVars>>
  PROVE  TransportInv'
<1>1. socket \in [Socket -> {"unused", "connecting", "open", "closed"}]
  BY DEF TransportInv, TransportTypes, TransportTypeOK
<1>2. \A s \in Socket : socket'[s] = IF s = ws THEN "closed" ELSE socket[s]
  BY <1>1, TransportConstants DEF stop
<1>3. socket' \in [Socket -> {"unused", "connecting", "open", "closed"}]
  BY <1>1 DEF stop
<1>4. DOMAIN requests' = {} /\ wired' \subseteq wired
  BY DEF stop
<1>5. TransportTypeOK'
  BY <1>3, <1>4 DEF stop, feedVars, TransportInv, TransportTypes, TransportTypeOK
<1>6. MapOfSent'
  BY <1>4 DEF MapOfSent
<1>7. \A s \in Socket : socket'[s] # "open"
  BY <1>2 DEF TransportInv, OneSocket
<1> QED BY <1>2, <1>5, <1>6, <1>7, FailureKeeps DEF stop

\* A socket fails.
LEMMA ErrorKeeps ==
  ASSUME TransportInv, NEW s \in Socket, onError(s)
  PROVE  TransportInv'
<1>1. CASE stop
  BY <1>1, StopKeeps DEF onError
<1>2. CASE UNCHANGED <<startPromise, requests, ws, socket, wired>>
  <2>1. TransportTypeOK' /\ MapOfSent'
    BY <1>2 DEF onError, feedVars, TransportInv, TransportTypes, TransportTypeOK, MapOfSent, Pending
  <2> QED BY <1>2, <2>1, FailureKeeps DEF onError, TransportInv, OneSocket
<1> QED BY <1>1, <1>2 DEF onError

\* A request goes on: it starts the socket, or is sent.
LEMMA ProceedKeeps ==
  ASSUME TransportInv, NEW r \in Slot, Proceed(r)
  PROVE  TransportInv'
<1>1. /\ request[r] \in Sending /\ request[r].st = "starting" /\ request[r].promise \in opened
      /\ id < MaxId /\ id' = id + 1 /\ id \in Nat /\ MaxId \in Nat
  BY PendingIsSending, TransportConstants DEF Proceed, TransportInv, TransportTypes, TransportTypeOK
<1>2. request \in [Slot -> Sending \cup {Free}]
  BY DEF TransportInv, TransportTypes
<1>3. /\ request'[r] = [request[r] EXCEPT !.st = "sent"]
      /\ \A q \in Slot : q # r => request'[q] = request[q]
      /\ request' \in [Slot -> Sending \cup {Free}]
  <2>1. [request[r] EXCEPT !.st = "sent"] \in Sending
    BY <1>1 DEF Sending
  <2>2. request' = [request EXCEPT ![r] = [request[r] EXCEPT !.st = "sent"]]
    BY <1>2 DEF Proceed
  <2> QED BY <1>2, <2>1, <2>2
<1>4. \A q \in Slot : (Pending(q)' <=> Pending(q)) /\ request'[q].num = request[q].num
  <2>1. request'[r].kind = request[r].kind /\ request'[r].num = request[r].num /\ request'[r].st = "sent"
    BY <1>1, <1>3 DEF Sending
  <2> QED BY <1>3, <2>1 DEF Pending
<1>5. request'[r].st = "sent"
  BY <1>1, <1>3 DEF Sending
<1>6. /\ DOMAIN requests' = DOMAIN requests \union {id} /\ requests'[id] = r
      /\ \A i \in DOMAIN requests : i # id /\ i \in Nat /\ requests'[i] = requests[i] /\ requests[i] \in Slot
      /\ \A i \in DOMAIN requests : requests[i] # r
  <2>1. \A i \in DOMAIN requests : i \in Nat /\ i < id /\ requests[i] \in Slot /\ request[requests[i]].st = "sent"
    BY <1>1 DEF TransportInv, TransportTypes, TransportTypeOK, MapOfSent
  <2> QED BY <1>1, <2>1 DEF Proceed
<1>7. wire \in [Socket -> SUBSET Message] /\ UNCHANGED <<startPromise, ws, socket, opened, wired, broken, feedVars>>
  BY DEF Proceed, TransportInv, TransportTypes
<1> DEFINE m0 == [id |-> id, num |-> request[r].num]
<1>8. m0 \in Message
  BY <1>1 DEF Message, Sending
<1>9. /\ wire' \in [Socket -> SUBSET Message]
      /\ \A s \in Socket : wire[s] \subseteq wire'[s] /\ wire'[s] \subseteq wire[s] \union {m0}
      /\ \A s \in Socket : socket[s] # "open" => wire'[s] = wire[s]
      /\ ws \in Socket /\ socket[ws] = "open" => m0 \in wire'[ws]
  <2> HIDE DEF m0
  <2>1. CASE ws # Null /\ socket[ws] = "open"
    <3>1. ws \in Socket
      BY <2>1 DEF TransportInv, TransportTypes, TransportTypeOK
    <3>2. wire' = [wire EXCEPT ![ws] = wire[ws] \union {m0}]
      BY <2>1 DEF Proceed, m0
    <3> QED BY <1>7, <1>8, <2>1, <3>1, <3>2
  <2>2. CASE ~(ws # Null /\ socket[ws] = "open")
    BY <1>7, <2>2, TransportConstants DEF Proceed
  <2> QED BY <2>1, <2>2
<1>10. TransportTypes'
  <2>1. id' \in 0..MaxId /\ DOMAIN requests' \subseteq 0..MaxId
    BY <1>1, <1>6 DEF TransportInv, TransportTypes, TransportTypeOK
  <2>2. \A i \in DOMAIN requests' : requests'[i] \in Slot
    BY <1>6
  <2>3. TransportTypeOK'
    BY <1>7, <2>1, <2>2 DEF feedVars, TransportInv, TransportTypes, TransportTypeOK
  <2> QED BY <1>3, <1>7, <1>9, <2>3 DEF feedVars, TransportInv, TransportTypes
<1>11. OneSocket'
  BY <1>7, <1>9 DEF TransportInv, OneSocket
<1>12. MapOfSent'
  <2> USE DEF Pending
  <2>1. \A i \in DOMAIN requests' : i < id'
    BY <1>1, <1>6 DEF TransportInv, MapOfSent
  <2>2. \A i \in DOMAIN requests' : request'[requests'[i]].kind # "free" /\ request'[requests'[i]].st = "sent"
    <3>1. \A i \in DOMAIN requests : request'[requests'[i]].kind # "free" /\ request'[requests'[i]].st = "sent"
      BY <1>3, <1>4, <1>6 DEF TransportInv, MapOfSent
    <3>2. request'[requests'[id]].kind # "free" /\ request'[requests'[id]].st = "sent"
      BY <1>4, <1>5, <1>6 DEF Proceed
    <3> QED BY <1>6, <3>1, <3>2
  <2>3. \A i, j \in DOMAIN requests' : requests'[i] = requests'[j] => i = j
    BY <1>6 DEF TransportInv, MapOfSent
  <2> QED BY <2>1, <2>2, <2>3 DEF MapOfSent
<1>13. AnswersKnown'
  <2> SUFFICES ASSUME NEW s \in Socket, socket[s] = "open", NEW m \in wire'[s]
               PROVE  m.id \in DOMAIN requests' /\ request'[requests'[m.id]].num = m.num
    BY <1>7 DEF AnswersKnown
  <2>1. CASE m \in wire[s]
    <3>1. m.id \in DOMAIN requests /\ request[requests[m.id]].num = m.num
      BY <2>1 DEF TransportInv, AnswersKnown
    <3> QED BY <1>4, <1>6, <3>1
  <2>2. CASE m = m0
    BY <1>4, <1>6, <2>2
  <2> QED BY <1>9, <2>1, <2>2
<1>14. ~broken' => Unbroken'
  <2> SUFFICES ASSUME Unbroken PROVE Unbroken'
    BY <1>7 DEF TransportInv
  <2>1. ws \in Socket /\ ws # Null /\ socket[ws] = "open"
    BY <1>1, OpenIsInUse DEF Unbroken, TransportInv, TransportTypes, TransportTypeOK
  <2>2. ASSUME NEW q \in Slot, Pending(q)'
        PROVE  \/ request'[q].st = "starting" /\ request'[q].promise = ws'
               \/ /\ ws' # Null /\ socket'[ws'] = "open"
                  /\ \E m \in wire'[ws'] : m.id \in DOMAIN requests' /\ requests'[m.id] = q
    <3>1. CASE q = r
      <4>1. m0 \in wire'[ws] /\ m0.id \in DOMAIN requests' /\ requests'[m0.id] = r
        BY <1>6, <1>9, <2>1
      <4> QED BY <1>7, <2>1, <3>1, <4>1
    <3>2. CASE q # r
      <4>1. \/ request[q].st = "starting" /\ request[q].promise = ws
            \/ \E m \in wire[ws] : m.id \in DOMAIN requests /\ requests[m.id] = q
        BY <1>4, <2>2 DEF Unbroken
      <4> QED BY <1>3, <1>6, <1>7, <1>9, <2>1, <3>2, <4>1
    <3> QED BY <3>1, <3>2
  <2> QED BY <1>7, <2>2 DEF Unbroken
<1>15. EndsWithCurrent' /\ \A i \in DOMAIN delivered' : delivered'[i].asked = delivered'[i].got
  BY <1>7 DEF feedVars, TransportInv, EndsWithCurrent
<1> QED BY <1>10, <1>11, <1>12, <1>13, <1>14, <1>15 DEF TransportInv

\* What send makes of the slots: those in use keep what they have, the new
\* ones wait for the promise.
LEMMA SendGood ==
  ASSUME TransportInv, NEW rs, NEW done \in SUBSET Slot, send(rs, done), startPromise' \in Socket,
         \A r \in DOMAIN rs : /\ r \in Slot /\ (~Pending(r) \/ r \in done)
                              /\ rs[r].kind \in {"props", "block"} /\ rs[r].num \in Nat
  PROVE  /\ request' \in [Slot -> Sending \cup {Free}]
         /\ \A q \in Slot : Pending(q) /\ q \notin done => request'[q] = request[q]
         /\ \A q \in Slot : Pending(q)' =>
              \/ q \notin done /\ Pending(q) /\ request'[q] = request[q]
              \/ request'[q].st = "starting" /\ request'[q].promise = startPromise'
<1> DEFINE new(r) == [kind |-> rs[r].kind, num |-> rs[r].num, st |-> "starting", promise |-> startPromise']
<1>1. \A r \in DOMAIN rs : new(r) \in Sending /\ new(r).st = "starting" /\ new(r).promise = startPromise'
  BY DEF Sending
<1> HIDE DEF new
<1>2. request \in [Slot -> Sending \cup {Free}]
  BY DEF TransportInv, TransportTypes
<1>3. request' = [r \in Slot |-> IF r \in DOMAIN rs THEN new(r) ELSE IF r \in done THEN Free ELSE request[r]]
  BY DEF send, new
<1>4. \A q \in Slot : q \in done /\ q \notin DOMAIN rs => ~Pending(q)'
  BY <1>3 DEF Pending, Free
<1> QED BY <1>1, <1>2, <1>3, <1>4 DEF Pending

\* The stream asks for the global properties.
LEMMA UpdateKeeps ==
  ASSUME TransportInv, update
  PROVE  TransportInv'
<1> DEFINE rs == Asks("props", <<0>>, {})
<1>1. start /\ send(rs, {}) /\ waiting' = TRUE /\ FreeSlots({}) # <<>>
      /\ UNCHANGED <<opened, wired, wire, requests, id, broken, running, currentNum, emitted, delivered>>
  BY DEF update, send
<1>2. /\ OneSocket' /\ startPromise' = ws' /\ ws' \in Socket
      /\ socket' \in [Socket -> {"unused", "connecting", "open", "closed"}]
      /\ \A s \in Socket : socket'[s] # socket[s] =>
           s = ws' /\ socket[s] = "unused" /\ socket'[s] = "connecting"
      /\ ws' # ws => ws = Null \/ socket[ws] = "closed"
      /\ startPromise = Null => socket'[ws'] = "connecting"
  BY <1>1, StartKeepsSockets
<1>3. Len(<<0>>) <= Len(FreeSlots({}))
  <2>1. FreeSlots({}) \in Seq(Slot)
    <3>1. {} \in SUBSET Slot /\ {r \in Slot : ~Pending(r)} \union {} \subseteq Slot
      OBVIOUS
    <3>2. FreeSlots({}) \in Seq({r \in Slot : ~Pending(r)} \union {})
      BY <3>1, FreeSlotsSeq
    <3> QED BY <3>1, <3>2
  <2> QED BY <1>1, <2>1
<1>4. \A r \in DOMAIN rs : /\ r \in Slot /\ ~Pending(r)
                           /\ rs[r].kind \in {"props", "block"} /\ rs[r].num \in Nat
  <2>1. <<0>> \in Seq(Nat)
    OBVIOUS
  <2> DEFINE z == <<0>>
  <2> HIDE DEF z
  <2>2. \A r \in DOMAIN Asks("props", z, {}) :
          /\ r \in Slot /\ (~Pending(r) \/ r \in {})
          /\ Asks("props", z, {})[r].kind = "props" /\ Asks("props", z, {})[r].num \in Nat
    BY <1>3, <2>1, SlotsForAsking DEF z
  <2> QED BY <2>2 DEF z
<1> HIDE DEF rs
<1>5. /\ request' \in [Slot -> Sending \cup {Free}]
      /\ \A q \in Slot : Pending(q) => request'[q] = request[q]
      /\ \A q \in Slot : Pending(q)' =>
           \/ Pending(q) /\ request'[q] = request[q]
           \/ request'[q].st = "starting" /\ request'[q].promise = startPromise'
  BY <1>1, <1>2, <1>4, SendGood
<1>6. TransportTypes'
  <2>1. TransportTypeOK'
    BY <1>1, <1>2 DEF TransportInv, TransportTypes, TransportTypeOK
  <2> QED BY <1>1, <1>5, <2>1 DEF TransportInv, TransportTypes
<1>7. \A i \in DOMAIN requests : requests[i] \in Slot /\ request'[requests[i]] = request[requests[i]]
  BY <1>5 DEF TransportInv, MapOfSent, TransportTypes, TransportTypeOK
<1>8. MapOfSent'
  BY <1>1, <1>7 DEF TransportInv, MapOfSent, Pending
<1>9. AnswersKnown'
  BY <1>1, <1>2, <1>7 DEF TransportInv, AnswersKnown
<1>10. ~broken' => Unbroken'
  <2> SUFFICES ASSUME Unbroken PROVE Unbroken'
    BY <1>1 DEF TransportInv
  <2>1. ws # Null => ws' = ws
    BY <1>2 DEF Unbroken
  <2>2. \A s \in Socket : socket[s] = "open" <=> socket'[s] = "open"
    BY <1>2
  <2>3. socket'[ws'] \in {"connecting", "open"}
    BY <1>2, <2>1 DEF Unbroken
  <2>4. ASSUME NEW q \in Slot, Pending(q)'
        PROVE  \/ request'[q].st = "starting" /\ request'[q].promise = ws'
               \/ /\ ws' # Null /\ socket'[ws'] = "open"
                  /\ \E m \in wire'[ws'] : m.id \in DOMAIN requests' /\ requests'[m.id] = q
    <3>1. CASE request'[q].st = "starting" /\ request'[q].promise = startPromise'
      BY <1>2, <3>1
    <3>2. CASE Pending(q) /\ request'[q] = request[q]
      <4>1. request[q].promise \in Socket
        BY <3>2, PendingIsSending DEF Sending, TransportInv
      <4>2. ws # Null
        BY <3>2, <4>1, TransportConstants DEF Unbroken
      <4>3. ws' = ws
        BY <2>1, <4>2
      <4> QED BY <1>1, <1>2, <2>2, <3>2, <4>2, <4>3 DEF Unbroken
    <3> QED BY <1>5, <2>4, <3>1, <3>2
  <2>5. \A s \in opened' : socket'[s] = "open"
    BY <1>1, <2>2 DEF Unbroken, TransportInv, TransportTypes, TransportTypeOK
  <2> QED BY <1>1, <1>2, <2>2, <2>3, <2>4, <2>5 DEF Unbroken
<1>11. EndsWithCurrent' /\ \A i \in DOMAIN delivered' : delivered'[i].asked = delivered'[i].got
  BY <1>1 DEF TransportInv, EndsWithCurrent
<1> QED BY <1>2, <1>6, <1>8, <1>9, <1>10, <1>11 DEF TransportInv

\* The numbers an answer lets through, counted from the last one.
LEMMA NumbersGood ==
  ASSUME currentNum \in 0..MaxNum, NEW b \in 1..MaxNum, MaxNum \in Nat, currentNum # 0
  PROVE  /\ currentNum < b => Numbers(b) = [i \in 1..b - currentNum - 1 |-> currentNum + i]
         /\ currentNum >= b => Numbers(b) = <<>>
         /\ Numbers(b) \in Seq(Nat)
<1>1. Numbers(b) = [i \in 1..b - currentNum - 1 |-> currentNum + i]
  BY DEF Numbers
<1>2. CASE currentNum < b
  <2> DEFINE n == b - currentNum - 1
  <2>1. n \in Nat /\ \A i \in 1..n : currentNum + i \in Nat
    BY <1>2
  <2> HIDE DEF n
  <2>2. [i \in 1..n |-> currentNum + i] \in Seq(Nat)
    BY <2>1
  <2> QED BY <1>1, <1>2, <2>2 DEF n
<1>3. CASE currentNum >= b
  <2>1. 1..b - currentNum - 1 = {}
    BY <1>3
  <2>2. DOMAIN Numbers(b) = {}
    BY <1>1, <2>1
  <2>3. Numbers(b) \in Seq(Nat) /\ Len(Numbers(b)) = 0
    <3>1. Numbers(b) = [i \in 1..0 |-> currentNum + i]
      BY <1>1, <2>1
    <3> QED BY <3>1
  <2>4. Numbers(b) = <<>>
    BY <2>3, EmptySeq
  <2> QED BY <1>3, <2>3, <2>4
<1> QED BY <1>2, <1>3

\* The numbers passed on still end with the last one.
LEMMA EmittedGood ==
  ASSUME TransportTypeOK, EndsWithCurrent, NEW b \in 1..MaxNum,
         emitted' = emitted \o Numbers(b),
         currentNum' = IF currentNum = 0 THEN b ELSE IF b > currentNum THEN b - 1 ELSE currentNum
  PROVE  EndsWithCurrent' /\ currentNum' \in 0..MaxNum /\ Numbers(b) \in Seq(Nat)
<1>1. MaxNum \in Nat /\ currentNum \in 0..MaxNum /\ emitted \in Seq(Int)
  BY TransportConstants DEF TransportTypeOK, EndsWithCurrent
<1>2. CASE currentNum = 0
  <2>1. emitted = <<>> /\ Numbers(b) = <<b>> /\ currentNum' = b
    BY <1>2 DEF EndsWithCurrent, Numbers
  <2>2. emitted' = <<b>>
    BY <2>1
  <2> QED BY <1>1, <2>1, <2>2 DEF EndsWithCurrent
<1>3. CASE currentNum # 0 /\ b <= currentNum
  <2>1. Numbers(b) = <<>> /\ currentNum' = currentNum
    BY <1>1, <1>3, NumbersGood
  <2>2. emitted' = emitted
    BY <1>1, <2>1
  <2>3. EndsWithCurrent'
    BY <2>1, <2>2 DEF EndsWithCurrent
  <2>4. Numbers(b) \in Seq(Nat)
    BY <2>1
  <2> QED BY <1>1, <2>1, <2>3, <2>4
<1>4. CASE currentNum # 0 /\ b > currentNum
  <2> DEFINE n == b - currentNum - 1
             nums == [i \in 1..n |-> currentNum + i]
             e == Len(emitted)
  <2>1. n \in Nat /\ currentNum' = currentNum + n /\ Numbers(b) = nums /\ nums \in Seq(Nat)
    BY <1>1, <1>4, NumbersGood
  <2>2. currentNum \in Nat /\ e \in Nat /\ currentNum' # 0 /\ currentNum' \in 0..MaxNum
    BY <1>1, <1>4
  <2> HIDE DEF n
  <2>3. Len(nums) = n /\ nums \in Seq(Int)
    BY <2>1
  <2>4. \A i \in 1..n : nums[i] = currentNum + i
    OBVIOUS
  <2> HIDE DEF nums, e
  <2>5. emitted' \in Seq(Int) /\ Len(emitted') = e + n
    <3>1. emitted' = emitted \o nums
      BY <2>1
    <3>2. \A x, y \in Seq(Int) : x \o y \in Seq(Int) /\ Len(x \o y) = Len(x) + Len(y)
      OBVIOUS
    <3> QED BY <1>1, <2>3, <3>1, <3>2 DEF e
  <2>6. ASSUME NEW i \in DOMAIN emitted'
        PROVE  emitted'[i] = currentNum' - Len(emitted') + i
    <3>1. i \in 1..e + n
      BY <2>5
    <3>4. currentNum' - Len(emitted') + i = currentNum - e + i /\ currentNum + (i - e) = currentNum - e + i
      <4>1. i \in Int /\ n \in Int /\ e \in Int /\ currentNum \in Int
        BY <2>1, <2>2, <3>1
      <4>2. \A x, y, z, j \in Int : (x + y) - (z + y) + j = x - z + j /\ x + (j - z) = x - z + j
        OBVIOUS
      <4>3. currentNum' = currentNum + n /\ Len(emitted') = e + n
        BY <2>1, <2>5
      <4>4. (currentNum + n) - (e + n) + i = currentNum - e + i
        BY <4>1, <4>2
      <4>5. currentNum + (i - e) = currentNum - e + i
        BY <4>1, <4>2
      <4>6. currentNum' - Len(emitted') + i = currentNum - e + i
        BY <4>3, <4>4
      <4> QED BY <4>5, <4>6
    <3>2. CASE i <= e
      <4>1. emitted'[i] = emitted[i] /\ i \in DOMAIN emitted
        BY <1>1, <2>1, <2>2, <2>3, <3>1, <3>2 DEF e
      <4>2. emitted[i] = currentNum - e + i
        BY <4>1 DEF EndsWithCurrent, e
      <4> QED BY <3>4, <4>1, <4>2
    <3>3. CASE i > e
      <4>1. emitted'[i] = nums[i - e] /\ i - e \in 1..n
        BY <1>1, <2>1, <2>2, <2>3, <3>1, <3>3 DEF e
      <4>2. nums[i - e] = currentNum + (i - e)
        BY <2>4, <4>1
      <4> QED BY <3>4, <4>1, <4>2
    <3> QED BY <2>1, <2>2, <3>1, <3>2, <3>3, SMTT(30)
  <2> QED BY <2>1, <2>2, <2>5, <2>6 DEF EndsWithCurrent
<1> QED BY <1>1, <1>2, <1>3, <1>4

\* A callback frees its slot, may put new requests into free slots, and
\* leaves the others alone.
LEMMA CallbackGood ==
  ASSUME TransportInv, NEW r \in Slot, Pending(r), startPromise \in Socket, Callback(r, request[r].num)
  PROVE  /\ UNCHANGED <<socket, ws, startPromise>>
         /\ request' \in [Slot -> Sending \cup {Free}]
         /\ \A q \in Slot : Pending(q) /\ q # r => request'[q] = request[q]
         /\ \A q \in Slot : Pending(q)' =>
              \/ q # r /\ Pending(q) /\ request'[q] = request[q]
              \/ request'[q].st = "starting" /\ request'[q].promise = startPromise
         /\ EndsWithCurrent' /\ {running', waiting'} \subseteq BOOLEAN /\ currentNum' \in 0..MaxNum
         /\ delivered' \in Seq([asked : Nat, got : Nat])
         /\ \A i \in DOMAIN delivered' : delivered'[i].asked = delivered'[i].got
<1> DEFINE Slots == /\ UNCHANGED <<socket, ws, startPromise>>
                    /\ request' \in [Slot -> Sending \cup {Free}]
                    /\ \A q \in Slot : Pending(q) /\ q # r => request'[q] = request[q]
                    /\ \A q \in Slot : Pending(q)' =>
                         \/ q # r /\ Pending(q) /\ request'[q] = request[q]
                         \/ request'[q].st = "starting" /\ request'[q].promise = startPromise
           Stream == EndsWithCurrent' /\ {running', waiting'} \subseteq BOOLEAN /\ currentNum' \in 0..MaxNum
           Given == /\ delivered' \in Seq([asked : Nat, got : Nat])
                    /\ \A i \in DOMAIN delivered' : delivered'[i].asked = delivered'[i].got
<1>1. /\ TransportTypeOK /\ EndsWithCurrent /\ request \in [Slot -> Sending \cup {Free}]
      /\ delivered \in Seq([asked : Nat, got : Nat])
      /\ \A i \in DOMAIN delivered : delivered[i].asked = delivered[i].got
  BY DEF TransportInv, TransportTypes
<1>2. UNCHANGED delivered => Given
  BY <1>1
<1>3. UNCHANGED <<running, waiting, currentNum, emitted>> => Stream
  BY <1>1 DEF TransportTypeOK, EndsWithCurrent
<1>4. request' = [request EXCEPT ![r] = Free] /\ UNCHANGED <<socket, ws, startPromise>> => Slots
  <2> SUFFICES ASSUME request' = [request EXCEPT ![r] = Free], UNCHANGED <<socket, ws, startPromise>>
               PROVE  Slots
    OBVIOUS
  <2>1. /\ request' \in [Slot -> Sending \cup {Free}] /\ request'[r] = Free
        /\ \A q \in Slot : q # r => request'[q] = request[q]
    BY <1>1
  <2>2. ~Pending(r)'
    BY <2>1 DEF Pending, Free
  <2> QED BY <2>1, <2>2 DEF Pending
<1>5. ASSUME UpdateFails(r)
      PROVE  Slots /\ Stream /\ Given
  BY <1>1, <1>2, <1>4, <1>5 DEF UpdateFails, TransportTypeOK, EndsWithCurrent
<1>6. ASSUME BlockFails(r)
      PROVE  Slots /\ Stream /\ Given
  BY <1>2, <1>3, <1>4, <1>6 DEF BlockFails, feedVars
<1>7. ASSUME BlockArrives(r, request[r].num)
      PROVE  Slots /\ Stream /\ Given
  <2> DEFINE d == [asked |-> request[r].num, got |-> request[r].num]
  <2>1. d \in [asked : Nat, got : Nat] /\ d.asked = d.got
    BY PendingIsSending DEF Sending, TransportInv
  <2>2. delivered' = Append(delivered, d)
    BY <1>7 DEF BlockArrives
  <2> HIDE DEF d
  <2>3. Given
    BY <1>1, <2>1, <2>2
  <2> QED BY <1>3, <1>4, <1>7, <2>3 DEF BlockArrives
<1>8. ASSUME NEW b \in 1..MaxNum, Update(r, b)
      PROVE  Slots /\ Stream /\ Given
  <2> DEFINE nums == Numbers(b)
  <2>1. /\ Len(nums) <= Len(FreeSlots({r})) /\ emitted' = emitted \o nums
        /\ currentNum' = IF currentNum = 0 THEN b ELSE IF b > currentNum THEN b - 1 ELSE currentNum
        /\ waiting' = FALSE /\ UNCHANGED <<running, delivered>>
    BY <1>8 DEF Update
  <2>2. EndsWithCurrent' /\ currentNum' \in 0..MaxNum /\ nums \in Seq(Nat)
    BY <1>1, <2>1, EmittedGood
  <2>3. Stream /\ Given
    BY <1>1, <1>2, <2>1, <2>2 DEF TransportTypeOK
  <2>4. CASE nums = <<>>
    BY <1>4, <1>8, <2>3, <2>4 DEF Update
  <2>5. CASE nums # <<>>
    <3> DEFINE rs == Asks("block", nums, {r})
    <3>1. send(rs, {r}) /\ {r} \in SUBSET Slot
      BY <1>8, <2>5 DEF Update
    <3>2. UNCHANGED <<socket, ws, startPromise>>
      BY <3>1, TransportConstants DEF send, start
    <3> HIDE DEF nums
    <3>3. \A q \in DOMAIN rs : /\ q \in Slot /\ (~Pending(q) \/ q \in {r})
                               /\ rs[q].kind = "block" /\ rs[q].num \in Nat
      BY <2>1, <2>2, <3>1, SlotsForAsking
    <3> HIDE DEF rs
    <3>4. /\ request' \in [Slot -> Sending \cup {Free}]
          /\ \A q \in Slot : Pending(q) /\ q \notin {r} => request'[q] = request[q]
          /\ \A q \in Slot : Pending(q)' =>
               \/ q \notin {r} /\ Pending(q) /\ request'[q] = request[q]
               \/ request'[q].st = "starting" /\ request'[q].promise = startPromise'
      <4>1. startPromise' \in Socket
        BY <3>2
      <4>2. \A q \in DOMAIN rs : /\ q \in Slot /\ (~Pending(q) \/ q \in {r})
                                 /\ rs[q].kind \in {"props", "block"} /\ rs[q].num \in Nat
        BY <3>3
      <4> QED BY <3>1, <4>1, <4>2, SendGood
    <3>5. Slots
      BY <3>2, <3>4
    <3> QED BY <2>3, <3>5
  <2> QED BY <2>4, <2>5
<1>9. Slots /\ Stream /\ Given
  BY <1>5, <1>6, <1>7, <1>8 DEF Callback
<1> QED BY <1>9

\* An answer arrives.
LEMMA MessageKeeps ==
  ASSUME TransportInv, NEW s \in Socket, onMessage(s)
  PROVE  TransportInv'
<1>1. PICK m \in wire[s] :
        /\ socket[s] = "open" /\ s \in wired /\ m.id \in DOMAIN requests
        /\ wire' = [wire EXCEPT ![s] = @ \ {m}]
        /\ requests' = [i \in DOMAIN requests \ {m.id} |-> requests[i]]
        /\ Callback(requests[m.id], m.num)
        /\ UNCHANGED <<opened, wired, id, broken>>
  BY DEF onMessage
<1> DEFINE r == requests[m.id]
<1>2. s = ws /\ startPromise = ws /\ ws # Null /\ ws \in Socket
  BY <1>1, OpenIsInUse
<1>3. r \in Slot /\ Pending(r) /\ request[r].num = m.num
  BY <1>1 DEF TransportInv, TransportTypes, TransportTypeOK, MapOfSent, AnswersKnown
<1>4. \A i \in DOMAIN requests : requests[i] \in Slot /\ Pending(requests[i]) /\ (requests[i] = r => i = m.id)
  BY <1>1 DEF TransportInv, TransportTypes, TransportTypeOK, MapOfSent
<1>5. /\ DOMAIN requests' = DOMAIN requests \ {m.id}
      /\ \A i \in DOMAIN requests' : requests'[i] = requests[i] /\ requests[i] # r
  BY <1>1, <1>4
<1>6. wire \in [Socket -> SUBSET Message] /\ m \in Message
  BY DEF TransportInv, TransportTypes
<1>7. /\ wire' \in [Socket -> SUBSET Message] /\ wire'[s] = wire[s] \ {m}
      /\ \A t \in Socket : t # s => wire'[t] = wire[t]
  BY <1>1, <1>6
<1>8. Callback(r, request[r].num)
  BY <1>1, <1>3
<1> HIDE DEF r
<1>9. /\ UNCHANGED <<socket, ws, startPromise>>
      /\ request' \in [Slot -> Sending \cup {Free}]
      /\ \A q \in Slot : Pending(q) /\ q # r => request'[q] = request[q]
      /\ \A q \in Slot : Pending(q)' =>
           \/ q # r /\ Pending(q) /\ request'[q] = request[q]
           \/ request'[q].st = "starting" /\ request'[q].promise = startPromise
  BY <1>2, <1>3, <1>8, CallbackGood
<1>10. /\ EndsWithCurrent' /\ {running', waiting'} \subseteq BOOLEAN /\ currentNum' \in 0..MaxNum
       /\ delivered' \in Seq([asked : Nat, got : Nat])
       /\ \A i \in DOMAIN delivered' : delivered'[i].asked = delivered'[i].got
  BY <1>2, <1>3, <1>8, CallbackGood
<1>11. TransportTypes'
  <2>1. TransportTypeOK'
    BY <1>1, <1>4, <1>5, <1>9, <1>10 DEF TransportInv, TransportTypes, TransportTypeOK
  <2> QED BY <1>7, <1>9, <1>10, <2>1 DEF TransportTypes
<1>12. OneSocket'
  BY <1>1, <1>7, <1>9 DEF TransportInv, OneSocket
<1>13. \A i \in DOMAIN requests' : request'[requests'[i]] = request[requests[i]]
  BY <1>4, <1>5, <1>9
<1>14. MapOfSent'
  <2>1. DOMAIN requests' \subseteq DOMAIN requests
    BY <1>5
  <2>2. \A i \in DOMAIN requests' : i < id'
    BY <1>1, <2>1 DEF TransportInv, MapOfSent
  <2>3. \A i \in DOMAIN requests' : request'[requests'[i]].kind # "free" /\ request'[requests'[i]].st = "sent"
    BY <1>5, <1>13, <2>1 DEF TransportInv, MapOfSent, Pending
  <2>4. \A i, j \in DOMAIN requests' : requests'[i] = requests'[j] => i = j
    BY <1>5, <2>1 DEF TransportInv, MapOfSent
  <2> QED BY <2>2, <2>3, <2>4 DEF MapOfSent, Pending
\* Another answer has another number: two with the same would be the same message.
<1>15. \A n \in wire[s] \ {m} : n.id \in DOMAIN requests' /\ request[requests[n.id]].num = n.num
  <2> SUFFICES ASSUME NEW n \in wire[s], n # m
               PROVE  n.id \in DOMAIN requests' /\ request[requests[n.id]].num = n.num
    OBVIOUS
  <2>1. n.id \in DOMAIN requests /\ request[requests[n.id]].num = n.num
    BY <1>1 DEF TransportInv, AnswersKnown
  <2>2. n \in Message
    BY <1>6
  <2>3. n.id # m.id
    BY <1>3, <1>6, <2>1, <2>2 DEF Message, r
  <2> QED BY <1>5, <2>1, <2>3
<1>16. AnswersKnown'
  <2> SUFFICES ASSUME NEW t \in Socket, socket[t] = "open", NEW n \in wire'[t]
               PROVE  n.id \in DOMAIN requests' /\ request'[requests'[n.id]].num = n.num
    BY <1>9 DEF AnswersKnown
  <2>1. t = s
    BY <1>2, OpenIsInUse
  <2> QED BY <1>7, <1>13, <1>15, <2>1
<1>17. ~broken' => Unbroken'
  <2> SUFFICES ASSUME Unbroken PROVE Unbroken'
    BY <1>1 DEF TransportInv
  <2>1. ASSUME NEW q \in Slot, Pending(q)'
        PROVE  \/ request'[q].st = "starting" /\ request'[q].promise = ws'
               \/ /\ ws' # Null /\ socket'[ws'] = "open"
                  /\ \E n \in wire'[ws'] : n.id \in DOMAIN requests' /\ requests'[n.id] = q
    <3>1. CASE request'[q].st = "starting" /\ request'[q].promise = startPromise
      BY <1>2, <1>9, <3>1
    <3>2. CASE q # r /\ Pending(q) /\ request'[q] = request[q]
      <4>1. CASE request[q].st = "starting" /\ request[q].promise = ws
        BY <1>9, <3>2, <4>1
      <4>2. CASE \E n \in wire[ws] : n.id \in DOMAIN requests /\ requests[n.id] = q
        <5>1. PICK n \in wire[ws] : n.id \in DOMAIN requests /\ requests[n.id] = q
          BY <4>2
        <5>2. n.id # m.id /\ n # m
          BY <3>2, <5>1 DEF r
        <5>3. n \in wire'[ws'] /\ n.id \in DOMAIN requests' /\ requests'[n.id] = q
          BY <1>2, <1>5, <1>7, <1>9, <5>1, <5>2
        <5> QED BY <1>1, <1>2, <1>9, <5>3
      <4> QED BY <3>2, <4>1, <4>2 DEF Unbroken
    <3> QED BY <1>9, <2>1, <3>1, <3>2
  <2> QED BY <1>1, <1>9, <2>1 DEF Unbroken
<1> QED BY <1>10, <1>11, <1>12, <1>14, <1>16, <1>17 DEF TransportInv

\* Steps that leave requests and answers alone.
LEMMA QuietKeeps ==
  ASSUME TransportInv, Release \/ UNCHANGED transportVars
  PROVE  TransportInv'
<1>1. /\ UNCHANGED <<request, startPromise, ws, socket, opened, wired, wire, requests, id, broken>>
      /\ UNCHANGED <<waiting, currentNum, emitted, delivered>> /\ running' \in {FALSE, running}
  BY DEF Release, transportVars, wsVars, feedVars
<1>2. TransportTypes'
  BY <1>1 DEF TransportInv, TransportTypes, TransportTypeOK
<1>3. OneSocket' /\ MapOfSent' /\ AnswersKnown'
  BY <1>1 DEF TransportInv, OneSocket, MapOfSent, AnswersKnown, Pending
<1>4. ~broken' => Unbroken'
  BY <1>1 DEF TransportInv, Unbroken, Pending
<1>5. EndsWithCurrent' /\ \A i \in DOMAIN delivered' : delivered'[i].asked = delivered'[i].got
  BY <1>1 DEF TransportInv, EndsWithCurrent
<1> QED BY <1>2, <1>3, <1>4, <1>5 DEF TransportInv

\* In every state of the transport: one socket at most is alive, the map
\* knows the answers to come, and nothing is lost before a failure.
THEOREM TransportInvariant == TransportSpec => []TransportInv
<1>1. TransportInv /\ [TransportNext]_transportVars => TransportInv'
  <2> SUFFICES ASSUME TransportInv, [TransportNext]_transportVars PROVE TransportInv'
    OBVIOUS
  <2> QED BY OpenKeeps, OpenFailsKeeps, ErrorKeeps, CloseKeeps, MessageKeeps, ProceedKeeps,
             StopKeeps, UpdateKeeps, QuietKeeps DEF TransportNext, Stops
<1> QED BY TransportInitial, <1>1, PTL DEF TransportSpec

\* Callbacks of the web socket transport get the answers to their own
\* requests, and onMessage never meets an id it does not know.
THEOREM AnswersMatch == TransportSpec => []OwnAnswer
<1>1. TransportInv => OwnAnswer
  BY DEF TransportInv, AnswersKnown, OwnAnswer
<1> QED BY <1>1, TransportInvariant, PTL

\* No request of the web socket transport is lost before a socket fails.
THEOREM NoRequestLost == TransportSpec => []AnsweredUnlessBroken
<1>1. TransportInv => AnsweredUnlessBroken
  <2> SUFFICES ASSUME TransportInv, ~broken, NEW r \in Slot, Pending(r)
               PROVE  \/ request[r].st = "starting" /\ socket[request[r].promise] \in {"connecting", "open"}
                      \/ \E s \in wired, i \in DOMAIN requests :
                           /\ requests[i] = r /\ socket[s] = "open"
                           /\ \E m \in wire[s] : m.id = i
    BY DEF AnsweredUnlessBroken
  <2>1. Unbroken /\ ws \in Socket \union {Null}
    BY DEF TransportInv, TransportTypes, TransportTypeOK
  <2>2. CASE request[r].st = "starting" /\ request[r].promise = ws
    <3>1. ws # Null
      BY <2>2, PendingIsSending, TransportConstants DEF TransportInv, Sending
    <3> QED BY <2>1, <2>2, <3>1 DEF Unbroken
  <2>3. CASE /\ ws # Null /\ socket[ws] = "open"
             /\ \E m \in wire[ws] : m.id \in DOMAIN requests /\ requests[m.id] = r
    <3>1. ws \in wired
      BY <2>1, <2>3 DEF Unbroken
    <3> QED BY <2>3, <3>1
  <2> QED BY <2>1, <2>2, <2>3 DEF Unbroken
<1> QED BY <1>1, TransportInvariant, PTL

\* The block stream passes on consecutive numbers.
THEOREM StreamHasNoGaps == TransportSpec => []ConsecutiveNumbers
<1>1. TransportInv => ConsecutiveNumbers
  <2> SUFFICES ASSUME TransportInv, NEW i \in DOMAIN emitted
               PROVE  emitted[i] = emitted[1] + i - 1
    BY DEF ConsecutiveNumbers
  <2>1. currentNum \in Nat /\ emitted \in Seq(Int)
    BY TransportConstants DEF TransportInv, TransportTypes, TransportTypeOK, EndsWithCurrent
  <2>2. i \in 1..Len(emitted) /\ 1 \in DOMAIN emitted /\ Len(emitted) \in Nat
    BY <2>1
  <2>3. emitted[i] = currentNum - Len(emitted) + i /\ emitted[1] = currentNum - Len(emitted) + 1
    BY <2>2 DEF TransportInv, EndsWithCurrent
  <2> QED BY <2>1, <2>2, <2>3
<1> QED BY <1>1, TransportInvariant, PTL

-----------------------------------------------------------------------------
(* The failover of the blurtjs api object.                                 *)

HttpCall == [how : {"call", "signedCall", "send"}, uri : Urls, again : BOOLEAN, attempt : Nat]

\* The index of the endpoint in use follows the url.
FailoverInv ==
  /\ FailoverTypeOK
  /\ api_index = IndexOf(options_url)
  /\ http \in [HttpRequest -> HttpCall \cup {Idle}]

\* The place of a url in the list, and the first place for one not in it.
LEMMA IndexOfGood ==
  ASSUME NEW u
  PROVE  /\ IndexOf(u) \in DOMAIN Endpoints
         /\ u \in Range(Endpoints) => /\ Endpoints[IndexOf(u)] = u
                                      /\ \A j \in 1..IndexOf(u) - 1 : Endpoints[j] # u
<1>1. Endpoints \in Seq(Urls) /\ Endpoints # <<>>
  BY FailoverAssumption
<1>2. DOMAIN Endpoints = 1..Len(Endpoints) /\ Len(Endpoints) \in Nat /\ 1 \in DOMAIN Endpoints
  BY <1>1
<1>3. CASE u \in Range(Endpoints)
  <2> DEFINE S == {i \in DOMAIN Endpoints : Endpoints[i] = u}
  <2>1. S \subseteq Nat /\ S # {}
    BY <1>2, <1>3 DEF Range
  <2>2. PICK m \in S : \A n \in S : m <= n
    BY <2>1, Least
  <2>3. Endpoints[m] = u /\ \A j \in 1..m - 1 : Endpoints[j] # u
    BY <1>2, <2>2
  <2>4. \E i \in DOMAIN Endpoints : Endpoints[i] = u /\ \A j \in 1..i - 1 : Endpoints[j] # u
    BY <2>2, <2>3
  <2> QED BY <1>3, <2>4 DEF IndexOf
<1>4. CASE u \notin Range(Endpoints)
  BY <1>2, <1>4 DEF IndexOf
<1> QED BY <1>3, <1>4

\* At first nothing was posted.
LEMMA FailoverInitial == FailoverInit => FailoverInv
<1> SUFFICES ASSUME FailoverInit PROVE FailoverInv
  OBVIOUS
<1>1. Endpoints \in Seq(Urls) /\ Endpoints # <<>> /\ Broadcast \subseteq Method
  BY FailoverAssumption
<1>2. 1 \in DOMAIN Endpoints /\ Endpoints[1] \in Urls /\ Endpoints[1] \in Range(Endpoints)
  BY <1>1 DEF Range
<1>3. IndexOf(Endpoints[1]) = 1
  <2> DEFINE i == IndexOf(Endpoints[1])
  <2>1. i \in DOMAIN Endpoints /\ \A j \in 1..i - 1 : Endpoints[j] # Endpoints[1]
    BY <1>2, IndexOfGood
  <2> HIDE DEF i
  <2>2. i \in Nat \ {0}
    BY <1>1, <2>1
  <2>3. ~(1 < i)
    BY <2>1, <2>2
  <2>4. i = 1
    BY <2>2, <2>3
  <2> QED BY <2>4 DEF i
<1>4. FailoverTypeOK
  BY <1>1, <1>2 DEF FailoverInit, FailoverTypeOK
<1>5. http \in [HttpRequest -> HttpCall \cup {Idle}]
  BY DEF FailoverInit
<1> QED BY <1>3, <1>4, <1>5 DEF FailoverInv, FailoverInit

\* A request starts.
LEMMA BeginKeepsCalls ==
  ASSUME FailoverInv, NEW r \in HttpRequest, NEW c \in HttpCall, Begin(r, c)
  PROVE  FailoverInv'
BY DEF Begin, optionVars, FailoverInv, FailoverTypeOK

\* A request is tried again.
LEMMA RetryKeepsCalls ==
  ASSUME FailoverInv, NEW r \in HttpRequest, http[r] # Idle,
         http' = [http EXCEPT ![r].attempt = @ + 1]
  PROVE  http' \in [HttpRequest -> HttpCall \cup {Idle}]
<1> DEFINE c == [http[r] EXCEPT !.attempt = @ + 1]
<1>1. http \in [HttpRequest -> HttpCall \cup {Idle}] /\ http[r] \in HttpCall
  BY DEF FailoverInv
<1>2. c \in HttpCall
  BY <1>1 DEF HttpCall
<1>3. http' = [http EXCEPT ![r] = c]
  BY <1>1
<1> QED BY <1>1, <1>2, <1>3

\* Setting the url sets the index.
LEMMA SetOptionsGood ==
  ASSUME NEW u \in Urls, NEW again \in BOOLEAN, NEW except \in SUBSET Method,
         setOptions(u, again, except)
  PROVE  /\ options_url' \in Urls /\ api_index' \in DOMAIN Endpoints /\ retry' \in BOOLEAN
         /\ nonRetriable' \subseteq Method /\ api_index' = IndexOf(options_url')
BY IndexOfGood DEF setOptions

\* The endpoint a failover moves to is another one of the list.
LEMMA NextEndpoint ==
  ASSUME FailoverInv
  PROVE  LET n == IF api_index >= Len(Endpoints) THEN 1 ELSE api_index + 1
         IN  n \in DOMAIN Endpoints /\ (Len(Endpoints) > 1 => n # api_index)
<1>1. Endpoints \in Seq(Urls) /\ Endpoints # <<>> /\ api_index \in DOMAIN Endpoints
  BY FailoverAssumption DEF FailoverInv, FailoverTypeOK
<1> QED BY <1>1

\* After an error the index is that of the endpoint in use.
LEMMA NotifyErrorGood ==
  ASSUME FailoverInv, NEW overseer \in BOOLEAN, notifyError(overseer),
         failover_threshold' = failover_threshold
  PROVE  FailoverTypeOK' /\ api_index' = IndexOf(options_url')
<1>1. /\ Endpoints \in Seq(Urls) /\ Broadcast \in SUBSET Method
      /\ FailoverTypeOK /\ api_index = IndexOf(options_url)
  BY FailoverAssumption DEF FailoverInv
<1>2. CASE UNCHANGED optionVars /\ error_count' \in Nat
  BY <1>1, <1>2 DEF optionVars, FailoverTypeOK
<1>3. CASE ~(UNCHANGED optionVars /\ error_count' \in Nat)
  <2> DEFINE u == Endpoints[IF api_index >= Len(Endpoints) THEN 1 ELSE api_index + 1]
  <2>1. u \in Urls
    BY <1>1, NextEndpoint
  <2>2. error_count' = 0 /\ setOptions(u, FALSE, Broadcast)
    <3>1. error_count \in Nat /\ error_count + 1 \in Nat
      BY <1>1 DEF FailoverTypeOK
    <3>2. ~(failover_threshold = 0 \/ overseer)
      BY <1>3, <3>1 DEF notifyError
    <3>3. ~(error_count + 1 < failover_threshold)
      BY <1>3, <3>1, <3>2 DEF notifyError
    <3> QED BY <3>2, <3>3 DEF notifyError
  <2> HIDE DEF u
  <2>3. /\ options_url' \in Urls /\ api_index' \in DOMAIN Endpoints /\ retry' \in BOOLEAN
        /\ nonRetriable' \subseteq Method /\ api_index' = IndexOf(options_url')
    BY <1>1, <2>1, <2>2, SetOptionsGood
  <2> QED BY <1>1, <2>2, <2>3 DEF FailoverTypeOK
<1> QED BY <1>2, <1>3

\* Every step keeps the invariant of the endpoints.
LEMMA FailoverKeeps ==
  ASSUME FailoverInv, [FailoverNext]_failoverVars
  PROVE  FailoverInv'
<1>1. /\ FailoverTypeOK /\ api_index = IndexOf(options_url)
      /\ http \in [HttpRequest -> HttpCall \cup {Idle}]
  BY DEF FailoverInv
<1>2. UNCHANGED <<optionVars, error_count, failover_threshold>> =>
        FailoverTypeOK' /\ api_index' = IndexOf(options_url')
  BY <1>1 DEF optionVars, FailoverTypeOK
<1>3. CASE UNCHANGED failoverVars
  BY <1>1, <1>2, <1>3 DEF failoverVars, FailoverInv
<1>4. ASSUME NEW u \in Urls, NEW t \in Thresholds \union {0}, NEW again \in BOOLEAN,
             NEW except \in {Broadcast, {}}, Configure(u, t, again, except)
      PROVE  FailoverInv'
  <2>1. except \in SUBSET Method
    BY FailoverAssumption
  <2>2. /\ options_url' \in Urls /\ api_index' \in DOMAIN Endpoints /\ retry' \in BOOLEAN
        /\ nonRetriable' \subseteq Method /\ api_index' = IndexOf(options_url')
    BY <1>4, <2>1, SetOptionsGood DEF Configure
  <2>3. FailoverTypeOK'
    BY <1>1, <1>4, <2>2 DEF Configure, FailoverTypeOK
  <2> QED BY <1>1, <1>4, <2>2, <2>3 DEF Configure, FailoverInv
<1>5. ASSUME NEW r \in HttpRequest, NEW how \in {"call", "signedCall"}, startCall(r, how)
      PROVE  FailoverInv'
  <2>1. [how |-> how, uri |-> options_url, again |-> FALSE, attempt |-> 1] \in HttpCall
    BY <1>1 DEF FailoverTypeOK, HttpCall
  <2> QED BY <1>5, <2>1, BeginKeepsCalls DEF startCall
<1>6. ASSUME NEW r \in HttpRequest, NEW method \in Method, sendRequest(r, method)
      PROVE  FailoverInv'
  <2>1. retriable(method) \in BOOLEAN
    BY <1>1 DEF FailoverTypeOK, retriable
  <2>2. [how |-> "send", uri |-> options_url, again |-> retriable(method), attempt |-> 1] \in HttpCall
    BY <1>1, <2>1 DEF FailoverTypeOK, HttpCall
  <2> QED BY <1>6, <2>2, BeginKeepsCalls DEF sendRequest
<1>7. ASSUME NEW r \in HttpRequest, Succeeds(r)
      PROVE  FailoverInv'
  BY <1>1, <1>2, <1>7 DEF Succeeds, End, FailoverInv
<1>8. ASSUME NEW r \in HttpRequest, NEW rpc \in BOOLEAN, NEW overseer \in BOOLEAN,
             Fails(r, rpc, overseer)
      PROVE  FailoverInv'
  <2>1. http' \in [HttpRequest -> HttpCall \cup {Idle}]
    BY <1>1, <1>8, RetryKeepsCalls DEF Fails, End
  <2>2. FailoverTypeOK' /\ api_index' = IndexOf(options_url')
    BY <1>2, <1>8, NotifyErrorGood DEF Fails
  <2> QED BY <2>1, <2>2 DEF FailoverInv
<1> QED BY <1>3, <1>4, <1>5, <1>6, <1>7, <1>8 DEF FailoverNext

\* The index of the api object always names the endpoint in use.
THEOREM FailoverInvariant == FailoverSpec => []FailoverInv
BY FailoverInitial, FailoverKeeps, PTL DEF FailoverSpec

\* The error that reaches the threshold leaves the endpoint that is in use.
THEOREM FailoverLeaves == FailoverSpec => FailoverMoves
<1> DEFINE Moves == \A r \in HttpRequest, rpc \in BOOLEAN :
                      /\ IsInjective(Endpoints) /\ Len(Endpoints) > 1
                      /\ Reported(r, rpc) /\ Fails(r, rpc, FALSE)
                      /\ failover_threshold # 0 /\ error_count + 1 >= failover_threshold
                      => options_url' # options_url
<1>1. FailoverInv => Moves
  <2> SUFFICES ASSUME FailoverInv, NEW r \in HttpRequest, NEW rpc \in BOOLEAN,
                      IsInjective(Endpoints), Len(Endpoints) > 1,
                      Reported(r, rpc), Fails(r, rpc, FALSE),
                      failover_threshold # 0, error_count + 1 >= failover_threshold
               PROVE  options_url' # options_url
    OBVIOUS
  <2>1. error_count \in Nat /\ failover_threshold \in Nat /\ http[r] \in HttpCall \cup {Idle}
    BY FailoverAssumption DEF FailoverInv, FailoverTypeOK
  <2> DEFINE n == IF api_index >= Len(Endpoints) THEN 1 ELSE api_index + 1
  <2>2. notifyError(FALSE)
    <3>1. http[r].how # "send" /\ (http[r].how = "call" => ~rpc)
      BY DEF Reported
    <3> QED BY <3>1 DEF Fails
  <2>3. options_url' = Endpoints[n]
    BY <2>1, <2>2 DEF notifyError, setOptions
  <2>4. n \in DOMAIN Endpoints /\ n # api_index /\ api_index \in DOMAIN Endpoints
    BY NextEndpoint DEF FailoverInv, FailoverTypeOK
  <2> HIDE DEF n
  <2>5. CASE options_url \in Range(Endpoints)
    <3>1. Endpoints[api_index] = options_url
      BY <2>5, IndexOfGood DEF FailoverInv
    <3> QED BY <2>3, <2>4, <3>1 DEF IsInjective
  <2>6. CASE options_url \notin Range(Endpoints)
    BY <2>3, <2>4, <2>6 DEF Range
  <2> QED BY <2>5, <2>6
<1> QED BY <1>1, FailoverInvariant, PTL DEF FailoverMoves

=============================================================================
