----------------------------- MODULE WsTransport -----------------------------
(***************************************************************************)
(* blurtjs over a web socket: WsTransport with its map of pending requests *)
(* and its memoised start, and the block stream of the api that polls the  *)
(* node through it (streamBlockNumber and streamBlock).                    *)
(*                                                                         *)
(* A request takes a slot, waits for the socket to be open, is sent under  *)
(* a number of its own, and is answered in any order.  A socket may fail   *)
(* to open, report an error or be closed at any time, and the application  *)
(* may call stop (setOptions does).  onError and onClose mean to reject    *)
(* what is pending, but iterate over the entries of the map instead of its *)
(* values: with a request pending they throw at once and change nothing.   *)
(***************************************************************************)
EXTENDS Integers, Sequences, FiniteSets, SequencesExt

CONSTANTS
  Slot,        \* bound: requests not yet answered
  MaxSockets,  \* bound: sockets opened
  MaxId,       \* bound: requests sent
  MaxNum       \* bound: block numbers of the node

ASSUME TransportAssumption ==
  IsFiniteSet(Slot) /\ {MaxSockets, MaxId, MaxNum} \subseteq Nat \ {0}

VARIABLES
  request,       \* what each slot is used for, and how far it has come
  startPromise,  \* null, or the socket whose opening it stands for
  ws,            \* this.ws
  socket,        \* the sockets: unused, connecting, open or closed
  opened,        \* those whose start promise was resolved
  wired,         \* those with handlers for messages, errors and closing
  wire,          \* messages on each socket that the node will answer
  requests,      \* _requests: from the ids to the slots
  id,            \* the next id
  broken,        \* a socket failed, or stop was called
  running,       \* streamBlockNumber: not released, and not failed
  waiting,       \* update waits for its answer or its delay
  currentNum,    \* current: its last number
  emitted,       \* the numbers it has passed on
  delivered      \* the blocks streamBlock has passed on

wsVars == <<startPromise, ws, socket, opened, wired, wire, requests, id, broken>>
feedVars == <<running, waiting, currentNum, emitted, delivered>>
transportVars == <<request, wsVars, feedVars>>

Null == 0

Socket == 1..MaxSockets

Free == [kind |-> "free"]

Pending(r) == request[r].kind # "free"

-----------------------------------------------------------------------------
(* start: the promise in place, or a new socket.  Every call of send comes *)
(* through here.                                                           *)
start_Again ==
  LET s == Cardinality({t \in Socket : socket[t] # "unused"}) + 1
  IN  /\ s \in Socket
      /\ socket' = [socket EXCEPT ![s] = "connecting"]
      /\ ws' = s /\ startPromise' = s

start ==
  LET s == Cardinality({t \in Socket : socket[t] # "unused"}) + 1
  IN  IF startPromise # Null THEN UNCHANGED <<socket, ws, startPromise>>
      ELSE /\ s \in Socket
           /\ socket' = [socket EXCEPT ![s] = "connecting"]
           /\ ws' = s /\ startPromise' = s

(* The requests rs, a function from slots to what they ask, are handed to  *)
(* send one after the other; done is a slot that becomes free.             *)
send(rs, done) ==
  /\ start
  /\ request' = [r \in Slot |->
       IF r \in DOMAIN rs
       THEN [kind |-> rs[r].kind, num |-> rs[r].num, st |-> "starting",
             promise |-> startPromise']
       ELSE IF r \in done THEN Free ELSE request[r]]

(* onopen: the handlers go to this.ws. *)
onopen(s) ==
  /\ socket[s] = "connecting"
  /\ socket' = [socket EXCEPT ![s] = "open"]
  /\ opened' = opened \union {s}
  /\ wired' = wired \union {ws}
  /\ UNCHANGED <<request, startPromise, ws, wire, requests, id, broken, feedVars>>

(* onerror before onopen: whoever waits for the promise is rejected, and   *)
(* never calls back.                                                       *)
OpenFails(s) ==
  /\ socket[s] = "connecting"
  /\ socket' = [socket EXCEPT ![s] = "closed"]
  /\ startPromise' = Null /\ broken' = TRUE
  /\ UNCHANGED <<request, ws, opened, wired, wire, requests, id, feedVars>>

(* The continuation of send.  The socket may have gone, or be another one  *)
(* that is not open yet: then the message is not sent, and the entry stays *)
(* in the map.                                                             *)
Proceed(r) ==
  /\ Pending(r) /\ request[r].st = "starting" /\ request[r].promise \in opened
  /\ id < MaxId
  /\ id' = id + 1
  /\ requests' = [i \in DOMAIN requests \union {id} |-> IF i = id THEN r ELSE requests[i]]
  /\ request' = [request EXCEPT ![r].st = "sent"]
  /\ wire' = IF ws # Null /\ socket[ws] = "open"
             THEN [wire EXCEPT ![ws] = @ \union {[id |-> id, num |-> request[r].num]}]
             ELSE wire
  /\ UNCHANGED <<startPromise, ws, socket, opened, wired, broken, feedVars>>

stop_Deaf ==
  /\ startPromise' = Null /\ requests' = <<>> /\ ws' = Null
  /\ UNCHANGED <<socket, wired>>

(* stop forgets the requests, silences the socket and closes it. *)
stop ==
  /\ startPromise' = Null /\ requests' = <<>> /\ ws' = Null
  /\ IF ws = Null THEN UNCHANGED <<socket, wired>>
     ELSE socket' = [socket EXCEPT ![ws] = "closed"] /\ wired' = wired \ {ws}

Stops ==
  /\ stop /\ broken' = TRUE
  /\ UNCHANGED <<request, opened, wire, id, feedVars>>

(* An error on an open socket: stop, unless a request is pending. *)
onError(s) ==
  /\ socket[s] = "open" /\ s \in wired
  /\ \/ requests = <<>> /\ stop
     \/ requests # <<>> /\ UNCHANGED <<startPromise, requests, ws, socket, wired>>
  /\ broken' = TRUE
  /\ UNCHANGED <<request, opened, wire, id, feedVars>>

(* The peer closes.  The map is cleared only if it is empty, and the start *)
(* promise stays resolved: nothing sent from now on is answered.           *)
onClose(s) ==
  /\ socket[s] = "open" /\ s \in wired
  /\ socket' = [socket EXCEPT ![s] = "closed"]
  /\ broken' = TRUE
  /\ UNCHANGED <<request, startPromise, ws, opened, wired, wire, requests, id, feedVars>>

-----------------------------------------------------------------------------
(* The stream.                                                             *)

FreeSlots(done) == SetToSeq({r \in Slot : ~Pending(r)} \union done)

(* A request for each of the numbers, in slots that are free. *)
Asks(kind, nums, done) ==
  LET free == FreeSlots(done)
  IN  [r \in {free[i] : i \in DOMAIN nums} |->
         [kind |-> kind, num |-> nums[CHOOSE i \in DOMAIN nums : free[i] = r]]]

(* update asks for the global properties. *)
update ==
  /\ running /\ ~waiting /\ FreeSlots({}) # <<>>
  /\ waiting' = TRUE
  /\ send(Asks("props", <<0>>, {}), {})
  /\ UNCHANGED <<opened, wired, wire, requests, id, broken, running, currentNum, emitted, delivered>>

Numbers_Inclusive(blockId) ==
  IF currentNum = 0 THEN <<blockId>> ELSE [i \in 1..blockId - currentNum |-> currentNum + i - 1]

(* The numbers the answer lets through: the first one as it is, later all  *)
(* those strictly between the last one and it.                             *)
Numbers(blockId) ==
  IF currentNum = 0 THEN <<blockId>> ELSE [i \in 1..blockId - currentNum - 1 |-> currentNum + i]

(* The answer to update: streamBlock asks for a block for every number,    *)
(* released or not; the next update comes after a delay.                   *)
Update(r, blockId) ==
  LET nums == Numbers(blockId)
  IN  /\ Len(nums) <= Len(FreeSlots({r}))
      /\ emitted' = emitted \o nums
      /\ currentNum' = IF currentNum = 0 THEN blockId
                    ELSE IF blockId > currentNum THEN blockId - 1 ELSE currentNum
      /\ waiting' = FALSE
      /\ IF nums = <<>> THEN request' = [request EXCEPT ![r] = Free] /\ UNCHANGED <<socket, ws, startPromise>>
         ELSE send(Asks("block", nums, {r}), {r})
      /\ UNCHANGED <<running, delivered>>

(* An error ends the stream. *)
UpdateFails(r) ==
  /\ running' = FALSE /\ waiting' = FALSE
  /\ request' = [request EXCEPT ![r] = Free]
  /\ UNCHANGED <<currentNum, emitted, delivered, socket, ws, startPromise>>

BlockArrives(r, num) ==
  /\ delivered' = Append(delivered, [asked |-> request[r].num, got |-> num])
  /\ request' = [request EXCEPT ![r] = Free]
  /\ UNCHANGED <<running, waiting, currentNum, emitted, socket, ws, startPromise>>

BlockFails(r) ==
  /\ request' = [request EXCEPT ![r] = Free]
  /\ UNCHANGED <<feedVars, socket, ws, startPromise>>

(* The callback of a request, with the answer to the request num. *)
Callback(r, num) ==
  \/ /\ request[r].kind = "props"
     /\ UpdateFails(r) \/ \E n \in 1..MaxNum : Update(r, n)
  \/ /\ request[r].kind = "block"
     /\ BlockFails(r) \/ BlockArrives(r, num)

onMessage_Oldest(s) ==
  \E m \in wire[s] :
    /\ socket[s] = "open" /\ s \in wired
    /\ wire' = [wire EXCEPT ![s] = @ \ {m}]
    /\ requests # <<>>
    /\ LET i == CHOOSE j \in DOMAIN requests : \A k \in DOMAIN requests : j <= k
       IN  requests' = [j \in DOMAIN requests \ {i} |-> requests[j]] /\ Callback(requests[i], m.num)
    /\ UNCHANGED <<opened, wired, id, broken>>

(* An answer is matched by its id.  The code throws when it does not know  *)
(* the id; OwnAnswer shows that it always does.                            *)
onMessage(s) ==
  \E m \in wire[s] :
    /\ socket[s] = "open" /\ s \in wired
    /\ m.id \in DOMAIN requests
    /\ wire' = [wire EXCEPT ![s] = @ \ {m}]
    /\ requests' = [i \in DOMAIN requests \ {m.id} |-> requests[i]]
    /\ Callback(requests[m.id], m.num)
    /\ UNCHANGED <<opened, wired, id, broken>>

Release ==
  /\ running /\ running' = FALSE
  /\ UNCHANGED <<request, wsVars, waiting, currentNum, emitted, delivered>>

TransportInit ==
  /\ request = [r \in Slot |-> Free]
  /\ startPromise = Null /\ ws = Null
  /\ socket = [s \in Socket |-> "unused"]
  /\ opened = {} /\ wired = {}
  /\ wire = [s \in Socket |-> {}]
  /\ requests = <<>> /\ id = 0
  /\ broken = FALSE
  /\ running = TRUE /\ waiting = FALSE
  /\ currentNum = 0 /\ emitted = <<>> /\ delivered = <<>>

TransportNext ==
  \/ \E s \in Socket :
       onopen(s) \/ OpenFails(s) \/ onError(s) \/ onClose(s) \/ onMessage(s)
  \/ \E r \in Slot : Proceed(r)
  \/ Stops \/ update \/ Release

TransportSpec == TransportInit /\ [][TransportNext]_transportVars

-----------------------------------------------------------------------------
TransportTypeOK ==
  /\ {startPromise, ws} \subseteq Socket \union {Null}
  /\ socket \in [Socket -> {"unused", "connecting", "open", "closed"}]
  /\ opened \subseteq Socket /\ wired \subseteq Socket \union {Null}
  /\ id \in 0..MaxId /\ DOMAIN requests \subseteq 0..MaxId
  /\ \A i \in DOMAIN requests : requests[i] \in Slot
  /\ {broken, running, waiting} \subseteq BOOLEAN
  /\ currentNum \in 0..MaxNum

(* A callback gets the answer to its own request, in whatever order the    *)
(* answers come, and the answers still to come meet a transport that knows *)
(* their requests, however often it was stopped and started again since    *)
(* they were sent: onMessage does not panic.                               *)
OwnAnswer ==
  /\ \A i \in DOMAIN delivered : delivered[i].asked = delivered[i].got
  /\ \A s \in Socket : socket[s] = "open" /\ s \in wired =>
       \A m \in wire[s] :
         m.id \in DOMAIN requests /\ request[requests[m.id]].num = m.num

(* Until a socket fails or stop is called, every request will be answered: *)
(* it waits for a socket that can still open, or its message is on an open *)
(* socket whose answers are handled.                                       *)
AnsweredUnlessBroken ==
  ~broken => \A r \in Slot : Pending(r) =>
    \/ request[r].st = "starting" /\ socket[request[r].promise] \in {"connecting", "open"}
    \/ \E s \in wired, i \in DOMAIN requests :
         /\ requests[i] = r /\ socket[s] = "open"
         /\ \E m \in wire[s] : m.id = i

(* The stream passes on consecutive numbers, each once, although nodes lag *)
(* and answers report lower numbers than earlier ones.                     *)
ConsecutiveNumbers ==
  \A i \in DOMAIN emitted : emitted[i] = emitted[1] + i - 1

=============================================================================
