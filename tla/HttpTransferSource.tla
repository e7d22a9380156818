--------------------------- MODULE HttpTransferSource ---------------------------
(* lib/http_transfer_source_impl.cc: a worker thread polls an HTTP server for  *)
(* telecommands, acknowledges one and publishes its payload to the radio.      *)
(*                                                                             *)
(* The server lists packets, telecommands and others, as JSON objects; it      *)
(* keeps a telecommand until it is acknowledged.  A packet is a number, which  *)
(* stands for its timestamp and for its payload; an object has its properties, *)
(* or some of them, in any order.  The worker keeps what it reads in local     *)
(* variables that outlive a pass.  An exception that nobody catches ends the   *)
(* process.                                                                    *)
EXTENDS Integers, Sequences, FiniteSetsExt, Functions

CONSTANTS MaxPackets,  \* bound on the telecommands
          MaxListed,   \* bound on the packets in one response
          Objects,     \* what the server may list: a packet, and which of its
                       \* properties the object has, in their order
          Bytes,       \* Bytes[p]: bytes in p's payload, behind the prefix "0x"
          Prefixed     \* packets whose payload has the prefix

Commands  == 1..MaxPackets
Telemetry == MaxPackets + 1 \* a packet of another type than "TC"
Packets   == Commands \cup {Telemetry}

\* What the worker looks for.  It does without radioId, but reads it as a number.
Required == {"type", "timestamp", "payload", "spacecraftId"}
Numeric  == {"timestamp", "spacecraftId", "radioId"}

ASSUME SourceAssumption ==
  /\ MaxPackets \in Nat
  /\ MaxListed \in Nat
  /\ Objects \subseteq [packet : Packets, names : Seq(Required \cup Numeric)]
  /\ Bytes \in [Packets -> Nat]
  /\ Prefixed \subseteq Packets

VARIABLES issued,           \* telecommands the server was given
          pending,          \* those it still lists
          m_exit_requested, \* set by stop(), read by the worker
          graph,            \* "built", "running", "stopping" inside stop(), "stopped"
          worker,           \* where http_transfer_source_wait is
          server_connected,
          fields            \* packet_type, timestamp, packet_payload, spacecraftId

\* History, read by properties only.
VARIABLES whole,    \* the latest response was read to its end, and its last object
                    \* lacks no property
          acked,    \* acknowledgements the server took, and the payload in hand
          radio,    \* what was published: the payload, and how many bytes of it
          unheard,  \* payloads published while no flowgraph runs
          repeated, \* payloads published more than once
          unacked   \* payloads published while the server still lists them

svars   == << issued, pending >>
gvars   == << m_exit_requested, graph >>
history == << whole, acked, radio, unheard, repeated, unacked >>
vars    == << issued, pending, m_exit_requested, graph, worker, server_connected, fields,
              whole, acked, radio, unheard, repeated, unacked >>

NoFields == [type |-> "", timestamp |-> 0, payload |-> 0, spacecraftId |-> 0]

\* The constructor starts the worker.
Init ==
  /\ issued = 0
  /\ pending = {}
  /\ m_exit_requested = FALSE
  /\ graph = "built"
  /\ worker = "start"
  /\ server_connected = TRUE
  /\ fields = NoFields
  /\ whole = TRUE
  /\ acked = {}
  /\ radio = {}
  /\ unheard = {}
  /\ repeated = {}
  /\ unacked = {}

--------------------------------------------------------------------------------
\* The server: a telecommand is issued.  It lists any packets it still has, each of
\* them once.

Listed == pending \cup {Telemetry}

Issue ==
  /\ issued < MaxPackets
  /\ issued' = issued + 1
  /\ pending' = pending \cup {issued'}
  /\ UNCHANGED << gvars, worker, server_connected, fields, history >>

Lists ==
  { r \in UNION { [1..n -> Objects] : n \in 0..MaxListed } :
      \A j, k \in DOMAIN r : r[j].packet = r[k].packet => j = k }

Responses == { r \in Lists : \A j \in DOMAIN r : r[j].packet \in Listed }

--------------------------------------------------------------------------------
\* The scheduler thread: start(), which the block does not override, and stop().

StartGraph ==
  /\ graph \in {"built", "stopped"}
  /\ graph' = "running"
  /\ UNCHANGED << svars, m_exit_requested, worker, server_connected, fields, history >>

Stop ==
  /\ graph = "running"
  /\ graph' = "stopping"
  /\ UNCHANGED << svars, m_exit_requested, worker, server_connected, fields, history >>

\* threadTransferDeInit: fp_mutex is the worker's while it sleeps.
threadTransferDeInit ==
  /\ graph = "stopping"
  /\ worker # "sleep"
  /\ m_exit_requested' = TRUE
  /\ graph' = "joining"
  /\ UNCHANGED << svars, worker, server_connected, fields, history >>

Join ==
  /\ graph = "joining"
  /\ worker = "done"
  /\ graph' = "stopped"
  /\ UNCHANGED << svars, m_exit_requested, worker, server_connected, fields, history >>

--------------------------------------------------------------------------------
\* The worker, http_transfer_source_wait.

Goto(here, there) == worker = here /\ worker' = there

\* An exception outside every try block: std::terminate.
Abort(here) ==
  /\ Goto(here, "aborted")
  /\ graph' = "aborted"
  /\ UNCHANGED << svars, m_exit_requested, server_connected, fields, history >>

Start ==
  /\ Goto("start", IF m_exit_requested THEN "done" ELSE "resolve")
  /\ UNCHANGED << svars, gvars, server_connected, fields, history >>

\* The name is looked up outside the try block of the first connection.
Resolve(connected) ==
  /\ Goto("resolve", "get")
  /\ server_connected' = connected
  /\ UNCHANGED << svars, gvars, fields, history >>

TypeOf(p) == IF p = Telemetry THEN "TM" ELSE "TC"

\* The properties of object j that are read, when n objects are and i properties
\* of the next.
Read(response, n, i, j) ==
  LET names == response[j].names
  IN  { names[m] : m \in { m \in DOMAIN names : j <= n \/ (j = n + 1 /\ m <= i) } }

\* Which object of the response a property is read from last; 0: from none.
LatestWith(name, response, n, i) ==
  Max({0} \cup { j \in DOMAIN response : name \in Read(response, n, i, j) })

\* A slip: a type, once it is read, is not replaced.
FieldsAfterKeepsType(response, n, i) ==
  LET latest(name, f(_), old) == LET j == LatestWith(name, response, n, i)
                                 IN  IF j = 0 THEN old ELSE f(response[j].packet)
  IN  [type         |-> IF fields.type = "" THEN latest("type", TypeOf, "") ELSE fields.type,
       timestamp    |-> latest("timestamp", LAMBDA p : p, fields.timestamp),
       payload      |-> latest("payload", LAMBDA p : p, fields.payload),
       spacecraftId |-> latest("spacecraftId", LAMBDA p : 1, fields.spacecraftId)]

\* The local variables after n objects of the response and i properties of the
\* next: a property read later replaces what was read before, also in an earlier
\* pass; one that is missing replaces nothing.
FieldsAfter(response, n, i) ==
  LET latest(name, f(_), old) == LET j == LatestWith(name, response, n, i)
                                 IN  IF j = 0 THEN old ELSE f(response[j].packet)
  IN  [type         |-> latest("type", TypeOf, fields.type),
       timestamp    |-> latest("timestamp", LAMBDA p : p, fields.timestamp),
       payload      |-> latest("payload", LAMBDA p : p, fields.payload),
       spacecraftId |-> latest("spacecraftId", LAMBDA p : 1, fields.spacecraftId)]

Complete == fields.type = "TC" /\ fields.timestamp # 0 /\ fields.spacecraftId # 0

IsWhole(object) == Required \subseteq Range(object.names)

LastIsWhole(response) == response # << >> => IsWhole(response[Len(response)])

\* A slip: a response with one packet is taken for an empty one.
GetReadsTwo(response) ==
  /\ fields' = IF Len(response) < 2 THEN fields ELSE FieldsAfter(response, Len(response), 0)
  /\ Goto("get", IF Len(response) >= 2 /\ Complete' THEN "ack" ELSE "publish")
  /\ server_connected' = TRUE
  /\ whole' = LastIsWhole(response)
  /\ UNCHANGED << svars, gvars, acked, radio, unheard, repeated, unacked >>

\* The worker is connected or connects, asks, and reads the whole response.
GetReads(response) ==
  /\ worker = "get"
  /\ fields' = FieldsAfter(response, Len(response), 0)
  /\ worker' = IF response # << >> /\ Complete' THEN "ack" ELSE "publish"
  /\ server_connected' = TRUE
  /\ whole' = LastIsWhole(response)
  /\ UNCHANGED << svars, gvars, acked, radio, unheard, repeated, unacked >>

\* The response is no JSON, or property i of object n + 1 is no number: what was
\* read before it is kept.
GetGarbled(response) ==
  /\ Goto("get", "publish")
  /\ \/ UNCHANGED fields
     \/ \E n \in 0..(Len(response) - 1) : \E i \in DOMAIN response[n + 1].names :
          /\ response[n + 1].names[i] \in Numeric
          /\ fields' = FieldsAfter(response, n, i - 1)
  /\ server_connected' = FALSE
  /\ whole' = FALSE
  /\ UNCHANGED << svars, gvars, acked, radio, unheard, repeated, unacked >>

\* connect, write or read throws.
GetFails ==
  /\ Goto("get", "publish")
  /\ server_connected' = FALSE
  /\ UNCHANGED << svars, gvars, fields, history >>

\* The server takes the acknowledgement.
Acknowledge ==
  /\ acked' = acked \cup {[timestamp |-> fields.timestamp, payload |-> fields.payload]}
  /\ pending' = pending \ {fields.timestamp}
  /\ UNCHANGED << issued, gvars, fields, whole, radio, unheard, repeated, unacked >>

\* The server answers the acknowledgement, and its status is not looked at.
AckAnswered ==
  /\ Goto("ack", "publish")
  /\ Acknowledge \/ UNCHANGED << svars, gvars, fields, history >>
  /\ UNCHANGED server_connected

\* A slip: after an exception nothing is published.
AckFailsSkips ==
  /\ Goto("ack", "check")
  /\ Acknowledge \/ UNCHANGED << svars, gvars, fields, history >>
  /\ server_connected' = FALSE

\* write or read throws, before or after the server took the acknowledgement.
AckFails ==
  /\ Goto("ack", "publish")
  /\ Acknowledge \/ UNCHANGED << svars, gvars, fields, history >>
  /\ server_connected' = FALSE

\* A slip: two bytes are missing.
VectorSizeShort(p) == Bytes[p] - 2

\* The vector has length/2 - 2 bytes, one less than the payload.
VectorSize(p) == Bytes[p] - 1

\* message_port_pub.
Publish(p) ==
  \/ /\ graph \in {"running", "stopping", "joining"}
     /\ radio' = radio \cup {[payload |-> p, size |-> VectorSize(p)]}
     /\ repeated' = repeated \cup { s.payload : s \in { s \in radio : s.payload = p } }
     /\ unacked' = unacked \cup (Listed \cap {p})
     /\ UNCHANGED unheard
  \/ /\ graph # "running"
     /\ unheard' = unheard \cup {p}
     /\ UNCHANGED << radio, repeated, unacked >>

\* A payload without the prefix is not sent, if a vector can be made for it.
IsIgnored(p) == p # 0 /\ p \notin Prefixed /\ Bytes[p] > 0

\* One with the prefix may be sent if its vector has a byte to write to.
IsSendable(p) == p \in Prefixed /\ Bytes[p] > 1

\* A slip: the properties are not reset.
SendPayloadKeepsFields ==
  /\ Goto("publish", "check")
  /\ \/ ~Complete /\ UNCHANGED << radio, unheard, repeated, unacked >>
     \/ /\ Complete
        /\ \/ IsIgnored(fields.payload) /\ UNCHANGED << radio, unheard, repeated, unacked >>
           \/ IsSendable(fields.payload) /\ Publish(fields.payload)
  /\ UNCHANGED << svars, gvars, server_connected, fields, whole, acked >>

\* The payload of a complete telecommand is published if it has its prefix.
SendPayload ==
  /\ Goto("publish", "check")
  /\ \/ ~Complete /\ UNCHANGED << fields, radio, unheard, repeated, unacked >>
     \/ /\ Complete
        /\ fields' = NoFields
        /\ \/ IsIgnored(fields.payload) /\ UNCHANGED << radio, unheard, repeated, unacked >>
           \/ IsSendable(fields.payload) /\ Publish(fields.payload)
  /\ UNCHANGED << svars, gvars, server_connected, whole, acked >>

\* Without a payload, or with one too short, a vector of fewer than 0 bytes would
\* have to be made.  The loop writes one byte more than the vector has, which ends
\* the process if it has none, and may end it otherwise.
SendPayloadAborts ==
  /\ Complete
  /\ ~IsIgnored(fields.payload)
  /\ Abort("publish")

\* A slip: the flag is tested only while there is a connection to shut down.
CheckExitConnected ==
  /\ Goto("check", IF m_exit_requested /\ server_connected THEN "done" ELSE "sleep")
  /\ UNCHANGED << svars, gvars, server_connected, fields, history >>

\* Under the lock, which the worker keeps while it sleeps.
CheckExit ==
  /\ Goto("check", IF m_exit_requested THEN "done" ELSE "sleep")
  /\ UNCHANGED << svars, gvars, server_connected, fields, history >>

Wake ==
  /\ Goto("sleep", "get")
  /\ UNCHANGED << svars, gvars, server_connected, fields, history >>

Network ==
  \/ \E connected \in BOOLEAN : Resolve(connected)
  \/ Abort("resolve")
  \/ \E response \in Responses : GetReads(response) \/ GetGarbled(response)
  \/ GetFails
  \/ AckAnswered \/ AckFails

Local == Start \/ SendPayload \/ SendPayloadAborts \/ CheckExit \/ Wake

Next ==
  \/ Issue
  \/ StartGraph \/ Stop \/ threadTransferDeInit \/ Join
  \/ Network \/ Local

Spec == Init /\ [][Next]_vars

\* The threads are scheduled; stop() gets the mutex, which the worker leaves
\* free during its network calls, if that happens again and again.
FairSpec == Spec /\ WF_vars(Local) /\ WF_vars(Join) /\ SF_vars(threadTransferDeInit)

\* Assumptions about the network, hypotheses of the liveness properties.

\* Every network call returns or throws.
NetworkReturns == WF_vars(Network)

\* Telecommand p is listed last, as a whole, if the server answers, again and again.
ServerListsLast(p) ==
  SF_vars(\E r \in Responses :
            r # << >> /\ r[Len(r)].packet = p /\ LastIsWhole(r) /\ GetReads(r))

--------------------------------------------------------------------------------
\* Properties.

TypeOK ==
  /\ issued \in 0..MaxPackets
  /\ pending \subseteq 1..issued
  /\ m_exit_requested \in BOOLEAN
  /\ graph \in {"built", "running", "stopping", "joining", "stopped", "aborted"}
  /\ worker \in {"start", "resolve", "get", "ack", "publish", "check", "sleep", "done",
                 "aborted"}
  /\ server_connected \in BOOLEAN
  /\ fields \in [type : {"", "TC", "TM"}, timestamp : Packets \cup {0},
                 payload : Packets \cup {0}, spacecraftId : {0, 1}]
  /\ whole \in BOOLEAN
  /\ acked \subseteq [timestamp : Packets, payload : Packets \cup {0}]
  /\ radio \subseteq [payload : Packets, size : Nat \ {0}]
  /\ unheard \subseteq Packets /\ repeated \subseteq Packets /\ unacked \subseteq Packets

\* What is acknowledged and published is one telecommand that was issued, unless
\* the latest response could not be read to its end or its last object lacks a
\* property.  Then the properties of other packets fill in, of this response or
\* an earlier one; but never of a telecommand the server was told is done.
OneCommandAtATime ==
  /\ worker \in {"ack", "publish"} /\ Complete /\ whole =>
       fields.timestamp = fields.payload /\ fields.payload \in 1..issued
  /\ worker = "ack" => {fields.timestamp, fields.payload} \subseteq Listed \cup {0}

\* A payload is published twice only if the server did not take the
\* acknowledgement the first time.
RepeatsExplained == repeated \subseteq unacked

\* The radio's commands, and the one the worker is about to publish.
Published == { s.payload : s \in radio }
InHand    == IF worker = "publish" /\ Complete THEN {fields.payload} ELSE {}

\* When the server is told that a telecommand is done, the payload that was in hand
\* is published, unless it is malformed, no flowgraph runs, or the process ends.
AckedIsPublished ==
  graph # "aborted" =>
    \A ack \in acked :
      ack.payload \in Prefixed => ack.payload \in Published \cup InHand \cup unheard

\* stop() returns if every network call does, also while the worker sleeps with
\* the mutex and while the server cannot be reached.
StopReturns ==
  NetworkReturns => (graph = "stopping" ~> graph \in {"stopped", "aborted"})

\* A telecommand is published if the server goes on listing it last, as a whole:
\* packets before the last one of a response are passed over.  An object behind it
\* that lacks its timestamp may take its acknowledgement.
EveryCommandIsSent ==
  \A p \in Prefixed \cap Commands :
    NetworkReturns /\ ServerListsLast(p) =>
      (p \in pending ~> \/ p \in Published \cup unheard
                        \/ \E ack \in acked : ack.timestamp = p /\ ack.payload # p
                        \/ m_exit_requested \/ graph = "aborted")

\* The payload is sent to the radio (http_transfer_source_impl.cc:423): all of it.
PayloadIsSent == \A s \in radio : s.size = Bytes[s.payload]
================================================================================
