----------------------- MODULE HttpTransferSourceProofs ------------------------
(* TypeOK, OneCommandAtATime, RepeatsExplained and AckedIsPublished for every   *)
(* number of telecommands, every length of the responses, all payloads, and     *)
(* whatever the listed objects lack.                                            *)
(*                                                                              *)
(* The invariant follows what the worker holds: outside the two steps between   *)
(* acknowledgement and publication it is of packets the server still lists,     *)
(* and the properties are complete in no other step.                            *)
EXTENDS HttpTransferSource, WellFoundedInduction, TLAPS

\* TypeOK in parts that change together.
ServerTypeOK == issued \in 0..MaxPackets /\ pending \subseteq 1..issued

BlockTypeOK ==
  /\ m_exit_requested \in BOOLEAN
  /\ graph \in {"built", "running", "stopping", "joining", "stopped", "aborted"}

WorkerTypeOK ==
  /\ worker \in {"start", "resolve", "get", "ack", "publish", "check", "sleep", "done",
                 "aborted"}
  /\ server_connected \in BOOLEAN
  /\ whole \in BOOLEAN

FieldsTypeOK ==
  fields \in [type : {"", "TC", "TM"}, timestamp : Packets \cup {0},
              payload : Packets \cup {0}, spacecraftId : {0, 1}]

HistoryTypeOK ==
  /\ acked \subseteq [timestamp : Packets, payload : Packets \cup {0}]
  /\ radio \subseteq [payload : Packets, size : Nat \ {0}]
  /\ unheard \subseteq Packets /\ repeated \subseteq Packets /\ unacked \subseteq Packets

Numbers == (1..issued) \cup {Telemetry}

\* Once it is handled a telecommand is forgotten.
Forgotten ==
  worker \in {"start", "resolve", "get", "check", "sleep", "done"} => ~Complete

AtAck == worker = "ack" => Complete

\* Nothing is held or published that the server did not list.
Known ==
  /\ fields.timestamp \in Numbers \cup {0}
  /\ fields.payload \in Numbers \cup {0}
  /\ Published \subseteq Numbers

StillListed ==
  (worker # "publish" /\ worker # "aborted") \/ ~Complete =>
    {fields.timestamp, fields.payload} \subseteq Listed \cup {0}

\* What is published and listed again was not acknowledged in time.
ListedAgain == Published \cap Listed \subseteq unacked

SentAgain == worker = "publish" /\ fields.payload \in Published => fields.payload \in unacked

IInv ==
  /\ TypeOK
  /\ Forgotten /\ AtAck /\ OneCommandAtATime
  /\ Known /\ StillListed /\ ListedAgain /\ SentAgain
  /\ RepeatsExplained
  /\ AckedIsPublished

--------------------------------------------------------------------------------
\* Lemmas.

LEMMA TypeParts ==
  /\ TypeOK <=> ServerTypeOK /\ BlockTypeOK /\ WorkerTypeOK /\ FieldsTypeOK /\ HistoryTypeOK
  /\ TypeOK' <=>
       ServerTypeOK' /\ BlockTypeOK' /\ WorkerTypeOK' /\ FieldsTypeOK' /\ HistoryTypeOK'
BY Zenon DEF TypeOK, ServerTypeOK, BlockTypeOK, WorkerTypeOK, FieldsTypeOK, HistoryTypeOK

LEMMA Numbering ==
  ASSUME TypeOK
  PROVE  /\ Numbers \subseteq Packets
         /\ Listed \subseteq Numbers
         /\ 0 \notin Packets
         /\ Telemetry \notin Commands
         /\ 1..issued \subseteq Commands
<1>1. issued \in 0..MaxPackets /\ pending \subseteq 1..issued
  BY DEF TypeOK
<1>2. MaxPackets \in Nat
  BY SourceAssumption
<1>3. 1..issued \subseteq Commands
  BY <1>1, <1>2 DEF Commands
<1>4. Telemetry \notin Commands /\ 0 \notin Packets
  BY <1>2 DEF Commands, Telemetry, Packets
<1>5. Numbers \subseteq Packets
  BY <1>3 DEF Numbers, Packets
<1>6. Listed \subseteq Numbers
  BY <1>1 DEF Numbers, Listed
<1> QED
  BY <1>3, <1>4, <1>5, <1>6

\* The objects of a response are of listed packets.
LEMMA ResponsesListed ==
  ASSUME NEW response \in Responses
  PROVE  /\ Len(response) \in Nat /\ DOMAIN response = 1..Len(response)
         /\ \A j \in 1..Len(response) :
              /\ response[j] \in Objects /\ response[j].packet \in Listed
              /\ DOMAIN response[j].names = 1..Len(response[j].names)
<1>1. PICK n \in 0..MaxListed : response \in [1..n -> Objects]
  BY DEF Responses, Lists
<1>2. response \in Seq(Objects)
  BY <1>1, SourceAssumption
<1>3. Len(response) \in Nat /\ DOMAIN response = 1..Len(response)
  BY <1>2
<1>4. \A j \in 1..Len(response) : response[j] \in Objects
  BY <1>2
<1>5. \A j \in 1..Len(response) : response[j].packet \in Listed
  BY <1>3 DEF Responses
<1>6. \A o \in Objects : o.names \in Seq(Required \cup Numeric)
  BY SourceAssumption
<1>7. \A j \in 1..Len(response) : DOMAIN response[j].names = 1..Len(response[j].names)
  BY <1>4, <1>6
<1> QED
  BY <1>3, <1>4, <1>5, <1>7

LEMMA ResponsesNonempty ==
  ASSUME NEW response \in Responses, response # << >>
  PROVE  Len(response) # 0
<1>1. PICK n \in 0..MaxListed : response \in [1..n -> Objects]
  BY DEF Responses, Lists
<1>2. response \in Seq(Objects)
  BY <1>1, SourceAssumption
<1> QED
  BY <1>2

\* A set of numbers up to n has a largest one.
LEMMA LargestIs ==
  ASSUME NEW n \in Nat, NEW T \in SUBSET (0..n), 0 \in T
  PROVE  Max(T) \in T /\ \A y \in T : Max(T) >= y
<1> DEFINE R == OpToRel(<, Nat)
           D == { n - x : x \in T }
<1>1. D \subseteq Nat /\ D # {}
  OBVIOUS
<1>2. PICK d \in D : \A e \in D : ~(<< e, d >> \in R)
  <2>1. IsWellFoundedOn(R, Nat)
    BY NatLessThanWellFounded
  <2> HIDE DEF R, D
  <2> QED
    BY <1>1, <2>1, WFMin
<1>3. \A e \in D : d <= e
  <2> TAKE e \in D
  <2>1. ~(e < d)
    BY <1>1, <1>2 DEF OpToRel
  <2> QED
    BY <1>1, <2>1
<1>4. PICK x \in T : d = n - x
  OBVIOUS
<1>5. \A y \in T : x >= y
  <2> TAKE y \in T
  <2>1. d <= n - y
    BY <1>3
  <2> QED
    BY <1>4, <2>1
<1> QED
  BY <1>5 DEF Max

\* A property is read last from one of the objects, or from none; from the last one,
\* if that is read and has it.
LEMMA LatestIs ==
  ASSUME NEW response \in Responses, NEW n, NEW i, NEW name
  PROVE  /\ LatestWith(name, response, n, i) \in 0..Len(response)
         /\ Len(response) # 0 /\ name \in Read(response, n, i, Len(response)) =>
              LatestWith(name, response, n, i) = Len(response)
<1> DEFINE len == Len(response)
           T   == {0} \cup { j \in DOMAIN response : name \in Read(response, n, i, j) }
<1>1. len \in Nat /\ DOMAIN response = 1..len
  BY ResponsesListed
<1>2. T \in SUBSET (0..len) /\ 0 \in T
  BY <1>1
<1>3. len # 0 /\ name \in Read(response, n, i, len) => len \in T
  BY <1>1
<1>4. LatestWith(name, response, n, i) = Max(T)
  BY DEF LatestWith
<1> HIDE DEF T, len
<1>5. Max(T) \in T /\ \A y \in T : Max(T) >= y
  BY <1>1, <1>2, LargestIs
<1>6. len \in T => Max(T) = len
  <2> HAVE len \in T
  <2>1. Max(T) \in 0..len /\ Max(T) >= len
    BY <1>2, <1>5
  <2> QED
    BY <1>1, <2>1
<1> QED
  BY <1>2, <1>3, <1>4, <1>5, <1>6 DEF len

\* The local variables, field by field.
LEMMA FieldsRead ==
  ASSUME NEW response, NEW n, NEW i
  PROVE  LET from(name) == LatestWith(name, response, n, i) IN
         FieldsAfter(response, n, i) =
           [type         |-> IF from("type") = 0 THEN fields.type
                             ELSE TypeOf(response[from("type")].packet),
            timestamp    |-> IF from("timestamp") = 0 THEN fields.timestamp
                             ELSE response[from("timestamp")].packet,
            payload      |-> IF from("payload") = 0 THEN fields.payload
                             ELSE response[from("payload")].packet,
            spacecraftId |-> IF from("spacecraftId") = 0 THEN fields.spacecraftId ELSE 1]
BY DEF FieldsAfter

\* What is read comes from listed packets or was there before.
LEMMA ReadFields ==
  ASSUME TypeOK, NEW response \in Responses, NEW n, NEW i,
         NEW read, read = FieldsAfter(response, n, i)
  PROVE  /\ read \in [type : {"", "TC", "TM"}, timestamp : Packets \cup {0},
                      payload : Packets \cup {0}, spacecraftId : {0, 1}]
         /\ read.timestamp \in Listed \cup {fields.timestamp}
         /\ read.payload \in Listed \cup {fields.payload}
<1> DEFINE k(name) == LatestWith(name, response, n, i)
<1>1. \A name : k(name) # 0 => response[k(name)].packet \in Listed
  <2> TAKE name
  <2>1. k(name) \in 0..Len(response) /\ Len(response) \in Nat
    BY LatestIs, ResponsesListed
  <2> HIDE DEF k
  <2>2. k(name) # 0 => k(name) \in 1..Len(response)
    BY <2>1
  <2> QED
    BY <2>2, ResponsesListed
<1>2. read =
        [type         |-> IF k("type") = 0 THEN fields.type
                          ELSE TypeOf(response[k("type")].packet),
         timestamp    |-> IF k("timestamp") = 0 THEN fields.timestamp
                          ELSE response[k("timestamp")].packet,
         payload      |-> IF k("payload") = 0 THEN fields.payload
                          ELSE response[k("payload")].packet,
         spacecraftId |-> IF k("spacecraftId") = 0 THEN fields.spacecraftId ELSE 1]
  BY FieldsRead
<1> HIDE DEF k
<1>3. Listed \subseteq Packets
  BY Numbering
<1>4. /\ fields.type \in {"", "TC", "TM"}
      /\ fields.timestamp \in Packets \cup {0}
      /\ fields.payload \in Packets \cup {0}
      /\ fields.spacecraftId \in {0, 1}
  BY DEF TypeOK
<1>5. read.type \in {"", "TC", "TM"}
  <2>1. \A p : TypeOf(p) \in {"", "TC", "TM"}
    BY DEF TypeOf
  <2>2. read.type = IF k("type") = 0 THEN fields.type
                    ELSE TypeOf(response[k("type")].packet)
    BY <1>2
  <2> QED
    BY <1>4, <2>1, <2>2
<1>6. read.timestamp \in Listed \cup {fields.timestamp}
  <2>1. read.timestamp = IF k("timestamp") = 0 THEN fields.timestamp
                         ELSE response[k("timestamp")].packet
    BY <1>2
  <2> QED
    BY <1>1, <2>1
<1>7. read.payload \in Listed \cup {fields.payload}
  <2>1. read.payload = IF k("payload") = 0 THEN fields.payload
                       ELSE response[k("payload")].packet
    BY <1>2
  <2> QED
    BY <1>1, <2>1
<1>8. read.spacecraftId \in {0, 1}
  <2>1. read.spacecraftId = IF k("spacecraftId") = 0 THEN fields.spacecraftId ELSE 1
    BY <1>2
  <2> QED
    BY <1>4, <2>1
<1>9. read = [type |-> read.type, timestamp |-> read.timestamp,
              payload |-> read.payload, spacecraftId |-> read.spacecraftId]
  BY <1>2
<1>10. /\ read.timestamp \in Packets \cup {0}
       /\ read.payload \in Packets \cup {0}
  BY <1>3, <1>4, <1>6, <1>7
<1>11. read \in [type : {"", "TC", "TM"}, timestamp : Packets \cup {0},
                 payload : Packets \cup {0}, spacecraftId : {0, 1}]
  BY <1>5, <1>8, <1>9, <1>10
<1> QED
  BY <1>6, <1>7, <1>11

\* An empty response changes nothing.
LEMMA ReadNothing ==
  ASSUME TypeOK, << >> \in Responses
  PROVE  FieldsAfter(<< >>, 0, 0) = fields
<1> DEFINE k(name) == LatestWith(name, << >>, 0, 0)
<1>1. \A name : k(name) = 0
  <2> TAKE name
  <2>1. k(name) \in 0..Len(<< >>)
    BY LatestIs
  <2> QED
    BY <2>1
<1>2. FieldsAfter(<< >>, 0, 0) =
        [type |-> fields.type, timestamp |-> fields.timestamp,
         payload |-> fields.payload, spacecraftId |-> fields.spacecraftId]
  BY <1>1, FieldsRead
<1> QED
  BY <1>2 DEF TypeOK

\* A response that is read to its end leaves the properties of its last packet, if
\* that lacks none.
LEMMA ReadAll ==
  ASSUME NEW response \in Responses, response # << >>, LastIsWhole(response)
  PROVE  \E p \in Listed :
           FieldsAfter(response, Len(response), 0) =
             [type |-> TypeOf(p), timestamp |-> p, payload |-> p, spacecraftId |-> 1]
<1> DEFINE len == Len(response)
           k(name) == LatestWith(name, response, len, 0)
           names == response[len].names
<1>1. len \in Nat /\ DOMAIN response = 1..len
  BY ResponsesListed
<1>2. len # 0
  BY <1>1, ResponsesNonempty
<1>3. response[len].packet \in Listed
  BY <1>1, <1>2, ResponsesListed
<1>4. Read(response, len, 0, len) = Range(names)
  BY <1>1 DEF Read, Range
<1>5. \A name \in Required : name \in Read(response, len, 0, len)
  BY <1>4 DEF LastIsWhole, IsWhole
<1>6. \A name \in Required : k(name) = len
  BY <1>2, <1>5, LatestIs
<1>7. k("type") = len /\ k("timestamp") = len /\ k("payload") = len /\ k("spacecraftId") = len
  BY <1>6 DEF Required
<1> HIDE DEF k, len
<1>8. FieldsAfter(response, len, 0) =
        [type |-> TypeOf(response[len].packet), timestamp |-> response[len].packet,
         payload |-> response[len].packet, spacecraftId |-> 1]
  BY <1>2, <1>7, FieldsRead DEF k
<1> QED
  BY <1>3, <1>8 DEF len

--------------------------------------------------------------------------------
\* The initial state, the server and the scheduler thread.

LEMMA InitIInv ==
  Init => IInv
<1> SUFFICES ASSUME Init PROVE IInv
  OBVIOUS
<1>1. fields \in [type : {"", "TC", "TM"}, timestamp : Packets \cup {0},
                 payload : Packets \cup {0}, spacecraftId : {0, 1}]
  BY DEF Init, NoFields
<1>2. issued \in 0..MaxPackets
  BY SourceAssumption DEF Init
<1>3. TypeOK
  BY <1>1, <1>2 DEF Init, TypeOK
<1>4. ~Complete /\ Published = {}
  BY DEF Init, Complete, NoFields, Published
<1>5. fields.timestamp = 0 /\ fields.payload = 0
  BY DEF Init, NoFields
<1>6. Known
  BY <1>4, <1>5 DEF Init, Known
<1>7. Forgotten /\ AtAck /\ OneCommandAtATime /\ StillListed /\ ListedAgain /\ SentAgain
  BY <1>4, <1>5 DEF Init, Forgotten, AtAck, OneCommandAtATime, StillListed, ListedAgain,
     SentAgain
<1>8. RepeatsExplained /\ AckedIsPublished
  BY DEF Init, RepeatsExplained, AckedIsPublished
<1> QED
  BY <1>3, <1>6, <1>7, <1>8 DEF IInv

LEMMA IssueStep ==
  ASSUME IInv, Issue
  PROVE  IInv'
<1>1. TypeOK
  BY DEF IInv
<1>2. /\ issued \in 0..MaxPackets /\ pending \subseteq 1..issued
      /\ issued < MaxPackets /\ issued' = issued + 1 /\ pending' = pending \cup {issued'}
  <2>1. issued \in 0..MaxPackets /\ pending \subseteq 1..issued
    BY <1>1 DEF TypeOK
  <2> QED
    BY <2>1 DEF Issue
<1>3. UNCHANGED << m_exit_requested, graph, worker, server_connected, fields, whole, acked,
                   radio, unheard, repeated, unacked >>
  BY DEF Issue, gvars, history
<1>4. issued' \in 0..MaxPackets /\ pending' \subseteq 1..issued'
  BY <1>2, SourceAssumption
<1>5. TypeOK'
  <2>1. ServerTypeOK'
    BY <1>4 DEF ServerTypeOK
  <2>2. /\ BlockTypeOK' = BlockTypeOK /\ WorkerTypeOK' = WorkerTypeOK
        /\ FieldsTypeOK' = FieldsTypeOK /\ HistoryTypeOK' = HistoryTypeOK
    BY <1>3 DEF BlockTypeOK, WorkerTypeOK, FieldsTypeOK, HistoryTypeOK
  <2> QED
    BY <1>1, <2>1, <2>2, TypeParts
<1>6. Complete' = Complete /\ Published' = Published /\ InHand' = InHand
  BY <1>3 DEF Complete, Published, InHand
<1>7. /\ 1..issued \subseteq 1..issued'
      /\ issued' \notin Numbers
      /\ issued' \notin 1..issued
      /\ Listed' = Listed \cup {issued'}
      /\ Numbers \subseteq Numbers'
  BY <1>2, SourceAssumption DEF Numbers, Listed, Telemetry
<1>8. Forgotten' /\ AtAck'
  BY <1>3, <1>6 DEF IInv, Forgotten, AtAck
<1>9. OneCommandAtATime'
  BY <1>3, <1>6, <1>7 DEF IInv, OneCommandAtATime
<1>10. Known'
  <2>1. Known
    BY DEF IInv
  <2> QED
    BY <2>1, <1>3, <1>6, <1>7 DEF Known
<1>11. StillListed'
  BY <1>3, <1>6, <1>7 DEF IInv, StillListed
<1>12. ListedAgain' /\ SentAgain'
  BY <1>3, <1>6, <1>7 DEF IInv, Known, ListedAgain, SentAgain
<1>13. RepeatsExplained' /\ AckedIsPublished'
  BY <1>3, <1>6 DEF IInv, RepeatsExplained, AckedIsPublished
<1> QED
  BY <1>5, <1>8, <1>9, <1>10, <1>11, <1>12, <1>13 DEF IInv

\* A step of the flowgraph, or of the worker that reads and sends nothing, to a
\* place where no telecommand is handled.
LEMMA QuietStep ==
  ASSUME IInv, TypeOK', UNCHANGED << svars, fields, history >>,
         graph' # "aborted" => graph # "aborted",
         worker' = worker \/ worker' \in {"resolve", "get", "check", "sleep", "done"},
         worker' # worker => worker # "publish" /\ ~Complete
  PROVE  IInv'
<1> USE DEF svars, history
<1>1. /\ Complete' = Complete /\ Published' = Published
      /\ Listed' = Listed /\ Numbers' = Numbers
  BY DEF Complete, Published, Listed, Numbers
<1>2. InHand' = InHand
  <2>1. CASE worker' = worker
    BY <1>1, <2>1 DEF InHand
  <2>2. CASE worker' # worker
    BY <1>1, <2>2 DEF InHand
  <2> QED
    BY <2>1, <2>2
<1>3. Forgotten' /\ AtAck'
  BY <1>1 DEF IInv, Forgotten, AtAck
<1>4. OneCommandAtATime'
  BY <1>1 DEF IInv, OneCommandAtATime
<1>5. Known'
  BY <1>1 DEF IInv, Known
<1>6. StillListed' /\ ListedAgain' /\ SentAgain'
  BY <1>1 DEF IInv, StillListed, ListedAgain, SentAgain
<1>7. RepeatsExplained' /\ AckedIsPublished'
  BY <1>1, <1>2 DEF IInv, RepeatsExplained, AckedIsPublished
<1> QED
  BY <1>3, <1>4, <1>5, <1>6, <1>7 DEF IInv

LEMMA GraphStep ==
  ASSUME IInv, StartGraph \/ Stop \/ threadTransferDeInit \/ Join
  PROVE  IInv'
<1> USE DEF StartGraph, Stop, threadTransferDeInit, Join, svars, history
<1>1. TypeOK
  BY DEF IInv
<1>2. TypeOK'
  <2>1. BlockTypeOK
    BY <1>1, TypeParts
  <2>2. m_exit_requested' \in BOOLEAN
    BY <2>1 DEF BlockTypeOK
  <2>3. graph' \in {"running", "stopping", "joining", "stopped"}
    OBVIOUS
  <2>4. BlockTypeOK'
    BY <2>2, <2>3 DEF BlockTypeOK
  <2>5. UNCHANGED << issued, pending, worker, server_connected, fields, whole, acked, radio,
                     unheard, repeated, unacked >>
    OBVIOUS
  <2>6. /\ ServerTypeOK' = ServerTypeOK /\ WorkerTypeOK' = WorkerTypeOK
        /\ FieldsTypeOK' = FieldsTypeOK /\ HistoryTypeOK' = HistoryTypeOK
    BY <2>5 DEF ServerTypeOK, WorkerTypeOK, FieldsTypeOK, HistoryTypeOK
  <2> QED
    BY <1>1, <2>4, <2>6, TypeParts
<1>3. worker' = worker /\ graph # "aborted" /\ UNCHANGED << svars, fields, history >>
  OBVIOUS
<1> QED
  BY <1>2, <1>3, QuietStep

--------------------------------------------------------------------------------
\* The worker.

\* Start, Resolve, CheckExit and Wake; GetFails goes on without a telecommand.
LEMMA IdleStep ==
  ASSUME IInv,
         Start \/ CheckExit \/ Wake \/ \E connected \in BOOLEAN : Resolve(connected)
  PROVE  IInv'
<1> USE DEF Start, CheckExit, Wake, Resolve, Goto, svars, gvars, history
<1>1. TypeOK /\ Forgotten
  BY DEF IInv
<1>2. worker \in {"start", "resolve", "check", "sleep"} /\ ~Complete
  BY <1>1 DEF Forgotten
<1>3. worker' \in {"resolve", "get", "sleep", "done"}
  OBVIOUS
<1>4. server_connected' \in BOOLEAN
  BY <1>1 DEF TypeOK
<1>5. UNCHANGED << svars, gvars, fields, history >>
  OBVIOUS
<1>6. TypeOK'
  BY <1>1, <1>3, <1>4, <1>5 DEF TypeOK
<1> QED
  BY <1>2, <1>3, <1>5, <1>6, QuietStep

LEMMA AbortStep ==
  ASSUME IInv, Abort("resolve") \/ SendPayloadAborts
  PROVE  IInv'
<1> USE DEF SendPayloadAborts, Abort, Goto, svars, history
<1>1. TypeOK /\ TypeOK'
  BY DEF IInv, TypeOK
<1>2. worker' = "aborted" /\ graph' = "aborted" /\ UNCHANGED << svars, fields, history >>
  OBVIOUS
<1>3. /\ Complete' = Complete /\ Published' = Published
      /\ Listed' = Listed /\ Numbers' = Numbers
  BY <1>2 DEF Complete, Published, Listed, Numbers
<1>4. Forgotten' /\ AtAck' /\ OneCommandAtATime'
  BY <1>2 DEF Forgotten, AtAck, OneCommandAtATime
<1>5. Known'
  BY <1>2, <1>3 DEF IInv, Known
<1>6. StillListed'
  <2>1. worker = "resolve" \/ Complete
    OBVIOUS
  <2> QED
    BY <1>2, <1>3, <2>1 DEF IInv, StillListed
<1>7. ListedAgain' /\ SentAgain'
  BY <1>2, <1>3 DEF IInv, ListedAgain, SentAgain
<1>8. RepeatsExplained' /\ AckedIsPublished'
  BY <1>2 DEF IInv, RepeatsExplained, AckedIsPublished
<1> QED
  BY <1>1, <1>4, <1>5, <1>6, <1>7, <1>8 DEF IInv

\* The worker has asked for the list, and read all of it, a part, or nothing.
LEMMA ReadStep ==
  ASSUME IInv, TypeOK', worker = "get", worker' \in {"ack", "publish"},
         UNCHANGED << svars, gvars, acked, radio, unheard, repeated, unacked >>,
         fields'.timestamp \in Listed \cup {fields.timestamp},
         fields'.payload \in Listed \cup {fields.payload},
         worker' = "ack" => Complete',
         Complete' /\ whole' =>
           fields'.timestamp = fields'.payload /\ fields'.payload \in 1..issued
  PROVE  IInv'
<1> USE DEF svars, gvars
<1>1. TypeOK /\ Forgotten /\ Known
  BY DEF IInv
<1>2. ~Complete /\ {fields.timestamp, fields.payload} \subseteq Listed \cup {0}
  BY <1>1 DEF IInv, Forgotten, StillListed
<1>3. {fields'.timestamp, fields'.payload} \subseteq Listed \cup {0}
  BY <1>2
<1>4. Published' = Published /\ Listed' = Listed /\ Numbers' = Numbers
  BY DEF Published, Listed, Numbers
<1>5. Forgotten' /\ AtAck'
  BY DEF Forgotten, AtAck
<1>6. OneCommandAtATime'
  BY <1>3, <1>4 DEF OneCommandAtATime
<1>7. Known'
  <2>1. Listed \subseteq Numbers
    BY <1>1, Numbering
  <2>2. fields.timestamp \in Numbers \cup {0} /\ Published \subseteq Numbers
    BY <1>1 DEF Known
  <2>3. fields'.timestamp \in Numbers \cup {0} /\ fields'.payload \in Numbers \cup {0}
    BY <1>3, <2>1, <2>2
  <2> QED
    BY <1>4, <2>2, <2>3 DEF Known
<1>8. StillListed'
  BY <1>3, <1>4 DEF StillListed
<1>9. ListedAgain'
  BY <1>4 DEF IInv, ListedAgain
<1>10. SentAgain'
  <2>1. 0 \notin Published
    BY <1>1, Numbering DEF Known
  <2> QED
    BY <1>3, <1>4, <1>9, <2>1 DEF SentAgain, ListedAgain
<1>11. RepeatsExplained'
  BY DEF IInv, RepeatsExplained
<1>12. AckedIsPublished'
  <2>1. InHand = {}
    BY DEF InHand
  <2> QED
    BY <1>4, <2>1 DEF IInv, AckedIsPublished
<1> QED
  BY <1>5, <1>6, <1>7, <1>8, <1>9, <1>10, <1>11, <1>12 DEF IInv

\* The types after a step of the worker that leaves the server and the block.
LEMMA WorkerTypes ==
  ASSUME TypeOK, UNCHANGED << issued, gvars >>,
         pending' \subseteq pending,
         worker' \in {"ack", "publish", "check"},
         server_connected' \in BOOLEAN, whole' \in BOOLEAN,
         FieldsTypeOK', HistoryTypeOK'
  PROVE  TypeOK'
<1>1. ServerTypeOK /\ BlockTypeOK
  BY TypeParts
<1>2. ServerTypeOK'
  BY <1>1 DEF ServerTypeOK
<1>3. BlockTypeOK'
  BY <1>1 DEF BlockTypeOK, gvars
<1>4. WorkerTypeOK'
  BY DEF WorkerTypeOK
<1> QED
  BY <1>2, <1>3, <1>4, TypeParts

LEMMA GetReadsStep ==
  ASSUME IInv, NEW response \in Responses, GetReads(response)
  PROVE  IInv'
<1>1. TypeOK /\ Forgotten
  BY DEF IInv
<1>2. /\ worker = "get" /\ worker' = IF response # << >> /\ Complete' THEN "ack" ELSE "publish"
      /\ fields' = FieldsAfter(response, Len(response), 0)
      /\ server_connected' = TRUE /\ whole' = LastIsWhole(response)
      /\ UNCHANGED << svars, gvars, acked, radio, unheard, repeated, unacked >>
  BY DEF GetReads
<1>3. ~Complete
  BY <1>1, <1>2 DEF Forgotten
<1>4. /\ fields' \in [type : {"", "TC", "TM"}, timestamp : Packets \cup {0},
                      payload : Packets \cup {0}, spacecraftId : {0, 1}]
      /\ fields'.timestamp \in Listed \cup {fields.timestamp}
      /\ fields'.payload \in Listed \cup {fields.payload}
  BY <1>1, <1>2, ReadFields
<1>5. Complete' /\ whole' => fields'.timestamp = fields'.payload /\ fields'.payload \in 1..issued
  <2> SUFFICES ASSUME Complete', whole'
      PROVE  fields'.timestamp = fields'.payload /\ fields'.payload \in 1..issued
    OBVIOUS
  <2>1. response # << >>
    <3>1. ASSUME response = << >> PROVE FALSE
      <4>1. fields' = fields
        BY <1>1, <1>2, <3>1, ReadNothing
      <4> QED
        BY <1>3, <4>1 DEF Complete
    <3> QED
      BY <3>1
  <2>2. PICK p \in Listed :
          fields' = [type |-> TypeOf(p), timestamp |-> p, payload |-> p, spacecraftId |-> 1]
    BY <1>2, <2>1, ReadAll
  <2>3. TypeOf(p) = "TC"
    BY <2>2 DEF Complete
  <2>4. p \in pending
    BY <2>3 DEF TypeOf, Listed
  <2>5. pending \subseteq 1..issued
    BY <1>1 DEF TypeOK
  <2> QED
    BY <2>2, <2>4, <2>5
<1>6. whole' \in BOOLEAN
  BY <1>2 DEF LastIsWhole
<1>7. TypeOK'
  <2>1. FieldsTypeOK'
    BY <1>4 DEF FieldsTypeOK
  <2>2. HistoryTypeOK'
    BY <1>1, <1>2, TypeParts DEF HistoryTypeOK
  <2>3. worker' \in {"ack", "publish", "check"}
    BY <1>2
  <2> QED
    BY <1>1, <1>2, <1>6, <2>1, <2>2, <2>3, WorkerTypes DEF svars
<1>8. worker' \in {"ack", "publish"} /\ (worker' = "ack" => Complete')
  BY <1>2
<1> QED
  BY <1>2, <1>4, <1>5, <1>7, <1>8, ReadStep

LEMMA GetGarbledStep ==
  ASSUME IInv, NEW response \in Responses, GetGarbled(response)
  PROVE  IInv'
<1>1. TypeOK
  BY DEF IInv
<1>2. /\ worker = "get" /\ worker' = "publish"
      /\ server_connected' = FALSE /\ whole' = FALSE
      /\ UNCHANGED << svars, gvars, acked, radio, unheard, repeated, unacked >>
  BY DEF GetGarbled, Goto
<1>3. /\ fields' \in [type : {"", "TC", "TM"}, timestamp : Packets \cup {0},
                      payload : Packets \cup {0}, spacecraftId : {0, 1}]
      /\ fields'.timestamp \in Listed \cup {fields.timestamp}
      /\ fields'.payload \in Listed \cup {fields.payload}
  <2>1. CASE fields' = fields
    BY <1>1, <2>1 DEF TypeOK
  <2>2. CASE \E n, i : fields' = FieldsAfter(response, n, i)
    BY <1>1, <2>2, ReadFields
  <2> QED
    BY <2>1, <2>2 DEF GetGarbled
<1>4. TypeOK'
  <2>1. FieldsTypeOK'
    BY <1>3 DEF FieldsTypeOK
  <2>2. HistoryTypeOK'
    BY <1>1, <1>2, TypeParts DEF HistoryTypeOK
  <2> QED
    BY <1>1, <1>2, <2>1, <2>2, WorkerTypes DEF svars
<1> QED
  BY <1>2, <1>3, <1>4, ReadStep

LEMMA GetFailsStep ==
  ASSUME IInv, GetFails
  PROVE  IInv'
<1>1. TypeOK /\ Known /\ Forgotten
  BY DEF IInv
<1>2. /\ worker = "get" /\ worker' = "publish" /\ server_connected' = FALSE
      /\ UNCHANGED << svars, gvars, fields, whole, acked, radio, unheard, repeated, unacked >>
  BY DEF GetFails, Goto, history
<1>3. ~Complete /\ Complete' = Complete
  BY <1>1, <1>2 DEF Forgotten, Complete
<1>4. TypeOK'
  <2>1. FieldsTypeOK' /\ HistoryTypeOK'
    BY <1>1, <1>2, TypeParts DEF FieldsTypeOK, HistoryTypeOK
  <2>2. whole' \in BOOLEAN
    BY <1>1, <1>2, TypeParts DEF WorkerTypeOK
  <2> QED
    BY <1>1, <1>2, <2>1, <2>2, WorkerTypes DEF svars
<1> QED
  BY <1>2, <1>3, <1>4, ReadStep

\* The acknowledgement is answered or fails, and was taken by the server or not.
LEMMA AckStep ==
  ASSUME IInv, AckAnswered \/ AckFails
  PROVE  IInv'
<1>1. TypeOK /\ AtAck /\ OneCommandAtATime /\ Known /\ StillListed /\ ListedAgain
  BY DEF IInv
<1>2. /\ worker = "ack" /\ worker' = "publish"
      /\ Acknowledge \/ UNCHANGED << svars, gvars, fields, history >>
      /\ server_connected' \in {server_connected, FALSE}
  BY DEF AckAnswered, AckFails, Goto
<1>3. /\ UNCHANGED << issued, gvars, fields, whole, radio, unheard, repeated, unacked >>
      /\ \/ /\ acked' = acked \cup
                          {[timestamp |-> fields.timestamp, payload |-> fields.payload]}
            /\ pending' = pending \ {fields.timestamp}
         \/ acked' = acked /\ pending' = pending
  BY <1>2 DEF Acknowledge, svars, history
<1>4. /\ Complete /\ Complete' = Complete
      /\ {fields.timestamp, fields.payload} \subseteq Listed \cup {0}
      /\ fields.timestamp \in Packets /\ fields.payload \in Packets \cup {0}
  <2>1. Complete /\ Complete' = Complete /\ fields.timestamp # 0
    BY <1>1, <1>2, <1>3 DEF AtAck, Complete
  <2>2. {fields.timestamp, fields.payload} \subseteq Listed \cup {0}
    BY <1>1, <1>2 DEF OneCommandAtATime
  <2> QED
    BY <1>1, <2>1, <2>2, Numbering
<1>5. /\ Published' = Published /\ Numbers' = Numbers
      /\ pending' \subseteq pending /\ Listed' \subseteq Listed
  BY <1>3 DEF Published, Numbers, Listed
<1>6. TypeOK'
  <2>1. FieldsTypeOK'
    BY <1>1, <1>3, TypeParts DEF FieldsTypeOK
  <2>2. HistoryTypeOK'
    BY <1>1, <1>3, <1>4, TypeParts DEF HistoryTypeOK
  <2>3. server_connected' \in BOOLEAN /\ whole' \in BOOLEAN
    BY <1>1, <1>2, <1>3, TypeParts DEF WorkerTypeOK
  <2> QED
    BY <1>1, <1>2, <1>3, <1>5, <2>1, <2>2, <2>3, WorkerTypes
<1>7. Forgotten' /\ AtAck'
  BY <1>2 DEF Forgotten, AtAck
<1>8. OneCommandAtATime'
  BY <1>1, <1>2, <1>3, <1>4 DEF OneCommandAtATime, Complete
<1>9. Known'
  BY <1>1, <1>3, <1>5 DEF Known
<1>10. StillListed'
  BY <1>2, <1>4 DEF StillListed
<1>11. ListedAgain'
  BY <1>1, <1>3, <1>5 DEF ListedAgain
<1>12. SentAgain'
  <2>1. fields.payload \in Published => fields.payload \in Listed
    BY <1>1, <1>4, Numbering DEF Known
  <2> QED
    BY <1>1, <1>3, <1>5, <2>1 DEF SentAgain, ListedAgain
<1>13. RepeatsExplained'
  BY <1>3 DEF IInv, RepeatsExplained
<1>14. AckedIsPublished'
  <2>1. InHand = {} /\ InHand' = {fields.payload}
    BY <1>2, <1>3, <1>4 DEF InHand
  <2>2. \A ack \in acked' : ack \in acked \/ ack.payload = fields.payload
    BY <1>3
  <2>3. graph' = graph
    BY <1>3 DEF gvars
  <2> QED
    BY <1>3, <1>5, <2>1, <2>2, <2>3 DEF IInv, AckedIsPublished
<1> QED
  BY <1>6, <1>7, <1>8, <1>9, <1>10, <1>11, <1>12, <1>13, <1>14 DEF IInv

\* Without a complete telecommand the worker passes on.
LEMMA NothingToSend ==
  ASSUME IInv, SendPayload, ~Complete
  PROVE  IInv'
<1>1. TypeOK /\ Known /\ StillListed
  BY DEF IInv
<1>2. /\ worker = "publish" /\ worker' = "check"
      /\ UNCHANGED << svars, gvars, server_connected, fields, whole, acked, radio, unheard,
                      repeated, unacked >>
  BY DEF SendPayload, Goto
<1>3. /\ Complete' = Complete /\ Published' = Published
      /\ Listed' = Listed /\ Numbers' = Numbers
  BY <1>2 DEF Complete, Published, Listed, Numbers, svars
<1>4. TypeOK'
  <2>1. FieldsTypeOK' /\ HistoryTypeOK'
    BY <1>1, <1>2, TypeParts DEF FieldsTypeOK, HistoryTypeOK
  <2>2. server_connected' \in BOOLEAN /\ whole' \in BOOLEAN
    BY <1>1, <1>2, TypeParts DEF WorkerTypeOK
  <2> QED
    BY <1>1, <1>2, <2>1, <2>2, WorkerTypes DEF svars
<1>5. Forgotten' /\ AtAck' /\ OneCommandAtATime'
  BY <1>2, <1>3 DEF Forgotten, AtAck, OneCommandAtATime
<1>6. Known'
  BY <1>1, <1>2, <1>3 DEF Known, svars
<1>7. {fields.timestamp, fields.payload} \subseteq Listed \cup {0}
  BY <1>1 DEF StillListed
<1>8. StillListed' /\ ListedAgain' /\ SentAgain'
  BY <1>2, <1>3, <1>7 DEF IInv, StillListed, ListedAgain, SentAgain
<1>9. RepeatsExplained'
  BY <1>2 DEF IInv, RepeatsExplained
<1>10. AckedIsPublished'
  <2>1. InHand = {} /\ InHand' = {} /\ graph' = graph
    BY <1>2, <1>3 DEF InHand, gvars
  <2> QED
    BY <1>2, <1>3, <2>1 DEF IInv, AckedIsPublished
<1> QED
  BY <1>4, <1>5, <1>6, <1>8, <1>9, <1>10 DEF IInv

\* A telecommand is published, or is not since its payload has no prefix.
LEMMA TelecommandIsSent ==
  ASSUME IInv, SendPayload, Complete
  PROVE  IInv'
<1> DEFINE p    == fields.payload
           sent == [payload |-> p, size |-> VectorSize(p)]
<1>1. TypeOK /\ Known /\ ListedAgain /\ SentAgain /\ RepeatsExplained
  BY DEF IInv
<1>2. /\ worker = "publish" /\ worker' = "check" /\ fields' = NoFields
      /\ UNCHANGED << svars, gvars, server_connected, whole, acked >>
      /\ p # 0 /\ p \in Packets
      /\ \/ p \in Prefixed /\ Bytes[p] > 1 /\ Publish(p)
         \/ p \notin Prefixed /\ UNCHANGED << radio, unheard, repeated, unacked >>
  <2>1. /\ worker = "publish" /\ worker' = "check" /\ fields' = NoFields
        /\ UNCHANGED << svars, gvars, server_connected, whole, acked >>
        /\ \/ IsSendable(p) /\ Publish(p)
           \/ IsIgnored(p) /\ UNCHANGED << radio, unheard, repeated, unacked >>
    BY DEF SendPayload, Goto
  <2>2. p # 0
    BY <1>1, <2>1, SourceAssumption, Numbering DEF IsIgnored, IsSendable
  <2>3. p \in Packets
    BY <1>1, <2>2, Numbering DEF Known
  <2> QED
    BY <2>1, <2>2, <2>3 DEF IsIgnored, IsSendable
<1>3. Listed' = Listed /\ Numbers' = Numbers
  BY <1>2 DEF Listed, Numbers, svars
<1>4. p \in Numbers /\ p \in Packets
  BY <1>1, <1>2 DEF Known
<1>5. \/ /\ Bytes[p] > 1
         /\ radio' = radio \cup {sent}
         /\ repeated' = repeated \cup { s.payload : s \in { s \in radio : s.payload = p } }
         /\ unacked' = unacked \cup (Listed \cap {p})
         /\ unheard' = unheard
      \/ /\ radio' = radio /\ repeated' = repeated /\ unacked' = unacked
         /\ unheard' \in {unheard, unheard \cup {p}}
         /\ p \in Prefixed => p \in unheard'
  BY <1>2 DEF Publish
<1>6. /\ Published \subseteq Published' /\ Published' \subseteq Published \cup {p}
      /\ p \in Prefixed => p \in Published' \cup unheard'
      /\ unheard \subseteq unheard' /\ unacked \subseteq unacked'
      /\ Published' # Published /\ p \in Listed => p \in unacked'
  <2>1. CASE radio' = radio \cup {sent} /\ unacked' = unacked \cup (Listed \cap {p})
             /\ unheard' = unheard
    <3>1. sent.payload = p
      OBVIOUS
    <3> HIDE DEF sent
    <3>2. Published' = Published \cup {sent.payload}
      BY <2>1 DEF Published
    <3>3. Published' = Published \cup {p}
      BY <3>1, <3>2
    <3> QED
      BY <2>1, <3>3
  <2>2. CASE radio' = radio /\ unacked' = unacked /\ unheard' \in {unheard, unheard \cup {p}}
             /\ (p \in Prefixed => p \in unheard')
    <3>1. Published' = Published
      BY <2>2 DEF Published
    <3> QED
      BY <2>2, <3>1
  <2> QED
    BY <1>5, <2>1, <2>2
<1>7. TypeOK'
  <2>1. FieldsTypeOK'
    BY <1>2 DEF FieldsTypeOK, NoFields
  <2>2. Bytes[p] > 1 => VectorSize(p) \in Nat \ {0}
    BY <1>4, SourceAssumption DEF VectorSize
  <2>3. HistoryTypeOK
    BY <1>1, TypeParts
  <2>4. Bytes[p] > 1 => sent \in [payload : Packets, size : Nat \ {0}]
    BY <1>4, <2>2
  <2>5. radio' \subseteq [payload : Packets, size : Nat \ {0}]
    BY <1>5, <2>3, <2>4 DEF HistoryTypeOK
  <2>6. unheard' \subseteq Packets /\ repeated' \subseteq Packets /\ unacked' \subseteq Packets
    BY <1>4, <1>5, <2>3 DEF HistoryTypeOK
  <2>7. HistoryTypeOK'
    BY <1>2, <2>3, <2>5, <2>6 DEF HistoryTypeOK
  <2>8. server_connected' \in BOOLEAN /\ whole' \in BOOLEAN
    BY <1>1, <1>2, TypeParts DEF WorkerTypeOK
  <2> QED
    BY <1>1, <1>2, <2>1, <2>7, <2>8, WorkerTypes DEF svars
<1>8. ~Complete' /\ fields'.timestamp = 0 /\ fields'.payload = 0
  BY <1>2 DEF Complete, NoFields
<1>9. Forgotten' /\ AtAck' /\ OneCommandAtATime'
  BY <1>2, <1>8 DEF Forgotten, AtAck, OneCommandAtATime
<1>10. Known'
  <2>1. Published' \subseteq Numbers
    BY <1>1, <1>4, <1>6 DEF Known
  <2> QED
    BY <1>1, <1>2, <1>3, <1>8, <2>1 DEF Known, svars
<1>11. StillListed' /\ SentAgain'
  BY <1>2, <1>8 DEF StillListed, SentAgain
<1>12. ListedAgain'
  BY <1>1, <1>3, <1>6 DEF ListedAgain
<1>13. RepeatsExplained'
  <2>1. p \in Published => p \in unacked
    BY <1>1, <1>2 DEF SentAgain
  <2>2. { s.payload : s \in { s \in radio : s.payload = p } } \subseteq Published \cap {p}
    BY DEF Published
  <2> QED
    BY <1>1, <1>5, <1>6, <2>1, <2>2 DEF RepeatsExplained
<1>14. AckedIsPublished'
  <2>1. InHand = {p} /\ graph' = graph /\ acked' = acked
    BY <1>2 DEF InHand, gvars
  <2>2. p \in Prefixed => p \in Published' \cup unheard'
    BY <1>6
  <2>3. Published \subseteq Published' /\ unheard \subseteq unheard'
    BY <1>6
  <2> QED
    BY <2>1, <2>2, <2>3 DEF IInv, AckedIsPublished
<1> QED
  BY <1>7, <1>9, <1>10, <1>11, <1>12, <1>13, <1>14 DEF IInv

LEMMA Inductive ==
  ASSUME IInv, [Next]_vars
  PROVE  IInv'
<1>1. CASE Issue
  BY <1>1, IssueStep
<1>2. CASE StartGraph \/ Stop \/ threadTransferDeInit \/ Join
  BY <1>2, GraphStep
<1>3. CASE Start \/ CheckExit \/ Wake \/ \E connected \in BOOLEAN : Resolve(connected)
  BY <1>3, IdleStep
<1>4. CASE Abort("resolve") \/ SendPayloadAborts
  BY <1>4, AbortStep
<1>5. CASE \E response \in Responses : GetReads(response) \/ GetGarbled(response)
  BY <1>5, GetReadsStep, GetGarbledStep
<1>6. CASE GetFails
  BY <1>6, GetFailsStep
<1>7. CASE AckAnswered \/ AckFails
  BY <1>7, AckStep
<1>8. CASE SendPayload
  BY <1>8, NothingToSend, TelecommandIsSent
<1>9. CASE UNCHANGED vars
  <2>1. TypeOK /\ UNCHANGED << svars, gvars, worker, server_connected, fields, history >>
    BY <1>9 DEF IInv, vars, svars, gvars, history
  <2>2. TypeOK'
    BY <1>9, <2>1 DEF TypeOK, vars
  <2>3. graph' = graph
    BY <1>9 DEF vars
  <2> QED
    BY <2>1, <2>2, <2>3, QuietStep
<1> QED
  BY <1>1, <1>2, <1>3, <1>4, <1>5, <1>6, <1>7, <1>8, <1>9 DEF Next, Network, Local

THEOREM Invariant == Spec => []IInv
<1>1. Init => IInv
  BY InitIInv
<1>2. IInv /\ [Next]_vars => IInv'
  BY Inductive
<1> QED
  BY <1>1, <1>2, PTL DEF Spec

--------------------------------------------------------------------------------
\* Theorems.

\* Every variable keeps its type; in particular no vector without a byte is
\* published.
THEOREM TypeCorrect == Spec => []TypeOK
<1>1. IInv => TypeOK
  BY DEF IInv
<1> QED
  BY <1>1, Invariant, PTL

\* What is acknowledged and published is one telecommand the server issued if the
\* last object of a response that was read lacks no property, whatever earlier
\* objects and passes have left in the variables; and what they have left is never
\* of a telecommand the server was told is done.
THEOREM OneCommand == Spec => []OneCommandAtATime
<1>1. IInv => OneCommandAtATime
  BY DEF IInv
<1> QED
  BY <1>1, Invariant, PTL

\* No payload is published twice that the server had been told is done.
THEOREM RepeatsHaveCauses == Spec => []RepeatsExplained
<1>1. IInv => RepeatsExplained
  BY DEF IInv
<1> QED
  BY <1>1, Invariant, PTL

\* Whatever fails, and whenever the flowgraph is stopped, the payload that was in
\* hand at an acknowledgement is published, if it is good and the process goes on.
THEOREM AckedArePublished == Spec => []AckedIsPublished
<1>1. IInv => AckedIsPublished
  BY DEF IInv
<1> QED
  BY <1>1, Invariant, PTL
================================================================================
