--------------------------- MODULE TransferProofs ---------------------------
(***************************************************************************)
(* Theorems about Transfer, for any set of senders, files, names and       *)
(* faults: the types, the size of what is written, the approval, and that  *)
(* an OK is for bytes that are stored.                                     *)
(***************************************************************************)
EXTENDS Transfer, SequenceTheorems, TLAPS

-----------------------------------------------------------------------------
(* The wire format.                                                        *)

\* The pieces a receive event splits a stream into are of the stream's type.
LEMMA SplitType ==
  ASSUME NEW S, NEW s \in Seq(S), NEW n \in 1..Len(s)
  PROVE  /\ SubSeq(s, 1, n) \in Seq(S)
         /\ SubSeq(s, n + 1, Len(s)) \in Seq(S)
         /\ Len(SubSeq(s, 1, n)) = n
<1>1. Len(s) \in Nat /\ n \in Nat
  BY LenProperties
<1>2. \A i \in 1..Len(s) : s[i] \in S
  BY ElementOfSeq
<1>3. \A i \in 1..n : s[i] \in S
  BY <1>1, <1>2
<1>4. \A i \in (n + 1)..Len(s) : s[i] \in S
  BY <1>1, <1>2
<1>5. SubSeq(s, 1, n) \in Seq(S) /\ Len(SubSeq(s, 1, n)) = n
  BY <1>1, <1>3, SubSeqProperties
<1> QED
  BY <1>1, <1>4, <1>5, SubSeqProperties

\* An encoded header is a text of the stream's units.
LEMMA EncodeType ==
  ASSUME NEW header \in FileTransferHeader
  PROVE  encode_file_header(header) \in Seq(Units)
BY NamesAssumption
   DEF encode_file_header, sanitize_file_name, FileTransferHeader, Units, HeaderFragments

\* A decoded header names a file sanitize_file_name can return.
LEMMA DecodeType ==
  ASSUME NEW buffer \in Seq(Units), DecodesHeader(buffer)
  PROVE  /\ DecodedHeader(buffer) \in FileTransferHeader
         /\ DecodedHeader(buffer).name \in Names
BY NamesAssumption
   DEF DecodesHeader, DecodedHeader, HeaderFragments, FileTransferHeader, sanitize_file_name

\* A reply is a text of fragments.
LEMMA ReplyType ==
  ASSUME NEW word \in Words
  PROVE  ReplyText(word) \in Seq(Fragments)
BY DEF ReplyText, Fragments

-----------------------------------------------------------------------------
(* Types.  The receive state needs more than the types of its fields: the  *)
(* size arithmetic of append_file_bytes must stay within Nat, and an open  *)
(* output must be a file that exists.                                      *)

\* Never more bytes written than declared, none before a header is known, and
\* what is open is on the disk.
RxInv ==
  /\ rx.bytes_written <= file_header.size
  /\ ~rx.header_parsed => rx.bytes_written = 0
  /\ rx.out = "open" => rx.out_path \in Names /\ disk[rx.out_path] \in Seq(Units)

IInv == TypeOK /\ RxInv

Results == [success : BOOLEAN, rejected : BOOLEAN, error : BOOLEAN]

Disks == [Names -> Seq(Units) \cup {None}]

\* The types of the library's side depend on its variables only, ...
LEMMA QuicUnchanged == QuicTypeOK /\ UNCHANGED quicVars => QuicTypeOK'
BY DEF QuicTypeOK, quicVars, connVars, c2sVars, s2cVars, streamVars, sendVars

\* ... those of the server on the server's ...
LEMMA ServerUnchanged ==
  ServerTypeOK /\ RxInv /\ UNCHANGED serverVars => ServerTypeOK' /\ RxInv'
<1> SUFFICES ASSUME ServerTypeOK, RxInv, UNCHANGED serverVars
             PROVE  ServerTypeOK' /\ RxInv'
  OBVIOUS
<1>1. ServerTypeOK'
  BY DEF ServerTypeOK, serverVars, flowVars, waitVars
<1>2. RxInv'
  BY DEF RxInv, serverVars
<1> QED
  BY <1>1, <1>2

\* ... and those of the client on the client's.
LEMMA ClientUnchanged == ClientTypeOK /\ UNCHANGED clientVars => ClientTypeOK'
BY DEF ClientTypeOK, clientVars, decisionVars, ackVars, jobVars

\* Sending one reply keeps the types of the reply direction.
LEMMA ServerSendsType ==
  ASSUME QuicTypeOK, NEW c, NEW word \in Words, NEW fin \in BOOLEAN,
         ServerSends(c, word, fin)
  PROVE  /\ s2c' \in [Clients -> Seq(Fragments)]
         /\ sFin' \in [Clients -> Signals]
         /\ sSends' \in [Clients -> Nat]
<1>1. CASE c \in Clients
  <2>1. s2c[c] \o ReplyText(word) \in Seq(Fragments)
    BY <1>1, ReplyType, ConcatProperties DEF QuicTypeOK
  <2> QED
    BY <1>1, <2>1 DEF QuicTypeOK, ServerSends, Signals
<1>2. CASE c \notin Clients
  BY <1>2 DEF QuicTypeOK, ServerSends
<1> QED
  BY <1>1, <1>2

\* A StreamSend of the client extends the stream by its units.
LEMMA ClientSendsType ==
  ASSUME QuicTypeOK, NEW c \in Clients, NEW units \in Seq(Units), NEW fin \in BOOLEAN,
         ClientSends(c, units, fin)
  PROVE  /\ c2s' \in [Clients -> Seq(Units)]
         /\ cFin' \in [Clients -> Signals]
         /\ cSends' \in [Clients -> Nat]
<1>1. c2s[c] \o units \in Seq(Units)
  BY ConcatProperties DEF QuicTypeOK
<1> QED
  BY <1>1 DEF QuicTypeOK, ClientSends, Signals

\* The same for a reply that may also fail to be sent, in a step that changes
\* nothing else of the transport.
LEMMA MaybeSendsType ==
  ASSUME QuicTypeOK, NEW c, NEW word \in Words, NEW fin \in BOOLEAN,
         ServerSends(c, word, fin) \/ UNCHANGED <<s2cVars, sSends>>
  PROVE  /\ s2c' \in [Clients -> Seq(Fragments)]
         /\ sFin' \in [Clients -> Signals]
         /\ sSends' \in [Clients -> Nat]
BY ServerSendsType, ZenonT(60) DEF QuicTypeOK, s2cVars

\* The initial state has the right types.
LEMMA InitType == Init => IInv
<1> SUFFICES ASSUME Init PROVE IInv
  OBVIOUS
<1>1. QuicTypeOK
  BY DEF Init, QuicInit, QuicTypeOK, ConnStates, StreamStates, Signals
<1>2. FreshRx(None) \in RxState
  BY DEF FreshRx, RxState
<1>3. ServerTypeOK
  BY <1>2 DEF Init, ServerInit, ServerTypeOK, RpcStates, NoResult, HeaderOrNone
<1>4. RxInv
  BY DEF Init, ServerInit, RxInv, FreshRx, NoHeader
<1>5. ClientTypeOK
  BY DEF Init, ClientInit, ClientTypeOK, CpcStates, NoJob
<1> QED
  BY <1>1, <1>3, <1>4, <1>5 DEF IInv, TypeOK

-----------------------------------------------------------------------------
(* The output file.                                                        *)

\* Opening the output, whether it succeeds or not, keeps the types.
LEMMA OpenedType ==
  ASSUME ServerTypeOK, NEW r \in RxState, NEW opened \in OpenOutcomes(r.path)
  PROVE  /\ OpenedRx(r, opened) \in RxState
         /\ OpenedDisk(r, opened) \in Disks
         /\ OpenedResult(opened) \in Results
         /\ OpenedRx(r, opened).bytes_written = r.bytes_written
         /\ OpenedRx(r, opened).header_parsed = r.header_parsed
         /\ opened => /\ OpenedRx(r, opened).out_path \in Names
                      /\ OpenedDisk(r, opened)[OpenedRx(r, opened).out_path] \in Seq(Units)
         /\ ~opened => OpenedRx(r, opened).out = "null"
<1>1. opened \in BOOLEAN /\ (opened => r.path \in Names)
  BY DEF OpenOutcomes, Outcomes, RxState
<1>2. OpenedResult(opened) \in Results
  BY <1>1 DEF OpenedResult, ServerTypeOK, Results
<1>3. OpenedDisk(r, opened) \in Disks
  BY <1>1 DEF OpenedDisk, ServerTypeOK, Disks
<1>4. OpenedRx(r, opened) \in RxState
  BY <1>1 DEF OpenedRx, RxState
<1>5. /\ OpenedRx(r, opened).bytes_written = r.bytes_written
      /\ OpenedRx(r, opened).header_parsed = r.header_parsed
      /\ ~opened => OpenedRx(r, opened).out = "null"
      /\ opened => OpenedRx(r, opened).out_path = r.path
  BY <1>1 DEF OpenedRx, RxState
<1>6. opened => OpenedDisk(r, opened)[r.path] = << >>
  BY <1>1 DEF OpenedDisk, ServerTypeOK
<1>7. ASSUME opened
      PROVE  /\ OpenedRx(r, opened).out_path \in Names
             /\ OpenedDisk(r, opened)[OpenedRx(r, opened).out_path] \in Seq(Units)
  <2>1. OpenedRx(r, opened).out_path = r.path /\ r.path \in Names
    BY <1>1, <1>5, <1>7
  <2>2. OpenedDisk(r, opened)[r.path] \in Seq(Units)
    BY <1>6, <1>7, EmptySeq
  <2> QED
    BY <2>1, <2>2
<1> QED
  BY <1>2, <1>3, <1>4, <1>5, <1>7

\* append_file_bytes takes no more than is missing from the announced size.
LEMMA RoomBounds ==
  ASSUME NEW r \in RxState, NEW header \in HeaderOrNone, NEW len \in Nat,
         r.bytes_written <= header.size
  PROVE  /\ Room(r, header, len) \in 0..len
         /\ r.bytes_written + Room(r, header, len) <= header.size
BY DEF Room, RxState, HeaderOrNone, FileTransferHeader, NoHeader

\* Writing that much keeps the count within the size.
LEMMA WrittenType ==
  ASSUME NEW r \in RxState, NEW header \in HeaderOrNone, NEW data \in Seq(Units),
         NEW d \in Disks, NEW good \in BOOLEAN,
         r.bytes_written <= header.size, r.header_parsed,
         r.out_path \in Names, d[r.out_path] \in Seq(Units)
  PROVE  LET r2 == WrittenRx(r, header, data, good)
             d2 == WrittenDisk(d, r, header, data, good)
         IN /\ r2 \in RxState
            /\ d2 \in Disks
            /\ r2.bytes_written <= header.size
            /\ r2.header_parsed
            /\ r2.out_path \in Names /\ d2[r2.out_path] \in Seq(Units)
<1> DEFINE n == Room(r, header, Len(data))
<1>1. Len(data) \in Nat
  BY LenProperties
<1>2. n \in 0..Len(data) /\ r.bytes_written + n <= header.size
  BY <1>1, RoomBounds
<1>3. SubSeq(data, 1, n) \in Seq(Units)
  <2>1. \A i \in 1..n : data[i] \in Units
    BY <1>1, <1>2, ElementOfSeq
  <2> QED
    BY <1>1, <1>2, <2>1, SubSeqProperties
<1>4. d[r.out_path] \o SubSeq(data, 1, n) \in Seq(Units)
  BY <1>3, ConcatProperties
<1>5. WrittenDisk(d, r, header, data, good) \in Disks
  BY <1>4 DEF WrittenDisk, Disks
<1>6. WrittenRx(r, header, data, good) \in RxState
  <2>1. r.bytes_written + n \in Nat
    BY <1>1, <1>2 DEF RxState
  <2>2. (r.overflow \/ n < Len(data)) \in BOOLEAN
    BY DEF RxState
  <2> QED
    BY <2>1, <2>2, Zenon DEF WrittenRx, RxState
<1>7. WrittenDisk(d, r, header, data, good)[r.out_path] \in Seq(Units)
  BY <1>4 DEF WrittenDisk, Disks
<1>8. WrittenRx(r, header, data, good).bytes_written <= header.size
  BY <1>2 DEF WrittenRx, RxState
<1>9. /\ WrittenRx(r, header, data, good).header_parsed
      /\ WrittenRx(r, header, data, good).out_path = r.out_path
  BY DEF WrittenRx, RxState
<1> QED
  BY <1>5, <1>6, <1>7, <1>8, <1>9

-----------------------------------------------------------------------------
(* Steps of the receiving thread.                                          *)

\* Most of its steps only move the thread on.
LEMMA FlowStepType ==
  ASSUME QuicTypeOK, ServerTypeOK, RxInv,
         UNCHANGED <<quicVars, waitVars, callbackVars, file_header, rx, file_result, disk>>,
         rpc' \in RpcStates, receiving_file' \in BOOLEAN, offered' \in HeaderOrNone,
         answer' \in {"none", "accept", "reject"}, recv_result' \in {"none", "true", "false"}
  PROVE  QuicTypeOK' /\ ServerTypeOK' /\ RxInv'
<1>1. QuicTypeOK'
  BY QuicUnchanged
<1>2. ServerTypeOK'
  BY DEF ServerTypeOK, waitVars, callbackVars
<1>3. RxInv'
  BY DEF RxInv
<1> QED
  BY <1>1, <1>2, <1>3

\* The types of the transport after a step that only sends a reply.
LEMMA ReplyStepType ==
  ASSUME QuicTypeOK, NEW c, NEW word \in Words, NEW fin \in BOOLEAN,
         ServerSends(c, word, fin) \/ UNCHANGED <<s2cVars, sSends>>,
         UNCHANGED <<connVars, c2sVars, streamVars, cSends>>
  PROVE  QuicTypeOK'
<1>1. /\ s2c' \in [Clients -> Seq(Fragments)]
      /\ sFin' \in [Clients -> Signals]
      /\ sSends' \in [Clients -> Nat]
  BY MaybeSendsType
<1> QED
  BY <1>1 DEF QuicTypeOK, connVars, c2sVars, streamVars

\* A receive state that was reset counts from nothing.
LEMMA FreshRxType ==
  ASSUME NEW r \in RxState
  PROVE  /\ FreshRx(r.path) \in RxState
         /\ FreshRx(r.path).bytes_written = 0
         /\ FreshRx(r.path).out = "null"
BY DEF FreshRx, RxState

\* Closing the output keeps the count.
LEMMA CloseFileType ==
  ASSUME NEW r \in RxState
  PROVE  /\ CloseFile(r) \in RxState
         /\ CloseFile(r).bytes_written = r.bytes_written
         /\ CloseFile(r).header_parsed = r.header_parsed
         /\ CloseFile(r).out # "open"
<1>1. CloseFile(r) \in RxState
  BY DEF CloseFile, RxState
<1> QED
  BY <1>1 DEF CloseFile, RxState

\* The announced size is a number.
LEMMA HeaderSizeNat == ServerTypeOK => file_header.size \in Nat
BY DEF ServerTypeOK, HeaderOrNone, FileTransferHeader, NoHeader

\* Every step of the server's thread keeps the types and the count.
LEMMA ServerThreadType ==
  ASSUME IInv, ServerThreadStep
  PROVE  IInv'
<1>c. QuicTypeOK /\ ServerTypeOK /\ RxInv /\ ClientTypeOK'
  BY ClientUnchanged DEF IInv, TypeOK, ServerThreadStep
<1>f. /\ rpc \in RpcStates /\ receiving_file \in BOOLEAN /\ offered \in HeaderOrNone
      /\ answer \in {"none", "accept", "reject"} /\ recv_result \in {"none", "true", "false"}
      /\ file_header \in HeaderOrNone
  BY <1>c DEF ServerTypeOK
<1>1. CASE ArmReceiving
  BY <1>1, <1>c, <1>f, FlowStepType DEF ArmReceiving, RpcStates, IInv, TypeOK
<1>2. CASE ArmPath
  <2>1. QuicTypeOK'
    BY <1>2, <1>c, QuicUnchanged DEF ArmPath
  <2>2. ServerTypeOK'
    BY <1>2, <1>c, ServerAssumption, SMTT(30)
       DEF ArmPath, ServerTypeOK, RpcStates, RxState, waitVars, callbackVars
  <2>3. RxInv'
    BY <1>2, <1>c DEF ArmPath, RxInv, ServerTypeOK, RxState
  <2> QED
    BY <1>c, <2>1, <2>2, <2>3 DEF IInv, TypeOK
<1>3. CASE ArmOffer
  BY <1>3, <1>c, <1>f, FlowStepType DEF ArmOffer, RpcStates, IInv, TypeOK
<1>4. CASE ArmReset
  <2>1. QuicTypeOK'
    BY <1>4, <1>c, QuicUnchanged DEF ArmReset
  <2>2. rx' \in RxState /\ rx'.bytes_written = 0 /\ rx'.out = "null"
    BY <1>4, <1>c, FreshRxType DEF ArmReset, ServerTypeOK
  <2>3. ServerTypeOK'
    BY <1>4, <1>c, <2>2 DEF ArmReset, ServerTypeOK, RpcStates, NoResult, callbackVars
  <2>4. RxInv'
    BY <1>4, <1>c, <2>2, HeaderSizeNat DEF ArmReset, RxInv
  <2> QED
    BY <1>c, <2>1, <2>3, <2>4 DEF IInv, TypeOK
<1>5. CASE OfferArrived
  BY <1>5, <1>c, <1>f, FlowStepType DEF OfferArrived, RpcStates, IInv, TypeOK
<1>6. CASE OfferFailed
  BY <1>6, <1>c, <1>f, FlowStepType DEF OfferFailed, Return, RpcStates, IInv, TypeOK
<1>7. CASE OfferTimeout
  BY <1>7, <1>c, <1>f, FlowStepType DEF OfferTimeout, Return, RpcStates, IInv, TypeOK
<1>8. CASE PromptReject
  <2>1. QuicTypeOK'
    BY <1>8, <1>c, ReplyStepType DEF PromptReject, SendReject, Words
  <2>2. ServerTypeOK'
    BY <1>8, <1>c DEF PromptReject, ServerTypeOK, RpcStates, waitVars, callbackVars
  <2>3. RxInv'
    BY <1>8, <1>c DEF PromptReject, RxInv
  <2> QED
    BY <1>c, <2>1, <2>2, <2>3 DEF IInv, TypeOK
<1>9. CASE PromptAccept
  <2>1. PICK opened \in OpenOutcomes(rx.path) :
          /\ rpc' = IF opened THEN "accept_flag" ELSE "reject_locked"
          /\ rx' = OpenedRx(rx, opened)
          /\ disk' = OpenedDisk(rx, opened)
          /\ file_result' = OpenedResult(opened)
          /\ IF opened THEN UNCHANGED <<s2cVars, sSends>> ELSE SendReject
    BY <1>9 DEF PromptAccept
  <2>2. opened \in BOOLEAN /\ rx \in RxState
    BY <1>c DEF OpenOutcomes, Outcomes, ServerTypeOK
  <2>3. /\ OpenedRx(rx, opened) \in RxState
        /\ disk' \in Disks /\ file_result' \in Results
        /\ OpenedRx(rx, opened).bytes_written = rx.bytes_written
        /\ OpenedRx(rx, opened).header_parsed = rx.header_parsed
        /\ opened => /\ OpenedRx(rx, opened).out_path \in Names
                     /\ disk'[OpenedRx(rx, opened).out_path] \in Seq(Units)
        /\ ~opened => OpenedRx(rx, opened).out = "null"
    BY <1>c, <2>1, <2>2, OpenedType
  <2>4. QuicTypeOK'
    BY <1>9, <1>c, <2>1, ReplyStepType DEF PromptAccept, SendReject, Words
  <2>5. ServerTypeOK'
    BY <1>9, <1>c, <2>1, <2>2, <2>3
       DEF PromptAccept, ServerTypeOK, RpcStates, waitVars, callbackVars, Disks, Results
  <2>6. RxInv'
    BY <1>9, <1>c, <2>1, <2>2, <2>3 DEF PromptAccept, RxInv
  <2> QED
    BY <1>c, <2>4, <2>5, <2>6 DEF IInv, TypeOK
<1>10. CASE SendAccept
  <2>1. QuicTypeOK'
    BY <1>10, <1>c, ReplyStepType DEF SendAccept, Words
  <2>2. ServerTypeOK'
    BY <1>10, <1>c DEF SendAccept, ServerTypeOK, RpcStates, waitVars, callbackVars
  <2>3. RxInv'
    BY <1>10, <1>c DEF SendAccept, RxInv
  <2> QED
    BY <1>c, <2>1, <2>2, <2>3 DEF IInv, TypeOK
<1>11. CASE TransferFinished
  BY <1>11, <1>c, <1>f, FlowStepType DEF TransferFinished, RpcStates, IInv, TypeOK
<1>12. CASE TransferFailed
  <2>1. QuicTypeOK'
    BY <1>12, <1>c, QuicUnchanged DEF TransferFailed
  <2>2. /\ rx' \in RxState /\ rx'.out # "open"
        /\ rx'.bytes_written = rx.bytes_written /\ rx'.header_parsed = rx.header_parsed
    BY <1>12, <1>c, CloseFileType DEF TransferFailed, ServerTypeOK
  <2>3. ServerTypeOK'
    BY <1>12, <1>c, <2>2
       DEF TransferFailed, Return, ServerTypeOK, RpcStates, waitVars, callbackVars
  <2>4. RxInv'
    BY <1>12, <1>c, <2>2 DEF TransferFailed, RxInv
  <2> QED
    BY <1>c, <2>1, <2>3, <2>4 DEF IInv, TypeOK
<1>13. CASE DrainAfterReject
  BY <1>13, <1>c, <1>f, FlowStepType DEF DrainAfterReject, Return, RpcStates, IInv, TypeOK
<1>14. CASE DrainAfterTransfer
  BY <1>14, <1>c, <1>f, FlowStepType DEF DrainAfterTransfer, Return, RpcStates, IInv, TypeOK
<1>15. CASE Stop
  <2>1. QuicTypeOK'
    BY <1>15, <1>c
       DEF Stop, QuicTypeOK, ConnStates, c2sVars, s2cVars, streamVars, sendVars
  <2>2. ServerTypeOK'
    BY <1>15, <1>c DEF Stop, ServerTypeOK, RpcStates, waitVars, callbackVars
  <2>3. RxInv'
    BY <1>15, <1>c DEF Stop, RxInv
  <2> QED
    BY <1>c, <2>1, <2>2, <2>3 DEF IInv, TypeOK
<1>16. CASE StopReturns
  BY <1>16, <1>c, <1>f, FlowStepType DEF StopReturns, RpcStates, IInv, TypeOK
<1>17. CASE MarkAccepted
  <2>1. QuicTypeOK'
    BY <1>17, <1>c, QuicUnchanged DEF MarkAccepted
  <2>2. /\ rx' \in RxState /\ rx'.out = rx.out /\ rx'.out_path = rx.out_path
        /\ rx'.bytes_written = rx.bytes_written /\ rx'.header_parsed = rx.header_parsed
    BY <1>17, <1>c DEF MarkAccepted, ServerTypeOK, RxState
  <2>3. ServerTypeOK'
    BY <1>17, <1>c, <2>2 DEF MarkAccepted, ServerTypeOK, RpcStates, waitVars, callbackVars
  <2>4. RxInv'
    BY <1>17, <1>c, <2>2 DEF MarkAccepted, RxInv
  <2> QED
    BY <1>c, <2>1, <2>3, <2>4 DEF IInv, TypeOK
<1> QED
  BY <1>1, <1>2, <1>3, <1>4, <1>5, <1>6, <1>7, <1>8, <1>9, <1>10, <1>11, <1>12, <1>13,
     <1>14, <1>15, <1>16, <1>17 DEF ServerThreadStep, ServerThread

-----------------------------------------------------------------------------
(* Callbacks of the server.                                                *)

WaitTypes ==
  /\ offer_ready \in BOOLEAN /\ file_done \in BOOLEAN /\ file_ok \in BOOLEAN
  /\ blocked \in [Clients -> {"no", "offer", "notify_true", "notify_false"}]
  /\ file_result \in Results

\* Waking the waiter keeps its types, ...
LEMMA NotifyType ==
  ASSUME ServerTypeOK, NEW c \in Clients, NEW success \in BOOLEAN, NEW r \in Results,
         notify_file_waiter(c, success, r)
  PROVE  WaitTypes'
BY DEF ServerTypeOK, notify_file_waiter, WaitTypes, Results

\* ... as does leaving it alone.
LEMMA WaitUnchanged ==
  ServerTypeOK /\ UNCHANGED <<waitVars, file_result>> => WaitTypes'
BY DEF ServerTypeOK, waitVars, WaitTypes, Results

\* What a callback that leaves the receiving thread's variables alone must show.
LEMMA CallbackStepType ==
  ASSUME ServerTypeOK, UNCHANGED flowVars, WaitTypes', rx' \in RxState, disk' \in Disks,
         file_header' \in HeaderOrNone, client_connection' \in Clients \cup {None},
         file_stream' \in Clients \cup {None}
  PROVE  ServerTypeOK'
BY DEF ServerTypeOK, flowVars, WaitTypes, Results, Disks

\* Bytes of a file whose header is known.
LEMMA BodyBytesType ==
  ASSUME ServerTypeOK, RxInv, rx.header_parsed, NEW data \in Seq(Units), BodyBytes(data)
  PROVE  WaitTypes' /\ rx' \in RxState /\ disk' \in Disks /\ RxInv'
<1>t. /\ rx \in RxState /\ disk \in Disks /\ file_header \in HeaderOrNone
      /\ file_result \in Results
  BY DEF ServerTypeOK, Disks, Results
<1>1. CASE rx.accepted /\ ~rx.io_error /\ rx.out = "open"
  <2>1. PICK good \in WriteOutcomes(rx, file_header, data) :
          /\ rx' = WrittenRx(rx, file_header, data, good)
          /\ disk' = WrittenDisk(disk, rx, file_header, data, good)
          /\ file_result' = [file_result EXCEPT !.error = @ \/ ~good]
    BY <1>1 DEF BodyBytes
  <2>2. good \in BOOLEAN
    BY DEF WriteOutcomes, Outcomes
  <2>3. /\ rx' \in RxState /\ disk' \in Disks
        /\ rx'.bytes_written <= file_header.size /\ rx'.header_parsed
        /\ rx'.out_path \in Names /\ disk'[rx'.out_path] \in Seq(Units)
    BY <1>t, <1>1, <2>1, <2>2, WrittenType DEF RxInv
  <2>4. (file_result.error \/ ~good) \in BOOLEAN
    BY <1>t DEF Results
  <2>5. file_result' \in Results
    BY <1>t, <2>1, <2>4 DEF Results
  <2>6. WaitTypes'
    BY <2>5 DEF BodyBytes, ServerTypeOK, WaitTypes, waitVars
  <2>7. RxInv'
    BY <2>3 DEF RxInv, BodyBytes
  <2> QED
    BY <2>3, <2>6, <2>7
<1>2. CASE ~(rx.accepted /\ ~rx.io_error /\ rx.out = "open")
  <2>1. UNCHANGED <<rx, disk, file_result, waitVars, file_header>>
    BY <1>2 DEF BodyBytes
  <2> QED
    BY <1>t, <2>1, WaitUnchanged DEF RxInv
<1> QED
  BY <1>1, <1>2

\* A header that was parsed finds nothing written.
LEMMA ParsedType ==
  ASSUME ServerTypeOK, RxInv, ~rx.header_parsed,
         NEW buffer \in Seq(Units), DecodesHeader(buffer)
  PROVE  /\ ParsedRx(buffer) \in RxState
         /\ ParsedRx(buffer).bytes_written = 0
         /\ ParsedRx(buffer).header_parsed
         /\ ParsedRx(buffer).out = rx.out
         /\ ParsedRx(buffer).out_path = rx.out_path
<1>1. rx \in RxState /\ rx.bytes_written = 0
  BY DEF ServerTypeOK, RxInv
<1>2. DecodedHeader(buffer).name \in Names
  BY DecodeType
<1>3. (IF OutputIsDir THEN DecodedHeader(buffer).name ELSE rx.path) \in Names \cup {None}
  BY <1>1, <1>2 DEF RxState
<1>4. ParsedRx(buffer) \in RxState
  BY <1>1, <1>3 DEF ParsedRx, RxState
<1> QED
  BY <1>1, <1>4 DEF ParsedRx, RxState

\* on_receive keeps the types and the count if the header is incomplete or
\* malformed, ...
LEMMA HeaderIncompleteType ==
  ASSUME ServerTypeOK, RxInv, ~rx.header_parsed, NEW c \in Clients,
         NEW buffer \in Seq(Units), HeaderIncomplete(c, buffer)
  PROVE  WaitTypes' /\ rx' \in RxState /\ RxInv'
<1>1. rx \in RxState /\ file_result \in Results
  BY DEF ServerTypeOK, Results
<1>2. CASE /\ rx' = [rx EXCEPT !.buffer = buffer]
           /\ UNCHANGED <<waitVars, file_result>>
  <2>1. rx' \in RxState
    BY <1>1, <1>2 DEF RxState
  <2>2. RxInv'
    BY <1>1, <1>2 DEF RxInv, RxState, HeaderIncomplete
  <2> QED
    BY <1>2, <2>1, <2>2, WaitUnchanged
<1>3. CASE /\ rx' = [rx EXCEPT !.buffer = <<>>, !.io_error = TRUE, !.header_parsed = TRUE]
           /\ notify_file_waiter(c, FALSE, [file_result EXCEPT !.error = TRUE])
  <2>1. rx' \in RxState
    BY <1>1, <1>3, EmptySeq DEF RxState
  <2>2. RxInv'
    BY <1>1, <1>3 DEF RxInv, RxState, HeaderIncomplete
  <2>3. [file_result EXCEPT !.error = TRUE] \in Results
    BY <1>1 DEF Results
  <2> QED
    BY <1>3, <2>1, <2>2, <2>3, NotifyType
<1> QED
  BY <1>2, <1>3 DEF HeaderIncomplete

\* ... if it is offered to the user ...
LEMMA HeaderOfferedType ==
  ASSUME ServerTypeOK, RxInv, ~rx.header_parsed, NEW c \in Clients,
         NEW buffer \in Seq(Units), HeaderOffered(c, buffer)
  PROVE  WaitTypes' /\ rx' \in RxState /\ file_header' \in HeaderOrNone /\ RxInv'
<1>1. DecodesHeader(buffer) /\ file_header' = DecodedHeader(buffer) /\ UNCHANGED disk
  BY DEF HeaderOffered
<1>2. /\ ParsedRx(buffer) \in RxState
      /\ ParsedRx(buffer).bytes_written = 0
      /\ ParsedRx(buffer).header_parsed
      /\ ParsedRx(buffer).out = rx.out
      /\ ParsedRx(buffer).out_path = rx.out_path
  BY <1>1, ParsedType
<1>3. /\ rx' \in RxState
      /\ rx'.bytes_written = 0
      /\ rx'.header_parsed
      /\ rx'.out = rx.out
      /\ rx'.out_path = rx.out_path
  <2>1. rx' = ParsedRx(buffer) \/ rx' = [ParsedRx(buffer) EXCEPT !.buffer = <<>>]
    BY DEF HeaderOffered
  <2> QED
    BY <1>2, <2>1, EmptySeq DEF RxState
<1>4. file_header' \in HeaderOrNone /\ file_header'.size \in Nat
  BY <1>1, DecodeType DEF HeaderOrNone, FileTransferHeader
<1>5. WaitTypes'
  BY DEF HeaderOffered, ServerTypeOK, WaitTypes, Results
<1>6. RxInv'
  BY <1>1, <1>3, <1>4 DEF RxInv
<1> QED
  BY <1>3, <1>4, <1>5, <1>6

\* ... and if it is accepted at once.
LEMMA HeaderAutoAcceptedType ==
  ASSUME ServerTypeOK, RxInv, QuicTypeOK, ~rx.header_parsed, NEW c \in Clients,
         NEW buffer \in Seq(Units), HeaderAutoAccepted(c, buffer)
  PROVE  /\ WaitTypes' /\ rx' \in RxState /\ disk' \in Disks
         /\ file_header' \in HeaderOrNone /\ RxInv'
         /\ s2c' \in [Clients -> Seq(Fragments)]
         /\ sFin' \in [Clients -> Signals]
         /\ sSends' \in [Clients -> Nat]
<1> DEFINE header == DecodedHeader(buffer)
           parsed == ParsedRx(buffer)
           body   == SubSeq(buffer, HeaderUnits + 1, Len(buffer))
<1>1. DecodesHeader(buffer) /\ file_header' = header /\ UNCHANGED waitVars
  BY DEF HeaderAutoAccepted
<1>2. /\ parsed \in RxState /\ parsed.bytes_written = 0 /\ parsed.header_parsed
  BY <1>1, ParsedType
<1>3. header \in FileTransferHeader /\ header \in HeaderOrNone /\ header.size \in Nat
  BY <1>1, DecodeType DEF HeaderOrNone, FileTransferHeader
<1>4. body \in Seq(Units)
  <2>1. Len(buffer) \in Nat /\ \A i \in 1..Len(buffer) : buffer[i] \in Units
    BY LenProperties, ElementOfSeq
  <2>2. \A i \in (HeaderUnits + 1)..Len(buffer) : buffer[i] \in Units
    BY <2>1 DEF HeaderUnits
  <2> QED
    BY <2>1, <2>2, SubSeqProperties DEF HeaderUnits
<1>5. PICK opened \in OpenOutcomes(parsed.path) :
        LET r == [OpenedRx(parsed, opened) EXCEPT !.buffer = <<>>, !.accepted = opened \/ @]
            d == OpenedDisk(parsed, opened)
        IN IF opened
           THEN /\ \E good \in WriteOutcomes(r, header, body) :
                     /\ rx' = WrittenRx(r, header, body, good)
                     /\ disk' = WrittenDisk(d, r, header, body, good)
                     /\ file_result' = [file_result EXCEPT !.error = @ \/ ~good]
                /\ \E ok \in SendOutcomes(ServerCanSend(file_stream)) :
                     IF ok THEN ServerSends(file_stream, "ACCEPT", FALSE)
                           ELSE UNCHANGED <<s2cVars, sSends>>
           ELSE /\ rx' = r
                /\ disk' = d
                /\ file_result' = OpenedResult(opened)
                /\ UNCHANGED <<s2cVars, sSends>>
  BY DEF HeaderAutoAccepted
<1> DEFINE q == OpenedRx(parsed, opened)
           r == [q EXCEPT !.buffer = <<>>, !.accepted = opened \/ @]
           d == OpenedDisk(parsed, opened)
<1>6. opened \in BOOLEAN
  BY DEF OpenOutcomes, Outcomes
<1>7. /\ q \in RxState /\ d \in Disks /\ OpenedResult(opened) \in Results
      /\ q.bytes_written = 0 /\ q.header_parsed
      /\ opened => q.out_path \in Names /\ d[q.out_path] \in Seq(Units)
      /\ ~opened => q.out = "null"
  BY <1>2, <1>5, OpenedType
<1>8. /\ r \in RxState /\ r.bytes_written = 0 /\ r.header_parsed
      /\ r.out_path = q.out_path /\ r.out = q.out
  <2>1. (opened \/ q.accepted) \in BOOLEAN
    BY <1>6, <1>7 DEF RxState
  <2> HIDE DEF q
  <2>2. r \in RxState
    BY <1>7, <2>1, EmptySeq DEF RxState
  <2> QED
    BY <1>7, <2>2 DEF RxState
<1> HIDE DEF q, r, d, body, header, parsed
<1>9. /\ s2c' \in [Clients -> Seq(Fragments)]
      /\ sFin' \in [Clients -> Signals]
      /\ sSends' \in [Clients -> Nat]
  BY <1>5, MaybeSendsType DEF Words
<1>10. CASE opened
  <2>1. PICK good \in WriteOutcomes(r, header, body) :
          /\ rx' = WrittenRx(r, header, body, good)
          /\ disk' = WrittenDisk(d, r, header, body, good)
          /\ file_result' = [file_result EXCEPT !.error = @ \/ ~good]
    BY <1>5, <1>10 DEF q, r, d
  <2>2. good \in BOOLEAN
    BY DEF WriteOutcomes, Outcomes
  <2>3. /\ rx' \in RxState /\ disk' \in Disks
        /\ rx'.bytes_written <= header.size /\ rx'.header_parsed
        /\ rx'.out_path \in Names /\ disk'[rx'.out_path] \in Seq(Units)
    <3>1. r.bytes_written <= header.size /\ r.out_path \in Names /\ d[r.out_path] \in Seq(Units)
      BY <1>3, <1>7, <1>8, <1>10
    <3> QED
      BY <1>3, <1>4, <1>7, <1>8, <2>1, <2>2, <3>1, WrittenType
  <2>4. (file_result.error \/ ~good) \in BOOLEAN
    BY DEF ServerTypeOK
  <2>5. file_result' \in Results
    BY <2>1, <2>4 DEF Results, ServerTypeOK
  <2>6. WaitTypes'
    BY <1>1, <2>5 DEF ServerTypeOK, WaitTypes, waitVars
  <2>7. RxInv'
    BY <1>1, <2>3 DEF RxInv
  <2> QED
    BY <1>1, <1>3, <1>9, <2>3, <2>6, <2>7
<1>11. CASE ~opened
  <2>1. rx' = r /\ disk' = d /\ file_result' = OpenedResult(opened)
    BY <1>5, <1>11 DEF q, r, d
  <2>2. WaitTypes'
    BY <1>1, <1>7, <2>1 DEF ServerTypeOK, WaitTypes, waitVars
  <2>3. RxInv'
    BY <1>1, <1>3, <1>7, <1>8, <1>11, <2>1 DEF RxInv
  <2> QED
    BY <1>1, <1>3, <1>7, <1>8, <1>9, <2>1, <2>2, <2>3
<1> QED
  BY <1>10, <1>11

\* append_file_bytes keeps the types and the count.
LEMMA AppendType ==
  ASSUME ServerTypeOK, RxInv, QuicTypeOK, NEW c \in Clients,
         NEW data \in Seq(Units), append_file_bytes(c, data)
  PROVE  /\ WaitTypes' /\ rx' \in RxState /\ disk' \in Disks
         /\ file_header' \in HeaderOrNone /\ RxInv'
         /\ s2c' \in [Clients -> Seq(Fragments)]
         /\ sFin' \in [Clients -> Signals]
         /\ sSends' \in [Clients -> Nat]
<1>u. UNCHANGED <<s2cVars, sSends>> =>
        /\ s2c' \in [Clients -> Seq(Fragments)]
        /\ sFin' \in [Clients -> Signals]
        /\ sSends' \in [Clients -> Nat]
  BY DEF QuicTypeOK, s2cVars
<1>t. disk \in Disks /\ file_header \in HeaderOrNone
  BY DEF ServerTypeOK, Disks
<1>1. CASE rx.header_parsed
  <2>1. BodyBytes(data) /\ UNCHANGED <<file_header, s2cVars, sSends>>
    BY <1>1 DEF append_file_bytes, BodyBytes
  <2> QED
    BY <1>1, <1>u, <1>t, <2>1, BodyBytesType
<1>2. CASE ~rx.header_parsed
  <2> DEFINE buffer == rx.buffer \o data
  <2>1. buffer \in Seq(Units)
    BY ConcatProperties DEF ServerTypeOK, RxState
  <2> HIDE DEF buffer
  <2>2. \/ HeaderIncomplete(c, buffer)
        \/ HeaderOffered(c, buffer)
        \/ HeaderAutoAccepted(c, buffer)
    BY <1>2 DEF append_file_bytes, buffer
  <2>3. CASE HeaderIncomplete(c, buffer)
    <3>1. UNCHANGED <<file_header, disk, s2cVars, sSends>>
      BY <2>3 DEF HeaderIncomplete
    <3> QED
      BY <1>2, <1>u, <1>t, <2>1, <2>3, <3>1, HeaderIncompleteType
  <2>4. CASE HeaderOffered(c, buffer)
    <3>1. UNCHANGED <<disk, s2cVars, sSends>>
      BY <2>4 DEF HeaderOffered
    <3> QED
      BY <1>2, <1>u, <1>t, <2>1, <2>4, <3>1, HeaderOfferedType
  <2>5. CASE HeaderAutoAccepted(c, buffer)
    BY <1>2, <2>1, <2>5, HeaderAutoAcceptedType
  <2> QED
    BY <2>2, <2>3, <2>4, <2>5
<1> QED
  BY <1>1, <1>2

\* So does on_receive as a whole.
LEMMA OnReceiveType ==
  ASSUME ServerTypeOK, RxInv, QuicTypeOK, NEW c \in Clients, on_receive(c)
  PROVE  QuicTypeOK' /\ ServerTypeOK' /\ RxInv'
<1>1. PICK n \in 1..Len(c2s[c]) :
        /\ c2s' = [c2s EXCEPT ![c] = SubSeq(@, n + 1, Len(@))]
        /\ IF receiving_file
           THEN append_file_bytes(c, SubSeq(c2s[c], 1, n))
           ELSE UNCHANGED <<waitVars, file_header, rx, file_result, disk, s2cVars, sSends>>
  BY DEF on_receive
<1>2. c2s[c] \in Seq(Units)
  BY DEF QuicTypeOK
<1>3. SubSeq(c2s[c], 1, n) \in Seq(Units) /\ SubSeq(c2s[c], n + 1, Len(c2s[c])) \in Seq(Units)
  BY <1>2, SplitType
<1>4. c2s' \in [Clients -> Seq(Units)]
  BY <1>1, <1>3 DEF QuicTypeOK
<1>5. /\ WaitTypes' /\ rx' \in RxState /\ disk' \in Disks
      /\ file_header' \in HeaderOrNone /\ RxInv'
      /\ s2c' \in [Clients -> Seq(Fragments)]
      /\ sFin' \in [Clients -> Signals]
      /\ sSends' \in [Clients -> Nat]
  <2>1. CASE receiving_file
    BY <1>1, <1>3, <2>1, AppendType
  <2>2. CASE ~receiving_file
    <3>1. UNCHANGED <<waitVars, file_header, rx, file_result, disk, s2cVars, sSends>>
      BY <1>1, <2>2
    <3>2. WaitTypes'
      BY <3>1, WaitUnchanged
    <3>3. RxInv'
      BY <3>1 DEF RxInv
    <3> QED
      BY <3>1, <3>2, <3>3 DEF ServerTypeOK, QuicTypeOK, s2cVars, Disks
  <2> QED
    BY <2>1, <2>2
<1>6. QuicTypeOK'
  BY <1>4, <1>5 DEF on_receive, QuicTypeOK, connVars, streamVars
<1>7. ServerTypeOK'
  <2>1. /\ client_connection' \in Clients \cup {None} /\ file_stream' \in Clients \cup {None}
        /\ UNCHANGED flowVars
    BY DEF on_receive, ServerTypeOK
  <2> QED
    BY <1>5, <2>1, CallbackStepType
<1> QED
  BY <1>5, <1>6, <1>7

\* So does finish_file_receive.
LEMMA FinishReceiveType ==
  ASSUME ServerTypeOK, RxInv, QuicTypeOK, NEW c \in Clients, finish_file_receive(c),
         UNCHANGED <<file_header, disk>>
  PROVE  /\ WaitTypes' /\ rx' \in RxState /\ RxInv'
         /\ s2c' \in [Clients -> Seq(Fragments)]
         /\ sFin' \in [Clients -> Signals]
         /\ sSends' \in [Clients -> Nat]
<1>1. PICK readable \in Outcomes("open"), ok \in SendOutcomes(ServerCanSend(c)) :
        LET verify_ok == Verified(readable)
            result    == [file_result EXCEPT !.success = verify_ok, !.error = @ \/ ~verify_ok]
        IN /\ rx' = [CloseFile(rx) EXCEPT !.sending_final_ack = ok]
           /\ IF ok
              THEN /\ ServerSends(c, IF verify_ok THEN "OK" ELSE "FAIL", TRUE)
                   /\ file_result' = result
                   /\ UNCHANGED waitVars
              ELSE /\ notify_file_waiter(c, FALSE, result)
                   /\ UNCHANGED <<s2cVars, sSends>>
  BY DEF finish_file_receive
<1> DEFINE verify_ok == Verified(readable)
           result    == [file_result EXCEPT !.success = verify_ok, !.error = @ \/ ~verify_ok]
           word      == IF verify_ok THEN "OK" ELSE "FAIL"
<1>2. ok \in BOOLEAN
  BY DEF SendOutcomes, Outcomes
<1>3. verify_ok \in BOOLEAN /\ readable \in BOOLEAN
  BY DEF Verified, Outcomes
<1>4. word \in Words
  BY DEF Words
<1>5. result \in Results
  <2>1. (file_result.error \/ ~verify_ok) \in BOOLEAN
    BY DEF ServerTypeOK
  <2> HIDE DEF verify_ok
  <2> QED
    BY <1>3, <2>1 DEF ServerTypeOK, Results
<1> HIDE DEF verify_ok, result, word
<1>6. /\ rx' \in RxState /\ rx'.out # "open"
      /\ rx'.bytes_written = rx.bytes_written /\ rx'.header_parsed = rx.header_parsed
  <2>1. /\ CloseFile(rx) \in RxState
        /\ CloseFile(rx).bytes_written = rx.bytes_written
        /\ CloseFile(rx).header_parsed = rx.header_parsed
        /\ CloseFile(rx).out # "open"
    BY CloseFileType DEF ServerTypeOK
  <2>2. rx' = [CloseFile(rx) EXCEPT !.sending_final_ack = ok]
    BY <1>1
  <2> QED
    BY <1>2, <2>1, <2>2 DEF RxState
<1>7. RxInv'
  BY <1>6 DEF RxInv
<1>8. CASE ok
  <2>1. ServerSends(c, word, TRUE) /\ file_result' = result /\ UNCHANGED waitVars
    BY <1>1, <1>8 DEF verify_ok, result, word
  <2>2. WaitTypes'
    BY <1>5, <2>1 DEF ServerTypeOK, WaitTypes, waitVars
  <2> QED
    BY <1>4, <1>6, <1>7, <2>1, <2>2, ServerSendsType
<1>9. CASE ~ok
  <2>1. notify_file_waiter(c, FALSE, result) /\ UNCHANGED <<s2cVars, sSends>>
    BY <1>1, <1>9 DEF verify_ok, result
  <2>2. WaitTypes'
    BY <1>5, <2>1, NotifyType
  <2> QED
    BY <1>6, <1>7, <2>1, <2>2 DEF QuicTypeOK, s2cVars
<1> QED
  BY <1>8, <1>9

\* So does every callback of the server.
LEMMA ServerCallbackType ==
  ASSUME IInv, NEW c \in Clients, ServerCallbackStep(c)
  PROVE  IInv'
<1>c. QuicTypeOK /\ ServerTypeOK /\ RxInv /\ ClientTypeOK'
  BY ClientUnchanged DEF IInv, TypeOK, ServerCallbackStep
<1>f. /\ rx \in RxState /\ disk \in Disks /\ file_header \in HeaderOrNone
      /\ client_connection \in Clients \cup {None} /\ file_stream \in Clients \cup {None}
      /\ file_result \in Results
  BY <1>c DEF ServerTypeOK, Disks, Results
<1> SUFFICES QuicTypeOK' /\ ServerTypeOK' /\ RxInv'
  BY <1>c DEF IInv, TypeOK
<1>1. CASE on_new_connection(c)
  <2>1. QuicTypeOK'
    BY <1>1, <1>c
       DEF on_new_connection, QuicTypeOK, ConnStates, c2sVars, s2cVars, streamVars, sendVars
  <2> QED
    BY <1>1, <1>c, <2>1, ServerUnchanged DEF on_new_connection
<1>2. CASE on_connected(c)
  <2>1. QuicTypeOK'
    BY <1>2, <1>c
       DEF on_connected, QuicTypeOK, ConnStates, c2sVars, s2cVars, streamVars, sendVars
  <2>2. ServerTypeOK'
    BY <1>2, <1>c DEF on_connected, ServerTypeOK, flowVars, waitVars
  <2>3. RxInv'
    BY <1>2, <1>c DEF on_connected, RxInv
  <2> QED
    BY <2>1, <2>2, <2>3
<1>3. CASE on_connection_shutdown_complete(c)
  <2>1. QuicTypeOK'
    BY <1>3, <1>c
       DEF on_connection_shutdown_complete, QuicTypeOK, ConnStates, c2sVars, s2cVars,
           streamVars, sendVars
  <2>2. ServerTypeOK'
    BY <1>3, <1>c DEF on_connection_shutdown_complete, ServerTypeOK, flowVars, waitVars
  <2>3. RxInv'
    BY <1>3, <1>c DEF on_connection_shutdown_complete, RxInv
  <2> QED
    BY <2>1, <2>2, <2>3
<1>4. CASE on_peer_stream_started(c)
  <2>1. QuicTypeOK'
    BY <1>4, <1>c
       DEF on_peer_stream_started, QuicTypeOK, StreamStates, connVars, c2sVars, s2cVars,
       sendVars
  <2>2. rx' \in RxState /\ rx'.bytes_written = 0 /\ rx'.out = "null"
    BY <1>4, <1>f, FreshRxType DEF on_peer_stream_started
  <2>3. ServerTypeOK'
    BY <1>4, <1>c, <2>2 DEF on_peer_stream_started, ServerTypeOK, flowVars, waitVars
  <2>4. RxInv'
    BY <1>4, <1>c, <2>2, HeaderSizeNat DEF on_peer_stream_started, RxInv
  <2> QED
    BY <2>1, <2>3, <2>4
<1>5. CASE on_receive(c)
  BY <1>5, <1>c, OnReceiveType
<1>6. CASE on_peer_send_shutdown(c)
  <2>1. /\ UNCHANGED <<flowVars, client_connection, file_stream, file_header, disk, connVars,
                       c2s, reset, streamVars, cSends>>
        /\ cFin' \in [Clients -> Signals]
    BY <1>6, <1>c DEF on_peer_send_shutdown, QuicTypeOK, Signals
  <2>2. /\ WaitTypes' /\ rx' \in RxState /\ RxInv'
        /\ s2c' \in [Clients -> Seq(Fragments)]
        /\ sFin' \in [Clients -> Signals]
        /\ sSends' \in [Clients -> Nat]
    <3>1. CASE receiving_file /\ (rx.accepted \/ rx.io_error)
      <4>1. finish_file_receive(c)
        BY <1>6, <3>1 DEF on_peer_send_shutdown
      <4> QED
        BY <1>c, <2>1, <4>1, FinishReceiveType
    <3>2. CASE ~(receiving_file /\ (rx.accepted \/ rx.io_error))
      <4>1. UNCHANGED <<waitVars, rx, file_result, s2cVars, sSends>>
        BY <1>6, <3>2 DEF on_peer_send_shutdown
      <4>2. RxInv'
        BY <1>c, <2>1, <4>1 DEF RxInv
      <4> QED
        BY <1>c, <1>f, <4>1, <4>2, WaitUnchanged DEF QuicTypeOK, s2cVars
    <3> QED
      BY <3>1, <3>2
  <2>3. QuicTypeOK'
    BY <1>c, <2>1, <2>2 DEF QuicTypeOK, connVars, streamVars
  <2>4. ServerTypeOK'
    BY <1>c, <1>f, <2>1, <2>2, CallbackStepType
  <2> QED
    BY <2>2, <2>3, <2>4
<1>7. CASE on_send_complete(c)
  <2>1. UNCHANGED <<flowVars, client_connection, file_stream, file_header, rx, disk, connVars,
                    c2sVars, s2cVars, streamVars, cSends>>
    BY <1>7 DEF on_send_complete
  <2>2. sSends' \in [Clients -> Nat]
    <3>1. sSends' = [sSends EXCEPT ![c] = sSends[c] - 1] /\ sSends[c] - 1 \in Nat
      BY <1>7, <1>c DEF on_send_complete, QuicTypeOK, Completed
    <3> QED
      BY <1>c, <3>1 DEF QuicTypeOK
  <2>3. QuicTypeOK'
    BY <1>c, <2>1, <2>2 DEF QuicTypeOK, connVars, c2sVars, s2cVars, streamVars
  <2>4. WaitTypes'
    <3>1. file_result.success \in BOOLEAN
      BY <1>f DEF Results
    <3> QED
      BY <1>7, <1>c, <1>f, <3>1, NotifyType, WaitUnchanged DEF on_send_complete
  <2>5. ServerTypeOK'
    BY <1>c, <1>f, <2>1, <2>4, CallbackStepType
  <2>6. RxInv'
    BY <1>c, <2>1 DEF RxInv
  <2> QED
    BY <2>3, <2>5, <2>6
<1>8. CASE on_peer_aborted(c)
  <2>1. UNCHANGED <<flowVars, client_connection, file_stream, file_header, disk, connVars,
                    cFin, s2cVars, streamVars, sendVars>>
    BY <1>8 DEF on_peer_aborted
  <2>2. QuicTypeOK'
    BY <1>8, <1>c, <2>1, EmptySeq
       DEF on_peer_aborted, QuicTypeOK, Signals, connVars, s2cVars, streamVars, sendVars
  <2>3. /\ WaitTypes' /\ rx' \in RxState
        /\ rx' = rx \/ (/\ rx'.out # "open" /\ rx'.bytes_written = rx.bytes_written
                        /\ rx'.header_parsed = rx.header_parsed)
    <3>1. [file_result EXCEPT !.error = TRUE] \in Results
      BY <1>f DEF Results
    <3>2. CASE receiving_file
      BY <1>8, <1>c, <1>f, <3>1, <3>2, NotifyType, CloseFileType DEF on_peer_aborted
    <3>3. CASE ~receiving_file
      BY <1>8, <1>c, <1>f, <3>3, WaitUnchanged DEF on_peer_aborted
    <3> QED
      BY <3>2, <3>3
  <2>4. ServerTypeOK'
    BY <1>c, <1>f, <2>1, <2>3, CallbackStepType
  <2>5. RxInv'
    BY <1>c, <2>1, <2>3 DEF RxInv
  <2> QED
    BY <2>2, <2>4, <2>5
<1>9. CASE on_stream_shutdown_complete(c)
  <2>1. QuicTypeOK'
    BY <1>9, <1>c
       DEF on_stream_shutdown_complete, QuicTypeOK, StreamStates, connVars, c2sVars, s2cVars,
           sendVars
  <2> QED
    BY <1>9, <1>c, <2>1, ServerUnchanged DEF on_stream_shutdown_complete
<1>10. CASE EnterFileMutex(c)
  <2>1. UNCHANGED <<flowVars, client_connection, file_stream, file_header, disk, quicVars>>
    BY <1>10 DEF EnterFileMutex
  <2>2. WaitTypes'
    BY <1>10, <1>c DEF EnterFileMutex, ServerTypeOK, WaitTypes, Results
  <2>3. /\ rx' \in RxState /\ rx'.out = rx.out /\ rx'.out_path = rx.out_path
        /\ rx'.bytes_written = rx.bytes_written /\ rx'.header_parsed = rx.header_parsed
    <3>1. rx' = rx \/ rx' = [rx EXCEPT !.buffer = <<>>]
      BY <1>10 DEF EnterFileMutex
    <3>2. [rx EXCEPT !.buffer = <<>>] \in RxState
      BY <1>f, EmptySeq DEF RxState
    <3> QED
      BY <1>f, <3>1, <3>2 DEF RxState
  <2>4. ServerTypeOK'
    BY <1>c, <1>f, <2>1, <2>2, <2>3, CallbackStepType
  <2>5. RxInv'
    BY <1>c, <2>1, <2>3 DEF RxInv
  <2> QED
    BY <1>c, <2>1, <2>4, <2>5, QuicUnchanged
<1> QED
  BY <1>1, <1>2, <1>3, <1>4, <1>5, <1>6, <1>7, <1>8, <1>9, <1>10
     DEF ServerCallbackStep, ServerCallback

-----------------------------------------------------------------------------
(* Steps of the senders.                                                   *)

\* A step that moves the thread on, and may end send_file.
LEMMA ClientFlowType ==
  ASSUME ClientTypeOK, NEW c \in Clients, NEW label \in CpcStates,
         NEW result \in {"none", "ok", "failed", "raw"},
         Goto(c, label),
         UNCHANGED send_result \/ send_result' = [send_result EXCEPT ![c] = result],
         UNCHANGED <<connected, connect_done, send_done, decisionVars, ackVars, rejected,
                     jobVars>>
  PROVE  ClientTypeOK'
<1>1. cpc' \in [Clients -> CpcStates]
  BY DEF ClientTypeOK, Goto
<1>2. send_result' \in [Clients -> {"none", "ok", "failed", "raw"}]
  BY DEF ClientTypeOK
<1> QED
  BY <1>1, <1>2 DEF ClientTypeOK, decisionVars, ackVars, jobVars

\* Aborting a stream keeps the types of the library's side.
LEMMA AbortType ==
  ASSUME QuicTypeOK, NEW c \in Clients, abort_stream(c),
         UNCHANGED <<connVars, c2s, cFin, s2cVars, streamVars, sendVars>>
  PROVE  QuicTypeOK'
BY DEF QuicTypeOK, abort_stream, Signals, connVars, s2cVars, streamVars, sendVars

\* What a sender announces is a header, and its file a sequence of bytes.
LEMMA JobType ==
  ASSUME ClientTypeOK, NEW c \in Clients,
         NEW j \in {FileJob(c, name) : name \in RawNames} \cup TestJobs
  PROVE  j \in Jobs
<1>s. source[c] \in Contents /\ source[c] \in Seq(Bytes)
  BY ContentsAssumption DEF ClientTypeOK
<1>1. ASSUME NEW name \in RawNames PROVE FileJob(c, name) \in Jobs
  <2>1. Len(source[c]) \in Nat /\ sha256(source[c]) \in Hashes
    BY <1>s, LenProperties DEF Hashes
  <2> QED
    BY <2>1 DEF FileJob, Jobs, FileTransferHeader
<1>2. Sizes \subseteq Nat
  BY ContentsAssumption, LenProperties DEF Sizes
<1>3. TestJobs \subseteq Jobs
  BY <1>2 DEF TestJobs, Jobs, FileTransferHeader
<1> QED
  BY <1>1, <1>3

\* A chunk is made of bytes, however the file was edited meanwhile.
LEMMA ChunkType ==
  ASSUME ClientTypeOK, NEW c \in Clients
  PROVE  NextChunk(c) \in Seq(Units) /\ Len(NextChunk(c)) \in Nat
<1> DEFINE left == job[c].total - sent[c]
           want == IF left <= ChunkSize THEN left ELSE ChunkSize
           end  == IF sent[c] + want <= Len(source[c]) THEN sent[c] + want ELSE Len(source[c])
<1>1. source[c] \in Seq(Bytes) /\ Len(source[c]) \in Nat
  BY ContentsAssumption, LenProperties DEF ClientTypeOK
<1>2. sent[c] \in Nat /\ job[c].total \in Nat /\ ChunkSize \in Nat
  BY ClientAssumption DEF ClientTypeOK, Jobs, NoJob
<1>3. end \in Int /\ end <= Len(source[c])
  BY <1>1, <1>2
<1>4. NextChunk(c) = SubSeq(source[c], sent[c] + 1, end)
  BY DEF NextChunk
<1> HIDE DEF end
<1>5. \A i \in (sent[c] + 1)..end : source[c][i] \in Bytes
  BY <1>1, <1>2, <1>3, ElementOfSeq
<1>6. NextChunk(c) \in Seq(Bytes)
  BY <1>1, <1>2, <1>3, <1>4, <1>5, SubSeqProperties
<1> QED
  BY <1>6, LenProperties DEF Units

\* Junk, too, is a sequence of units.
LEMMA JunkType ==
  ASSUME NEW b \in Bytes
  PROVE  [i \in 1..JunkLength |-> b] \in Seq(Units)
<1>1. JunkLength \in Nat
  BY ClientAssumption
<1> QED
  BY <1>1 DEF Units

\* Opening a stream and sending on it keeps the types.
LEMMA FirstSendType ==
  ASSUME QuicTypeOK, ClientTypeOK, NEW c \in Clients, NEW units \in Seq(Units),
         NEW fin \in BOOLEAN, NEW label \in CpcStates, FirstSend(c, units, fin, label)
  PROVE  /\ c2s' \in [Clients -> Seq(Units)] /\ cFin' \in [Clients -> Signals]
         /\ cSends' \in [Clients -> Nat] /\ reset' \in [Clients -> Signals]
         /\ cStream' \in [Clients -> StreamStates]
         /\ cpc' \in [Clients -> CpcStates] /\ send_done' \in [Clients -> BOOLEAN]
         /\ send_result' \in [Clients -> {"none", "ok", "failed", "raw"}]
<1>1. /\ cStream' \in [Clients -> StreamStates]
      /\ send_done' \in [Clients -> BOOLEAN]
  BY DEF FirstSend, QuicTypeOK, ClientTypeOK, StreamStates
<1>2. CASE /\ ClientSends(c, units, fin)
           /\ Goto(c, label)
           /\ UNCHANGED <<reset, send_result>>
  <2>1. /\ c2s' \in [Clients -> Seq(Units)] /\ cFin' \in [Clients -> Signals]
        /\ cSends' \in [Clients -> Nat]
    BY <1>2, ClientSendsType
  <2> QED
    BY <1>1, <1>2, <2>1 DEF QuicTypeOK, ClientTypeOK, Goto
<1>3. CASE /\ Finish(c, "failed")
           /\ reset' = [reset EXCEPT ![c] = "sent"]
           /\ UNCHANGED <<c2s, cFin, cSends>>
  BY <1>1, <1>3 DEF QuicTypeOK, ClientTypeOK, Finish, Goto, CpcStates, Signals
<1> QED
  BY <1>2, <1>3 DEF FirstSend

\* So does sending the header, ...
LEMMA SendHeaderType ==
  ASSUME QuicTypeOK, ClientTypeOK, NEW c \in Clients, SendHeader(c)
  PROVE  QuicTypeOK' /\ ClientTypeOK'
<1>1. PICK j \in {FileJob(c, name) : name \in RawNames} \cup TestJobs :
        /\ job' = [job EXCEPT ![c] = j]
        /\ FirstSend(c, encode_file_header(j.header), FALSE, "header_wait")
  BY DEF SendHeader
<1>2. j \in Jobs /\ encode_file_header(j.header) \in Seq(Units)
  BY JobType, EncodeType DEF Jobs
<1>3. /\ c2s' \in [Clients -> Seq(Units)] /\ cFin' \in [Clients -> Signals]
      /\ cSends' \in [Clients -> Nat] /\ reset' \in [Clients -> Signals]
      /\ cStream' \in [Clients -> StreamStates]
      /\ cpc' \in [Clients -> CpcStates] /\ send_done' \in [Clients -> BOOLEAN]
      /\ send_result' \in [Clients -> {"none", "ok", "failed", "raw"}]
  <2>1. "header_wait" \in CpcStates
    BY DEF CpcStates
  <2> QED
    BY <1>1, <1>2, <2>1, FirstSendType
<1>4. QuicTypeOK'
  BY <1>3 DEF SendHeader, QuicTypeOK, connVars, s2cVars
<1>5. ClientTypeOK'
  BY <1>1, <1>2, <1>3, EmptySeq DEF SendHeader, ClientTypeOK
<1> QED
  BY <1>4, <1>5

\* ... a chunk of the body ...
LEMMA SendChunkType ==
  ASSUME QuicTypeOK, ClientTypeOK, NEW c \in Clients, SendChunk(c)
  PROVE  QuicTypeOK' /\ ClientTypeOK'
<1> DEFINE n   == sent[c] + Len(NextChunk(c))
           fin == n >= job[c].total
<1>1. n \in Nat /\ fin \in BOOLEAN /\ NextChunk(c) \in Seq(Units)
  BY ChunkType DEF ClientTypeOK
<1>2. /\ sent' = [sent EXCEPT ![c] = n]
      /\ send_done' = [send_done EXCEPT ![c] = FALSE]
      /\ \/ /\ ClientSends(c, NextChunk(c), fin)
            /\ Goto(c, "chunk_wait")
            /\ UNCHANGED <<reset, send_result>>
         \/ /\ abort_stream(c)
            /\ Finish(c, "failed")
            /\ UNCHANGED <<c2s, cFin, cSends>>
  BY DEF SendChunk
<1> HIDE DEF n, fin
<1>3. /\ c2s' \in [Clients -> Seq(Units)] /\ cFin' \in [Clients -> Signals]
      /\ cSends' \in [Clients -> Nat] /\ reset' \in [Clients -> Signals]
      /\ cpc' \in [Clients -> CpcStates]
      /\ send_result' \in [Clients -> {"none", "ok", "failed", "raw"}]
  <2>1. CASE /\ ClientSends(c, NextChunk(c), fin)
             /\ Goto(c, "chunk_wait")
             /\ UNCHANGED <<reset, send_result>>
    <3>1. /\ c2s' \in [Clients -> Seq(Units)] /\ cFin' \in [Clients -> Signals]
          /\ cSends' \in [Clients -> Nat]
      BY <1>1, <2>1, ClientSendsType
    <3> QED
      BY <2>1, <3>1 DEF QuicTypeOK, ClientTypeOK, Goto, CpcStates
  <2>2. CASE /\ abort_stream(c)
             /\ Finish(c, "failed")
             /\ UNCHANGED <<c2s, cFin, cSends>>
    BY <2>2 DEF QuicTypeOK, ClientTypeOK, abort_stream, Finish, Goto, CpcStates, Signals
  <2> QED
    BY <1>2, <2>1, <2>2
<1>4. QuicTypeOK'
  BY <1>3 DEF SendChunk, QuicTypeOK, connVars, s2cVars, streamVars
<1>5. UNCHANGED <<connected, connect_done, decisionVars, ackVars, rejected, job, source>>
  BY DEF SendChunk
<1>6. ClientTypeOK'
  BY <1>1, <1>2, <1>3, <1>5 DEF ClientTypeOK, decisionVars, ackVars
<1> QED
  BY <1>4, <1>6

\* ... and the bytes of a peer that sends no header at all.
LEMMA SendRawType ==
  ASSUME QuicTypeOK, ClientTypeOK, NEW c \in Clients, SendRaw(c)
  PROVE  QuicTypeOK' /\ ClientTypeOK'
<1>1. PICK b \in Bytes : FirstSend(c, [i \in 1..JunkLength |-> b], TRUE, "raw_wait")
  BY DEF SendRaw
<1>2. /\ c2s' \in [Clients -> Seq(Units)] /\ cFin' \in [Clients -> Signals]
      /\ cSends' \in [Clients -> Nat] /\ reset' \in [Clients -> Signals]
      /\ cStream' \in [Clients -> StreamStates]
      /\ cpc' \in [Clients -> CpcStates] /\ send_done' \in [Clients -> BOOLEAN]
      /\ send_result' \in [Clients -> {"none", "ok", "failed", "raw"}]
  <2>1. "raw_wait" \in CpcStates
    BY DEF CpcStates
  <2> QED
    BY <1>1, <2>1, JunkType, FirstSendType
<1>3. QuicTypeOK'
  BY <1>2 DEF SendRaw, QuicTypeOK, connVars, s2cVars
<1>4. ClientTypeOK'
  BY <1>2, EmptySeq DEF SendRaw, ClientTypeOK, decisionVars, jobVars
<1> QED
  BY <1>3, <1>4

\* Every step of a sending thread keeps the types.
LEMMA ClientThreadType ==
  ASSUME QuicTypeOK, ClientTypeOK, NEW c \in Clients, ClientThread(c)
  PROVE  QuicTypeOK' /\ ClientTypeOK'
<1>s. {"disconnect", "ready", "decision_wait", "send_chunk", "ack_wait", "raw_ack_wait"}
        \subseteq CpcStates
  BY DEF CpcStates
<1>1. CASE Connect(c)
  <2>1. QuicTypeOK'
    BY <1>1 DEF Connect, QuicTypeOK, ConnStates, c2sVars, s2cVars, streamVars, sendVars
  <2>2. ClientTypeOK'
    BY <1>1 DEF Connect, Goto, ClientTypeOK, CpcStates, decisionVars, ackVars, jobVars
  <2> QED
    BY <2>1, <2>2
<1>2. CASE ConnectReturns(c)
  BY <1>2, <1>s, ClientFlowType, QuicUnchanged DEF ConnectReturns, Finish
<1>3. CASE SendHeader(c)
  BY <1>3, SendHeaderType
<1>4. CASE SendWithoutConnection(c)
  BY <1>4, <1>s, ClientFlowType, QuicUnchanged DEF SendWithoutConnection, Finish
<1>5. CASE HeaderSent(c)
  BY <1>5, <1>s, ClientFlowType, QuicUnchanged DEF HeaderSent
<1>6. CASE DecisionAccepted(c)
  BY <1>6, <1>s, ClientFlowType, QuicUnchanged DEF DecisionAccepted
<1>7. CASE DecisionRejected(c)
  <2>1. QuicTypeOK'
    BY <1>7, AbortType DEF DecisionRejected
  <2>2. ClientTypeOK'
    BY <1>7
       DEF DecisionRejected, Finish, Goto, ClientTypeOK, CpcStates, decisionVars, ackVars,
       jobVars
  <2> QED
    BY <2>1, <2>2
<1>8. CASE WaitExpires(c)
  BY <1>8, <1>s, ClientFlowType, AbortType DEF WaitExpires, Finish
<1>9. CASE SendChunk(c)
  BY <1>9, SendChunkType
<1>10. CASE FileShrank(c)
  BY <1>10, <1>s, ClientFlowType, AbortType DEF FileShrank, Finish
<1>11. CASE ChunkSent(c)
  BY <1>11, <1>s, ClientFlowType, QuicUnchanged DEF ChunkSent
<1>12. CASE SendReturns(c)
  BY <1>12, <1>s, ClientFlowType, QuicUnchanged DEF SendReturns, Finish
<1>13. CASE SendRaw(c)
  BY <1>13, SendRawType
<1>14. CASE RawReturns(c)
  BY <1>14, <1>s, ClientFlowType, QuicUnchanged DEF RawReturns, Finish
<1>15. CASE Disconnect(c)
  <2>1. QuicTypeOK'
    BY <1>15 DEF Disconnect, QuicTypeOK, ConnStates, c2sVars, s2cVars, streamVars, sendVars
  <2>2. ClientTypeOK'
    BY <1>15 DEF Disconnect, Goto, ClientTypeOK, CpcStates, decisionVars, ackVars, jobVars
  <2> QED
    BY <2>1, <2>2
<1>16. CASE DisconnectReturns(c)
  <2>1. ClientTypeOK'
    BY <1>16
       DEF DisconnectReturns, Goto, ClientTypeOK, CpcStates, decisionVars, ackVars, jobVars
  <2> QED
    BY <1>16, <2>1, QuicUnchanged DEF DisconnectReturns
<1> QED
  BY <1>1, <1>2, <1>3, <1>4, <1>5, <1>6, <1>7, <1>8, <1>9, <1>10, <1>11, <1>12, <1>13,
     <1>14, <1>15, <1>16 DEF ClientThread

\* So does every callback of the client.
LEMMA ClientCallbackType ==
  ASSUME QuicTypeOK, ClientTypeOK, NEW c \in Clients, ClientCallback(c)
  PROVE  QuicTypeOK' /\ ClientTypeOK'
<1>1. CASE OnConnected(c)
  <2>1. QuicTypeOK'
    BY <1>1 DEF OnConnected, QuicTypeOK, ConnStates, c2sVars, s2cVars, streamVars, sendVars
  <2>2. ClientTypeOK'
    BY <1>1 DEF OnConnected, ClientTypeOK, decisionVars, ackVars, jobVars
  <2> QED
    BY <2>1, <2>2
<1>2. CASE OnShutdownInitiated(c)
  <2>1. QuicTypeOK'
    BY <1>2
       DEF OnShutdownInitiated, QuicTypeOK, ConnStates, c2sVars, s2cVars, streamVars, sendVars
  <2>2. ClientTypeOK'
    BY <1>2 DEF OnShutdownInitiated, ClientTypeOK, decisionVars, ackVars, jobVars
  <2> QED
    BY <2>1, <2>2
<1>3. CASE OnConnectionShutdownComplete(c)
  <2>1. QuicTypeOK'
    BY <1>3
       DEF OnConnectionShutdownComplete, QuicTypeOK, ConnStates, c2sVars, s2cVars, streamVars,
           sendVars
  <2>2. ClientTypeOK'
    BY <1>3 DEF OnConnectionShutdownComplete, ClientTypeOK, decisionVars, ackVars, jobVars
  <2> QED
    BY <2>1, <2>2
<1>4. CASE OnReceive(c)
  <2>1. PICK n \in 1..Len(s2c[c]) :
          LET text == decision_buf[c] \o SubSeq(s2c[c], 1, n)
              now  == awaiting_decision[c] /\ ReplyComplete(text)
          IN /\ s2c' = [s2c EXCEPT ![c] = SubSeq(@, n + 1, Len(@))]
             /\ IF awaiting_decision[c]
                THEN /\ decision_buf' = [decision_buf EXCEPT ![c] = text]
                     /\ UNCHANGED file_ack
                ELSE /\ file_ack' = [file_ack EXCEPT ![c] = @ \o SubSeq(s2c[c], 1, n)]
                     /\ UNCHANGED decision_buf
             /\ awaiting_decision' = [awaiting_decision EXCEPT ![c] = @ /\ ~now]
             /\ decision' = [decision EXCEPT ![c] = IF now THEN Resolved(text) ELSE @]
    BY <1>4 DEF OnReceive
  <2> DEFINE text == decision_buf[c] \o SubSeq(s2c[c], 1, n)
             now  == awaiting_decision[c] /\ ReplyComplete(text)
  <2>2. /\ SubSeq(s2c[c], 1, n) \in Seq(Fragments)
        /\ SubSeq(s2c[c], n + 1, Len(s2c[c])) \in Seq(Fragments)
    BY SplitType DEF QuicTypeOK
  <2>3. text \in Seq(Fragments) /\ file_ack[c] \o SubSeq(s2c[c], 1, n) \in Seq(Fragments)
    BY <2>2, ConcatProperties DEF ClientTypeOK
  <2>4. (awaiting_decision[c] /\ ~now) \in BOOLEAN
    BY DEF ClientTypeOK
  <2>5. Resolved(text) \in {"none", "accepted", "rejected"}
    BY DEF Resolved
  <2>6. QuicTypeOK'
    BY <1>4, <2>1, <2>2
       DEF OnReceive, QuicTypeOK, connVars, c2sVars, streamVars, sendVars
  <2>7. /\ decision_buf' \in [Clients -> Seq(Fragments)]
        /\ file_ack' \in [Clients -> Seq(Fragments)]
    BY <2>1, <2>3, ZenonT(60) DEF ClientTypeOK
  <2>8. awaiting_decision' \in [Clients -> BOOLEAN]
    BY <2>1, <2>4, Zenon DEF ClientTypeOK
  <2>9. decision' \in [Clients -> {"none", "accepted", "rejected"}]
    BY <2>1, <2>5 DEF ClientTypeOK
  <2>10. ClientTypeOK'
    BY <1>4, <2>7, <2>8, <2>9 DEF OnReceive, ClientTypeOK, jobVars
  <2> QED
    BY <2>6, <2>10
<1>5. CASE OnPeerSendShutdown(c)
  <2>1. QuicTypeOK'
    BY <1>5
       DEF OnPeerSendShutdown, QuicTypeOK, Signals, connVars, c2sVars, streamVars, sendVars
  <2>2. ClientTypeOK'
    BY <1>5 DEF OnPeerSendShutdown, ClientTypeOK, Resolved, jobVars
  <2> QED
    BY <2>1, <2>2
<1>6. CASE OnSendComplete(c)
  <2>1. cSends' = [cSends EXCEPT ![c] = cSends[c] - 1] /\ cSends[c] - 1 \in Nat
    BY <1>6 DEF OnSendComplete, QuicTypeOK, Completed
  <2>2. QuicTypeOK'
    BY <1>6, <2>1 DEF OnSendComplete, QuicTypeOK, connVars, c2sVars, s2cVars, streamVars
  <2>3. ClientTypeOK'
    BY <1>6 DEF OnSendComplete, ClientTypeOK, decisionVars, ackVars, jobVars
  <2> QED
    BY <2>2, <2>3
<1>7. CASE OnStreamShutdownComplete(c)
  <2>1. QuicTypeOK'
    BY <1>7
       DEF OnStreamShutdownComplete, QuicTypeOK, StreamStates, connVars, c2sVars, s2cVars,
           sendVars
  <2> QED
    BY <1>7, <2>1, ClientUnchanged DEF OnStreamShutdownComplete
<1> QED
  BY <1>1, <1>2, <1>3, <1>4, <1>5, <1>6, <1>7 DEF ClientCallback

-----------------------------------------------------------------------------
(* Putting the steps together.                                             *)

\* Every step keeps the types and the count.
LEMMA StepType == IInv /\ [Next]_vars => IInv'
<1> SUFFICES ASSUME IInv, [Next]_vars PROVE IInv'
  OBVIOUS
<1>t. QuicTypeOK /\ ServerTypeOK /\ RxInv /\ ClientTypeOK
  BY DEF IInv, TypeOK
<1>1. CASE ServerThreadStep
  BY <1>1, ServerThreadType
<1>2. ASSUME NEW c \in Clients, ServerCallbackStep(c) PROVE IInv'
  BY <1>2, ServerCallbackType
<1>3. ASSUME NEW c \in Clients, ServerTransportStep(c) PROVE IInv'
  <2>1. QuicTypeOK'
    BY <1>3, <1>t
       DEF ServerTransportStep, ServerLearnsClose, QuicTypeOK, ConnStates, c2sVars, s2cVars,
           streamVars, sendVars
  <2> QED
    BY <1>3, <1>t, <2>1, ServerUnchanged, ClientUnchanged DEF ServerTransportStep, IInv, TypeOK
<1>4. ASSUME NEW c \in Clients, ClientThreadStep(c) PROVE IInv'
  BY <1>4, <1>t, ClientThreadType, ServerUnchanged DEF ClientThreadStep, IInv, TypeOK
<1>5. ASSUME NEW c \in Clients, ClientCallbackStep(c) PROVE IInv'
  BY <1>5, <1>t, ClientCallbackType, ServerUnchanged DEF ClientCallbackStep, IInv, TypeOK
<1>6. ASSUME NEW c \in Clients, LinkDownStep(c) PROVE IInv'
  <2>1. QuicTypeOK'
    BY <1>6, <1>t
       DEF LinkDownStep, LinkDown, QuicTypeOK, c2sVars, s2cVars, streamVars, sendVars
  <2> QED
    BY <1>6, <1>t, <2>1, ServerUnchanged, ClientUnchanged DEF LinkDownStep, IInv, TypeOK
<1>7. ASSUME NEW c \in Clients, EditStep(c) PROVE IInv'
  <2>1. ClientTypeOK'
    BY <1>7, <1>t DEF EditStep, EditSource, ClientTypeOK, decisionVars, ackVars
  <2>2. UNCHANGED <<quicVars, serverVars>>
    BY <1>7 DEF EditStep, EditSource
  <2> QED
    BY <1>t, <2>1, <2>2, QuicUnchanged, ServerUnchanged DEF IInv, TypeOK
<1>8. CASE UNCHANGED vars
  BY <1>8, <1>t, QuicUnchanged, ServerUnchanged, ClientUnchanged DEF vars, IInv, TypeOK
<1> QED
  BY <1>1, <1>2, <1>3, <1>4, <1>5, <1>6, <1>7, <1>8 DEF Next, Finished

\* The inductive invariant: types, and what the size arithmetic needs.
THEOREM IInvHolds == Spec => []IInv
BY InitType, StepType, PTL DEF Spec

\* Every variable keeps its type; in particular no SEND_COMPLETE is counted that
\* no StreamSend is owed.
THEOREM TypeCorrect == Spec => []TypeOK
<1>1. IInv => TypeOK
  BY DEF IInv
<1> QED
  BY <1>1, IInvHolds, PTL

\* append_file_bytes never computes size - bytes_written below zero, for any
\* number of senders, any file contents and any bytes on the wire.
THEOREM SizeNeverUnderflows == Spec => []NoSizeUnderflow
<1>1. IInv => NoSizeUnderflow
  BY DEF IInv, RxInv, NoSizeUnderflow
<1> QED
  BY <1>1, IInvHolds, PTL

-----------------------------------------------------------------------------
(* Approval.  With a prompt, and with senders that start after             *)
(* receive_file is armed, nobody sends a body and nothing is written       *)
(* before on_offer has returned true.                                      *)
(*                                                                         *)
(* The argument: ACCEPT is put on the wire by line 654 after an approval,  *)
(* or by try_parse_file_header while no prompt is registered.  The second  *)
(* needs bytes on some stream while receive_file is being armed, which     *)
(* ~EarlySenders excludes.  Without an ACCEPT on the wire no sender        *)
(* gathers one, resolves its decision to accepted, or leaves decision_wait *)
(* for the body.                                                           *)

Without(text, word) == \A i \in 1..Len(text) : text[i].word # word

\* Where a sender is that has not called send_file yet, or has given up.
IdleStates == {"start", "connecting", "ready", "disconnect", "shutdown_wait", "done"}

\* No byte is under way before receive_file is armed.
QuietWhileArming ==
  rpc \in Arming => \A c \in Clients : c2s[c] = <<>> /\ cpc[c] \in IdleStates

\* Where the output is open and ACCEPT not sent.
Accepting == {"accept_flag", "accept_send"}

\* The answer is the one of this receive_file call.
AnswerInv ==
  /\ rpc \in Arming \cup {"offer_wait", "prompt"} => answer = "none"
  /\ rpc \in Accepting => answer = "accept"

\* Nothing is stored, and c neither sees nor has seen an ACCEPT.
NothingStored == ~rx.accepted /\ disk = [n \in Names |-> None]

NoAccept(c) ==
  /\ Without(s2c[c], "ACCEPT") /\ Without(decision_buf[c], "ACCEPT")
  /\ decision[c] # "accepted" /\ cpc[c] \notin BodyStates

UnapprovedInv ==
  answer # "accept" => NothingStored /\ \A c \in Clients : NoAccept(c)

ApprovalInv == QuietWhileArming /\ AnswerInv /\ UnapprovedInv

-----------------------------------------------------------------------------
(* Texts without a given word.                                             *)

\* Text that is added without the word keeps the word out.
LEMMA WithoutConcat ==
  ASSUME NEW w, NEW s \in Seq(Fragments), NEW t \in Seq(Fragments),
         Without(s, w), Without(t, w)
  PROVE  Without(s \o t, w)
<1>1. Len(s) \in Nat /\ Len(t) \in Nat /\ Len(s \o t) = Len(s) + Len(t)
  BY LenProperties, ConcatProperties
<1>2. SUFFICES ASSUME NEW i \in 1..(Len(s) + Len(t)) PROVE (s \o t)[i].word # w
  BY <1>1 DEF Without
<1>3. CASE i <= Len(s)
  BY <1>1, <1>3, ConcatProperties DEF Without
<1>4. CASE i > Len(s)
  <2>1. (s \o t)[i] = t[i - Len(s)] /\ i - Len(s) \in 1..Len(t)
    BY <1>1, <1>4, ConcatProperties
  <2> QED
    BY <2>1 DEF Without
<1> QED
  BY <1>1, <1>3, <1>4

\* A part of a text has no word that the whole has not.
LEMMA WithoutSplit ==
  ASSUME NEW w, NEW s \in Seq(Fragments), Without(s, w), NEW n \in 1..Len(s)
  PROVE  Without(SubSeq(s, 1, n), w) /\ Without(SubSeq(s, n + 1, Len(s)), w)
<1>1. Len(s) \in Nat /\ n \in Nat
  BY LenProperties
<1>2. /\ Len(SubSeq(s, 1, n)) = n
      /\ \A i \in 1..n : SubSeq(s, 1, n)[i] = s[i]
  BY <1>1
<1>3. /\ Len(SubSeq(s, n + 1, Len(s))) = Len(s) - n
      /\ \A i \in 1..(Len(s) - n) : SubSeq(s, n + 1, Len(s))[i] = s[n + i]
  BY <1>1
<1>4. Without(SubSeq(s, 1, n), w)
  BY <1>1, <1>2 DEF Without
<1>5. Without(SubSeq(s, n + 1, Len(s)), w)
  <2>1. \A i \in 1..(Len(s) - n) : n + i \in 1..Len(s)
    BY <1>1
  <2> QED
    BY <1>1, <1>3, <2>1 DEF Without
<1> QED
  BY <1>4, <1>5

\* A reply is one word and holds no other.
LEMMA WithoutReply ==
  ASSUME NEW w, NEW word \in Words \ {w}
  PROVE  Without(ReplyText(word), w)
BY DEF Without, ReplyText

\* A text without the word does not start with it.
LEMMA StartsWithout ==
  ASSUME NEW w, NEW text \in Seq(Fragments), Without(text, w)
  PROVE  ~StartsWith(text, w)
<1>1. SUFFICES ASSUME StartsWith(text, w) PROVE FALSE
  OBVIOUS
<1>2. Len(text) \in Nat /\ Len(text) >= 2
  BY <1>1, LenProperties DEF StartsWith
<1>3. \A n \in 1..Len(text) : SubSeq(text, 1, n)[1] = text[1]
  BY <1>2
<1>4. SubSeq(text, 1, 2)[1] = text[1]
  BY <1>2, <1>3
<1>5. SubSeq(text, 1, 2) = ReplyText(w)
  BY <1>1 DEF StartsWith
<1>6. ReplyText(w)[1].word = w
  BY DEF ReplyText
<1>7. text[1].word = w
  BY <1>4, <1>5, <1>6, Zenon
<1> QED
  BY <1>2, <1>7 DEF Without

\* resolve_decision reads accepted out of no text without an ACCEPT.
LEMMA ResolvesWithout ==
  ASSUME NEW text \in Seq(Fragments), Without(text, "ACCEPT")
  PROVE  Resolved(text) # "accepted"
BY StartsWithout DEF Resolved

\* What StreamSend sends is the only word that appears on the wire.
LEMMA SendsWithout ==
  ASSUME QuicTypeOK, NEW w, NEW c, NEW word \in Words \ {w}, NEW fin \in BOOLEAN,
         ServerSends(c, word, fin) \/ UNCHANGED <<s2cVars, sSends>>,
         \A d \in Clients : Without(s2c[d], w)
  PROVE  \A d \in Clients : Without(s2c'[d], w)
<1>1. CASE UNCHANGED <<s2cVars, sSends>>
  BY <1>1 DEF s2cVars
<1>2. CASE ServerSends(c, word, fin)
  <2>1. SUFFICES ASSUME NEW d \in Clients PROVE Without(s2c'[d], w)
    OBVIOUS
  <2>2. CASE d = c
    <3>1. s2c'[d] = s2c[d] \o ReplyText(word)
      BY <1>2, <2>2 DEF ServerSends, QuicTypeOK
    <3>2. Without(s2c[d] \o ReplyText(word), w)
      BY WithoutReply, WithoutConcat, ReplyType DEF QuicTypeOK
    <3> QED
      BY <3>1, <3>2
  <2>3. CASE d # c
    BY <1>2, <2>3 DEF ServerSends, QuicTypeOK
  <2> QED
    BY <2>2, <2>3
<1> QED
  BY <1>1, <1>2

-----------------------------------------------------------------------------
(* Steps of the receiving thread.                                          *)

\* A thread step moves from one label to another, leaves the senders and the
\* bytes under way to the server alone, and stores nothing before an approval.
LEMMA ThreadStepKeeps ==
  ASSUME ApprovalInv, UNCHANGED <<clientVars, c2s>>,
         rpc' \in Arming => rpc \in Arming,
         rpc' \in Arming \cup {"offer_wait", "prompt"} =>
           rpc \in Arming \cup {"offer_wait", "prompt"} /\ answer' = answer,
         rpc' \in Accepting => answer' = "accept",
         answer' # "accept" =>
           /\ answer # "accept"
           /\ rx'.accepted => rx.accepted
           /\ disk' = disk
           /\ \A c \in Clients : Without(s2c[c], "ACCEPT") => Without(s2c'[c], "ACCEPT")
  PROVE  ApprovalInv'
<1>1. QuietWhileArming'
  BY DEF ApprovalInv, QuietWhileArming, clientVars
<1>2. AnswerInv'
  BY DEF ApprovalInv, AnswerInv
<1>3. UnapprovedInv'
  BY DEF ApprovalInv, UnapprovedInv, NothingStored, NoAccept, clientVars, decisionVars
<1> QED
  BY <1>1, <1>2, <1>3 DEF ApprovalInv

\* A step that sends nothing, and opens no file.
LEMMA PlainThreadStepKeeps ==
  ASSUME ApprovalInv, UNCHANGED <<clientVars, c2s, s2c, disk, answer>>,
         rpc' \in Arming => rpc \in Arming,
         rpc' \in Arming \cup {"offer_wait", "prompt"} =>
           rpc \in Arming \cup {"offer_wait", "prompt"},
         rpc' \notin Accepting,
         rx'.accepted => rx.accepted
  PROVE  ApprovalInv'
BY ThreadStepKeeps

\* The server thread that sends REJECT puts no ACCEPT on any stream.
LEMMA RejectStepKeeps ==
  ASSUME QuicTypeOK, ApprovalInv, SendReject, answer # "accept"
  PROVE  \A c \in Clients : Without(s2c'[c], "ACCEPT")
<1>1. \A c \in Clients : Without(s2c[c], "ACCEPT")
  BY DEF ApprovalInv, UnapprovedInv, NoAccept
<1>2. ServerSends(file_stream, "REJECT", TRUE) \/ UNCHANGED <<s2cVars, sSends>>
  BY DEF SendReject
<1>3. "REJECT" \in Words \ {"ACCEPT"}
  BY DEF Words
<1> QED
  BY <1>1, <1>2, <1>3, SendsWithout

\* No step of the thread in receive_file, stop or the drain breaks the approval.
LEMMA ServerThreadKeeps ==
  ASSUME IInv, ApprovalInv, Prompt, ServerThreadStep
  PROVE  ApprovalInv'
<1>t. QuicTypeOK /\ ServerTypeOK /\ rx \in RxState /\ UNCHANGED clientVars
  BY DEF IInv, TypeOK, ServerTypeOK, ServerThreadStep
<1>1. CASE ArmReceiving
  BY <1>1, <1>t, PlainThreadStepKeeps
     DEF ArmReceiving, Arming, Accepting, quicVars, c2sVars, s2cVars
<1>2. CASE ArmPath
  <2>1. rx'.accepted = rx.accepted
    BY <1>2, <1>t DEF ArmPath, RxState
  <2> QED
    BY <1>2, <1>t, <2>1, PlainThreadStepKeeps
       DEF ArmPath, Arming, Accepting, quicVars, c2sVars, s2cVars
<1>3. CASE ArmOffer
  BY <1>3, <1>t, PlainThreadStepKeeps
     DEF ArmOffer, Arming, Accepting, quicVars, c2sVars, s2cVars
<1>4. CASE ArmReset
  <2>1. ~rx'.accepted
    BY <1>4 DEF ArmReset, FreshRx
  <2> QED
    BY <1>4, <1>t, <2>1, PlainThreadStepKeeps
       DEF ArmReset, Arming, Accepting, quicVars, c2sVars, s2cVars
<1>5. CASE OfferArrived
  BY <1>5, <1>t, PlainThreadStepKeeps
     DEF OfferArrived, Arming, Accepting, quicVars, c2sVars, s2cVars
<1>6. CASE OfferFailed
  BY <1>6, <1>t, PlainThreadStepKeeps
     DEF OfferFailed, Return, Arming, Accepting, quicVars, c2sVars, s2cVars
<1>7. CASE OfferTimeout
  BY <1>7, <1>t, PlainThreadStepKeeps
     DEF OfferTimeout, Return, Arming, Accepting, quicVars, c2sVars, s2cVars
<1>8. CASE PromptReject
  <2>1. answer = "none"
    BY <1>8 DEF PromptReject, ApprovalInv, AnswerInv
  <2>2. \A c \in Clients : Without(s2c'[c], "ACCEPT")
    BY <1>8, <1>t, <2>1, RejectStepKeeps DEF PromptReject
  <2> QED
    BY <1>8, <1>t, <2>1, <2>2, ThreadStepKeeps DEF PromptReject, Arming, Accepting, c2sVars
<1>9. CASE PromptAccept
  BY <1>9, <1>t, ThreadStepKeeps DEF PromptAccept, Arming, Accepting, c2sVars
<1>10. CASE SendAccept
  <2>1. answer = "accept" /\ answer' = "accept"
    BY <1>10 DEF SendAccept, ApprovalInv, AnswerInv, Accepting
  <2> QED
    BY <1>10, <1>t, <2>1, ThreadStepKeeps DEF SendAccept, Arming, Accepting, c2sVars
<1>11. CASE TransferFinished
  BY <1>11, <1>t, PlainThreadStepKeeps
     DEF TransferFinished, Arming, Accepting, quicVars, c2sVars, s2cVars
<1>12. CASE TransferFailed
  <2>1. rx'.accepted = rx.accepted
    BY <1>12, <1>t DEF TransferFailed, CloseFile, RxState
  <2> QED
    BY <1>12, <1>t, <2>1, PlainThreadStepKeeps
       DEF TransferFailed, Return, Arming, Accepting, quicVars, c2sVars, s2cVars
<1>13. CASE DrainAfterReject
  BY <1>13, <1>t, PlainThreadStepKeeps
     DEF DrainAfterReject, Return, Arming, Accepting, quicVars, c2sVars, s2cVars
<1>14. CASE DrainAfterTransfer
  BY <1>14, <1>t, PlainThreadStepKeeps
     DEF DrainAfterTransfer, Return, Arming, Accepting, quicVars, c2sVars, s2cVars
<1>15. CASE Stop
  BY <1>15, <1>t, PlainThreadStepKeeps DEF Stop, Arming, Accepting, c2sVars, s2cVars
<1>16. CASE StopReturns
  BY <1>16, <1>t, PlainThreadStepKeeps
     DEF StopReturns, Arming, Accepting, quicVars, c2sVars, s2cVars
<1>17. CASE MarkAccepted
  <2>1. answer = "accept" /\ answer' = "accept"
    BY <1>17 DEF MarkAccepted, ApprovalInv, AnswerInv, Accepting
  <2> QED
    BY <1>17, <1>t, <2>1, ThreadStepKeeps DEF MarkAccepted, Arming, Accepting, quicVars, c2sVars
<1> QED
  BY <1>1, <1>2, <1>3, <1>4, <1>5, <1>6, <1>7, <1>8, <1>9, <1>10, <1>11, <1>12, <1>13,
     <1>14, <1>15, <1>16, <1>17 DEF ServerThreadStep, ServerThread

-----------------------------------------------------------------------------
(* Callbacks of the server.                                                *)

\* What a server callback may do without breaking the approval: write nothing and
\* send no ACCEPT that was not approved.
LEMMA CallbackKeeps ==
  ASSUME ApprovalInv, UNCHANGED <<clientVars, flowVars>>,
         \A c \in Clients : c2s[c] = <<>> => c2s'[c] = <<>>,
         answer # "accept" =>
           /\ rx'.accepted => rx.accepted
           /\ disk' = disk
           /\ \A c \in Clients : Without(s2c[c], "ACCEPT") => Without(s2c'[c], "ACCEPT")
  PROVE  ApprovalInv'
<1>1. QuietWhileArming'
  BY DEF ApprovalInv, QuietWhileArming, clientVars, flowVars
<1>2. AnswerInv'
  BY DEF ApprovalInv, AnswerInv, flowVars
<1>3. UnapprovedInv'
  BY DEF ApprovalInv, UnapprovedInv, NothingStored, NoAccept, clientVars, decisionVars, flowVars
<1> QED
  BY <1>1, <1>2, <1>3 DEF ApprovalInv

\* A receive event, unapproved: there are no bytes while arming, so the header is
\* offered to the prompt and body bytes are dropped.
LEMMA AppendKeeps ==
  ASSUME IInv, ApprovalInv, Prompt, rpc \notin Arming, answer # "accept",
         NEW c \in Clients, NEW data \in Seq(Units), append_file_bytes(c, data)
  PROVE  (rx'.accepted => rx.accepted) /\ disk' = disk /\ UNCHANGED s2c
<1>t. rx \in RxState /\ ~rx.accepted
  BY DEF IInv, TypeOK, ServerTypeOK, ApprovalInv, UnapprovedInv, NothingStored
<1>1. CASE rx.header_parsed
  BY <1>1, <1>t DEF append_file_bytes, BodyBytes, s2cVars
<1>2. CASE ~rx.header_parsed
  <2> DEFINE buffer == rx.buffer \o data
  <2>1. OfferRegistered
    BY DEF OfferRegistered, Arming
  <2>2. HeaderIncomplete(c, buffer) \/ HeaderOffered(c, buffer)
    BY <1>2, <2>1 DEF append_file_bytes, HeaderAutoAccepted
  <2> HIDE DEF buffer
  <2>3. CASE HeaderIncomplete(c, buffer)
    BY <1>t, <2>3 DEF HeaderIncomplete, RxState, s2cVars
  <2>4. CASE HeaderOffered(c, buffer)
    BY <1>t, <2>4 DEF HeaderOffered, ParsedRx, RxState, s2cVars
  <2> QED
    BY <2>2, <2>3, <2>4
<1> QED
  BY <1>1, <1>2

\* The callbacks of the server keep to that, in a build that prompts.
LEMMA ServerCallbackKeeps ==
  ASSUME IInv, ApprovalInv, Prompt, NEW c \in Clients, ServerCallbackStep(c)
  PROVE  ApprovalInv'
<1>t. QuicTypeOK /\ ServerTypeOK /\ rx \in RxState /\ UNCHANGED clientVars
  BY DEF IInv, TypeOK, ServerTypeOK, ServerCallbackStep
<1>1. CASE on_new_connection(c)
  BY <1>1, <1>t, CallbackKeeps DEF on_new_connection, serverVars, c2sVars, s2cVars
<1>2. CASE on_connected(c)
  BY <1>2, <1>t, CallbackKeeps DEF on_connected, c2sVars, s2cVars
<1>3. CASE on_connection_shutdown_complete(c)
  BY <1>3, <1>t, CallbackKeeps DEF on_connection_shutdown_complete, c2sVars, s2cVars
<1>4. CASE on_peer_stream_started(c)
  <2>1. ~rx'.accepted
    BY <1>4 DEF on_peer_stream_started, FreshRx
  <2> QED
    BY <1>4, <1>t, <2>1, CallbackKeeps DEF on_peer_stream_started, c2sVars, s2cVars
<1>5. CASE on_receive(c)
  <2>1. PICK n \in 1..Len(c2s[c]) :
          /\ c2s' = [c2s EXCEPT ![c] = SubSeq(@, n + 1, Len(@))]
          /\ IF receiving_file
             THEN append_file_bytes(c, SubSeq(c2s[c], 1, n))
             ELSE UNCHANGED <<waitVars, file_header, rx, file_result, disk, s2cVars, sSends>>
    BY <1>5 DEF on_receive
  <2>2. c2s[c] \in Seq(Units)
    BY <1>t DEF QuicTypeOK
  <2>3. c2s[c] # <<>>
    BY <2>1, <2>2
  <2>4. rpc \notin Arming
    BY <2>3 DEF ApprovalInv, QuietWhileArming
  <2>5. SubSeq(c2s[c], 1, n) \in Seq(Units)
    BY <2>1, <2>2, SplitType
  <2>6. answer # "accept" => (rx'.accepted => rx.accepted) /\ disk' = disk /\ s2c' = s2c
    BY <2>1, <2>4, <2>5, AppendKeeps DEF s2cVars
  <2>7. \A d \in Clients : c2s[d] = <<>> => c2s'[d] = <<>>
    BY <1>t, <2>1, <2>3 DEF QuicTypeOK
  <2>8. UNCHANGED flowVars
    BY <1>5 DEF on_receive
  <2> QED
    BY <1>t, <2>6, <2>7, <2>8, CallbackKeeps
<1>6. CASE on_peer_send_shutdown(c)
  <2>1. UNCHANGED <<flowVars, disk, c2s>>
    BY <1>6 DEF on_peer_send_shutdown
  <2>2. CASE receiving_file /\ (rx.accepted \/ rx.io_error)
    <3>1. finish_file_receive(c)
      BY <1>6, <2>2 DEF on_peer_send_shutdown
    <3>2. rx'.accepted = rx.accepted
      BY <1>t, <3>1 DEF finish_file_receive, CloseFile, RxState
    <3>3. PICK word \in Words \ {"ACCEPT"} :
            ServerSends(c, word, TRUE) \/ UNCHANGED <<s2cVars, sSends>>
      BY <3>1 DEF finish_file_receive, Words
    <3>4. answer # "accept" => \A d \in Clients : Without(s2c'[d], "ACCEPT")
      <4>1. answer # "accept" => \A d \in Clients : Without(s2c[d], "ACCEPT")
        BY DEF ApprovalInv, UnapprovedInv, NoAccept
      <4> QED
        BY <1>t, <3>3, <4>1, SendsWithout
    <3> QED
      BY <1>t, <2>1, <3>2, <3>4, CallbackKeeps
  <2>3. CASE ~(receiving_file /\ (rx.accepted \/ rx.io_error))
    BY <1>6, <1>t, <2>1, <2>3, CallbackKeeps DEF on_peer_send_shutdown, s2cVars
  <2> QED
    BY <2>2, <2>3
<1>7. CASE on_send_complete(c)
  BY <1>7, <1>t, CallbackKeeps DEF on_send_complete, c2sVars, s2cVars
<1>8. CASE on_peer_aborted(c)
  <2>1. rx'.accepted = rx.accepted
    BY <1>8, <1>t DEF on_peer_aborted, CloseFile, RxState
  <2>2. \A d \in Clients : c2s[d] = <<>> => c2s'[d] = <<>>
    BY <1>8, <1>t DEF on_peer_aborted, QuicTypeOK
  <2> QED
    BY <1>8, <1>t, <2>1, <2>2, CallbackKeeps DEF on_peer_aborted, s2cVars
<1>9. CASE on_stream_shutdown_complete(c)
  BY <1>9, <1>t, CallbackKeeps DEF on_stream_shutdown_complete, serverVars, c2sVars, s2cVars
<1>10. CASE EnterFileMutex(c)
  <2>1. rx'.accepted = rx.accepted
    BY <1>10, <1>t DEF EnterFileMutex, RxState
  <2> QED
    BY <1>10, <1>t, <2>1, CallbackKeeps DEF EnterFileMutex, quicVars, c2sVars, s2cVars
<1> QED
  BY <1>1, <1>2, <1>3, <1>4, <1>5, <1>6, <1>7, <1>8, <1>9, <1>10
     DEF ServerCallbackStep, ServerCallback

-----------------------------------------------------------------------------
(* Steps of the senders.                                                   *)

\* A sender's step leaves the receiver alone; while receive_file is being armed
\* it sends nothing, and without an ACCEPT it does not move on to the body.
LEMMA SenderKeeps ==
  ASSUME ApprovalInv, UNCHANGED serverVars,
         rpc \in Arming => \A c \in Clients : c2s'[c] = <<>> /\ cpc'[c] \in IdleStates,
         answer # "accept" => \A c \in Clients : NoAccept(c)'
  PROVE  ApprovalInv'
<1>u. UNCHANGED <<rpc, answer, rx, disk>>
  BY DEF serverVars, flowVars
<1>1. QuietWhileArming'
  BY <1>u DEF QuietWhileArming
<1>2. AnswerInv'
  BY <1>u DEF ApprovalInv, AnswerInv
<1>3. UnapprovedInv'
  BY <1>u DEF ApprovalInv, UnapprovedInv, NothingStored
<1> QED
  BY <1>1, <1>2, <1>3 DEF ApprovalInv

\* The thread of c moves to a label outside the body.
LEMMA SenderThreadKeeps ==
  ASSUME IInv, ApprovalInv, UNCHANGED <<serverVars, s2c>>, NEW c \in Clients,
         NEW label \in CpcStates \ BodyStates, Goto(c, label),
         rpc \in Arming => label \in IdleStates /\ UNCHANGED c2s,
         \/ UNCHANGED decisionVars
         \/ /\ decision' = [decision EXCEPT ![c] = "none"]
            /\ decision_buf' = [decision_buf EXCEPT ![c] = <<>>]
  PROVE  ApprovalInv'
<1>t. /\ cpc \in [Clients -> CpcStates] /\ decision_buf \in [Clients -> Seq(Fragments)]
      /\ decision \in [Clients -> {"none", "accepted", "rejected"}]
  BY DEF IInv, TypeOK, ClientTypeOK
<1>1. rpc \in Arming => \A d \in Clients : c2s'[d] = <<>> /\ cpc'[d] \in IdleStates
  BY <1>t DEF ApprovalInv, QuietWhileArming, Goto
<1>2. ASSUME answer # "accept", NEW d \in Clients PROVE NoAccept(d)'
  <2>1. NoAccept(d)
    BY <1>2 DEF ApprovalInv, UnapprovedInv
  <2>2. cpc'[d] \notin BodyStates
    BY <1>t, <2>1 DEF Goto, NoAccept
  <2>3. Without(s2c'[d], "ACCEPT")
    BY <2>1 DEF NoAccept
  <2>4. Without(decision_buf'[d], "ACCEPT") /\ decision'[d] # "accepted"
    <3>1. Without(<<>>, "ACCEPT")
      BY DEF Without
    <3>2. CASE UNCHANGED decisionVars
      BY <2>1, <3>2 DEF NoAccept, decisionVars
    <3>3. CASE /\ decision' = [decision EXCEPT ![c] = "none"]
               /\ decision_buf' = [decision_buf EXCEPT ![c] = <<>>]
      BY <1>t, <2>1, <3>1, <3>3 DEF NoAccept
    <3> QED
      BY <3>2, <3>3
  <2> QED
    BY <2>2, <2>3, <2>4 DEF NoAccept
<1> QED
  BY <1>1, <1>2, SenderKeeps

\* A step of the body is not possible before an approval, nor while arming.
LEMMA BodyStepKeeps ==
  ASSUME ApprovalInv, UNCHANGED serverVars, NEW c \in Clients,
         cpc[c] \in BodyStates \/ (cpc[c] = "decision_wait" /\ decision[c] = "accepted")
  PROVE  ApprovalInv'
<1>1. answer = "accept"
  BY DEF ApprovalInv, UnapprovedInv, NoAccept
<1>2. rpc \notin Arming
  BY <1>1 DEF ApprovalInv, AnswerInv
<1> QED
  BY <1>1, <1>2, SenderKeeps

\* A sending thread sends no body before it was told ACCEPT.
LEMMA ClientThreadKeeps ==
  ASSUME IInv, ApprovalInv, ~EarlySenders, NEW c \in Clients, ClientThreadStep(c)
  PROVE  ApprovalInv'
<1>s. UNCHANGED serverVars
  BY DEF ClientThreadStep
<1>i. rpc \in Arming => cpc[c] \in IdleStates \ {"ready"}
  BY DEF ClientThreadStep, Armed, ApprovalInv, QuietWhileArming
<1>l. /\ {"connecting", "ready", "header_wait", "decision_wait", "raw_wait", "raw_ack_wait",
          "disconnect", "shutdown_wait", "done"} \subseteq CpcStates \ BodyStates
      /\ {"connecting", "ready", "disconnect", "shutdown_wait", "done"} \subseteq IdleStates
  BY DEF CpcStates, BodyStates, IdleStates
<1>1. CASE Connect(c)
  BY <1>1, <1>s, <1>l, SenderThreadKeeps DEF Connect, c2sVars, s2cVars
<1>2. CASE ConnectReturns(c)
  BY <1>2, <1>s, <1>l, SenderThreadKeeps
     DEF ConnectReturns, Finish, quicVars, c2sVars, s2cVars
<1>3. CASE SendHeader(c)
  <2>1. rpc \notin Arming
    BY <1>3, <1>i DEF SendHeader
  <2>2. Goto(c, "header_wait") \/ Goto(c, "disconnect")
    BY <1>3 DEF SendHeader, FirstSend, Finish
  <2>3. /\ UNCHANGED s2c
        /\ decision' = [decision EXCEPT ![c] = "none"]
        /\ decision_buf' = [decision_buf EXCEPT ![c] = <<>>]
    BY <1>3 DEF SendHeader, s2cVars
  <2> QED
    BY <1>s, <1>l, <2>1, <2>2, <2>3, SenderThreadKeeps
<1>4. CASE SendWithoutConnection(c)
  BY <1>4, <1>s, <1>l, SenderThreadKeeps
     DEF SendWithoutConnection, Finish, quicVars, c2sVars, s2cVars
<1>5. CASE HeaderSent(c)
  BY <1>5, <1>s, <1>i, <1>l, SenderThreadKeeps
     DEF HeaderSent, IdleStates, quicVars, c2sVars, s2cVars
<1>6. CASE DecisionAccepted(c)
  BY <1>6, <1>s, BodyStepKeeps DEF DecisionAccepted
<1>7. CASE DecisionRejected(c)
  BY <1>7, <1>s, <1>l, SenderThreadKeeps DEF DecisionRejected, Finish, s2cVars
<1>8. CASE WaitExpires(c)
  BY <1>8, <1>s, <1>l, SenderThreadKeeps DEF WaitExpires, Finish, s2cVars
<1>9. CASE SendChunk(c)
  BY <1>9, <1>s, BodyStepKeeps DEF SendChunk, BodyStates
<1>10. CASE FileShrank(c)
  BY <1>10, <1>s, BodyStepKeeps DEF FileShrank, BodyStates
<1>11. CASE ChunkSent(c)
  BY <1>11, <1>s, BodyStepKeeps DEF ChunkSent, BodyStates
<1>12. CASE SendReturns(c)
  BY <1>12, <1>s, BodyStepKeeps DEF SendReturns, BodyStates
<1>13. CASE SendRaw(c)
  <2>1. rpc \notin Arming
    BY <1>13, <1>i DEF SendRaw
  <2>2. Goto(c, "raw_wait") \/ Goto(c, "disconnect")
    BY <1>13 DEF SendRaw, FirstSend, Finish
  <2>3. UNCHANGED <<s2c, decisionVars>>
    BY <1>13 DEF SendRaw, s2cVars
  <2> QED
    BY <1>s, <1>l, <2>1, <2>2, <2>3, SenderThreadKeeps
<1>14. CASE RawReturns(c)
  <2>1. rpc \notin Arming
    BY <1>14, <1>i DEF RawReturns, IdleStates
  <2>2. Goto(c, "raw_ack_wait") \/ Goto(c, "disconnect")
    BY <1>14 DEF RawReturns, Finish
  <2>3. UNCHANGED <<s2c, decisionVars>>
    BY <1>14 DEF RawReturns, quicVars, s2cVars
  <2> QED
    BY <1>s, <1>l, <2>1, <2>2, <2>3, SenderThreadKeeps
<1>15. CASE Disconnect(c)
  BY <1>15, <1>s, <1>l, SenderThreadKeeps DEF Disconnect, c2sVars, s2cVars
<1>16. CASE DisconnectReturns(c)
  BY <1>16, <1>s, <1>l, SenderThreadKeeps DEF DisconnectReturns, quicVars, c2sVars, s2cVars
<1> QED
  BY <1>1, <1>2, <1>3, <1>4, <1>5, <1>6, <1>7, <1>8, <1>9, <1>10, <1>11, <1>12, <1>13,
     <1>14, <1>15, <1>16 DEF ClientThreadStep, ClientThread

\* A callback moves no thread and sends nothing.
LEMMA SenderCallbackKeeps ==
  ASSUME ApprovalInv, UNCHANGED <<serverVars, cpc, c2s>>,
         answer # "accept" =>
           \A d \in Clients : /\ Without(s2c'[d], "ACCEPT") /\ Without(decision_buf'[d], "ACCEPT")
                              /\ decision'[d] # "accepted"
  PROVE  ApprovalInv'
<1>1. rpc \in Arming => \A d \in Clients : c2s'[d] = <<>> /\ cpc'[d] \in IdleStates
  BY DEF ApprovalInv, QuietWhileArming
<1>2. answer # "accept" => \A d \in Clients : NoAccept(d)'
  BY DEF ApprovalInv, UnapprovedInv, NoAccept
<1> QED
  BY <1>1, <1>2, SenderKeeps

\* A receive event moves text from the wire to a buffer; without an ACCEPT in
\* either it decides nothing in the sender's favour.
LEMMA OnReceiveKeeps ==
  ASSUME IInv, NEW c \in Clients, OnReceive(c), NEW d \in Clients, NoAccept(c), NoAccept(d)
  PROVE  /\ Without(s2c'[d], "ACCEPT") /\ Without(decision_buf'[d], "ACCEPT")
         /\ decision'[d] # "accepted"
<1>t. /\ s2c \in [Clients -> Seq(Fragments)] /\ decision_buf \in [Clients -> Seq(Fragments)]
      /\ decision \in [Clients -> {"none", "accepted", "rejected"}]
  BY DEF IInv, TypeOK, QuicTypeOK, ClientTypeOK
<1>f. \A e \in {c, d} :
        Without(s2c[e], "ACCEPT") /\ Without(decision_buf[e], "ACCEPT") /\ decision[e] # "accepted"
  BY DEF NoAccept
<1>1. PICK n \in 1..Len(s2c[c]) :
        LET text == decision_buf[c] \o SubSeq(s2c[c], 1, n)
            now  == awaiting_decision[c] /\ ReplyComplete(text)
        IN /\ s2c' = [s2c EXCEPT ![c] = SubSeq(@, n + 1, Len(@))]
           /\ IF awaiting_decision[c]
              THEN /\ decision_buf' = [decision_buf EXCEPT ![c] = text]
                   /\ UNCHANGED file_ack
              ELSE /\ file_ack' = [file_ack EXCEPT ![c] = @ \o SubSeq(s2c[c], 1, n)]
                   /\ UNCHANGED decision_buf
           /\ awaiting_decision' = [awaiting_decision EXCEPT ![c] = @ /\ ~now]
           /\ decision' = [decision EXCEPT ![c] = IF now THEN Resolved(text) ELSE @]
  BY DEF OnReceive
<1> DEFINE first == SubSeq(s2c[c], 1, n)
           rest  == SubSeq(s2c[c], n + 1, Len(s2c[c]))
           text  == decision_buf[c] \o first
<1>2. first \in Seq(Fragments) /\ Without(first, "ACCEPT") /\ Without(rest, "ACCEPT")
  BY <1>t, <1>f, SplitType, WithoutSplit
<1> HIDE DEF first, rest
<1>3. text \in Seq(Fragments) /\ Without(text, "ACCEPT")
  BY <1>t, <1>f, <1>2, WithoutConcat, ConcatProperties
<1> HIDE DEF text
<1>4. Resolved(text) # "accepted"
  BY <1>3, ResolvesWithout
<1>5. /\ s2c' = [s2c EXCEPT ![c] = rest]
      /\ decision_buf' = [decision_buf EXCEPT ![c] = text] \/ UNCHANGED decision_buf
      /\ \/ decision' = [decision EXCEPT ![c] = Resolved(text)]
         \/ decision' = [decision EXCEPT ![c] = @]
  BY <1>1 DEF first, rest, text
<1>6. Without(s2c'[d], "ACCEPT")
  BY <1>t, <1>f, <1>2, <1>5
<1>7. Without(decision_buf'[d], "ACCEPT")
  BY <1>t, <1>f, <1>3, <1>5
<1>8. decision'[d] # "accepted"
  BY <1>t, <1>f, <1>4, <1>5
<1> QED
  BY <1>6, <1>7, <1>8

\* A client callback takes an ACCEPT only from the stream.
LEMMA ClientCallbackKeeps ==
  ASSUME IInv, ApprovalInv, NEW c \in Clients, ClientCallbackStep(c)
  PROVE  ApprovalInv'
<1>s. UNCHANGED serverVars
  BY DEF ClientCallbackStep
<1>f. answer # "accept" =>
        \A d \in Clients : /\ Without(s2c[d], "ACCEPT") /\ Without(decision_buf[d], "ACCEPT")
                           /\ decision[d] # "accepted"
  BY DEF ApprovalInv, UnapprovedInv, NoAccept
<1>1. CASE OnConnected(c)
  BY <1>1, <1>s, <1>f, SenderCallbackKeeps DEF OnConnected, decisionVars, c2sVars, s2cVars
<1>2. CASE OnShutdownInitiated(c)
  BY <1>2, <1>s, <1>f, SenderCallbackKeeps
     DEF OnShutdownInitiated, decisionVars, c2sVars, s2cVars
<1>3. CASE OnConnectionShutdownComplete(c)
  BY <1>3, <1>s, <1>f, SenderCallbackKeeps
     DEF OnConnectionShutdownComplete, decisionVars, c2sVars, s2cVars
<1>4. CASE OnReceive(c)
  <2>1. UNCHANGED <<cpc, c2s>>
    BY <1>4 DEF OnReceive, c2sVars
  <2>2. answer # "accept" => \A d \in Clients : NoAccept(d)
    BY DEF ApprovalInv, UnapprovedInv
  <2> QED
    BY <1>4, <1>s, <2>1, <2>2, OnReceiveKeeps, SenderCallbackKeeps
<1>5. CASE OnPeerSendShutdown(c)
  <2>1. UNCHANGED <<cpc, c2s, s2c, decision_buf>>
    BY <1>5 DEF OnPeerSendShutdown, c2sVars
  <2>2. answer # "accept" => \A d \in Clients : decision'[d] # "accepted"
    <3>1. /\ decision_buf \in [Clients -> Seq(Fragments)]
          /\ decision \in [Clients -> {"none", "accepted", "rejected"}]
      BY DEF IInv, TypeOK, ClientTypeOK
    <3>2. \/ decision' = [decision EXCEPT ![c] = Resolved(decision_buf[c])]
          \/ UNCHANGED decision
      BY <1>5 DEF OnPeerSendShutdown
    <3>3. answer # "accept" => Resolved(decision_buf[c]) # "accepted"
      BY <1>f, <3>1, ResolvesWithout
    <3> QED
      BY <1>f, <3>1, <3>2, <3>3
  <2> QED
    BY <1>s, <1>f, <2>1, <2>2, SenderCallbackKeeps
<1>6. CASE OnSendComplete(c)
  BY <1>6, <1>s, <1>f, SenderCallbackKeeps DEF OnSendComplete, decisionVars, c2sVars, s2cVars
<1>7. CASE OnStreamShutdownComplete(c)
  BY <1>7, <1>s, <1>f, SenderCallbackKeeps
     DEF OnStreamShutdownComplete, clientVars, decisionVars, c2sVars, s2cVars
<1> QED
  BY <1>1, <1>2, <1>3, <1>4, <1>5, <1>6, <1>7 DEF ClientCallbackStep, ClientCallback

-----------------------------------------------------------------------------
\* Before anything was offered nothing is approved or written.
LEMMA InitApproval == Init => ApprovalInv
<1> SUFFICES ASSUME Init PROVE ApprovalInv
  OBVIOUS
<1>1. QuietWhileArming
  BY DEF Init, QuicInit, ClientInit, QuietWhileArming, IdleStates
<1>2. AnswerInv
  BY DEF Init, ServerInit, AnswerInv, Accepting
<1>3. UnapprovedInv
  BY DEF Init, QuicInit, ServerInit, ClientInit, UnapprovedInv, NothingStored, NoAccept,
         FreshRx, Without, BodyStates
<1> QED
  BY <1>1, <1>2, <1>3 DEF ApprovalInv

\* Every step keeps the approval, whoever takes it.
LEMMA StepApproval ==
  ASSUME Prompt, ~EarlySenders, IInv, ApprovalInv, [Next]_vars
  PROVE  ApprovalInv'
<1>f. answer # "accept" => \A d \in Clients : NoAccept(d)
  BY DEF ApprovalInv, UnapprovedInv
<1>q. rpc \in Arming => \A d \in Clients : c2s[d] = <<>> /\ cpc[d] \in IdleStates
  BY DEF ApprovalInv, QuietWhileArming
<1>n. UNCHANGED <<serverVars, c2s, s2c, cpc, decisionVars>> => ApprovalInv'
  <2> SUFFICES ASSUME UNCHANGED <<serverVars, c2s, s2c, cpc, decisionVars>>
               PROVE  ApprovalInv'
    OBVIOUS
  <2>1. answer # "accept" => \A d \in Clients : NoAccept(d)'
    BY <1>f DEF NoAccept, decisionVars
  <2> QED
    BY <1>q, <2>1, SenderKeeps
<1>1. CASE ServerThreadStep
  BY <1>1, ServerThreadKeeps
<1>2. ASSUME NEW c \in Clients, ServerCallbackStep(c) PROVE ApprovalInv'
  BY <1>2, ServerCallbackKeeps
<1>3. ASSUME NEW c \in Clients, ServerTransportStep(c) PROVE ApprovalInv'
  BY <1>3, <1>n DEF ServerTransportStep, ServerLearnsClose, clientVars, c2sVars, s2cVars
<1>4. ASSUME NEW c \in Clients, ClientThreadStep(c) PROVE ApprovalInv'
  BY <1>4, ClientThreadKeeps
<1>5. ASSUME NEW c \in Clients, ClientCallbackStep(c) PROVE ApprovalInv'
  BY <1>5, ClientCallbackKeeps
<1>6. ASSUME NEW c \in Clients, LinkDownStep(c) PROVE ApprovalInv'
  BY <1>6, <1>n DEF LinkDownStep, LinkDown, clientVars, c2sVars, s2cVars
<1>7. ASSUME NEW c \in Clients, EditStep(c) PROVE ApprovalInv'
  BY <1>7, <1>n DEF EditStep, EditSource, quicVars, c2sVars, s2cVars
<1>8. CASE UNCHANGED vars
  BY <1>8, <1>n DEF vars, quicVars, clientVars, c2sVars, s2cVars
<1> QED
  BY <1>1, <1>2, <1>3, <1>4, <1>5, <1>6, <1>7, <1>8 DEF Next, Finished

\* The approval holds in every state of every run.
LEMMA ApprovalHolds ==
  ASSUME Prompt, ~EarlySenders PROVE Spec => []ApprovalInv
<1>1. IInv /\ ApprovalInv /\ [Next]_vars => ApprovalInv'
  BY StepApproval
<1> QED
  BY <1>1, InitApproval, IInvHolds, PTL DEF Spec

\* With a prompt and senders that wait for on_armed, nobody streams its body
\* (quic_client.cpp, 490-537) before on_offer has returned true, however many
\* senders there are and whatever fails.
THEOREM ApprovalBeforeBody ==
  ASSUME ~EarlySenders PROVE Spec => []BodyOnlyAfterApproval
<1>1. CASE Prompt
  <2>1. ApprovalInv => BodyOnlyAfterApproval
    BY DEF ApprovalInv, UnapprovedInv, NoAccept, BodyOnlyAfterApproval
  <2> QED
    BY <1>1, <2>1, ApprovalHolds, PTL
<1>2. CASE ~Prompt
  <2>1. BodyOnlyAfterApproval
    BY <1>2 DEF BodyOnlyAfterApproval
  <2> QED
    BY <2>1, PTL
<1> QED
  BY <1>1, <1>2

\* Under the same assumption nothing is written or truncated at the receiver
\* before on_offer has returned true (quic_server.h, 39-41).
THEOREM ApprovalBeforeWrite ==
  ASSUME ~EarlySenders PROVE Spec => []NothingWrittenUnapproved
<1>1. CASE Prompt
  <2>1. ApprovalInv => NothingWrittenUnapproved
    BY DEF ApprovalInv, UnapprovedInv, NothingStored, NothingWrittenUnapproved
  <2> QED
    BY <1>1, <2>1, ApprovalHolds, PTL
<1>2. CASE ~Prompt
  <2>1. NothingWrittenUnapproved
    BY <1>2 DEF NothingWrittenUnapproved
  <2> QED
    BY <2>1, PTL
<1> QED
  BY <1>1, <1>2

-----------------------------------------------------------------------------
(* Many senders.  OK is only ever sent for bytes that are stored, however  *)
(* many senders compete for the receiver.                                  *)
(*                                                                         *)
(* The argument: until receive_file answers, no sender has been told       *)
(* anything, so each has sent its header and no byte of its file.  From then*)
(* on only file_stream_ is told anything, so only its bytes follow a header.*)
(* What is on the disk is what file_stream_ has delivered of its file, or a*)
(* header's fragment is among it, or bytes are missing from the count for  *)
(* good.  finish_file_receive excludes the last two by the size and by the *)
(* hash of bytes that are no header, so an OK is for the file of the sender*)
(* it goes to.  No property is inductive without the others: what is stored*)
(* depends on what file_stream_ has delivered, that on who may still send, *)
(* and that on who has been told what.                                     *)

\* Senders that run send_file and nothing else, once receive_file is armed, on
\* files nobody edits, and that do not give up: only then does no stream but
\* the accepted one end while a file is written.  A byte of a file is no fragment
\* of a header, and an absent file has no contents.
OrderlySenders ==
  /\ Prompt /\ ~Testing /\ ~EarlySenders
  /\ Faults \cap {"edit", "send", "send_timeout"} = {}
  /\ Bytes \cap HeaderFragments = {} /\ None \notin Contents

\* The receiver has said nothing to c, and c has said nothing but its header.
Untold(c) ==
  /\ s2c[c] = <<>> /\ sFin[c] = "no"
  /\ decision_buf[c] = <<>> /\ decision[c] = "none" /\ file_ack[c] = <<>>
  /\ reset[c] = "no" /\ cFin[c] = "no"
  /\ sent[c] = 0 /\ cpc[c] \notin BodyStates

\* Where receive_file has not answered the offer yet.
Unanswered == Arming \cup Accepting \cup {"offer_wait", "prompt"}

\* The one stream that is told anything while the output is there is file_stream_.
ToldInv ==
  /\ rpc \in Unanswered => \A c \in Clients : Untold(c)
  /\ rx.out # "null" => \A c \in Clients : c = file_stream \/ Untold(c)

NotYet == {"start", "connecting", "ready"}

Gone == {"disconnect", "shutdown_wait", "done"}

\* Where receive_file has returned, and where ACCEPT is out.
Ended == {"returned", "stopping", "stopped"}

Answered == {"final_wait", "ok_drain"} \cup Ended

\* The news that c's file is stored, anywhere between finish_file_receive and the
\* caller of send_file.
OkNews(c) ==
  \/ ~Without(s2c[c], "OK") \/ ~Without(file_ack[c], "OK")
  \/ ack[c] = "ok" \/ send_result[c] = "ok"

\* Without a stream nothing is sent, told or answered.
SetupInv ==
  /\ rpc \in Arming => \A c \in Clients : cStream[c] = "none"
  /\ \A c \in Clients : cpc[c] \in NotYet => cStream[c] = "none"
  /\ \A c \in Clients : cStream[c] = "none" =>
       sStream[c] = "none" /\ c2s[c] = <<>> /\ Untold(c) /\ ~OkNews(c)
  /\ \A c \in Clients : reset[c] # "no" => cpc[c] \in Gone

\* file_stream_ is a stream, and there is one once any has started.
CurrentInv ==
  /\ file_stream # None => sStream[file_stream] # "none"
  /\ file_stream = None => \A c \in Clients : sStream[c] = "none"
  /\ (rpc = "offer_wait" /\ offer_ready) \/ rpc = "prompt" => file_stream # None
  /\ rx.out # "null" => file_stream # None

\* What is announced is the file that is sent.
Honest(c) ==
  /\ job[c] \in Jobs
  /\ job[c].total = Len(source[c])
  /\ job[c].header.size = Len(source[c])
  /\ job[c].header.sha256_hex = sha256(source[c])

JobInv == \A c \in Clients : cStream[c] # "none" => Honest(c)

\* c is still in send_file, or has sent its FIN.  A sender whose StreamSend failed
\* is not: sent counts bytes of it that never went out.
Talking(c) ==
  cpc[c] \in {"header_wait", "decision_wait"} \cup BodyStates \/ cFin[c] # "no"

Accurate(c) == cStream[c] # "none" /\ (Talking(c) \/ Untold(c))

\* Everything c has put on its stream, and how much of it the server has taken off.
Whole(c) == encode_file_header(job[c].header) \o SubSeq(source[c], 1, sent[c])

Taken(c) == Len(Whole(c)) - Len(c2s[c])

\* The stream carries the header and then the file, in order.
InOrder(c) ==
  /\ Len(c2s[c]) <= Len(Whole(c))
  /\ c2s[c] = SubSeq(Whole(c), Taken(c) + 1, Len(Whole(c)))
  /\ sent[c] <= Len(source[c])
  /\ cFin[c] # "no" => sent[c] = Len(source[c])
  /\ sStream[c] = "none" => Taken(c) = 0

StreamInv == \A c \in Clients : Accurate(c) => InOrder(c)

\* One file is opened, and bytes_written is its length.
ShelfInv ==
  /\ rx.out = "null" => rx.bytes_written = 0
  /\ rx.out # "null" =>
       /\ rpc \in Accepting \cup Answered
       /\ rx.out_path \in Names
       /\ disk[rx.out_path] \in Seq(Units)
       /\ Len(disk[rx.out_path]) = rx.bytes_written
       /\ \A n \in Names \ {rx.out_path} : disk[n] = None
  /\ rx.out = "open" => rx.accepted \/ rpc = "accept_flag"
  /\ rx.header_parsed /\ ~rx.io_error => file_header \in FileTransferHeader
  /\ ~rx.header_parsed => ~DecodesHeader(rx.buffer)

\* Bytes are taken from the first step of receive_file to the last.
CallInv ==
  /\ receiving_file <=> rpc \notin {"started"} \cup Ended
  /\ rpc \notin {"reject_locked"} \cup Ended =>
       \A c \in Clients : blocked[c] = "no"

\* A body may still be accepted, or is being written.
Live ==
  \/ rpc \in Accepting \cup {"offer_wait", "prompt"}
  \/ rpc \in {"final_wait", "ok_drain"} /\ rx.out # "null"

Sound(c) == Accurate(c) /\ reset[c] # "seen"

\* Until a header is read, the buffer holds all that came from file_stream_: if that is
\* one fragment and alone there, the header can still be completed.
HeadInv ==
  Live /\ file_stream # None /\ Sound(file_stream) /\ ~rx.header_parsed =>
    \/ Len(rx.buffer) >= 2
    \/ Taken(file_stream) = 0
    \/ Taken(file_stream) = 1 /\ rx.buffer = <<Whole(file_stream)[1]>>

Tainted(text) == \E i \in 1..Len(text) : text[i] \in HeaderFragments

\* What is written is what file_stream_ has delivered of its file, unless a header came
\* in between, or bytes that followed the header at once were dropped with the
\* buffer; those are missing from the count for good.
BodyInv ==
  /\ Live /\ rx.out = "open" /\ rx.header_parsed /\ ~rx.overflow /\ ~rx.io_error
  /\ Sound(file_stream)
  =>
  \/ Tainted(disk[rx.out_path])
  \/ disk[rx.out_path] = SubSeq(source[file_stream], 1, Taken(file_stream) - 2)
  \/ /\ file_header.size = Len(source[file_stream])
     /\ rx.bytes_written < Taken(file_stream) - 2

\* While receive_file is at work the output is closed by the stream it belongs to.
ClosedInv ==
  rx.out = "closed" /\ receiving_file =>
    cFin[file_stream] = "seen" \/ reset[file_stream] = "seen"

Stored(c) ==
  /\ rx.out # "open"
  /\ rpc \in Answered
  /\ \E n \in Names : sha256(disk[n]) = job[c].header.sha256_hex

NewsInv == \A c \in Clients : OkNews(c) => Stored(c)

ManyInv ==
  /\ ToldInv /\ SetupInv /\ CurrentInv /\ JobInv /\ StreamInv /\ ShelfInv
  /\ CallInv /\ HeadInv /\ BodyInv /\ ClosedInv /\ NewsInv

\* Whole begins with the two fragments of the header.
LEMMA WholeIs ==
  ASSUME IInv, NEW c \in Clients, job[c] \in Jobs, sent[c] <= Len(source[c])
  PROVE  /\ Whole(c) \in Seq(Units)
         /\ Len(Whole(c)) = 2 + sent[c]
         /\ sent[c] \in Nat /\ Len(source[c]) \in Nat
         /\ Whole(c)[1] \in HeaderFragments /\ Whole(c)[2] \in HeaderFragments
         /\ \A i \in 1..sent[c] : Whole(c)[2 + i] = source[c][i] /\ source[c][i] \in Bytes
         /\ <<Whole(c)[1], Whole(c)[2]>> = encode_file_header(job[c].header)
<1> DEFINE e == encode_file_header(job[c].header)
<1> DEFINE b == SubSeq(source[c], 1, sent[c])
<1>1. /\ e \in Seq(Units) /\ Len(e) = 2 /\ e[1] \in HeaderFragments /\ e[2] \in HeaderFragments
      /\ e = <<e[1], e[2]>>
  BY NamesAssumption
     DEF encode_file_header, Jobs, FileTransferHeader, Units, HeaderFragments,
     sanitize_file_name
<1>2. source[c] \in Seq(Bytes) /\ sent[c] \in Nat
  BY ContentsAssumption DEF IInv, TypeOK, ClientTypeOK
<1>3. Len(source[c]) \in Nat /\ \A i \in 1..Len(source[c]) : source[c][i] \in Bytes
  BY <1>2, LenProperties, ElementOfSeq
<1>4. /\ b \in Seq(Bytes) /\ Len(b) = sent[c]
      /\ \A i \in 1..sent[c] : b[i] = source[c][i]
  BY <1>2, <1>3, SubSeqProperties
<1>5. b \in Seq(Units)
  BY <1>4 DEF Units
<1>6. Whole(c) = e \o b
  BY DEF Whole
<1> HIDE DEF e, b
<1>7. /\ e \o b \in Seq(Units) /\ Len(e \o b) = 2 + sent[c]
      /\ (e \o b)[1] = e[1] /\ (e \o b)[2] = e[2]
      /\ \A i \in 1..sent[c] : (e \o b)[2 + i] = b[i]
  <2>1. /\ e \o b \in Seq(Units) /\ Len(e \o b) = Len(e) + Len(b)
        /\ \A i \in 1..Len(e) + Len(b) : (e \o b)[i] = IF i <= Len(e) THEN e[i] ELSE b[i - Len(e)]
    <3>1. e \in Seq(Units) /\ b \in Seq(Units)
      BY <1>1, <1>5
    <3> QED
      BY <3>1, ConcatProperties, Zenon
  <2>2. Len(e) = 2 /\ Len(b) = sent[c]
    BY <1>1, <1>4
  <2>3. 1 \in 1..Len(e) + Len(b) /\ 2 \in 1..Len(e) + Len(b)
    BY <1>2, <2>2
  <2>4. (e \o b)[1] = e[1] /\ (e \o b)[2] = e[2]
    BY <2>1, <2>2, <2>3
  <2>5. ASSUME NEW i \in 1..sent[c] PROVE (e \o b)[2 + i] = b[i]
    <3>1. 2 + i \in 1..Len(e) + Len(b) /\ ~(2 + i <= Len(e)) /\ (2 + i) - Len(e) = i
      BY <1>2, <2>2
    <3> QED
      BY <2>1, <3>1
  <2> QED
    BY <2>1, <2>2, <2>4, <2>5
<1>8. e = encode_file_header(job[c].header)
  BY DEF e
<1> QED
  <2>1. Whole(c) \in Seq(Units) /\ Len(Whole(c)) = 2 + sent[c]
    BY <1>6, <1>7
  <2>2. Whole(c)[1] = e[1] /\ Whole(c)[2] = e[2]
    BY <1>6, <1>7
  <2>3. ASSUME NEW i \in 1..sent[c]
        PROVE  Whole(c)[2 + i] = source[c][i] /\ source[c][i] \in Bytes
    <3>1. Whole(c)[2 + i] = source[c][i]
      BY <1>4, <1>6, <1>7
    <3>2. i \in 1..Len(source[c])
      BY <1>2, <1>3
    <3> QED
      BY <1>3, <3>1, <3>2
  <2>4. <<Whole(c)[1], Whole(c)[2]>> = encode_file_header(job[c].header)
    BY <1>1, <1>8, <2>2
  <2> QED
    BY <1>1, <1>2, <1>3, <2>1, <2>2, <2>3, <2>4

-----------------------------------------------------------------------------
(* Steps of the senders.                                                   *)

\* Nothing that concerns the sender d changes.
Same(d) ==
  /\ cpc'[d] = cpc[d] /\ sent'[d] = sent[d] /\ job'[d] = job[d] /\ source'[d] = source[d]
  /\ decision'[d] = decision[d] /\ decision_buf'[d] = decision_buf[d]
  /\ file_ack'[d] = file_ack[d] /\ ack'[d] = ack[d] /\ send_result'[d] = send_result[d]
  /\ c2s'[d] = c2s[d] /\ cFin'[d] = cFin[d] /\ reset'[d] = reset[d]
  /\ s2c'[d] = s2c[d] /\ sFin'[d] = sFin[d] /\ cStream'[d] = cStream[d]

\* What a sender's own step may do: it sends in order, makes no news of its own, and
\* changes nothing before it was told something.
Goes(c) ==
  /\ Untold(c) => Untold(c)'
  /\ OkNews(c)' => OkNews(c)
  /\ cpc'[c] \in NotYet => cStream'[c] = "none"
  /\ reset'[c] # "no" => cpc'[c] \in Gone
  /\ reset[c] = "seen" => reset'[c] = "seen"
  /\ cFin[c] = "seen" => cFin'[c] = "seen"
  /\ \/ cStream[c] = "none" /\ cStream'[c] = "none" /\ c2s'[c] = <<>>
     \/ /\ cStream[c] # "none" /\ cStream'[c] # "none"
        /\ job'[c] = job[c] /\ source'[c] = source[c]
        /\ Accurate(c)' => /\ Accurate(c) /\ InOrder(c)'
                           /\ Taken(c)' = Taken(c) /\ Whole(c)'[1] = Whole(c)[1]
     \/ /\ cStream[c] = "none" /\ cStream'[c] # "none" /\ rpc \notin Arming
        /\ Honest(c)' /\ InOrder(c)'

\* Then what the invariant says about it stays as it is.
LEMMA SameKeeps ==
  ASSUME NEW d, Same(d), sStream'[d] = "none" <=> sStream[d] = "none"
  PROVE  /\ Untold(d)' <=> Untold(d)
         /\ OkNews(d)' <=> OkNews(d)
         /\ Accurate(d)' <=> Accurate(d)
         /\ Whole(d)' = Whole(d) /\ Taken(d)' = Taken(d)
         /\ Honest(d)' <=> Honest(d)
         /\ InOrder(d)' <=> InOrder(d)
         /\ Sound(d)' <=> Sound(d)
<1>1. Untold(d)' <=> Untold(d)
  BY DEF Same, Untold
<1>2. OkNews(d)' <=> OkNews(d)
  BY DEF Same, OkNews, Without
<1>3. Accurate(d)' <=> Accurate(d)
  BY <1>1 DEF Same, Accurate, Talking
<1>4. Whole(d)' = Whole(d)
  BY DEF Same, Whole
<1>5. Taken(d)' = Taken(d)
  BY <1>4 DEF Same, Taken
<1>6. Honest(d)' <=> Honest(d)
  BY DEF Same, Honest
<1>7. InOrder(d)' <=> InOrder(d)
  BY <1>4, <1>5 DEF Same, InOrder
<1>8. Sound(d)' <=> Sound(d)
  BY <1>3 DEF Same, Sound
<1> QED
  BY <1>1, <1>2, <1>3, <1>4, <1>5, <1>6, <1>7, <1>8

\* A sender's step keeps the invariant.
LEMMA ClientGoes ==
  ASSUME ManyInv, UNCHANGED <<serverVars, sStream>>, NEW c \in Clients, Goes(c),
         \A d \in Clients \ {c} : Same(d), file_stream \in Clients \cup {None}
  PROVE  ManyInv'
<1>m. ToldInv /\ SetupInv /\ CurrentInv /\ JobInv /\ StreamInv /\ ShelfInv
      /\ CallInv /\ HeadInv /\ BodyInv /\ ClosedInv /\ NewsInv
  BY DEF ManyInv
<1>u. UNCHANGED <<rpc, receiving_file, offer_ready, blocked, file_stream, file_header, rx, disk>>
  BY DEF serverVars, flowVars, waitVars
<1>s. \A d \in Clients \ {c} :
        /\ Same(d)
        /\ Untold(d)' <=> Untold(d)
        /\ OkNews(d)' <=> OkNews(d)
        /\ Accurate(d)' <=> Accurate(d)
        /\ Whole(d)' = Whole(d) /\ Taken(d)' = Taken(d)
        /\ Honest(d)' <=> Honest(d)
        /\ InOrder(d)' <=> InOrder(d)
  BY SameKeeps
<1>1. \A d \in Clients : Untold(d) => Untold(d)'
  BY <1>s DEF Goes
<1>2. \A d \in Clients : OkNews(d)' => OkNews(d)
  BY <1>s DEF Goes
<1>3. \A d \in Clients : cStream[d] # "none" =>
        /\ cStream'[d] # "none" /\ job'[d] = job[d] /\ source'[d] = source[d]
        /\ Accurate(d)' => /\ Accurate(d)
                           /\ Taken(d)' = Taken(d) /\ Whole(d)'[1] = Whole(d)[1]
  BY <1>s DEF Goes, Same
<1>4. ToldInv'
  BY <1>m, <1>u, <1>1 DEF ToldInv
<1>5. SetupInv'
  <2>1. rpc \in Arming => \A d \in Clients : cStream'[d] = "none"
    BY <1>m, <1>s DEF SetupInv, Goes, Same
  <2>2. \A d \in Clients : cpc'[d] \in NotYet => cStream'[d] = "none"
    BY <1>m, <1>s DEF SetupInv, Goes, Same
  <2>3. ASSUME NEW d \in Clients, cStream'[d] = "none"
        PROVE  sStream'[d] = "none" /\ c2s'[d] = <<>> /\ Untold(d)' /\ ~OkNews(d)'
    <3>1. cStream[d] = "none"
      BY <1>3, <2>3
    <3>2. c2s'[d] = <<>>
      BY <1>m, <1>s, <2>3, <3>1 DEF SetupInv, Goes, Same
    <3> QED
      BY <1>m, <1>1, <1>2, <3>1, <3>2 DEF SetupInv
  <2>4. \A d \in Clients : reset'[d] # "no" => cpc'[d] \in Gone
    BY <1>m, <1>s DEF SetupInv, Goes, Same
  <2> QED
    BY <1>m, <1>u, <2>1, <2>2, <2>3, <2>4 DEF SetupInv
<1>c. CurrentInv'
  BY <1>m, <1>u DEF CurrentInv
<1>6. JobInv'
  <2> SUFFICES ASSUME NEW d \in Clients, cStream'[d] # "none" PROVE Honest(d)'
    BY DEF JobInv
  <2>1. CASE d = c
    <3>1. CASE cStream[c] # "none"
      <4>1. Honest(c)
        BY <1>m, <3>1 DEF JobInv
      <4> QED
        BY <1>3, <2>1, <3>1, <4>1 DEF Honest
    <3>2. CASE cStream[c] = "none"
      BY <2>1, <3>2 DEF Goes
    <3> QED
      BY <3>1, <3>2
  <2>2. CASE d # c
    BY <1>m, <1>s, <2>2 DEF JobInv, Same
  <2> QED
    BY <2>1, <2>2
<1>7. StreamInv'
  <2> SUFFICES ASSUME NEW d \in Clients, Accurate(d)' PROVE InOrder(d)'
    BY DEF StreamInv
  <2>1. cStream'[d] # "none"
    BY DEF Accurate
  <2>2. CASE d = c
    BY <2>1, <2>2 DEF Goes
  <2>3. CASE d # c
    BY <1>m, <1>s, <2>3 DEF StreamInv
  <2> QED
    BY <2>2, <2>3
<1>8. ShelfInv'
  BY <1>m, <1>u DEF ShelfInv
<1>9. CallInv'
  BY <1>m, <1>u DEF CallInv
<1>10. file_stream # None =>
         /\ file_stream \in Clients
         /\ cStream[file_stream] # "none"
         /\ source'[file_stream] = source[file_stream]
         /\ Sound(file_stream)' => /\ Sound(file_stream)
                                   /\ Taken(file_stream)' = Taken(file_stream)
                                   /\ Whole(file_stream)'[1] = Whole(file_stream)[1]
  <2> SUFFICES ASSUME file_stream # None
               PROVE  /\ file_stream \in Clients
                      /\ cStream[file_stream] # "none"
                      /\ source'[file_stream] = source[file_stream]
                      /\ Sound(file_stream)' =>
                           /\ Sound(file_stream)
                           /\ Taken(file_stream)' = Taken(file_stream)
                           /\ Whole(file_stream)'[1] = Whole(file_stream)[1]
    OBVIOUS
  <2> DEFINE f == file_stream
  <2>1. f \in Clients /\ f' = f
    BY <1>u
  <2>2. cStream[f] # "none"
    BY <1>m, <2>1 DEF SetupInv, CurrentInv
  <2>3. reset[f] = "seen" => reset'[f] = "seen"
    BY <1>s, <2>1 DEF Goes, Same
  <2> QED
    BY <1>3, <2>1, <2>2, <2>3 DEF Sound
<1>11. HeadInv'
  <2> SUFFICES ASSUME Live', file_stream' # None, Sound(file_stream)', ~rx'.header_parsed
               PROVE  \/ Len(rx'.buffer) >= 2
                      \/ Taken(file_stream)' = 0
                      \/ Taken(file_stream)' = 1 /\ rx'.buffer = <<Whole(file_stream)'[1]>>
    BY DEF HeadInv
  <2>1. Live /\ file_stream # None /\ ~rx.header_parsed
    BY <1>u DEF Live
  <2>2. /\ Sound(file_stream) /\ Taken(file_stream)' = Taken(file_stream)
        /\ Whole(file_stream)'[1] = Whole(file_stream)[1]
    BY <1>10, <2>1
  <2> QED
    BY <1>m, <1>u, <2>1, <2>2 DEF HeadInv
<1>12. BodyInv'
  <2> SUFFICES ASSUME Live', rx'.out = "open", rx'.header_parsed, ~rx'.overflow, ~rx'.io_error,
                      Sound(file_stream)'
               PROVE  \/ Tainted(disk[rx.out_path])'
                      \/ (disk[rx.out_path] = SubSeq(source[file_stream], 1, Taken(file_stream) - 2))'
                      \/ (/\ file_header.size = Len(source[file_stream])
                          /\ rx.bytes_written < Taken(file_stream) - 2)'
    BY DEF BodyInv
  <2>1. /\ Live /\ rx.out = "open" /\ rx.header_parsed /\ ~rx.overflow /\ ~rx.io_error
        /\ file_stream # None
    BY <1>m, <1>u DEF Live, CurrentInv
  <2>2. /\ Sound(file_stream) /\ Taken(file_stream)' = Taken(file_stream)
        /\ source'[file_stream] = source[file_stream]
    BY <1>10, <2>1
  <2>3. Tainted(disk[rx.out_path])' <=> Tainted(disk[rx.out_path])
    BY <1>u DEF Tainted
  <2> QED
    BY <1>m, <1>u, <2>1, <2>2, <2>3 DEF BodyInv
<1>13. ClosedInv'
  <2> SUFFICES ASSUME rx'.out = "closed", receiving_file'
               PROVE  cFin'[file_stream] = "seen" \/ reset'[file_stream] = "seen"
    BY <1>u DEF ClosedInv
  <2>1. file_stream \in Clients
    BY <1>m, <1>u DEF CurrentInv
  <2>2. cFin[file_stream] = "seen" \/ reset[file_stream] = "seen"
    BY <1>m, <1>u DEF ClosedInv
  <2> QED
    BY <1>s, <2>1, <2>2 DEF Goes, Same
<1>14. NewsInv'
  <2> SUFFICES ASSUME NEW d \in Clients, OkNews(d)' PROVE Stored(d)'
    BY DEF NewsInv
  <2>1. OkNews(d)
    BY <1>2
  <2>2. Stored(d) /\ cStream[d] # "none"
    BY <1>m, <2>1 DEF NewsInv, SetupInv
  <2> QED
    BY <1>u, <1>3, <2>2 DEF Stored
<1> QED
  BY <1>4, <1>5, <1>c, <1>6, <1>7, <1>8, <1>9, <1>11, <1>12, <1>13, <1>14 DEF ManyInv

SendStates == {"header_wait", "decision_wait"} \cup BodyStates

\* Where the thread of c moves to, and what it may abort on the way.
LEMMA MovesOn ==
  ASSUME IInv, ManyInv, NEW c \in Clients, NEW label, Goto(c, label),
         UNCHANGED <<jobVars, decisionVars, ackVars, c2s, cFin, s2cVars, streamVars>>,
         \/ UNCHANGED send_result
         \/ \E result : /\ send_result' = [send_result EXCEPT ![c] = result]
                        /\ result = "ok" => ack[c] = "ok",
         label \in BodyStates => ~Untold(c),
         label \in NotYet => cStream[c] = "none",
         label \in SendStates => cpc[c] \in SendStates,
         cpc[c] \in Gone => label \in Gone,
         \/ UNCHANGED reset
         \/ /\ abort_stream(c) /\ label \in Gone
            /\ decision[c] # "none" \/ cpc[c] \in BodyStates
            /\ cpc[c] \notin Gone
  PROVE  Goes(c) /\ \A d \in Clients \ {c} : Same(d)
<1>t. /\ cpc \in [Clients -> CpcStates] /\ reset \in [Clients -> Signals]
      /\ send_result \in [Clients -> {"none", "ok", "failed", "raw"}]
  BY DEF IInv, TypeOK, ClientTypeOK, QuicTypeOK
<1>m. SetupInv /\ JobInv /\ StreamInv
  BY DEF ManyInv
<1>u. /\ UNCHANGED <<sent, job, source, decision, decision_buf, file_ack, ack, c2s, cFin, s2c,
                     sFin, cStream, sStream>>
      /\ cpc' = [cpc EXCEPT ![c] = label]
  BY DEF jobVars, decisionVars, ackVars, s2cVars, streamVars, Goto
<1>1. \A d \in Clients \ {c} : Same(d)
  <2> SUFFICES ASSUME NEW d \in Clients \ {c} PROVE Same(d)
    OBVIOUS
  <2>1. cpc'[d] = cpc[d] /\ send_result'[d] = send_result[d]
    BY <1>t, <1>u
  <2>2. reset'[d] = reset[d]
    BY <1>t DEF abort_stream
  <2> QED
    BY <1>u, <2>1, <2>2 DEF Same
<1>2. cpc'[c] = label
  BY <1>t, <1>u
<1>3. Untold(c) => Untold(c)'
  BY <1>u, <1>2 DEF Untold
<1>4. OkNews(c)' => OkNews(c)
  <2>1. send_result'[c] = "ok" => send_result[c] = "ok" \/ ack[c] = "ok"
    BY <1>t
  <2> QED
    BY <1>u, <2>1 DEF OkNews, Without
<1>5. /\ reset'[c] # "no" => cpc'[c] \in Gone
      /\ reset'[c] = "no" => reset[c] = "no"
      /\ reset[c] = "seen" => reset'[c] = "seen"
  <2>1. CASE UNCHANGED reset
    BY <1>m, <1>2, <2>1 DEF SetupInv
  <2>2. CASE abort_stream(c) /\ label \in Gone /\ cpc[c] \notin Gone
    <3>1. reset[c] = "no"
      BY <1>m, <2>2 DEF SetupInv
    <3> QED
      BY <1>t, <1>2, <2>2, <3>1 DEF abort_stream
  <2> QED
    BY <2>1, <2>2
<1>6. Whole(c)' = Whole(c) /\ Taken(c)' = Taken(c)
  BY <1>u DEF Whole, Taken
<1>7. Accurate(c)' => Accurate(c)
  <2> SUFFICES ASSUME Accurate(c)' PROVE Accurate(c)
    OBVIOUS
  <2>1. CASE Talking(c)'
    BY <1>u, <1>2, <2>1 DEF Accurate, Talking, SendStates
  <2>2. CASE Untold(c)'
    <3>1. cpc[c] \in BodyStates \/ UNCHANGED reset
      BY <1>u, <2>2 DEF Untold
    <3> QED
      BY <1>u, <2>2, <3>1 DEF Accurate, Talking, Untold
  <2> QED
    BY <2>1, <2>2 DEF Accurate
<1>8. InOrder(c) => InOrder(c)'
  BY <1>u, <1>6 DEF InOrder
<1>9. /\ \/ cStream[c] = "none" /\ cStream'[c] = "none" /\ c2s'[c] = <<>>
         \/ /\ cStream[c] # "none" /\ cStream'[c] # "none"
            /\ job'[c] = job[c] /\ source'[c] = source[c]
            /\ Accurate(c)' => /\ Accurate(c) /\ InOrder(c)'
                               /\ Taken(c)' = Taken(c) /\ Whole(c)'[1] = Whole(c)[1]
  BY <1>m, <1>u, <1>6, <1>7, <1>8 DEF SetupInv, StreamInv
<1>10. cpc'[c] \in NotYet => cStream'[c] = "none"
  BY <1>u, <1>2
<1> QED
  BY <1>1, <1>3, <1>4, <1>5, <1>9, <1>10, <1>u DEF Goes

\* A callback that tells the sender nothing.
LEMMA NothingHeard ==
  ASSUME IInv, ManyInv, NEW c \in Clients,
         UNCHANGED <<cpc, jobVars, decisionVars, ackVars, send_result, c2sVars, s2cVars, sStream>>,
         \A d \in Clients : cStream'[d] = "none" <=> cStream[d] = "none",
         \A d \in Clients \ {c} : cStream'[d] = cStream[d]
  PROVE  Goes(c) /\ \A d \in Clients \ {c} : Same(d)
<1>m. SetupInv /\ StreamInv
  BY DEF ManyInv
<1>u. UNCHANGED <<cpc, sent, job, source, decision, decision_buf, file_ack, ack, send_result,
                  c2s, cFin, reset, s2c, sFin, sStream>>
  BY DEF jobVars, decisionVars, ackVars, c2sVars, s2cVars
<1>1. \A d \in Clients \ {c} : Same(d)
  BY <1>u DEF Same
<1>2. (Untold(c) => Untold(c)') /\ (OkNews(c)' => OkNews(c))
  BY <1>u DEF Untold, OkNews, Without
<1>3. Whole(c)' = Whole(c) /\ Taken(c)' = Taken(c)
  BY <1>u DEF Whole, Taken
<1>4. Accurate(c)' => Accurate(c)
  BY <1>u DEF Accurate, Talking, Untold
<1>5. InOrder(c) => InOrder(c)'
  BY <1>u, <1>3 DEF InOrder
<1>6. /\ cpc'[c] \in NotYet => cStream'[c] = "none"
      /\ reset'[c] # "no" => cpc'[c] \in Gone
      /\ cStream[c] = "none" => c2s'[c] = <<>>
  BY <1>m, <1>u DEF SetupInv
<1> QED
  BY <1>m, <1>u, <1>1, <1>2, <1>3, <1>4, <1>5, <1>6 DEF Goes, StreamInv

\* The reply as it reaches a sender.
LEMMA OnReceiveGoes ==
  ASSUME IInv, ManyInv, NEW c \in Clients, ClientCallbackStep(c), OnReceive(c)
  PROVE  Goes(c) /\ \A d \in Clients \ {c} : Same(d)
<1>t. /\ s2c \in [Clients -> Seq(Fragments)] /\ decision_buf \in [Clients -> Seq(Fragments)]
      /\ file_ack \in [Clients -> Seq(Fragments)]
      /\ decision \in [Clients -> {"none", "accepted", "rejected"}]
  BY DEF IInv, TypeOK, QuicTypeOK, ClientTypeOK
<1>m. SetupInv /\ StreamInv
  BY DEF ManyInv
<1>u. UNCHANGED <<cpc, sent, job, source, ack, send_result, c2s, cFin, reset, sFin, cStream,
                  sStream>>
  BY DEF OnReceive, jobVars, c2sVars, streamVars
<1>1. PICK n \in 1..Len(s2c[c]) :
        LET text == decision_buf[c] \o SubSeq(s2c[c], 1, n)
            now  == awaiting_decision[c] /\ ReplyComplete(text)
        IN /\ s2c' = [s2c EXCEPT ![c] = SubSeq(@, n + 1, Len(@))]
           /\ IF awaiting_decision[c]
              THEN /\ decision_buf' = [decision_buf EXCEPT ![c] = text]
                   /\ UNCHANGED file_ack
              ELSE /\ file_ack' = [file_ack EXCEPT ![c] = @ \o SubSeq(s2c[c], 1, n)]
                   /\ UNCHANGED decision_buf
           /\ awaiting_decision' = [awaiting_decision EXCEPT ![c] = @ /\ ~now]
           /\ decision' = [decision EXCEPT ![c] = IF now THEN Resolved(text) ELSE @]
  BY DEF OnReceive
<1> DEFINE first == SubSeq(s2c[c], 1, n)
           rest  == SubSeq(s2c[c], n + 1, Len(s2c[c]))
           text  == decision_buf[c] \o first
<1>2. first \in Seq(Fragments) /\ rest \in Seq(Fragments)
  BY <1>t, SplitType
<1>3. \A w : Without(s2c[c], w) => Without(first, w) /\ Without(rest, w)
  BY <1>t, WithoutSplit
<1>4. s2c[c] # <<>>
  BY <1>t
<1>5. /\ s2c' = [s2c EXCEPT ![c] = rest]
      /\ decision_buf' = [decision_buf EXCEPT ![c] = text] \/ UNCHANGED decision_buf
      /\ file_ack' = [file_ack EXCEPT ![c] = @ \o first] \/ UNCHANGED file_ack
      /\ \/ decision' = [decision EXCEPT ![c] = Resolved(text)]
         \/ decision' = [decision EXCEPT ![c] = @]
  BY <1>1 DEF first, rest, text
<1> HIDE DEF first, rest, text
<1>6. \A d \in Clients \ {c} : Same(d)
  BY <1>t, <1>u, <1>5 DEF Same
<1>7. ~Untold(c)
  BY <1>4 DEF Untold
<1>8. OkNews(c)' => OkNews(c)
  <2>1. Without(s2c[c], "OK") => Without(s2c'[c], "OK")
    BY <1>t, <1>3, <1>5
  <2>2. Without(s2c[c], "OK") /\ Without(file_ack[c], "OK") => Without(file_ack'[c], "OK")
    <3>1. Without(s2c[c], "OK") /\ Without(file_ack[c], "OK") => Without(file_ack[c] \o first, "OK")
      BY <1>t, <1>2, <1>3, WithoutConcat
    <3> QED
      BY <1>t, <1>5, <3>1
  <2> QED
    BY <1>u, <2>1, <2>2 DEF OkNews
<1>9. Whole(c)' = Whole(c) /\ Taken(c)' = Taken(c)
  BY <1>u DEF Whole, Taken
<1>10. InOrder(c) => InOrder(c)'
  BY <1>u, <1>9 DEF InOrder
<1>11. ~Untold(c)'
  <2>1. first # <<>>
    <3>1. Len(first) = n /\ n # 0
      BY <1>t, SplitType DEF first
    <3> QED
      BY <3>1
  <2>2. decision_buf' = [decision_buf EXCEPT ![c] = text]
        \/ file_ack' = [file_ack EXCEPT ![c] = @ \o first]
    BY <1>1 DEF first, text
  <2>3. text # <<>> /\ file_ack[c] \o first # <<>>
    <3>1. decision_buf[c] \in Seq(Fragments) /\ file_ack[c] \in Seq(Fragments)
      BY <1>t
    <3>2. \A s \in Seq(Fragments) : s \o first # <<>>
      BY <1>2, <2>1, ConcatEqualIffEmpty
    <3> QED
      BY <3>1, <3>2 DEF text
  <2>4. decision_buf'[c] # <<>> \/ file_ack'[c] # <<>>
    BY <1>t, <2>2, <2>3
  <2> QED
    BY <2>4 DEF Untold
<1>12. Accurate(c)' => Accurate(c)
  BY <1>u, <1>11 DEF Accurate, Talking
<1> QED
  BY <1>m, <1>u, <1>6, <1>7, <1>8, <1>9, <1>10, <1>12 DEF Goes, StreamInv, SetupInv

\* The receiver's FIN decides what is still undecided.
LEMMA OnFinGoes ==
  ASSUME IInv, ManyInv, NEW c \in Clients, OnPeerSendShutdown(c)
  PROVE  Goes(c) /\ \A d \in Clients \ {c} : Same(d)
<1>t. /\ file_ack \in [Clients -> Seq(Fragments)] /\ ack \in [Clients -> {"none", "ok", "fail"}]
      /\ decision \in [Clients -> {"none", "accepted", "rejected"}] /\ sFin \in [Clients -> Signals]
  BY DEF IInv, TypeOK, QuicTypeOK, ClientTypeOK
<1>m. SetupInv /\ StreamInv
  BY DEF ManyInv
<1>u. /\ UNCHANGED <<cpc, sent, job, source, decision_buf, file_ack, send_result, c2s, cFin,
                     reset, s2c, cStream, sStream>>
      /\ sFin[c] = "sent" /\ sFin' = [sFin EXCEPT ![c] = "seen"]
  BY DEF OnPeerSendShutdown, jobVars, c2sVars, streamVars
<1>1. /\ \/ ack' = ack
         \/ ack' = [ack EXCEPT ![c] = IF StartsWith(file_ack[c], "OK") THEN "ok" ELSE "fail"]
      /\ decision' = decision \/ decision' = [decision EXCEPT ![c] = Resolved(decision_buf[c])]
  BY DEF OnPeerSendShutdown
<1>2. \A d \in Clients \ {c} : Same(d)
  BY <1>t, <1>u, <1>1 DEF Same
<1>3. ~Untold(c) /\ ~Untold(c)'
  BY <1>t, <1>u DEF Untold
<1>4. OkNews(c)' => OkNews(c)
  <2>1. ack'[c] = "ok" => ack[c] = "ok" \/ ~Without(file_ack[c], "OK")
    <3>1. StartsWith(file_ack[c], "OK") => ~Without(file_ack[c], "OK")
      BY <1>t, StartsWithout
    <3> QED
      BY <1>t, <1>1, <3>1
  <2> QED
    BY <1>u, <2>1 DEF OkNews
<1>5. Whole(c)' = Whole(c) /\ Taken(c)' = Taken(c)
  BY <1>u DEF Whole, Taken
<1>6. InOrder(c) => InOrder(c)'
  BY <1>u, <1>5 DEF InOrder
<1>7. Accurate(c)' => Accurate(c)
  BY <1>u, <1>3 DEF Accurate, Talking
<1> QED
  BY <1>m, <1>u, <1>2, <1>3, <1>4, <1>5, <1>6, <1>7 DEF Goes, StreamInv, SetupInv

\* The header is the first thing on the stream.
LEMMA SendHeaderGoes ==
  ASSUME IInv, IInv', ManyInv, OrderlySenders, NEW c \in Clients, ClientThreadStep(c),
         SendHeader(c)
  PROVE  Goes(c) /\ \A d \in Clients \ {c} : Same(d)
<1>t. /\ QuicTypeOK /\ ClientTypeOK
  BY DEF IInv, TypeOK
<1>m. SetupInv
  BY DEF ManyInv
<1>1. PICK name \in RawNames :
        /\ job' = [job EXCEPT ![c] = FileJob(c, name)]
        /\ FirstSend(c, encode_file_header(FileJob(c, name).header), FALSE, "header_wait")
  BY DEF SendHeader, TestJobs, OrderlySenders
<1> DEFINE e == encode_file_header(FileJob(c, name).header)
<1>2. /\ cStream' = [cStream EXCEPT ![c] = "open"]
      /\ ClientSends(c, e, FALSE) /\ Goto(c, "header_wait") /\ UNCHANGED <<reset, send_result>>
  BY <1>1 DEF FirstSend, Outcomes, OrderlySenders
<1>3. FileJob(c, name) \in Jobs
  BY <1>t, JobType
<1>4. e \in Seq(Units)
  <2>1. FileJob(c, name).header \in FileTransferHeader
    BY <1>3 DEF Jobs
  <2> QED
    BY <2>1, EncodeType
<1> HIDE DEF e
<1>u. /\ decision' = [decision EXCEPT ![c] = "none"]
      /\ decision_buf' = [decision_buf EXCEPT ![c] = <<>>]
      /\ file_ack' = [file_ack EXCEPT ![c] = <<>>]
      /\ ack' = [ack EXCEPT ![c] = "none"]
      /\ UNCHANGED <<sent, source, s2c, sFin, sStream>>
      /\ c2s' = [c2s EXCEPT ![c] = @ \o e]
      /\ cFin' = [cFin EXCEPT ![c] = @]
      /\ cpc' = [cpc EXCEPT ![c] = "header_wait"]
  BY <1>2 DEF SendHeader, s2cVars, ClientSends, Goto
<1>5. \A d \in Clients \ {c} : Same(d)
  BY <1>t, <1>1, <1>2, <1>u DEF Same, QuicTypeOK, ClientTypeOK
<1>6. cStream[c] = "none" /\ Untold(c) /\ ~OkNews(c) /\ c2s[c] = <<>> /\ sStream[c] = "none"
  BY <1>m DEF SetupInv, SendHeader, NotYet
<1>7. /\ cStream'[c] = "open" /\ cpc'[c] = "header_wait" /\ c2s'[c] = e /\ cFin'[c] = cFin[c]
      /\ job'[c] = FileJob(c, name) /\ ack'[c] = "none" /\ decision'[c] = "none"
      /\ decision_buf'[c] = <<>> /\ file_ack'[c] = <<>>
  <2>1. <<>> \o e = e
    BY <1>4, ConcatEmptySeq
  <2> QED
    BY <1>t, <1>1, <1>2, <1>u, <1>6, <2>1 DEF QuicTypeOK, ClientTypeOK
<1>8. Untold(c)'
  BY <1>2, <1>6, <1>7, <1>u DEF Untold, BodyStates
<1>9. ~OkNews(c)'
  BY <1>2, <1>6, <1>7, <1>u DEF OkNews, Without
<1>10. Honest(c)'
  BY <1>3, <1>7, <1>u DEF Honest, FileJob
<1>11. Whole(c)' = e
  <2>1. sent'[c] = 0 /\ source'[c] = source[c]
    BY <1>6, <1>u DEF Untold
  <2>2. SubSeq(source[c], 1, 0) = <<>>
    BY ContentsAssumption, <1>t DEF ClientTypeOK
  <2>3. e \o <<>> = e
    BY <1>4, ConcatEmptySeq
  <2>4. Whole(c)' = encode_file_header(FileJob(c, name).header) \o SubSeq(source[c], 1, 0)
    BY <1>7, <2>1 DEF Whole
  <2> QED
    BY <2>2, <2>3, <2>4 DEF e
<1>12. InOrder(c)'
  <2>1. Len(e) \in Nat /\ SubSeq(e, 1, Len(e)) = e
    BY <1>4, LenProperties
  <2>2. Taken(c)' = 0
    BY <1>7, <1>11, <2>1 DEF Taken
  <2>3. Len(source[c]) \in Nat /\ sent'[c] = 0 /\ cFin'[c] = "no"
    BY <1>6, <1>7, <1>u, <1>t, ContentsAssumption, LenProperties DEF Untold, ClientTypeOK
  <2>4. c2s'[c] = SubSeq(Whole(c)', Taken(c)' + 1, Len(Whole(c)'))
    BY <1>7, <1>11, <2>1, <2>2
  <2>5. Len(c2s'[c]) <= Len(Whole(c)')
    BY <1>7, <1>11, <2>1
  <2>6. /\ sent'[c] <= Len(source'[c])
        /\ cFin'[c] # "no" => sent'[c] = Len(source'[c])
    BY <1>u, <2>3
  <2> QED
    BY <2>2, <2>4, <2>5, <2>6 DEF InOrder
<1>13. rpc \notin Arming
  BY DEF ClientThreadStep, SendHeader, OrderlySenders, Armed
<1>14. reset'[c] = "no" /\ reset[c] = "no" /\ cFin[c] = "no"
  BY <1>2, <1>6 DEF Untold
<1>15. cpc'[c] \notin NotYet
  BY <1>7 DEF NotYet
<1> QED
  BY <1>5, <1>6, <1>7, <1>8, <1>9, <1>10, <1>12, <1>13, <1>14, <1>15 DEF Goes

\* Three sequences in a row can be put together in either order.
LEMMA Associative ==
  ASSUME NEW S, NEW s \in Seq(S), NEW t \in Seq(S), NEW u \in Seq(S)
  PROVE  (s \o t) \o u = s \o (t \o u)
BY ConcatAssociative

\* What is added at the end of a sequence is added at the end of what is left of it.
LEMMA RestConcat ==
  ASSUME NEW S, NEW s \in Seq(S), NEW t \in Seq(S), NEW k \in 0..Len(s)
  PROVE  SubSeq(s \o t, k + 1, Len(s) + Len(t)) = SubSeq(s, k + 1, Len(s)) \o t
<1>1. s = SubSeq(s, 1, k) \o SubSeq(s, k + 1, Len(s))
  <2>1. SubSeq(s, 1, k) \o SubSeq(s, k + 1, Len(s)) = SubSeq(s, 1, Len(s))
    <3>1. Len(s) \in Nat
      BY LenProperties
    <3>2. 1 \in 1..Len(s) + 1 /\ k \in 1 - 1..Len(s) /\ Len(s) \in k..Len(s)
      BY <3>1
    <3> QED
      BY <3>2, ConcatAdjacentSubSeq
  <2> QED
    BY <2>1, SubSeqFull
<1> DEFINE a == SubSeq(s, 1, k)
           b == SubSeq(s, k + 1, Len(s))
<1>2. a \in Seq(S) /\ Len(a) = k /\ b \in Seq(S)
  <2>1. Len(s) \in Nat /\ \A i \in 1..Len(s) : s[i] \in S
    BY LenProperties, ElementOfSeq
  <2>2. k \in Int /\ Len(s) \in Int /\ k + 1 \in Int
    BY <2>1
  <2>3. a \in Seq(S) /\ Len(a) = k
    BY <2>1, <2>2, SubSeqProperties
  <2>4. b \in Seq(S)
    BY <2>1, <2>2, SubSeqProperties
  <2> QED
    BY <2>3, <2>4
<1>e. s = a \o b
  BY <1>1
<1> HIDE DEF a, b
<1>3. s \o t = a \o (b \o t)
  <2>1. (a \o b) \o t = a \o (b \o t)
    <3>1. \A x, y, z \in Seq(S) : (x \o y) \o z = x \o (y \o z)
      BY Associative, SMTT(60)
    <3>2. a \in Seq(S) /\ b \in Seq(S) /\ t \in Seq(S)
      BY <1>2
    <3> QED
      BY <3>1, <3>2, Zenon
  <2> QED
    BY <1>e, <2>1, Zenon
<1>4. b \o t \in Seq(S) /\ Len(b \o t) \in Nat /\ Len(s) + Len(t) = k + Len(b \o t)
  <2>1. b \o t \in Seq(S) /\ Len(b \o t) = Len(b) + Len(t)
    BY <1>2, ConcatProperties
  <2>2. Len(s) = k + Len(b)
    <3>1. Len(a \o b) = Len(a) + Len(b) /\ a \o b = s
      BY <1>1, <1>2, ConcatProperties DEF a, b
    <3> QED
      BY <1>2, <3>1
  <2>3. Len(b) \in Nat /\ Len(t) \in Nat /\ Len(s) \in Nat
    BY <1>2, LenProperties
  <2> QED
    BY <2>1, <2>2, <2>3
<1>5. ASSUME NEW u \in Seq(S) PROVE SubSeq(a \o u, k + 1, k + Len(u)) = u
  <2>1. Len(u) \in Nat
    BY LenProperties
  <2>2. CASE Len(u) = 0
    <3>1. u = <<>>
      BY <2>2, EmptySeq
    <3>2. SubSeq(a \o u, k + 1, k + Len(u)) = <<>>
      BY <2>1, <2>2, SubSeqEmpty
    <3> QED
      BY <3>1, <3>2
  <2>3. CASE Len(u) # 0
    <3>1. k + 1 \in Len(a) + 1..Len(a) + Len(u) /\ k + Len(u) \in Len(a) + 1..Len(a) + Len(u)
      BY <1>2, <2>1, <2>3
    <3>2. SubSeq(a \o u, k + 1, k + Len(u)) = SubSeq(u, k + 1 - Len(a), k + Len(u) - Len(a))
      BY <1>2, <3>1, SubSeqOfConcat2
    <3>3. k + 1 - Len(a) = 1 /\ k + Len(u) - Len(a) = Len(u)
      BY <1>2, <2>1
    <3> QED
      BY <3>2, <3>3, SubSeqFull
  <2> QED
    BY <2>2, <2>3
<1>6. SubSeq(a \o (b \o t), k + 1, k + Len(b \o t)) = b \o t
  BY <1>4, <1>5
<1> QED
  BY <1>3, <1>4, <1>6 DEF b

\* The next chunk of a file nobody edited.
LEMMA HonestChunk ==
  ASSUME IInv, NEW c \in Clients, Honest(c), InOrder(c)
  PROVE  /\ NextChunk(c) \in Seq(Units)
         /\ Len(NextChunk(c)) \in Nat /\ sent[c] \in Nat /\ Len(source[c]) \in Nat
         /\ sent[c] + Len(NextChunk(c)) <= Len(source[c])
         /\ NextChunk(c) = SubSeq(source[c], sent[c] + 1, sent[c] + Len(NextChunk(c)))
<1>1. /\ source[c] \in Seq(Bytes) /\ Len(source[c]) \in Nat /\ sent[c] \in Nat
      /\ sent[c] <= Len(source[c]) /\ job[c].total = Len(source[c])
      /\ ChunkSize \in Nat
  BY ContentsAssumption, LenProperties, ClientAssumption
     DEF IInv, TypeOK, ClientTypeOK, Honest, InOrder
<1>2. ClientTypeOK
  BY DEF IInv, TypeOK
<1> DEFINE left == job[c].total - sent[c]
           want == IF left <= ChunkSize THEN left ELSE ChunkSize
<1>3. want \in Nat /\ sent[c] + want <= Len(source[c])
  BY <1>1
<1>4. NextChunk(c) = SubSeq(source[c], sent[c] + 1, sent[c] + want)
  BY <1>3 DEF NextChunk
<1> HIDE DEF want
<1>5. \A i \in sent[c] + 1..sent[c] + want : source[c][i] \in Bytes
  BY <1>1, <1>3, ElementOfSeq
<1>6. Len(NextChunk(c)) = want
  BY <1>1, <1>3, <1>4, <1>5, SubSeqProperties
<1> QED
  BY <1>1, <1>2, <1>3, <1>4, <1>6, ChunkType

\* A chunk follows what has been sent.
LEMMA SendChunkGoes ==
  ASSUME IInv, IInv', ManyInv, NEW c \in Clients, SendChunk(c)
  PROVE  Goes(c) /\ \A d \in Clients \ {c} : Same(d)
<1>t. QuicTypeOK /\ ClientTypeOK
  BY DEF IInv, TypeOK
<1>m. SetupInv /\ JobInv /\ StreamInv
  BY DEF ManyInv
<1> DEFINE p == NextChunk(c)
           n == sent[c] + Len(p)
<1>1. /\ cpc[c] = "send_chunk" /\ sent' = [sent EXCEPT ![c] = n]
      /\ UNCHANGED <<job, source, decision, decision_buf, file_ack, ack, s2c, sFin, cStream,
                     sStream>>
      /\ \/ /\ ClientCanSend(c) /\ ClientSends(c, p, n >= job[c].total)
            /\ Goto(c, "chunk_wait") /\ UNCHANGED <<reset, send_result>>
         \/ abort_stream(c) /\ Finish(c, "failed") /\ UNCHANGED <<c2s, cFin>>
  BY DEF SendChunk, SendOutcomes, decisionVars, ackVars, s2cVars, streamVars
<1>2. ~Untold(c) /\ Talking(c)
  BY <1>1 DEF Untold, Talking, BodyStates
<1>3. cStream[c] # "none"
  BY <1>m, <1>2 DEF SetupInv
<1>4. Honest(c) /\ Accurate(c) /\ InOrder(c)
  BY <1>m, <1>2, <1>3 DEF JobInv, StreamInv, Accurate
<1>5. /\ p \in Seq(Units) /\ Len(p) \in Nat /\ sent[c] \in Nat /\ Len(source[c]) \in Nat
      /\ n \in Nat /\ n <= Len(source[c])
      /\ p = SubSeq(source[c], sent[c] + 1, n)
  BY <1>4, HonestChunk
<1> HIDE DEF p, n
<1>6. sent'[c] = n /\ n = sent[c] + Len(p)
  BY <1>t, <1>1 DEF ClientTypeOK, n
<1>n. /\ Len(p) \in Nat /\ sent[c] \in Nat /\ Len(source[c]) \in Nat
      /\ n \in Nat /\ n <= Len(source[c])
  BY <1>5
<1>7. \A d \in Clients \ {c} : Same(d)
  BY <1>t, <1>1
     DEF Same, QuicTypeOK, ClientTypeOK, ClientSends, Goto, Finish, abort_stream
<1>8. reset[c] = "no"
  BY <1>m, <1>1 DEF SetupInv, Gone
<1>9. /\ OkNews(c)' => OkNews(c)
      /\ cpc'[c] \notin NotYet
      /\ reset'[c] # "no" => cpc'[c] \in Gone
  <2>1. CASE Goto(c, "chunk_wait") /\ UNCHANGED <<reset, send_result>>
    <3>1. cpc'[c] = "chunk_wait"
      BY <1>t, <2>1 DEF Goto, ClientTypeOK
    <3> QED
      BY <1>1, <1>8, <2>1, <3>1 DEF OkNews, Without, NotYet
  <2>2. CASE Finish(c, "failed")
    <3>1. cpc'[c] = "disconnect" /\ send_result'[c] = "failed"
      BY <1>t, <2>2 DEF Finish, Goto, ClientTypeOK
    <3> QED
      BY <1>1, <3>1 DEF OkNews, Without, NotYet, Gone
  <2> QED
    BY <1>1, <2>1, <2>2
<1>10. cFin[c] = "seen" => cFin'[c] = "seen"
  BY <1>t, <1>1 DEF ClientSends, ClientCanSend
<1>11. Accurate(c)' => /\ InOrder(c)'
                       /\ Taken(c)' = Taken(c) /\ Whole(c)'[1] = Whole(c)[1]
  <2> SUFFICES ASSUME Accurate(c)'
               PROVE  InOrder(c)' /\ Taken(c)' = Taken(c) /\ Whole(c)'[1] = Whole(c)[1]
    OBVIOUS
  <2> DEFINE e == encode_file_header(job[c].header)
  <2>o. /\ Len(c2s[c]) <= Len(Whole(c)) /\ sent[c] <= Len(source[c])
        /\ c2s[c] = SubSeq(Whole(c), Taken(c) + 1, Len(Whole(c)))
        /\ cFin[c] # "no" => sent[c] = Len(source[c])
        /\ sStream[c] = "none" => Taken(c) = 0
    BY <1>4 DEF InOrder
  <2>w. /\ Whole(c) \in Seq(Units) /\ Len(Whole(c)) = 2 + sent[c]
        /\ c2s[c] \in Seq(Units) /\ Len(c2s[c]) \in Nat
    BY <1>4, <1>t, <2>o, WholeIs, LenProperties DEF Honest, QuicTypeOK
  <2>1. CASE ClientCanSend(c) /\ ClientSends(c, p, n >= job[c].total)
    <3>1. Whole(c)' = Whole(c) \o p
      <4>1. e \in Seq(Units)
        <5>1. job[c].header \in FileTransferHeader
          BY <1>4 DEF Honest, Jobs
        <5> QED
          BY <5>1, EncodeType
      <4> HIDE DEF e
      <4>2. SubSeq(source[c], 1, sent[c]) \o p = SubSeq(source[c], 1, n)
        <5>1. source[c] \in Seq(Bytes)
          BY <1>t, ContentsAssumption DEF ClientTypeOK
        <5>2. 1 \in 1..Len(source[c]) + 1 /\ sent[c] \in 1 - 1..Len(source[c])
              /\ n \in sent[c]..Len(source[c])
          BY <1>n, <1>6
        <5> QED
          BY <1>5, <5>1, <5>2, ConcatAdjacentSubSeq
      <4>3. Whole(c) = e \o SubSeq(source[c], 1, sent[c])
            /\ Whole(c)' = e \o SubSeq(source[c], 1, n)
        BY <1>1, <1>6 DEF Whole, e
      <4>4. SubSeq(source[c], 1, sent[c]) \in Seq(Units)
        <5>1. \A i \in 1..sent[c] : source[c][i] \in Units
          BY <1>4, <2>o, WholeIs DEF Honest, Units
        <5> QED
          BY <1>5, <5>1, SubSeqProperties
      <4>5. (e \o SubSeq(source[c], 1, sent[c])) \o p = e \o (SubSeq(source[c], 1, sent[c]) \o p)
        <5>1. p \in Seq(Units)
          BY <1>5
        <5>2. \A x, y, z \in Seq(Units) : (x \o y) \o z = x \o (y \o z)
          BY Associative, SMTT(60)
        <5> QED
          BY <4>1, <4>4, <5>1, <5>2, Zenon
      <4> QED
        BY <4>2, <4>3, <4>5
    <3>2. Len(Whole(c)') = Len(Whole(c)) + Len(p)
      BY <1>5, <2>w, <3>1, ConcatProperties
    <3>3. /\ c2s'[c] = c2s[c] \o p
          /\ cFin'[c] = IF n >= job[c].total THEN "sent" ELSE cFin[c]
      BY <1>t, <2>1 DEF ClientSends, QuicTypeOK
    <3>4. Len(c2s'[c]) = Len(c2s[c]) + Len(p)
      BY <1>5, <2>w, <3>3, ConcatProperties
    <3>5. Taken(c)' = Taken(c) /\ Taken(c) \in 0..Len(Whole(c)) /\ Len(c2s'[c]) <= Len(Whole(c)')
      <4>1. Len(c2s[c]) <= Len(Whole(c)) /\ Len(Whole(c)) \in Nat /\ Len(c2s[c]) \in Nat
        BY <1>n, <2>o, <2>w
      <4> QED
        BY <1>n, <3>2, <3>4, <4>1 DEF Taken
    <3>6. c2s'[c] = SubSeq(Whole(c)', Taken(c)' + 1, Len(Whole(c)'))
      <4>1. SubSeq(Whole(c) \o p, Taken(c) + 1, Len(Whole(c)) + Len(p))
              = SubSeq(Whole(c), Taken(c) + 1, Len(Whole(c))) \o p
        BY <1>5, <2>w, <3>5, RestConcat
      <4> QED
        BY <2>o, <3>1, <3>2, <3>3, <3>5, <4>1
    <3>7. cFin'[c] # "no" => sent'[c] = Len(source'[c])
      <4>1. cFin[c] = "no"
        BY <2>1 DEF ClientCanSend
      <4>2. job[c].total = Len(source[c])
        BY <1>4 DEF Honest
      <4> QED
        BY <1>1, <1>n, <1>6, <3>3, <4>1, <4>2
    <3>8. Whole(c)'[1] = Whole(c)[1]
      <4>1. 1 \in 1..Len(Whole(c)) + Len(p) /\ 1 <= Len(Whole(c))
        <5>1. Len(Whole(c)) \in Nat /\ Len(p) \in Nat /\ 1 <= Len(Whole(c))
          BY <1>5, <2>w
        <5> QED
          BY <5>1
      <4> QED
        BY <1>5, <2>w, <3>1, <4>1, ConcatProperties
    <3> QED
      BY <1>1, <1>5, <1>6, <2>o, <3>5, <3>6, <3>7, <3>8 DEF InOrder
  <2>2. CASE abort_stream(c) /\ Finish(c, "failed") /\ UNCHANGED <<c2s, cFin>>
    <3>1. cpc'[c] = "disconnect"
      BY <1>t, <2>2 DEF Finish, Goto, ClientTypeOK
    <3>2. cFin[c] # "no" \/ n = 0
      BY <1>6, <2>2, <3>1 DEF Accurate, Talking, Untold, BodyStates
    <3>3. n = sent[c]
      <4>1. cFin[c] # "no" => sent[c] = Len(source[c])
        BY <2>o
      <4> QED
        BY <1>n, <1>6, <3>2, <4>1
    <3>4. Whole(c)' = Whole(c)
      BY <1>1, <1>6, <3>3 DEF Whole
    <3>5. Taken(c)' = Taken(c)
      BY <2>2, <3>4 DEF Taken
    <3> QED
      BY <1>1, <1>6, <2>2, <2>o, <3>3, <3>4, <3>5 DEF InOrder
  <2> QED
    BY <1>1, <2>1, <2>2
<1> QED
  BY <1>1, <1>2, <1>3, <1>4, <1>7, <1>8, <1>9, <1>10, <1>11 DEF Goes

\* Every step of a sender's thread ...
LEMMA ClientThreadMany ==
  ASSUME IInv, IInv', ManyInv, OrderlySenders, NEW c \in Clients, ClientThreadStep(c)
  PROVE  ManyInv'
<1>t. file_stream \in Clients \cup {None}
  BY DEF IInv, TypeOK, ServerTypeOK
<1>m. SetupInv
  BY DEF ManyInv
<1>u. UNCHANGED <<serverVars, sStream>>
  BY DEF ClientThreadStep, ClientThread, Connect, ConnectReturns, SendHeader,
         SendWithoutConnection, HeaderSent, DecisionAccepted, DecisionRejected, WaitExpires,
         SendChunk, FileShrank, ChunkSent, SendReturns, SendRaw, RawReturns, Disconnect,
         DisconnectReturns, quicVars, streamVars
<1>s. SUFFICES Goes(c) /\ \A d \in Clients \ {c} : Same(d)
  BY <1>t, <1>u, ClientGoes
<1>b. cpc[c] \in BodyStates \/ decision[c] # "none" => ~Untold(c)
  BY DEF Untold
<1>r. cpc[c] \in NotYet => cStream[c] = "none"
  BY <1>m DEF SetupInv
<1>d. send_result' = [send_result EXCEPT ![c] = "failed"]
      \/ (send_result' = [send_result EXCEPT ![c] = "ok"] /\ ack[c] = "ok")
      \/ send_result' = [send_result EXCEPT ![c] = "raw"]
      => \E result : /\ send_result' = [send_result EXCEPT ![c] = result]
                     /\ result = "ok" => ack[c] = "ok"
  BY Zenon
<1> DEFINE Quiet == UNCHANGED <<jobVars, decisionVars, ackVars, c2s, cFin, s2cVars, streamVars>>
<1>1. CASE Connect(c)
  <2>1. Goto(c, "connecting") /\ Quiet /\ UNCHANGED <<send_result, reset>>
    BY <1>1 DEF Connect, c2sVars
  <2>2. cpc[c] = "start"
    BY <1>1 DEF Connect
  <2> QED
    BY <1>r, <2>1, <2>2, MovesOn DEF NotYet, Gone, SendStates, BodyStates
<1>2. CASE ConnectReturns(c)
  <2>1. Quiet /\ UNCHANGED reset /\ cpc[c] = "connecting"
    BY <1>2 DEF ConnectReturns, quicVars, c2sVars
  <2>2. \/ Goto(c, "ready") /\ UNCHANGED send_result
        \/ Goto(c, "disconnect") /\ send_result' = [send_result EXCEPT ![c] = "failed"]
    BY <1>2 DEF ConnectReturns, Finish
  <2> QED
    BY <1>d, <1>r, <2>1, <2>2, MovesOn DEF NotYet, Gone, SendStates, BodyStates
<1>3. CASE SendHeader(c)
  BY <1>3, SendHeaderGoes
<1>4. CASE SendWithoutConnection(c)
  <2>1. /\ Quiet /\ UNCHANGED reset /\ cpc[c] = "ready"
        /\ Goto(c, "disconnect") /\ send_result' = [send_result EXCEPT ![c] = "failed"]
    BY <1>4 DEF SendWithoutConnection, quicVars, c2sVars, Finish
  <2> QED
    BY <1>d, <2>1, MovesOn DEF NotYet, Gone, SendStates, BodyStates
<1>5. CASE HeaderSent(c)
  <2>1. /\ Quiet /\ UNCHANGED <<reset, send_result>> /\ cpc[c] = "header_wait"
        /\ Goto(c, "decision_wait")
    BY <1>5 DEF HeaderSent, quicVars, c2sVars
  <2> QED
    BY <2>1, MovesOn DEF NotYet, Gone, SendStates, BodyStates
<1>6. CASE DecisionAccepted(c)
  <2>1. /\ Quiet /\ UNCHANGED <<reset, send_result>> /\ cpc[c] = "decision_wait"
        /\ Goto(c, "send_chunk") /\ decision[c] # "none"
    BY <1>6 DEF DecisionAccepted, quicVars, c2sVars
  <2> QED
    BY <1>b, <2>1, MovesOn DEF NotYet, Gone, SendStates, BodyStates
<1>7. CASE DecisionRejected(c)
  <2>1. /\ Quiet /\ abort_stream(c) /\ cpc[c] = "decision_wait" /\ decision[c] # "none"
        /\ Goto(c, "disconnect") /\ send_result' = [send_result EXCEPT ![c] = "failed"]
    BY <1>7 DEF DecisionRejected, Finish
  <2> QED
    BY <1>d, <2>1, MovesOn DEF NotYet, Gone, SendStates, BodyStates
<1>8. CASE WaitExpires(c)
  BY <1>8 DEF WaitExpires, OrderlySenders
<1>9. CASE SendChunk(c)
  BY <1>9, SendChunkGoes
<1>10. CASE FileShrank(c)
  <2>1. /\ Quiet /\ abort_stream(c) /\ cpc[c] = "send_chunk"
        /\ Goto(c, "disconnect") /\ send_result' = [send_result EXCEPT ![c] = "failed"]
    BY <1>10 DEF FileShrank, Finish
  <2> QED
    BY <1>d, <2>1, MovesOn DEF NotYet, Gone, SendStates, BodyStates
<1>11. CASE ChunkSent(c)
  <2>1. /\ Quiet /\ UNCHANGED <<reset, send_result>> /\ cpc[c] = "chunk_wait"
        /\ Goto(c, "send_chunk") \/ Goto(c, "ack_wait")
    BY <1>11 DEF ChunkSent, quicVars, c2sVars
  <2> QED
    BY <1>b, <2>1, MovesOn DEF NotYet, Gone, SendStates, BodyStates
<1>12. CASE SendReturns(c)
  <2>1. /\ Quiet /\ UNCHANGED reset /\ cpc[c] = "ack_wait" /\ Goto(c, "disconnect")
        /\ \/ send_result' = [send_result EXCEPT ![c] = "failed"]
           \/ send_result' = [send_result EXCEPT ![c] = "ok"] /\ ack[c] = "ok"
    BY <1>12 DEF SendReturns, quicVars, c2sVars, Finish, AckedOk
  <2> QED
    BY <1>d, <2>1, MovesOn DEF NotYet, Gone, SendStates, BodyStates
<1>13. CASE SendRaw(c)
  BY <1>13 DEF SendRaw, OrderlySenders
<1>14. CASE RawReturns(c)
  <2>1. /\ Quiet /\ UNCHANGED reset /\ cpc[c] \in {"raw_wait", "raw_ack_wait"}
        /\ \/ Goto(c, "raw_ack_wait") /\ UNCHANGED send_result
           \/ Goto(c, "disconnect") /\ send_result' = [send_result EXCEPT ![c] = "raw"]
    BY <1>14 DEF RawReturns, quicVars, c2sVars, Finish
  <2> QED
    BY <1>d, <2>1, MovesOn DEF NotYet, Gone, SendStates, BodyStates
<1>15. CASE Disconnect(c)
  <2>1. /\ Quiet /\ UNCHANGED <<reset, send_result>> /\ cpc[c] = "disconnect"
        /\ Goto(c, "shutdown_wait")
    BY <1>15 DEF Disconnect, c2sVars
  <2> QED
    BY <2>1, MovesOn DEF NotYet, Gone, SendStates, BodyStates
<1>16. CASE DisconnectReturns(c)
  <2>1. /\ Quiet /\ UNCHANGED <<reset, send_result>> /\ cpc[c] = "shutdown_wait"
        /\ Goto(c, "done")
    BY <1>16 DEF DisconnectReturns, quicVars, c2sVars
  <2> QED
    BY <2>1, MovesOn DEF NotYet, Gone, SendStates, BodyStates
<1> QED
  BY <1>1, <1>2, <1>3, <1>4, <1>5, <1>6, <1>7, <1>8, <1>9, <1>10, <1>11, <1>12, <1>13,
     <1>14, <1>15, <1>16 DEF ClientThreadStep, ClientThread

\* ... and every callback of it keeps the invariant.
LEMMA ClientCallbackMany ==
  ASSUME IInv, ManyInv, NEW c \in Clients, ClientCallbackStep(c)
  PROVE  ManyInv'
<1>t. file_stream \in Clients \cup {None} /\ cStream \in [Clients -> StreamStates]
  BY DEF IInv, TypeOK, ServerTypeOK, QuicTypeOK
<1>u. UNCHANGED <<serverVars, sStream>>
  BY DEF ClientCallbackStep, ClientCallback, OnConnected, OnShutdownInitiated,
         OnConnectionShutdownComplete, OnReceive, OnPeerSendShutdown, OnSendComplete,
         OnStreamShutdownComplete, streamVars
<1>s. SUFFICES Goes(c) /\ \A d \in Clients \ {c} : Same(d)
  BY <1>t, <1>u, ClientGoes
<1>1. CASE OnReceive(c)
  BY <1>1, OnReceiveGoes
<1>2. CASE OnPeerSendShutdown(c)
  BY <1>2, OnFinGoes
<1>3. CASE OnStreamShutdownComplete(c)
  <2>1. /\ UNCHANGED <<cpc, jobVars, decisionVars, ackVars, send_result, c2sVars, s2cVars,
                       sStream>>
        /\ cStream[c] # "none" /\ cStream' = [cStream EXCEPT ![c] = "closed"]
    BY <1>3 DEF OnStreamShutdownComplete, clientVars, ClientStreamOver
  <2>2. /\ \A d \in Clients : cStream'[d] = "none" <=> cStream[d] = "none"
        /\ \A d \in Clients \ {c} : cStream'[d] = cStream[d]
    BY <1>t, <2>1
  <2> QED
    BY <2>1, <2>2, NothingHeard
<1>4. CASE OnConnected(c) \/ OnShutdownInitiated(c) \/ OnConnectionShutdownComplete(c)
           \/ OnSendComplete(c)
  <2>1. UNCHANGED <<cpc, jobVars, decisionVars, ackVars, send_result, c2sVars, s2cVars,
                    sStream, cStream>>
    BY <1>4 DEF OnConnected, OnShutdownInitiated, OnConnectionShutdownComplete,
                OnSendComplete, streamVars
  <2> QED
    BY <2>1, NothingHeard
<1> QED
  BY <1>1, <1>2, <1>3, <1>4 DEF ClientCallbackStep, ClientCallback

-----------------------------------------------------------------------------
(* Steps of the receiving thread.                                          *)

\* What a step of the server does to the stream of d: it may read from it and answer on it.
Kept(d) ==
  /\ cFin'[d] = "no" <=> cFin[d] = "no"
  /\ reset'[d] = "no" <=> reset[d] = "no"
  /\ sStream'[d] = "none" => sStream[d] = "none"
  /\ s2c'[d] = <<>> /\ sFin'[d] = "no" => s2c[d] = <<>> /\ sFin[d] = "no"
  /\ InOrder(d) => InOrder(d)'
  /\ cStream[d] = "none" =>
       /\ sStream'[d] = "none"
       /\ c2s'[d] = c2s[d] /\ s2c'[d] = s2c[d] /\ sFin'[d] = sFin[d]

\* Then what is known of the streams stays known.
LEMMA StreamFrame ==
  ASSUME ManyInv, UNCHANGED <<clientVars, cStream>>, \A d \in Clients : Kept(d),
         rpc' \in Arming => rpc \in Arming
  PROVE  /\ SetupInv' /\ JobInv' /\ StreamInv'
         /\ \A d \in Clients : Accurate(d)' => Accurate(d)
         /\ \A d \in Clients : Whole(d)' = Whole(d)
<1>m. SetupInv /\ JobInv /\ StreamInv
  BY DEF ManyInv
<1>u. UNCHANGED <<cpc, sent, job, source, decision, decision_buf, file_ack, ack, send_result,
                  cStream>>
  BY DEF clientVars, jobVars, decisionVars, ackVars
<1>1. ASSUME NEW d \in Clients PROVE Accurate(d)' => Accurate(d)
  <2>1. Talking(d)' => Talking(d)
    BY <1>u DEF Talking, Kept
  <2>2. Untold(d)' => Untold(d)
    BY <1>u DEF Untold, Kept
  <2> QED
    BY <1>u, <2>1, <2>2 DEF Accurate
<1>2. \A d \in Clients : Whole(d)' = Whole(d)
  BY <1>u DEF Whole
<1>3. StreamInv'
  BY <1>m, <1>1 DEF StreamInv, Kept
<1>4. JobInv'
  BY <1>m, <1>u DEF JobInv, Honest
<1>5. SetupInv'
  <2>1. ASSUME NEW d \in Clients, cStream[d] = "none"
        PROVE  sStream'[d] = "none" /\ c2s'[d] = <<>> /\ Untold(d)' /\ ~OkNews(d)'
    <3>1. c2s[d] = <<>> /\ Untold(d) /\ ~OkNews(d)
      BY <1>m, <2>1 DEF SetupInv
    <3>2. Untold(d)'
      BY <1>u, <2>1, <3>1 DEF Kept, Untold
    <3>3. ~OkNews(d)'
      BY <1>u, <2>1, <3>1 DEF Kept, OkNews, Without
    <3> QED
      BY <2>1, <3>1, <3>2, <3>3 DEF Kept
  <2>2. \A d \in Clients : reset'[d] # "no" => cpc'[d] \in Gone
    BY <1>m, <1>u DEF SetupInv, Kept
  <2> QED
    BY <1>m, <1>u, <2>1, <2>2 DEF SetupInv
<1> QED
  BY <1>1, <1>2, <1>3, <1>4, <1>5

\* How a step may change what receive_file holds of the file: not at all but for the
\* flag, by closing the output when it returns, or by forgetting the file.
HeldMoves ==
  \/ /\ rx' = rx \/ rx' = [rx EXCEPT !.accepted = TRUE]
     /\ (receiving_file' => receiving_file) /\ (Live' => Live)
  \/ rx' = CloseFile(rx) /\ ~receiving_file'
  \/ /\ rx'.out = "null" /\ rx'.bytes_written = 0
     /\ rx'.header_parsed /\ ~rx'.io_error => file_header \in FileTransferHeader
     /\ ~rx'.header_parsed => ~DecodesHeader(rx'.buffer)
     /\ Live' => file_stream = None

\* What a step of the thread may say, and to whom.
Replies ==
  \/ UNCHANGED s2cVars
  \/ /\ rpc' \notin Unanswered
     /\ \E word \in {"ACCEPT", "REJECT"}, fin \in BOOLEAN : ServerSends(file_stream, word, fin)

\* A reply that says something else is no news.
LEMMA NoNews ==
  ASSUME IInv, ManyInv, UNCHANGED clientVars, Replies
  PROVE  /\ \A d \in Clients : OkNews(d)' => OkNews(d)
         /\ \A d \in Clients \ {file_stream} : s2c'[d] = s2c[d] /\ sFin'[d] = sFin[d]
         /\ \A d \in Clients : s2c'[d] = <<>> => s2c[d] = <<>> /\ sFin'[d] = sFin[d]
<1>t. QuicTypeOK
  BY DEF IInv, TypeOK
<1>u. UNCHANGED <<file_ack, ack, send_result>>
  BY DEF clientVars, ackVars
<1>1. CASE UNCHANGED s2cVars
  BY <1>1, <1>u DEF OkNews, Without, s2cVars
<1>2. CASE \E word \in {"ACCEPT", "REJECT"}, fin \in BOOLEAN :
             ServerSends(file_stream, word, fin)
  <2>1. PICK word \in {"ACCEPT", "REJECT"}, fin \in BOOLEAN : ServerSends(file_stream, word, fin)
    BY <1>2
  <2>2. word \in Words \ {"OK"} /\ word \in Words
    BY DEF Words
  <2>3. \A d \in Clients \ {file_stream} : s2c'[d] = s2c[d] /\ sFin'[d] = sFin[d]
    BY <1>t, <2>1 DEF ServerSends, QuicTypeOK
  <2>4. ASSUME file_stream \in Clients
        PROVE  /\ s2c'[file_stream] # <<>>
               /\ Without(s2c[file_stream], "OK") => Without(s2c'[file_stream], "OK")
    <3>1. s2c'[file_stream] = s2c[file_stream] \o ReplyText(word)
      BY <1>t, <2>1, <2>4 DEF ServerSends, QuicTypeOK
    <3>2. s2c[file_stream] \in Seq(Fragments) /\ ReplyText(word) \in Seq(Fragments)
      BY <1>t, <2>2, <2>4, ReplyType DEF QuicTypeOK
    <3>3. ReplyText(word) # <<>>
      BY DEF ReplyText
    <3>4. s2c[file_stream] \o ReplyText(word) # <<>>
      BY <3>2, <3>3, ConcatEqualIffEmpty
    <3>5. Without(s2c[file_stream], "OK") => Without(s2c[file_stream] \o ReplyText(word), "OK")
      BY <2>2, <3>2, WithoutReply, WithoutConcat
    <3> QED
      BY <3>1, <3>4, <3>5
  <2>5. \A d \in Clients : Without(s2c[d], "OK") => Without(s2c'[d], "OK")
    <3> SUFFICES ASSUME NEW d \in Clients PROVE Without(s2c[d], "OK") => Without(s2c'[d], "OK")
      OBVIOUS
    <3>1. CASE d = file_stream
      BY <2>4, <3>1
    <3>2. CASE d # file_stream
      BY <2>3, <3>2 DEF Without
    <3> QED
      BY <3>1, <3>2
  <2>6. \A d \in Clients : OkNews(d)' => OkNews(d)
    BY <1>u, <2>5 DEF OkNews, Without
  <2> QED
    BY <2>3, <2>4, <2>6
<1> QED
  BY <1>1, <1>2 DEF Replies

\* A step of the thread that opens nothing keeps the invariant.
LEMMA ThreadMoves ==
  ASSUME IInv, ManyInv, Replies, HeldMoves, CallInv',
         UNCHANGED <<clientVars, c2sVars, streamVars, file_stream, file_header, disk>>,
         rpc' \in Arming => rpc \in Arming,
         rpc' \in Unanswered => rpc \in Unanswered,
         rpc \in Answered => rpc' \in Answered,
         rpc \in Accepting => rpc' \in Accepting \cup Answered,
         rpc = "accept_flag" => rx'.accepted,
         (rpc' = "offer_wait" /\ offer_ready') \/ rpc' = "prompt" =>
           rpc = "offer_wait" /\ offer_ready
  PROVE  ManyInv'
<1>t. rx \in RxState /\ file_stream \in Clients \cup {None} /\ None \notin Clients
  BY ClientsAssumption DEF IInv, TypeOK, ServerTypeOK
<1>m. ToldInv /\ SetupInv /\ CurrentInv /\ JobInv /\ StreamInv /\ ShelfInv
      /\ CallInv /\ HeadInv /\ BodyInv /\ ClosedInv /\ NewsInv
  BY DEF ManyInv
<1>u. /\ UNCHANGED <<cpc, sent, job, source, decision, decision_buf, file_ack, ack, send_result,
                     cStream>>
      /\ UNCHANGED <<c2s, cFin, reset, cStream, sStream>>
  BY DEF clientVars, jobVars, decisionVars, ackVars, c2sVars, streamVars
<1>n. /\ \A d \in Clients : OkNews(d)' => OkNews(d)
      /\ \A d \in Clients \ {file_stream} : s2c'[d] = s2c[d] /\ sFin'[d] = sFin[d]
      /\ \A d \in Clients : s2c'[d] = <<>> => s2c[d] = <<>> /\ sFin'[d] = sFin[d]
  BY NoNews
<1>1. \A d \in Clients : Whole(d)' = Whole(d) /\ Taken(d)' = Taken(d)
  BY <1>u DEF Whole, Taken
<1>2. \A d \in Clients : Kept(d)
  <2> SUFFICES ASSUME NEW d \in Clients PROVE Kept(d)
    OBVIOUS
  <2>1. InOrder(d) => InOrder(d)'
    BY <1>u, <1>1 DEF InOrder
  <2>2. cStream[d] = "none" => d # file_stream /\ sStream[d] = "none"
    BY <1>m, <1>t DEF SetupInv, CurrentInv
  <2> QED
    BY <1>u, <1>n, <2>1, <2>2 DEF Kept
<1>3. /\ SetupInv' /\ JobInv' /\ StreamInv'
      /\ \A d \in Clients : Accurate(d)' => Accurate(d)
  <2>1. UNCHANGED <<clientVars, cStream>>
    BY <1>u
  <2> QED
    BY <1>2, <2>1, StreamFrame
<1>4. \A d \in Clients : Sound(d)' => Sound(d)
  BY <1>u, <1>3 DEF Sound
<1>o. rx'.out # "null" => rx.out # "null"
  BY <1>t DEF HeldMoves, CloseFile, RxState
<1>5. ToldInv'
  <2>1. rpc' \in Unanswered => \A c \in Clients : Untold(c)'
    <3> SUFFICES ASSUME rpc' \in Unanswered, NEW c \in Clients PROVE Untold(c)'
      OBVIOUS
    <3>1. Untold(c)
      BY <1>m DEF ToldInv
    <3>2. UNCHANGED <<s2c, sFin>>
      BY DEF Replies, s2cVars
    <3> QED
      BY <1>u, <3>1, <3>2 DEF Untold
  <2>2. ASSUME rx'.out # "null", NEW c \in Clients, c # file_stream PROVE Untold(c)'
    <3>1. Untold(c)
      BY <1>m, <1>o, <2>2 DEF ToldInv
    <3> QED
      BY <1>u, <1>n, <2>2, <3>1 DEF Untold
  <2> QED
    BY <2>1, <2>2 DEF ToldInv
<1>6. CurrentInv'
  BY <1>m, <1>u, <1>o DEF CurrentInv
<1>7. ShelfInv'
  <2>1. rx'.out # "null" => rpc' \in Accepting \cup Answered
    BY <1>m, <1>o DEF ShelfInv
  <2>2. CASE rx' = rx
    BY <1>m, <2>1, <2>2 DEF ShelfInv
  <2>3. CASE rx' = CloseFile(rx)
    <3>1. /\ rx'.bytes_written = rx.bytes_written /\ rx'.out_path = rx.out_path
          /\ rx'.header_parsed = rx.header_parsed /\ rx'.io_error = rx.io_error
          /\ rx'.buffer = rx.buffer /\ rx'.out # "open"
          /\ rx.out # "null" => rx'.out # "null"
      BY <1>t, <2>3 DEF CloseFile, RxState
    <3> QED
      BY <1>m, <1>o, <2>1, <3>1 DEF ShelfInv
  <2>4. CASE rx' = [rx EXCEPT !.accepted = TRUE]
    <3>1. /\ rx'.bytes_written = rx.bytes_written /\ rx'.out_path = rx.out_path
          /\ rx'.header_parsed = rx.header_parsed /\ rx'.io_error = rx.io_error
          /\ rx'.buffer = rx.buffer /\ rx'.out = rx.out /\ rx'.accepted
      BY <1>t, <2>4 DEF RxState
    <3> QED
      BY <1>m, <2>1, <3>1 DEF ShelfInv
  <2>5. CASE rx' # rx /\ rx' # CloseFile(rx) /\ rx' # [rx EXCEPT !.accepted = TRUE]
    BY <2>5 DEF HeldMoves, ShelfInv
  <2> QED
    BY <2>2, <2>3, <2>4, <2>5
<1>l. Live' => \/ Live /\ (rx' = rx \/ rx' = [rx EXCEPT !.accepted = TRUE])
               \/ rx'.out = "null" /\ file_stream = None
  <2>1. ~receiving_file' => ~Live'
    BY DEF CallInv, Live, Ended, Accepting
  <2> QED
    BY <2>1 DEF HeldMoves
<1>f. (rx' = rx \/ rx' = [rx EXCEPT !.accepted = TRUE]) =>
        /\ rx'.out = rx.out /\ rx'.out_path = rx.out_path
        /\ rx'.bytes_written = rx.bytes_written /\ rx'.header_parsed = rx.header_parsed
        /\ rx'.io_error = rx.io_error /\ rx'.overflow = rx.overflow
        /\ rx'.buffer = rx.buffer
  BY <1>t DEF RxState
<1>8. HeadInv'
  <2> SUFFICES ASSUME Live', file_stream # None, Sound(file_stream)', ~rx'.header_parsed
               PROVE  \/ Len(rx'.buffer) >= 2
                      \/ Taken(file_stream)' = 0
                      \/ Taken(file_stream)' = 1 /\ rx'.buffer = <<Whole(file_stream)'[1]>>
    BY DEF HeadInv
  <2>1. /\ Live /\ Sound(file_stream)
        /\ rx'.header_parsed = rx.header_parsed /\ rx'.buffer = rx.buffer
    BY <1>l, <1>f, <1>t, <1>4
  <2> QED
    BY <1>m, <1>t, <1>1, <2>1 DEF HeadInv
<1>9. BodyInv'
  <2> SUFFICES ASSUME Live', rx'.out = "open", rx'.header_parsed, ~rx'.overflow, ~rx'.io_error,
                      Sound(file_stream)'
               PROVE  \/ Tainted(disk[rx.out_path])'
                      \/ (disk[rx.out_path] = SubSeq(source[file_stream], 1, Taken(file_stream) - 2))'
                      \/ (/\ file_header.size = Len(source[file_stream])
                          /\ rx.bytes_written < Taken(file_stream) - 2)'
    BY DEF BodyInv
  <2>1. /\ Live
        /\ rx'.out = rx.out /\ rx'.out_path = rx.out_path
        /\ rx'.bytes_written = rx.bytes_written /\ rx'.header_parsed = rx.header_parsed
        /\ rx'.io_error = rx.io_error /\ rx'.overflow = rx.overflow
    BY <1>l, <1>f
  <2>2. file_stream \in Clients
    BY <1>m, <1>t, <2>1 DEF CurrentInv
  <2>3. Sound(file_stream) /\ Taken(file_stream)' = Taken(file_stream)
    BY <1>1, <1>4, <2>2
  <2>4. Tainted(disk[rx.out_path])' <=> Tainted(disk[rx.out_path])
    BY <2>1 DEF Tainted
  <2> QED
    BY <1>m, <1>u, <2>1, <2>3, <2>4 DEF BodyInv
<1>10. ClosedInv'
  <2> SUFFICES ASSUME rx'.out = "closed", receiving_file'
               PROVE  cFin[file_stream] = "seen" \/ reset[file_stream] = "seen"
    BY <1>u DEF ClosedInv
  <2>1. rx'.out = rx.out /\ receiving_file
    BY <1>f DEF HeldMoves
  <2> QED
    BY <1>m, <2>1 DEF ClosedInv
<1>11. NewsInv'
  <2> SUFFICES ASSUME NEW d \in Clients, OkNews(d)' PROVE Stored(d)'
    BY DEF NewsInv
  <2>1. Stored(d)
    BY <1>m, <1>n DEF NewsInv
  <2>2. rx'.out # "open"
    BY <1>t, <2>1 DEF Stored, HeldMoves, CloseFile, RxState
  <2> QED
    BY <1>u, <2>1, <2>2 DEF Stored
<1> QED
  BY <1>3, <1>5, <1>6, <1>7, <1>8, <1>9, <1>10, <1>11 DEF ManyInv

\* Before the first answer no stream has delivered more than a header.
LEMMA HeaderOnly ==
  ASSUME IInv, ManyInv, NEW c \in Clients, Accurate(c), Untold(c)
  PROVE  Taken(c) <= 2 /\ Taken(c) \in Nat
<1>1. Honest(c) /\ InOrder(c) /\ sent[c] = 0
  BY DEF ManyInv, JobInv, StreamInv, Accurate, Untold
<1>2. Len(Whole(c)) = 2 + sent[c]
  BY <1>1, WholeIs DEF Honest, InOrder
<1>3. Len(c2s[c]) \in Nat
  BY LenProperties DEF IInv, TypeOK, QuicTypeOK
<1> QED
  BY <1>1, <1>2, <1>3 DEF Taken, InOrder

\* Approval with an output that opens: nothing is stored yet, and every stream is still
\* at its header.
LEMMA OpensMany ==
  ASSUME IInv, IInv', ManyInv, ApprovalInv, rpc = "prompt", rpc' = "accept_flag",
         rx.path \in Names,
         rx' = [rx EXCEPT !.out = "open", !.out_path = rx.path],
         disk' = [disk EXCEPT ![rx.path] = <<>>],
         UNCHANGED <<clientVars, c2sVars, s2cVars, streamVars, file_stream, file_header,
                     receiving_file, blocked>>
  PROVE  ManyInv'
<1>t. /\ rx \in RxState /\ file_stream \in Clients \cup {None} /\ None \notin Clients
      /\ disk \in Disks
  BY ClientsAssumption DEF IInv, TypeOK, ServerTypeOK, Disks
<1>m. ToldInv /\ SetupInv /\ CurrentInv /\ JobInv /\ StreamInv /\ ShelfInv
      /\ CallInv /\ HeadInv /\ BodyInv /\ ClosedInv /\ NewsInv
  BY DEF ManyInv
<1>u. /\ UNCHANGED <<cpc, sent, job, source, decision, decision_buf, file_ack, ack, send_result,
                     cStream>>
      /\ UNCHANGED <<c2s, cFin, reset, cStream, sStream, s2c, sFin>>
  BY DEF clientVars, jobVars, decisionVars, ackVars, c2sVars, s2cVars, streamVars
<1>r. /\ rx'.out = "open" /\ rx'.out_path = rx.path
      /\ rx'.bytes_written = rx.bytes_written /\ rx'.buffer = rx.buffer
      /\ rx'.header_parsed = rx.header_parsed /\ rx'.io_error = rx.io_error
      /\ rx'.overflow = rx.overflow
  BY <1>t DEF RxState
<1>s. \A d \in Clients :
        /\ Untold(d)' <=> Untold(d)
        /\ OkNews(d)' <=> OkNews(d)
        /\ Accurate(d)' <=> Accurate(d)
        /\ Whole(d)' = Whole(d) /\ Taken(d)' = Taken(d)
        /\ InOrder(d)' <=> InOrder(d)
        /\ Sound(d)' <=> Sound(d)
  <2>1. \A d \in Clients : Same(d)
    BY <1>u DEF Same
  <2> QED
    BY <1>u, <2>1, SameKeeps
<1>2. \A d \in Clients : Kept(d)
  BY <1>m, <1>u, <1>s DEF Kept, SetupInv
<1>3. SetupInv' /\ JobInv' /\ StreamInv'
  <2>1. UNCHANGED <<clientVars, cStream>> /\ rpc' \notin Arming
    BY <1>u DEF Arming
  <2> QED
    BY <1>2, <2>1, StreamFrame
<1>4. \A d \in Clients : Untold(d)
  BY <1>m DEF ToldInv, Unanswered
<1>5. ToldInv'
  BY <1>s, <1>4 DEF ToldInv
<1>6. file_stream \in Clients
  BY <1>m, <1>t DEF CurrentInv
<1>7. CurrentInv'
  BY <1>m, <1>t, <1>u, <1>6 DEF CurrentInv
<1>8. rx.out = "null" /\ rx.bytes_written = 0
  BY <1>m DEF ShelfInv, Answered, Ended, Accepting
<1>9. \A n \in Names : disk[n] = None
  <2>1. answer # "accept"
    BY DEF ApprovalInv, AnswerInv
  <2> QED
    BY <2>1 DEF ApprovalInv, UnapprovedInv, NothingStored
<1>10. disk'[rx.path] = <<>> /\ \A n \in Names \ {rx.path} : disk'[n] = None
  BY <1>t, <1>9 DEF Disks
<1>11. ShelfInv'
  <2>1. disk'[rx.path] \in Seq(Units) /\ Len(disk'[rx.path]) = 0
    BY <1>10, EmptySeq
  <2>2. rpc' \in Accepting \cup Answered
    BY DEF Accepting
  <2>3. rx.header_parsed /\ ~rx.io_error => file_header' \in FileTransferHeader
    BY <1>m DEF ShelfInv
  <2>4. ~rx.header_parsed => ~DecodesHeader(rx.buffer)
    BY <1>m DEF ShelfInv
  <2> QED
    BY <1>r, <1>8, <1>10, <2>1, <2>2, <2>3, <2>4 DEF ShelfInv
<1>12. CallInv'
  BY <1>m DEF CallInv, Ended
<1>13. HeadInv'
  BY <1>m, <1>r, <1>s, <1>6 DEF HeadInv, Live
<1>14. BodyInv'
  <2> SUFFICES ASSUME Sound(file_stream)'
               PROVE  disk'[rx'.out_path]
                        = SubSeq(source'[file_stream], 1, Taken(file_stream)' - 2)
    BY DEF BodyInv
  <2>1. Taken(file_stream) <= 2 /\ Taken(file_stream) \in Nat
    BY <1>s, <1>4, <1>6, HeaderOnly DEF Sound
  <2>2. SubSeq(source[file_stream], 1, Taken(file_stream) - 2) = <<>>
    BY <2>1, SubSeqEmpty
  <2> QED
    BY <1>r, <1>s, <1>u, <1>6, <1>10, <2>2
<1>15. ClosedInv'
  BY <1>r DEF ClosedInv
<1>16. NewsInv'
  <2> SUFFICES ASSUME NEW d \in Clients, OkNews(d)' PROVE FALSE
    BY DEF NewsInv
  <2>1. Stored(d)
    BY <1>m, <1>s DEF NewsInv
  <2> QED
    BY <2>1 DEF Stored, Answered, Ended
<1> QED
  BY <1>3, <1>5, <1>7, <1>11, <1>12, <1>13, <1>14, <1>15, <1>16 DEF ManyInv

\* Every step of the receiving thread keeps the invariant.
LEMMA ServerThreadMany ==
  ASSUME IInv, IInv', ManyInv, ApprovalInv, Prompt, ServerThreadStep
  PROVE  ManyInv'
<1>t. rx \in RxState
  BY DEF IInv, TypeOK, ServerTypeOK
<1>m. ToldInv /\ SetupInv /\ CurrentInv /\ ShelfInv /\ CallInv
  BY DEF ManyInv
<1>c. UNCHANGED clientVars
  BY DEF ServerThreadStep
<1> DEFINE Still == UNCHANGED <<clientVars, c2sVars, streamVars, file_stream, file_header, disk>>
<1>a. rpc \in Arming => file_stream = None /\ rx.out = "null"
  <2>1. rpc \in Arming => \A d \in Clients : sStream[d] = "none"
    BY <1>m DEF SetupInv
  <2>2. file_stream \in Clients \cup {None}
    BY DEF IInv, TypeOK, ServerTypeOK
  <2>3. rpc \in Arming => rx.out = "null"
    BY <1>m DEF ShelfInv, Arming, Answered, Ended, Accepting
  <2> QED
    BY <1>m, <2>1, <2>2, <2>3 DEF CurrentInv
<1>o. rpc \notin Accepting \cup Answered => rx.out = "null" /\ rx.bytes_written = 0
  BY <1>m DEF ShelfInv
<1>1. CASE ArmReceiving \/ ArmOffer
  <2>1. Still /\ UNCHANGED <<s2cVars, rx, waitVars>>
    BY <1>1, <1>c DEF ArmReceiving, ArmOffer, quicVars, callbackVars
  <2>2. CallInv'
    BY <1>1, <1>m, <2>1 DEF ArmReceiving, ArmOffer, CallInv, Ended, waitVars
  <2>3. HeldMoves
    <3>1. file_stream = None /\ rx.out = "null" /\ rx.bytes_written = 0
      BY <1>1, <1>a, <1>m DEF ArmReceiving, ArmOffer, Arming, ShelfInv
    <3>2. rx.header_parsed /\ ~rx.io_error => file_header \in FileTransferHeader
      BY <1>m DEF ShelfInv
    <3>3. ~rx.header_parsed => ~DecodesHeader(rx.buffer)
      BY <1>m DEF ShelfInv
    <3> QED
      BY <2>1, <3>1, <3>2, <3>3 DEF HeldMoves
  <2>4. Replies
    BY <2>1 DEF Replies
  <2> QED
    BY <1>1, <2>1, <2>2, <2>3, <2>4, ThreadMoves
       DEF ArmReceiving, ArmOffer, Arming, Accepting, Unanswered, Answered, Ended
<1>2. CASE ArmPath
  <2>1. /\ Still /\ UNCHANGED <<s2cVars, waitVars>>
        /\ rx' = [rx EXCEPT !.path = OutputPath]
    BY <1>2, <1>c DEF ArmPath, quicVars, callbackVars
  <2>2. CallInv'
    BY <1>2, <1>m, <2>1 DEF ArmPath, CallInv, Ended, waitVars
  <2>3. HeldMoves
    <3>1. /\ rx'.out = rx.out /\ rx'.bytes_written = rx.bytes_written
          /\ rx'.header_parsed = rx.header_parsed /\ rx'.io_error = rx.io_error
          /\ rx'.buffer = rx.buffer
      BY <1>t, <2>1 DEF RxState
    <3>2. file_stream = None /\ rx.out = "null" /\ rx.bytes_written = 0
      BY <1>2, <1>a, <1>m DEF ArmPath, Arming, ShelfInv
    <3>3. rx.header_parsed /\ ~rx.io_error => file_header \in FileTransferHeader
      BY <1>m DEF ShelfInv
    <3>4. ~rx.header_parsed => ~DecodesHeader(rx.buffer)
      BY <1>m DEF ShelfInv
    <3> QED
      BY <3>1, <3>2, <3>3, <3>4 DEF HeldMoves
  <2>4. Replies
    BY <2>1 DEF Replies
  <2> QED
    BY <1>2, <2>1, <2>2, <2>3, <2>4, ThreadMoves
       DEF ArmPath, Arming, Accepting, Unanswered, Answered, Ended
<1>3. CASE ArmReset
  <2>1. /\ Still /\ UNCHANGED <<s2cVars, blocked, receiving_file>>
        /\ rx' = FreshRx(rx.path) /\ rpc = "arm_reset" /\ rpc' = "offer_wait" /\ ~offer_ready'
    BY <1>3, <1>c DEF ArmReset, quicVars, callbackVars
  <2>2. CallInv'
    <3>1. receiving_file /\ \A c \in Clients : blocked[c] = "no"
      BY <1>m, <2>1 DEF CallInv, Ended
    <3> QED
      BY <2>1, <3>1 DEF CallInv, Ended
  <2>3. HeldMoves
    <3>1. /\ rx'.out = "null" /\ rx'.bytes_written = 0 /\ ~rx'.header_parsed
          /\ rx'.buffer = <<>>
      BY <2>1 DEF FreshRx
    <3>2. ~DecodesHeader(<<>>)
      BY EmptySeq DEF DecodesHeader, HeaderUnits
    <3>3. file_stream = None
      BY <1>a, <2>1 DEF Arming
    <3> QED
      BY <3>1, <3>2, <3>3 DEF HeldMoves
  <2>4. Replies
    BY <2>1 DEF Replies
  <2> QED
    BY <2>1, <2>2, <2>3, <2>4, ThreadMoves DEF Arming, Accepting, Unanswered, Answered, Ended
<1>4. CASE OfferArrived
  <2>1. /\ Still /\ UNCHANGED <<s2cVars, rx, waitVars, receiving_file>>
        /\ rpc = "offer_wait" /\ rpc' = "prompt" /\ offer_ready
    BY <1>4, <1>c DEF OfferArrived, quicVars, callbackVars
  <2>2. CallInv'
    BY <1>m, <2>1 DEF CallInv, Ended, waitVars
  <2>3. HeldMoves /\ Replies
    BY <2>1 DEF HeldMoves, Live, Accepting, Replies
  <2> QED
    BY <2>1, <2>2, <2>3, ThreadMoves DEF Arming, Accepting, Unanswered, Answered, Ended
<1>5. CASE OfferFailed \/ OfferTimeout \/ DrainAfterReject
  <2>1. /\ Still /\ UNCHANGED <<s2cVars, rx, waitVars>> /\ ~receiving_file'
        /\ rpc \in {"offer_wait", "reject_drain", "reject_locked"} /\ rpc' = "returned"
    BY <1>5, <1>c DEF OfferFailed, OfferTimeout, DrainAfterReject, Return, quicVars,
       callbackVars
  <2>2. CallInv'
    BY <2>1 DEF CallInv, Ended
  <2>3. HeldMoves /\ Replies
    BY <2>1 DEF HeldMoves, Live, Accepting, Replies
  <2> QED
    BY <2>1, <2>2, <2>3, ThreadMoves DEF Arming, Accepting, Unanswered, Answered, Ended
<1>6. CASE PromptReject
  <2>1. /\ Still /\ UNCHANGED <<rx, waitVars, receiving_file>>
        /\ rpc = "prompt" /\ rpc' = "reject_drain" /\ SendReject
    BY <1>6, <1>c DEF PromptReject, callbackVars
  <2>2. CallInv'
    BY <1>m, <2>1 DEF CallInv, Ended, waitVars
  <2>3. HeldMoves
    BY <2>1 DEF HeldMoves, Live, Accepting
  <2>4. Replies
    BY <2>1 DEF SendReject, Replies, Unanswered, Accepting, Arming
  <2> QED
    BY <2>1, <2>2, <2>3, <2>4, ThreadMoves DEF Arming, Accepting, Unanswered, Answered, Ended
<1>7. CASE PromptAccept
  <2>1. PICK opened \in OpenOutcomes(rx.path) :
          /\ rpc' = IF opened THEN "accept_flag" ELSE "reject_locked"
          /\ rx' = OpenedRx(rx, opened)
          /\ disk' = OpenedDisk(rx, opened)
          /\ IF opened THEN UNCHANGED <<s2cVars, sSends>> ELSE SendReject
    BY <1>7 DEF PromptAccept
  <2>2. /\ opened \in BOOLEAN /\ (opened => rx.path \in Names)
    BY <1>t DEF OpenOutcomes, Outcomes, RxState
  <2>3. /\ UNCHANGED <<clientVars, c2sVars, streamVars, file_stream, file_header, waitVars,
                       receiving_file>>
        /\ rpc = "prompt"
    BY <1>7, <1>c DEF PromptAccept, callbackVars
  <2>4. CASE opened
    <3>1. /\ rpc' = "accept_flag" /\ UNCHANGED s2cVars
          /\ disk' = [disk EXCEPT ![rx.path] = <<>>]
          /\ rx' = [rx EXCEPT !.out = "open", !.out_path = rx.path]
      BY <1>t, <2>1, <2>2, <2>4 DEF OpenedDisk, OpenedRx, RxState
    <3>2. UNCHANGED blocked
      BY <2>3 DEF waitVars
    <3> QED
      BY <2>2, <2>3, <2>4, <3>1, <3>2, OpensMany
  <2>5. CASE ~opened
    <3>1. rpc' = "reject_locked" /\ SendReject /\ disk' = disk
      BY <2>1, <2>5 DEF OpenedDisk
    <3>2. CallInv'
      BY <1>m, <2>3, <3>1 DEF CallInv, Ended
    <3>3. HeldMoves
      <4>1. /\ rx'.out = "null" /\ rx'.bytes_written = rx.bytes_written
            /\ rx'.header_parsed = rx.header_parsed /\ rx'.io_error /\ rx'.buffer = rx.buffer
        BY <1>t, <2>1, <2>5 DEF OpenedRx, RxState
      <4>2. rx.bytes_written = 0
        BY <1>o, <2>3 DEF Answered, Ended, Accepting
      <4>3. ~rx.header_parsed => ~DecodesHeader(rx.buffer)
        BY <1>m DEF ShelfInv
      <4> QED
        BY <3>1, <4>1, <4>2, <4>3 DEF HeldMoves, Live, Accepting
    <3>4. Replies
      BY <3>1 DEF SendReject, Replies, Unanswered, Accepting, Arming
    <3> QED
      BY <2>3, <3>1, <3>2, <3>3, <3>4, ThreadMoves
         DEF Arming, Accepting, Unanswered, Answered, Ended
  <2> QED
    BY <2>2, <2>4, <2>5
<1>8. CASE SendAccept
  <2>1. /\ Still /\ UNCHANGED <<rx, waitVars, receiving_file>>
        /\ rpc = "accept_send" /\ rpc' = "final_wait"
        /\ \/ ServerSends(file_stream, "ACCEPT", FALSE)
           \/ UNCHANGED s2cVars
    BY <1>8, <1>c DEF SendAccept, callbackVars
  <2>2. CallInv'
    BY <1>m, <2>1 DEF CallInv, Ended, waitVars
  <2>3. HeldMoves
    BY <2>1 DEF HeldMoves, Live, Accepting
  <2>4. Replies
    BY <2>1 DEF Replies, Unanswered, Accepting, Arming
  <2> QED
    BY <2>1, <2>2, <2>3, <2>4, ThreadMoves DEF Arming, Accepting, Unanswered, Answered, Ended
<1>9. CASE TransferFinished
  <2>1. /\ Still /\ UNCHANGED <<s2cVars, rx, waitVars, receiving_file>>
        /\ rpc = "final_wait" /\ rpc' = "ok_drain"
    BY <1>9, <1>c DEF TransferFinished, quicVars, callbackVars
  <2>2. CallInv'
    BY <1>m, <2>1 DEF CallInv, Ended, waitVars
  <2>3. HeldMoves /\ Replies
    BY <2>1 DEF HeldMoves, Live, Accepting, Replies
  <2> QED
    BY <2>1, <2>2, <2>3, ThreadMoves DEF Arming, Accepting, Unanswered, Answered, Ended
<1>10. CASE TransferFailed \/ DrainAfterTransfer
  <2>1. /\ Still /\ UNCHANGED s2cVars /\ ~receiving_file'
        /\ rpc \in {"final_wait", "ok_drain"} /\ rpc' = "returned"
        /\ rx' = rx \/ rx' = CloseFile(rx)
    BY <1>10, <1>c DEF TransferFailed, DrainAfterTransfer, Return, quicVars, callbackVars
  <2>2. CallInv'
    BY <2>1 DEF CallInv, Ended
  <2>3. HeldMoves /\ Replies
    BY <2>1 DEF HeldMoves, Live, Accepting, Replies
  <2> QED
    BY <2>1, <2>2, <2>3, ThreadMoves DEF Arming, Accepting, Unanswered, Answered, Ended
<1>11. CASE Stop \/ StopReturns
  <2>1. /\ Still /\ UNCHANGED <<s2cVars, rx, receiving_file>>
        /\ rpc \in {"returned", "stopping"} /\ rpc' \in {"stopping", "stopped"}
    BY <1>11, <1>c DEF Stop, StopReturns, quicVars, callbackVars
  <2>2. CallInv'
    BY <1>m, <2>1 DEF CallInv, Ended
  <2>3. HeldMoves /\ Replies
    BY <2>1 DEF HeldMoves, Live, Accepting, Replies
  <2> QED
    BY <2>1, <2>2, <2>3, ThreadMoves DEF Arming, Accepting, Unanswered, Answered, Ended
<1>12. CASE MarkAccepted
  <2>1. /\ Still /\ UNCHANGED <<s2cVars, waitVars, receiving_file>>
        /\ rx' = [rx EXCEPT !.accepted = TRUE]
        /\ rpc = "accept_flag" /\ rpc' = "accept_send"
    BY <1>12, <1>c DEF MarkAccepted, quicVars, callbackVars
  <2>2. CallInv'
    BY <1>m, <2>1 DEF CallInv, Ended, waitVars
  <2>3. HeldMoves /\ Replies
    BY <2>1 DEF HeldMoves, Live, Replies, Accepting
  <2>4. rx'.accepted
    BY <1>t, <2>1 DEF RxState
  <2> QED
    BY <2>1, <2>2, <2>3, <2>4, ThreadMoves DEF Arming, Accepting, Unanswered, Answered, Ended
<1> QED
  BY <1>1, <1>2, <1>3, <1>4, <1>5, <1>6, <1>7, <1>8, <1>9, <1>10, <1>11, <1>12
     DEF ServerThreadStep, ServerThread

-----------------------------------------------------------------------------
(* Callbacks of the server.                                                *)

\* What a callback leaves alone in every case: its thread is not the receiving one.
LEMMA NotifyCall ==
  ASSUME ManyInv, NEW c \in Clients, sStream[c] # "none", NEW success, NEW r,
         notify_file_waiter(c, success, r), UNCHANGED <<rpc, receiving_file>>,
         blocked \in [Clients -> {"no", "offer", "notify_true", "notify_false"}]
  PROVE  CallInv' /\ UNCHANGED offer_ready
<1>1. SetupInv /\ CallInv
  BY DEF ManyInv
<1>2. rpc \notin Arming
  BY <1>1 DEF SetupInv
<1>3. blocked' = blocked \/ rpc = "reject_locked"
  BY <1>2 DEF notify_file_waiter, MutexHeld, Arming
<1> QED
  BY <1>1, <1>3 DEF CallInv, notify_file_waiter

\* A step that neither reads nor answers keeps the invariant.
LEMMA QuietMany ==
  ASSUME IInv, ManyInv, CallInv',
         UNCHANGED <<clientVars, c2sVars, s2cVars, cStream, file_stream, file_header, disk,
                     rpc, receiving_file>>,
         \A d \in Clients : sStream'[d] = "none" <=> sStream[d] = "none",
         rx' = rx \/ (rpc \in Ended /\ rx' = [rx EXCEPT !.buffer = <<>>]),
         offer_ready' = offer_ready \/ rpc \in Ended
  PROVE  ManyInv'
<1>t. rx \in RxState /\ file_stream \in Clients \cup {None} /\ None \notin Clients
  BY ClientsAssumption DEF IInv, TypeOK, ServerTypeOK
<1>m. ToldInv /\ SetupInv /\ CurrentInv /\ JobInv /\ StreamInv /\ ShelfInv
      /\ CallInv /\ HeadInv /\ BodyInv /\ ClosedInv /\ NewsInv
  BY DEF ManyInv
<1>u. /\ UNCHANGED <<cpc, sent, job, source, decision, decision_buf, file_ack, ack, send_result,
                     cStream>>
      /\ UNCHANGED <<c2s, cFin, reset, s2c, sFin>>
  BY DEF clientVars, jobVars, decisionVars, ackVars, c2sVars, s2cVars
<1>s. \A d \in Clients :
        /\ Untold(d)' <=> Untold(d)
        /\ OkNews(d)' <=> OkNews(d)
        /\ Accurate(d)' <=> Accurate(d)
        /\ Whole(d)' = Whole(d) /\ Taken(d)' = Taken(d)
        /\ InOrder(d)' <=> InOrder(d)
        /\ Sound(d)' <=> Sound(d)
  <2>1. \A d \in Clients : Same(d)
    BY <1>u DEF Same
  <2> QED
    BY <2>1, SameKeeps
<1>r. /\ rx'.out = rx.out /\ rx'.bytes_written = rx.bytes_written /\ rx'.out_path = rx.out_path
      /\ rx'.header_parsed = rx.header_parsed /\ rx'.io_error = rx.io_error
      /\ rx'.overflow = rx.overflow /\ rx'.accepted = rx.accepted
      /\ rx'.buffer = rx.buffer \/ (rx'.buffer = <<>> /\ rpc \in Ended)
  BY <1>t DEF RxState
<1>1. \A d \in Clients : Kept(d)
  BY <1>m, <1>u, <1>s DEF Kept, SetupInv
<1>2. SetupInv' /\ JobInv' /\ StreamInv'
  <2>1. UNCHANGED <<clientVars, cStream>> /\ rpc' = rpc
    BY <1>u
  <2> QED
    BY <1>1, <2>1, StreamFrame
<1>3. ToldInv'
  BY <1>m, <1>r, <1>s DEF ToldInv
<1>4. CurrentInv'
  BY <1>m, <1>t, <1>r DEF CurrentInv, Ended
<1>5. ShelfInv'
  <2>1. ~DecodesHeader(<<>>)
    BY EmptySeq DEF DecodesHeader, HeaderUnits
  <2>2. ~rx'.header_parsed => ~DecodesHeader(rx'.buffer)
    BY <1>m, <1>r, <2>1 DEF ShelfInv
  <2> QED
    BY <1>m, <1>r, <2>2 DEF ShelfInv
<1>6. Live' <=> Live
  BY <1>r DEF Live
<1>7. rpc \in Ended => ~Live
  BY DEF Live, Ended, Accepting
<1>8. HeadInv'
  <2> SUFFICES ASSUME Live', file_stream # None, Sound(file_stream)', ~rx'.header_parsed
               PROVE  \/ Len(rx'.buffer) >= 2
                      \/ Taken(file_stream)' = 0
                      \/ Taken(file_stream)' = 1 /\ rx'.buffer = <<Whole(file_stream)'[1]>>
    BY DEF HeadInv
  <2> QED
    BY <1>m, <1>t, <1>r, <1>s, <1>6, <1>7 DEF HeadInv
<1>9. BodyInv'
  <2> SUFFICES ASSUME Live', rx'.out = "open", rx'.header_parsed, ~rx'.overflow, ~rx'.io_error,
                      Sound(file_stream)'
               PROVE  \/ Tainted(disk[rx.out_path])'
                      \/ (disk[rx.out_path] = SubSeq(source[file_stream], 1, Taken(file_stream) - 2))'
                      \/ (/\ file_header.size = Len(source[file_stream])
                          /\ rx.bytes_written < Taken(file_stream) - 2)'
    BY DEF BodyInv
  <2>1. file_stream \in Clients
    BY <1>m, <1>t, <1>r DEF CurrentInv
  <2>2. Tainted(disk[rx.out_path])' <=> Tainted(disk[rx.out_path])
    BY <1>r DEF Tainted
  <2> QED
    BY <1>m, <1>u, <1>r, <1>s, <1>6, <2>1, <2>2 DEF BodyInv
<1>10. ClosedInv'
  BY <1>m, <1>r, <1>u DEF ClosedInv
<1>11. NewsInv'
  <2> SUFFICES ASSUME NEW d \in Clients, OkNews(d)' PROVE Stored(d)'
    BY DEF NewsInv
  <2>1. Stored(d)
    BY <1>m, <1>s DEF NewsInv
  <2> QED
    BY <1>r, <1>u, <2>1 DEF Stored
<1> QED
  BY <1>2, <1>3, <1>4, <1>5, <1>8, <1>9, <1>10, <1>11 DEF ManyInv

\* A new stream starts a new file, and has delivered nothing yet.
LEMMA StreamStartedMany ==
  ASSUME IInv, ManyInv, NEW c \in Clients, ServerCallbackStep(c), on_peer_stream_started(c)
  PROVE  ManyInv'
<1>t. /\ file_stream \in Clients \cup {None} /\ None \notin Clients
      /\ sStream \in [Clients -> StreamStates]
  BY ClientsAssumption DEF IInv, TypeOK, ServerTypeOK, QuicTypeOK
<1>m. ToldInv /\ SetupInv /\ CurrentInv /\ JobInv /\ StreamInv /\ ShelfInv /\ CallInv /\ NewsInv
  BY DEF ManyInv
<1>u. /\ UNCHANGED <<clientVars, cStream>>
      /\ UNCHANGED <<cpc, sent, job, source, decision, decision_buf, file_ack, ack, send_result,
                     c2s, cFin, reset, s2c, sFin, rpc, receiving_file, blocked, file_header,
                     disk>>
      /\ file_stream' = c /\ sStream' = [sStream EXCEPT ![c] = "open"]
      /\ cStream[c] # "none" /\ sStream[c] = "none"
      /\ rx' = FreshRx(rx.path)
  BY DEF ServerCallbackStep, on_peer_stream_started, clientVars, jobVars, decisionVars, ackVars,
         c2sVars, s2cVars, flowVars, waitVars
<1>r. /\ rx'.out = "null" /\ rx'.bytes_written = 0 /\ ~rx'.header_parsed /\ rx'.buffer = <<>>
  BY <1>u DEF FreshRx
<1>1. \A d \in Clients : Untold(d)' <=> Untold(d)
  BY <1>u DEF Untold
<1>2. \A d \in Clients : OkNews(d)' => OkNews(d)
  BY <1>u DEF OkNews, Without
<1>3. \A d \in Clients : Whole(d)' = Whole(d) /\ Taken(d)' = Taken(d)
  BY <1>u DEF Whole, Taken
<1>4. \A d \in Clients : Kept(d)
  <2> SUFFICES ASSUME NEW d \in Clients PROVE Kept(d)
    OBVIOUS
  <2>1. sStream'[d] = "none" => sStream[d] = "none"
    BY <1>t, <1>u
  <2>2. InOrder(d) => InOrder(d)'
    BY <1>u, <1>3, <2>1 DEF InOrder
  <2>3. cStream[d] = "none" => sStream'[d] = "none"
    BY <1>m, <1>t, <1>u DEF SetupInv
  <2> QED
    BY <1>u, <2>1, <2>2, <2>3 DEF Kept
<1>5. /\ SetupInv' /\ JobInv' /\ StreamInv'
      /\ \A d \in Clients : Accurate(d)' => Accurate(d)
  BY <1>u, <1>4, StreamFrame
<1>6. ToldInv'
  BY <1>m, <1>u, <1>r, <1>1 DEF ToldInv
<1>7. CurrentInv'
  <2>1. sStream'[c] # "none"
    BY <1>t, <1>u
  <2> QED
    BY <1>t, <1>u, <2>1 DEF CurrentInv
<1>8. ShelfInv'
  <2>1. ~DecodesHeader(<<>>)
    BY EmptySeq DEF DecodesHeader, HeaderUnits
  <2> QED
    BY <1>r, <2>1 DEF ShelfInv
<1>9. CallInv'
  BY <1>m, <1>u DEF CallInv
<1>10. HeadInv'
  <2> SUFFICES ASSUME Sound(c)' PROVE Taken(c)' = 0
    BY <1>u DEF HeadInv
  <2>1. InOrder(c)
    BY <1>m, <1>5 DEF Sound, StreamInv
  <2> QED
    BY <1>u, <1>3, <2>1 DEF InOrder
<1>11. BodyInv' /\ ClosedInv'
  BY <1>r DEF BodyInv, ClosedInv
<1>12. NewsInv'
  <2> SUFFICES ASSUME NEW d \in Clients, OkNews(d)' PROVE Stored(d)'
    BY DEF NewsInv
  <2>1. Stored(d)
    BY <1>m, <1>2 DEF NewsInv
  <2> QED
    BY <1>r, <1>u, <2>1 DEF Stored
<1> QED
  BY <1>5, <1>6, <1>7, <1>8, <1>9, <1>10, <1>11, <1>12 DEF ManyInv

\* Only the stream the output belongs to can be aborted while it is open.
LEMMA AbortedMany ==
  ASSUME IInv, ManyInv, NEW c \in Clients, ServerCallbackStep(c), on_peer_aborted(c)
  PROVE  ManyInv'
<1>t. /\ rx \in RxState /\ file_stream \in Clients \cup {None} /\ None \notin Clients
      /\ reset \in [Clients -> Signals] /\ c2s \in [Clients -> Seq(Units)]
      /\ blocked \in [Clients -> {"no", "offer", "notify_true", "notify_false"}]
  BY ClientsAssumption DEF IInv, TypeOK, ServerTypeOK, QuicTypeOK
<1>m. ToldInv /\ SetupInv /\ CurrentInv /\ JobInv /\ StreamInv /\ ShelfInv
      /\ CallInv /\ HeadInv /\ BodyInv /\ ClosedInv /\ NewsInv
  BY DEF ManyInv
<1>u. /\ UNCHANGED <<clientVars, cStream>>
      /\ UNCHANGED <<cpc, sent, job, source, decision, decision_buf, file_ack, ack, send_result,
                     cFin, s2c, sFin, sStream, rpc, receiving_file, file_header, disk,
                     file_stream>>
      /\ sStream[c] = "open" /\ reset[c] = "sent"
      /\ reset' = [reset EXCEPT ![c] = "seen"]
      /\ c2s' = [c2s EXCEPT ![c] = <<>>]
  BY DEF ServerCallbackStep, on_peer_aborted, clientVars, jobVars, decisionVars, ackVars,
         s2cVars, streamVars, flowVars, ServerHears
<1>n. /\ IF receiving_file THEN rx' = CloseFile(rx) ELSE rx' = rx
      /\ CallInv' /\ UNCHANGED offer_ready
  <2>1. CASE receiving_file
    BY <1>t, <1>u, <2>1, NotifyCall DEF on_peer_aborted
  <2>2. CASE ~receiving_file
    <3>1. UNCHANGED <<blocked, offer_ready, rx>>
      BY <2>2 DEF on_peer_aborted, waitVars
    <3> QED
      BY <1>m, <1>u, <2>2, <3>1 DEF CallInv
  <2> QED
    BY <2>1, <2>2
<1>r. /\ rx'.bytes_written = rx.bytes_written /\ rx'.out_path = rx.out_path
      /\ rx'.header_parsed = rx.header_parsed /\ rx'.io_error = rx.io_error
      /\ rx'.overflow = rx.overflow /\ rx'.accepted = rx.accepted
      /\ rx'.buffer = rx.buffer
      /\ rx'.out # "null" <=> rx.out # "null"
      /\ rx'.out = "open" => rx.out = "open"
      /\ rx'.out = "closed" => rx.out # "null"
      /\ receiving_file => rx'.out # "open"
  BY <1>t, <1>n DEF CloseFile, RxState
<1>1. ~Untold(c) /\ cpc[c] \in Gone
  BY <1>m, <1>u DEF Untold, SetupInv
<1>2. \A d \in Clients \ {c} : reset'[d] = reset[d] /\ c2s'[d] = c2s[d]
  BY <1>t, <1>u
<1>3. reset'[c] = "seen" /\ c2s'[c] = <<>>
  BY <1>t, <1>u
<1>4. \A d \in Clients : Untold(d)' <=> Untold(d)
  <2> SUFFICES ASSUME NEW d \in Clients PROVE Untold(d)' <=> Untold(d)
    OBVIOUS
  <2>1. CASE d = c
    BY <1>1, <1>3, <2>1 DEF Untold
  <2>2. CASE d # c
    BY <1>u, <1>2, <2>2 DEF Untold
  <2> QED
    BY <2>1, <2>2
<1>5. \A d \in Clients : OkNews(d)' => OkNews(d)
  BY <1>u DEF OkNews, Without
<1>6. \A d \in Clients : Whole(d)' = Whole(d)
  BY <1>u DEF Whole
<1>7. \A d \in Clients \ {c} : Taken(d)' = Taken(d)
  BY <1>2, <1>6 DEF Taken
<1>8. \A d \in Clients : InOrder(d) => InOrder(d)'
  <2> SUFFICES ASSUME NEW d \in Clients, InOrder(d) PROVE InOrder(d)'
    OBVIOUS
  <2>1. CASE d = c
    <3>1. Len(Whole(c)) \in Nat
      <4>1. Honest(c)
        BY <1>m, <1>u DEF SetupInv, JobInv
      <4> QED
        BY <2>1, <4>1, WholeIs DEF Honest, InOrder
    <3>2. Taken(c)' = Len(Whole(c))
      BY <1>3, <1>6, <3>1 DEF Taken
    <3>3. SubSeq(Whole(c), Len(Whole(c)) + 1, Len(Whole(c))) = <<>>
      BY <3>1, SubSeqEmpty
    <3> QED
      BY <1>u, <1>3, <1>6, <2>1, <3>1, <3>2, <3>3 DEF InOrder
  <2>2. CASE d # c
    BY <1>u, <1>2, <1>6, <1>7, <2>2 DEF InOrder
  <2> QED
    BY <2>1, <2>2
<1>9. \A d \in Clients : Kept(d)
  <2> SUFFICES ASSUME NEW d \in Clients PROVE Kept(d)
    OBVIOUS
  <2>1. reset'[d] = "no" <=> reset[d] = "no"
    BY <1>u, <1>2, <1>3
  <2>2. cStream[d] = "none" => sStream[d] = "none" /\ d # c
    BY <1>m, <1>u DEF SetupInv
  <2> QED
    BY <1>u, <1>2, <1>8, <2>1, <2>2 DEF Kept
<1>10. /\ SetupInv' /\ JobInv' /\ StreamInv'
       /\ \A d \in Clients : Accurate(d)' => Accurate(d)
  BY <1>u, <1>9, StreamFrame
<1>11. ToldInv'
  BY <1>m, <1>u, <1>r, <1>4 DEF ToldInv
<1>12. CurrentInv'
  BY <1>m, <1>u, <1>n, <1>r DEF CurrentInv
<1>13. ShelfInv'
  BY <1>m, <1>u, <1>r DEF ShelfInv
<1>14. Live' => Live
  BY <1>u, <1>r DEF Live
<1>15. Sound(file_stream)' /\ file_stream \in Clients => file_stream # c /\ Sound(file_stream)
  BY <1>u, <1>2, <1>3, <1>10 DEF Sound
<1>16. HeadInv'
  <2> SUFFICES ASSUME Live', file_stream # None, Sound(file_stream)', ~rx'.header_parsed
               PROVE  \/ Len(rx'.buffer) >= 2
                      \/ Taken(file_stream)' = 0
                      \/ Taken(file_stream)' = 1 /\ rx'.buffer = <<Whole(file_stream)'[1]>>
    BY <1>u DEF HeadInv
  <2> QED
    BY <1>m, <1>t, <1>u, <1>r, <1>6, <1>7, <1>14, <1>15 DEF HeadInv
<1>17. BodyInv'
  <2>1. Live' /\ rx'.out = "open" => FALSE
    BY <1>m, <1>u, <1>r DEF Live, CallInv, Ended, Accepting
  <2> QED
    BY <2>1 DEF BodyInv
<1>18. ClosedInv'
  <2> SUFFICES ASSUME rx'.out = "closed", receiving_file
               PROVE  cFin[file_stream] = "seen" \/ reset'[file_stream] = "seen"
    BY <1>u DEF ClosedInv
  <2>1. c = file_stream
    BY <1>m, <1>1, <1>r DEF ToldInv
  <2> QED
    BY <1>3, <2>1
<1>19. NewsInv'
  <2> SUFFICES ASSUME NEW d \in Clients, OkNews(d)' PROVE Stored(d)'
    BY DEF NewsInv
  <2>1. Stored(d)
    BY <1>m, <1>5 DEF NewsInv
  <2> QED
    BY <1>r, <1>u, <2>1 DEF Stored
<1> QED
  BY <1>10, <1>11, <1>12, <1>13, <1>n, <1>16, <1>17, <1>18, <1>19 DEF ManyInv

-----------------------------------------------------------------------------
(* The FIN of a sender.                                                    *)

\* What finish_file_receive verifies is the file of the sender it answers.
LEMMA VerifiedIsStored ==
  ASSUME IInv, ManyInv, OrderlySenders, NEW c \in Clients, receiving_file,
         sStream[c] = "open", reset[c] # "seen", cFin[c] = "sent", c2s[c] = <<>>,
         NEW readable, Verified(readable)
  PROVE  /\ rpc \in Answered /\ rx.path \in Names
         /\ sha256(disk[rx.path]) = job[c].header.sha256_hex
<1>t. rx \in RxState /\ disk \in Disks /\ source[c] \in Seq(Bytes) /\ Contents \subseteq Seq(Bytes)
  BY ContentsAssumption DEF IInv, TypeOK, ServerTypeOK, ClientTypeOK, Disks
<1>m. ToldInv /\ SetupInv /\ JobInv /\ StreamInv /\ ShelfInv /\ CallInv /\ BodyInv /\ ClosedInv
  BY DEF ManyInv
<1>v. /\ ~rx.io_error /\ rx.header_parsed /\ rx.out # "null" /\ ~rx.overflow
      /\ rx.bytes_written = file_header.size /\ rx.path # None
      /\ sha256(disk[rx.path]) = file_header.sha256_hex
  BY DEF Verified
<1>1. ~Untold(c)
  BY DEF Untold
<1>2. c = file_stream /\ rpc \notin Unanswered
  BY <1>m, <1>v, <1>1 DEF ToldInv
<1>3. rpc \in {"final_wait", "ok_drain"}
  BY <1>m, <1>v, <1>2 DEF ShelfInv, CallInv, Answered, Unanswered
<1>4. rx.out = "open"
  <2>1. rx.out \in {"null", "open", "closed"}
    BY <1>t DEF RxState
  <2>2. rx.out # "closed"
    BY <1>m, <1>2 DEF ClosedInv
  <2> QED
    BY <1>v, <2>1, <2>2
<1>5. Sound(c) /\ Honest(c) /\ InOrder(c)
  <2>1. Accurate(c)
    BY <1>m DEF SetupInv, Accurate, Talking
  <2> QED
    BY <1>m, <2>1 DEF Sound, Accurate, JobInv, StreamInv
<1>6. Taken(c) = 2 + Len(source[c]) /\ Len(source[c]) \in Nat
  <2>1. sent[c] = Len(source[c])
    BY <1>5 DEF InOrder
  <2>2. Len(Whole(c)) = 2 + sent[c] /\ Len(source[c]) \in Nat
    BY <1>5, WholeIs DEF Honest, InOrder
  <2>3. Len(c2s[c]) = 0
    BY EmptySeq
  <2> QED
    BY <2>1, <2>2, <2>3 DEF Taken
<1>7. disk[rx.path] \in Contents
  <2>1. file_header.sha256_hex \in Hashes
    BY <1>m, <1>v DEF ShelfInv, FileTransferHeader
  <2>2. PICK content \in Contents : sha256(disk[rx.path]) = sha256(content)
    BY <1>v, <2>1 DEF Hashes
  <2>3. disk[rx.path] = content
    BY <2>2 DEF sha256
  <2> QED
    BY <2>3
<1>8. rx.path \in Names /\ rx.path = rx.out_path
  <2>1. rx.path \in Names
    BY <1>t, <1>v DEF RxState
  <2>2. disk[rx.path] # None
    BY <1>7 DEF OrderlySenders
  <2> QED
    BY <1>m, <1>v, <2>1, <2>2 DEF ShelfInv
<1>9. ~Tainted(disk[rx.out_path])
  <2>1. disk[rx.out_path] \in Seq(Bytes)
    BY <1>t, <1>7, <1>8
  <2>2. \A i \in 1..Len(disk[rx.out_path]) : disk[rx.out_path][i] \in Bytes
    BY <2>1, ElementOfSeq
  <2> QED
    BY <2>2 DEF Tainted, OrderlySenders
<1>10. disk[rx.out_path] = source[c]
  <2>1. Live
    BY <1>3, <1>4 DEF Live
  <2>2. Taken(file_stream) - 2 = Len(source[c])
    BY <1>2, <1>6
  <2>3. ~(/\ file_header.size = Len(source[file_stream])
          /\ rx.bytes_written < Taken(file_stream) - 2)
    BY <1>2, <1>6, <1>v, <2>2
  <2>4. disk[rx.out_path] = SubSeq(source[file_stream], 1, Taken(file_stream) - 2)
    BY <1>m, <1>v, <1>2, <1>4, <1>5, <1>9, <2>1, <2>3 DEF BodyInv
  <2>5. SubSeq(source[c], 1, Len(source[c])) = source[c]
    BY <1>t, SubSeqFull
  <2> QED
    BY <1>2, <2>2, <2>4, <2>5
<1> QED
  BY <1>3, <1>5, <1>8, <1>10 DEF Honest, Answered

\* What a FIN does to what receive_file holds, and who is told what.
LEMMA FinOutcome ==
  ASSUME IInv, ManyInv, OrderlySenders, NEW c \in Clients,
         ServerCallbackStep(c), on_peer_send_shutdown(c)
  PROVE  /\ CallInv' /\ UNCHANGED offer_ready
         /\ \/ rx' = rx
            \/ receiving_file /\ \E ok \in BOOLEAN :
                                   rx' = [CloseFile(rx) EXCEPT !.sending_final_ack = ok]
         /\ \/ UNCHANGED s2cVars
            \/ \E word \in {"OK", "FAIL"} :
                 /\ ServerSends(c, word, TRUE) /\ receiving_file /\ rx'.out # "open"
                 /\ word = "OK" => /\ rpc \in Answered /\ rx.path \in Names
                                   /\ sha256(disk[rx.path]) = job[c].header.sha256_hex
<1>t. /\ rx \in RxState
      /\ blocked \in [Clients -> {"no", "offer", "notify_true", "notify_false"}]
  BY DEF IInv, TypeOK, ServerTypeOK
<1>u. /\ UNCHANGED <<rpc, receiving_file>>
      /\ sStream[c] = "open" /\ reset[c] # "seen" /\ cFin[c] = "sent" /\ c2s[c] = <<>>
  BY DEF on_peer_send_shutdown, flowVars, ServerHears
<1>m. CallInv
  BY DEF ManyInv
<1>1. CASE receiving_file /\ (rx.accepted \/ rx.io_error)
  <2>1. finish_file_receive(c)
    BY <1>1 DEF on_peer_send_shutdown
  <2>2. PICK readable \in Outcomes("open"), ok \in SendOutcomes(ServerCanSend(c)) :
          /\ rx' = [CloseFile(rx) EXCEPT !.sending_final_ack = ok]
          /\ IF ok
             THEN /\ ServerSends(c, IF Verified(readable) THEN "OK" ELSE "FAIL", TRUE)
                  /\ UNCHANGED waitVars
             ELSE /\ \E r : notify_file_waiter(c, FALSE, r)
                  /\ UNCHANGED <<s2cVars, sSends>>
    BY <2>1 DEF finish_file_receive
  <2>3. ok \in BOOLEAN
    BY DEF SendOutcomes, Outcomes
  <2>4. CASE ok
    <3>1. CallInv' /\ UNCHANGED offer_ready
      BY <1>m, <1>u, <2>2, <2>4 DEF waitVars, CallInv
    <3>2. Verified(readable) =>
            /\ rpc \in Answered /\ rx.path \in Names
            /\ sha256(disk[rx.path]) = job[c].header.sha256_hex
      BY <1>1, <1>u, VerifiedIsStored
    <3>3. \/ ServerSends(c, "OK", TRUE) /\ Verified(readable)
          \/ ServerSends(c, "FAIL", TRUE)
      BY <2>2, <2>4
    <3>4. rx'.out # "open"
      BY <1>t, <2>2 DEF CloseFile, RxState
    <3> QED
      BY <1>1, <2>2, <2>3, <3>1, <3>2, <3>3, <3>4
  <2>5. CASE ~ok
    <3>1. CallInv' /\ UNCHANGED offer_ready
      <4>1. PICK r : notify_file_waiter(c, FALSE, r)
        BY <2>2, <2>5
      <4> QED
        BY <1>t, <1>u, <4>1, NotifyCall
    <3> QED
      BY <1>1, <2>2, <2>3, <2>5, <3>1
  <2> QED
    BY <2>3, <2>4, <2>5
<1>2. CASE ~(receiving_file /\ (rx.accepted \/ rx.io_error))
  <2>1. UNCHANGED <<waitVars, rx, s2cVars>>
    BY <1>2 DEF on_peer_send_shutdown
  <2>2. CallInv' /\ UNCHANGED offer_ready
    BY <1>m, <1>u, <2>1 DEF waitVars, CallInv
  <2> QED
    BY <2>1, <2>2
<1> QED
  BY <1>1, <1>2

\* A FIN closes the output of its own stream, and OK tells the truth.
LEMMA FinMany ==
  ASSUME IInv, ManyInv, OrderlySenders, NEW c \in Clients,
         ServerCallbackStep(c), on_peer_send_shutdown(c)
  PROVE  ManyInv'
<1>t. /\ rx \in RxState /\ file_stream \in Clients \cup {None} /\ None \notin Clients
      /\ cFin \in [Clients -> Signals] /\ QuicTypeOK
  BY ClientsAssumption DEF IInv, TypeOK, ServerTypeOK, QuicTypeOK
<1>m. ToldInv /\ SetupInv /\ CurrentInv /\ JobInv /\ StreamInv /\ ShelfInv
      /\ CallInv /\ HeadInv /\ BodyInv /\ ClosedInv /\ NewsInv
  BY DEF ManyInv
<1>u. /\ UNCHANGED <<clientVars, cStream>>
      /\ UNCHANGED <<cpc, sent, job, source, decision, decision_buf, file_ack, ack, send_result,
                     c2s, reset, sStream, rpc, receiving_file, file_header, disk, file_stream>>
      /\ sStream[c] = "open" /\ cFin[c] = "sent"
      /\ cFin' = [cFin EXCEPT ![c] = "seen"]
  BY DEF ServerCallbackStep, on_peer_send_shutdown, clientVars, jobVars, decisionVars, ackVars,
         streamVars, flowVars, ServerHears
<1>n. /\ CallInv' /\ UNCHANGED offer_ready
      /\ \/ rx' = rx
         \/ receiving_file /\ \E ok \in BOOLEAN :
                                rx' = [CloseFile(rx) EXCEPT !.sending_final_ack = ok]
      /\ \/ UNCHANGED s2cVars
         \/ \E word \in {"OK", "FAIL"} :
              /\ ServerSends(c, word, TRUE) /\ receiving_file /\ rx'.out # "open"
              /\ word = "OK" => /\ rpc \in Answered /\ rx.path \in Names
                                /\ sha256(disk[rx.path]) = job[c].header.sha256_hex
  BY FinOutcome
<1>r. /\ rx'.bytes_written = rx.bytes_written /\ rx'.out_path = rx.out_path
      /\ rx'.header_parsed = rx.header_parsed /\ rx'.io_error = rx.io_error
      /\ rx'.overflow = rx.overflow /\ rx'.accepted = rx.accepted
      /\ rx'.buffer = rx.buffer
      /\ rx'.out # "null" <=> rx.out # "null"
      /\ rx'.out = "open" => rx.out = "open" /\ rx' = rx
      /\ rx'.out = "closed" => rx.out # "null"
  BY <1>t, <1>n DEF CloseFile, RxState
<1>f. /\ \A d \in Clients \ {c} : cFin'[d] = cFin[d]
      /\ cFin'[c] = "seen"
      /\ \A d \in Clients : cFin'[d] = "no" <=> cFin[d] = "no"
  BY <1>t, <1>u
<1>1. /\ ~Untold(c) /\ cStream[c] # "none" /\ rpc \notin Unanswered
      /\ rx.out # "null" => c = file_stream
  <2>1. ~Untold(c)
    BY <1>u DEF Untold
  <2> QED
    BY <1>m, <1>u, <2>1 DEF ToldInv, SetupInv
<1>s. /\ \A d \in Clients \ {c} : s2c'[d] = s2c[d] /\ sFin'[d] = sFin[d]
      /\ (s2c'[c] = s2c[c] /\ sFin'[c] = sFin[c]) \/ sFin'[c] = "sent"
  BY <1>t, <1>n DEF s2cVars, ServerSends, QuicTypeOK
<1>2. \A d \in Clients : Untold(d)' <=> Untold(d)
  <2> SUFFICES ASSUME NEW d \in Clients PROVE Untold(d)' <=> Untold(d)
    OBVIOUS
  <2>1. CASE d = c
    BY <1>1, <1>f, <2>1 DEF Untold
  <2>2. CASE d # c
    BY <1>u, <1>f, <1>s, <2>2 DEF Untold
  <2> QED
    BY <2>1, <2>2
<1>3. \A d \in Clients : Whole(d)' = Whole(d) /\ Taken(d)' = Taken(d)
  BY <1>u DEF Whole, Taken
<1>4. \A d \in Clients : InOrder(d) => InOrder(d)'
  BY <1>u, <1>f, <1>3 DEF InOrder
<1>5. \A d \in Clients : Kept(d)
  <2> SUFFICES ASSUME NEW d \in Clients PROVE Kept(d)
    OBVIOUS
  <2>1. cStream[d] = "none" => sStream[d] = "none" /\ d # c
    BY <1>m, <1>u DEF SetupInv
  <2>2. s2c'[d] = <<>> /\ sFin'[d] = "no" => s2c[d] = <<>> /\ sFin[d] = "no"
    BY <1>s
  <2> QED
    BY <1>u, <1>f, <1>s, <1>4, <2>1, <2>2 DEF Kept
<1>6. /\ SetupInv' /\ JobInv' /\ StreamInv'
      /\ \A d \in Clients : Accurate(d)' => Accurate(d)
  BY <1>u, <1>5, StreamFrame
<1>7. \A d \in Clients : Sound(d)' => Sound(d)
  BY <1>u, <1>6 DEF Sound
<1>8. ToldInv'
  BY <1>m, <1>u, <1>r, <1>2 DEF ToldInv
<1>9. CurrentInv'
  BY <1>m, <1>u, <1>n, <1>r DEF CurrentInv
<1>10. ShelfInv'
  BY <1>m, <1>u, <1>r DEF ShelfInv
<1>11. Live' => Live
  BY <1>u, <1>r DEF Live
<1>12. HeadInv'
  <2> SUFFICES ASSUME Live', file_stream # None, Sound(file_stream)', ~rx'.header_parsed
               PROVE  \/ Len(rx'.buffer) >= 2
                      \/ Taken(file_stream)' = 0
                      \/ Taken(file_stream)' = 1 /\ rx'.buffer = <<Whole(file_stream)'[1]>>
    BY <1>u DEF HeadInv
  <2>1. Live /\ Sound(file_stream) /\ ~rx.header_parsed
    BY <1>t, <1>u, <1>r, <1>7, <1>11
  <2> QED
    BY <1>m, <1>t, <1>u, <1>r, <1>3, <2>1 DEF HeadInv
<1>13. BodyInv'
  <2> SUFFICES ASSUME Live', rx'.out = "open", rx'.header_parsed, ~rx'.overflow, ~rx'.io_error,
                      Sound(file_stream)'
               PROVE  \/ Tainted(disk[rx.out_path])'
                      \/ (disk[rx.out_path] = SubSeq(source[file_stream], 1, Taken(file_stream) - 2))'
                      \/ (/\ file_header.size = Len(source[file_stream])
                          /\ rx.bytes_written < Taken(file_stream) - 2)'
    BY DEF BodyInv
  <2>1. file_stream \in Clients
    BY <1>m, <1>t, <1>r DEF CurrentInv
  <2>2. Tainted(disk[rx.out_path])' <=> Tainted(disk[rx.out_path])
    BY <1>u, <1>r DEF Tainted
  <2> QED
    BY <1>m, <1>u, <1>r, <1>3, <1>7, <1>11, <2>1, <2>2 DEF BodyInv
<1>14. ClosedInv'
  <2> SUFFICES ASSUME rx'.out = "closed", receiving_file
               PROVE  cFin'[file_stream] = "seen" \/ reset[file_stream] = "seen"
    BY <1>u DEF ClosedInv
  <2>1. c = file_stream
    BY <1>1, <1>r
  <2> QED
    BY <1>f, <2>1
<1>15. NewsInv'
  <2> SUFFICES ASSUME NEW d \in Clients, OkNews(d)' PROVE Stored(d)'
    BY DEF NewsInv
  <2>1. CASE OkNews(d)
    <3>1. Stored(d)
      BY <1>m, <2>1 DEF NewsInv
    <3> QED
      BY <1>r, <1>u, <3>1 DEF Stored
  <2>2. CASE ~OkNews(d)
    <3>1. Without(s2c[d], "OK") /\ ~Without(s2c'[d], "OK")
      BY <1>u, <2>2 DEF OkNews, Without
    <3>2. PICK word \in {"OK", "FAIL"} :
            /\ ServerSends(c, word, TRUE) /\ receiving_file /\ rx'.out # "open"
            /\ word = "OK" => /\ rpc \in Answered /\ rx.path \in Names
                              /\ sha256(disk[rx.path]) = job[c].header.sha256_hex
      BY <1>n, <3>1 DEF s2cVars, Without
    <3>3. d = c
      BY <1>s, <3>1 DEF Without
    <3>4. word = "OK"
      <4> SUFFICES ASSUME word = "FAIL" PROVE FALSE
        BY <3>2
      <4>1. s2c'[c] = s2c[c] \o ReplyText("FAIL")
        BY <1>t, <3>2 DEF ServerSends, QuicTypeOK
      <4>2. /\ s2c[c] \in Seq(Fragments) /\ ReplyText("FAIL") \in Seq(Fragments)
            /\ "FAIL" \in Words \ {"OK"}
        BY <1>t, ReplyType DEF QuicTypeOK, Words
      <4>3. Without(s2c[c] \o ReplyText("FAIL"), "OK")
        BY <3>1, <3>3, <4>2, WithoutReply, WithoutConcat
      <4> QED
        BY <3>1, <3>3, <4>1, <4>3
    <3> QED
      BY <1>u, <3>2, <3>3, <3>4 DEF Stored
  <2> QED
    BY <2>1, <2>2
<1> QED
  BY <1>6, <1>8, <1>9, <1>n, <1>10, <1>12, <1>13, <1>14, <1>15 DEF ManyInv

-----------------------------------------------------------------------------
(* Receive events.                                                         *)

\* A receive event takes the next units of what its sender has put on the stream.
LEMMA TakesOff ==
  ASSUME IInv, NEW c \in Clients, Honest(c), InOrder(c), sStream[c] # "none",
         NEW n \in 1..Len(c2s[c]), UNCHANGED <<sent, job, source, cFin, sStream>>,
         c2s'[c] = SubSeq(c2s[c], n + 1, Len(c2s[c]))
  PROVE  /\ Taken(c) \in Nat /\ Taken(c)' = Taken(c) + n /\ n \in Nat \ {0}
         /\ Taken(c) + n <= Len(Whole(c)) /\ Len(Whole(c)) \in Nat
         /\ InOrder(c)'
         /\ \A i \in 1..n : SubSeq(c2s[c], 1, n)[i] = Whole(c)[Taken(c) + i]
<1> DEFINE w == Whole(c)
           t == Taken(c)
           s == c2s[c]
<1>1. w \in Seq(Units) /\ Len(w) \in Nat /\ sent[c] \in Nat
  BY WholeIs, LenProperties DEF Honest, InOrder
<1>2. s \in Seq(Units) /\ Len(s) \in Nat /\ n \in Nat \ {0} /\ n <= Len(s)
  BY LenProperties DEF IInv, TypeOK, QuicTypeOK
<1>3. t = Len(w) - Len(s) /\ Len(s) <= Len(w) /\ s = SubSeq(w, t + 1, Len(w))
  BY DEF InOrder, Taken
<1>4. t \in Nat /\ t + n <= Len(w) /\ Len(s) = Len(w) - t
  BY <1>1, <1>2, <1>3
<1>5. Whole(c)' = w
  BY DEF Whole
<1>6. SubSeq(s, n + 1, Len(s)) \in Seq(Units) /\ Len(SubSeq(s, n + 1, Len(s))) = Len(s) - n
  <2>1. \A i \in n + 1..Len(s) : s[i] \in Units
    BY <1>2, ElementOfSeq
  <2> QED
    BY <1>2, <2>1, SubSeqProperties
<1>7. Taken(c)' = t + n
  <2>1. Len(c2s[c])' = Len(s) - n
    BY <1>6
  <2>2. Taken(c)' = Len(w) - (Len(s) - n)
    BY <1>5, <2>1 DEF Taken
  <2>3. Len(w) - (Len(s) - n) = Len(w) - Len(s) + n
    BY <1>1, <1>2
  <2> QED
    BY <1>3, <2>2, <2>3
<1> HIDE DEF w, t, s
<1>8. SubSeq(s, n + 1, Len(s)) = SubSeq(w, t + n + 1, Len(w))
  <2>3. n < Len(s) \/ n = Len(s)
    BY <1>2
  <2>1. CASE n < Len(s)
    <3>1. /\ t + 1 \in 1..Len(w) /\ Len(w) \in 1..Len(w)
          /\ n + 1 \in 1..Len(w) - (t + 1) + 1 /\ Len(s) \in 1..Len(w) - (t + 1) + 1
          /\ (t + 1) + (n + 1) - 1 = t + n + 1 /\ (t + 1) + Len(s) - 1 = Len(w)
      BY <1>1, <1>2, <1>4, <2>1
    <3>2. ASSUME NEW i \in 1..Len(w), NEW j \in 1..Len(w),
                 NEW k \in 1..j - i + 1, NEW l \in 1..j - i + 1
          PROVE  SubSeq(SubSeq(w, i, j), k, l) = SubSeq(w, i + k - 1, i + l - 1)
      BY <1>1, SubSeqOfSubSeq, SMTT(60)
    <3>3. SubSeq(SubSeq(w, t + 1, Len(w)), n + 1, Len(s))
            = SubSeq(w, (t + 1) + (n + 1) - 1, (t + 1) + Len(s) - 1)
      BY <3>1, <3>2, Zenon
    <3>4. SubSeq(SubSeq(w, t + 1, Len(w)), n + 1, Len(s)) = SubSeq(w, t + n + 1, Len(w))
      <4>1. (t + 1) + (n + 1) - 1 = t + n + 1 /\ (t + 1) + Len(s) - 1 = Len(w)
        BY <3>1
      <4> QED
        BY <3>3, <4>1, Zenon
    <3> QED
      BY <1>3, <3>4, Zenon
  <2>2. CASE n = Len(s)
    <3>1. SubSeq(s, n + 1, Len(s)) = <<>>
      BY <1>2, <2>2, SubSeqEmpty
    <3>2. t + n = Len(w)
      BY <1>2, <1>4, <2>2
    <3>3. SubSeq(w, t + n + 1, Len(w)) = <<>>
      BY <1>1, <3>2, SubSeqEmpty
    <3> QED
      BY <3>1, <3>3
  <2> QED
    BY <2>1, <2>2, <2>3
<1>9. InOrder(c)'
  <2>1. Len(c2s[c])' <= Len(w)
    <3>1. Len(c2s[c])' = Len(s) - n
      BY <1>6 DEF s
    <3>2. Len(w) \in Nat /\ Len(s) \in Nat /\ n \in Nat /\ Len(s) <= Len(w)
      BY <1>1, <1>2, <1>3
    <3>3. Len(s) - n <= Len(w)
      BY <3>2
    <3> QED
      BY <3>1, <3>3
  <2>2. c2s'[c] = SubSeq(w, t + n + 1, Len(w))
    BY <1>8 DEF s
  <2> QED
    BY <1>5, <1>7, <2>1, <2>2 DEF InOrder, w
<1>10. ASSUME NEW i \in 1..n PROVE SubSeq(s, 1, n)[i] = w[t + i]
  <2>1. SubSeq(s, 1, n)[i] = s[i]
    <3>1. \A j \in 1..n : s[j] \in Units
      BY <1>2, ElementOfSeq
    <3>2. i \in 1..n - 1 + 1 /\ 1 + i - 1 = i
      BY <1>2
    <3> QED
      BY <1>2, <3>1, <3>2, SubSeqProperties
  <2>2. SubSeq(w, t + 1, Len(w))[i] = w[t + i]
    <3>1. \A j \in t + 1..Len(w) : w[j] \in Units
      BY <1>1, <1>4, ElementOfSeq
    <3>2. i \in 1..Len(w) - (t + 1) + 1 /\ (t + 1) + i - 1 = t + i
      BY <1>1, <1>2, <1>4
    <3> QED
      BY <1>1, <1>4, <3>1, <3>2, SubSeqProperties
  <2> QED
    BY <1>3, <2>1, <2>2
<1> QED
  BY <1>1, <1>2, <1>4, <1>7, <1>9, <1>10 DEF w, t, s

\* What on_receive does when receive_file asks the user and was armed before any sender
\* started.
LEMMA ReceiveIs ==
  ASSUME IInv, ManyInv, Prompt, NEW c \in Clients, ServerCallbackStep(c), on_receive(c)
  PROVE  /\ UNCHANGED <<clientVars, cFin, reset, cStream, sStream, s2c, sFin, rpc,
                        receiving_file, file_stream>>
         /\ sStream[c] # "none" /\ rpc \notin Arming
         /\ \E n \in 1..Len(c2s[c]) :
              /\ c2s' = [c2s EXCEPT ![c] = SubSeq(@, n + 1, Len(@))]
              /\ \/ ~receiving_file /\ UNCHANGED <<waitVars, file_header, rx, disk>>
                 \/ rx.header_parsed /\ BodyBytes(SubSeq(c2s[c], 1, n))
                 \/ /\ ~rx.header_parsed
                    /\ \/ HeaderIncomplete(c, rx.buffer \o SubSeq(c2s[c], 1, n))
                       \/ HeaderOffered(c, rx.buffer \o SubSeq(c2s[c], 1, n))
<1>1. sStream[c] # "none"
  BY DEF on_receive, ServerHears
<1>2. rpc \notin Arming
  BY <1>1 DEF ManyInv, SetupInv
<1>3. OfferRegistered
  BY <1>2 DEF OfferRegistered, Arming
<1>4. PICK n \in 1..Len(c2s[c]) :
        /\ c2s' = [c2s EXCEPT ![c] = SubSeq(@, n + 1, Len(@))]
        /\ IF receiving_file
           THEN append_file_bytes(c, SubSeq(c2s[c], 1, n))
           ELSE UNCHANGED <<waitVars, file_header, rx, file_result, disk, s2cVars, sSends>>
  BY DEF on_receive
<1> DEFINE data == SubSeq(c2s[c], 1, n)
           buffer == rx.buffer \o data
<1> HIDE DEF data, buffer
<1>5. /\ \/ ~receiving_file /\ UNCHANGED <<waitVars, file_header, rx, disk>>
         \/ rx.header_parsed /\ BodyBytes(data)
         \/ ~rx.header_parsed /\ (HeaderIncomplete(c, buffer) \/ HeaderOffered(c, buffer))
      /\ UNCHANGED s2cVars
  <2>1. ~HeaderAutoAccepted(c, buffer)
    BY <1>3 DEF HeaderAutoAccepted
  <2>2. CASE ~receiving_file
    BY <1>4, <2>2
  <2>3. CASE receiving_file /\ rx.header_parsed
    <3>1. BodyBytes(data)
      BY <1>4, <2>3 DEF append_file_bytes, data
    <3>2. UNCHANGED s2cVars
      BY <3>1 DEF BodyBytes
    <3> QED
      BY <2>3, <3>1, <3>2
  <2>4. CASE receiving_file /\ ~rx.header_parsed
    <3>1. HeaderIncomplete(c, buffer) \/ HeaderOffered(c, buffer)
      BY <1>4, <2>1, <2>4 DEF append_file_bytes, data, buffer
    <3>2. UNCHANGED s2cVars
      BY <3>1 DEF HeaderIncomplete, HeaderOffered
    <3> QED
      BY <2>4, <3>1, <3>2
  <2> QED
    BY <2>2, <2>3, <2>4
<1>6. UNCHANGED <<clientVars, cFin, reset, cStream, sStream, rpc, receiving_file, file_stream>>
  BY DEF ServerCallbackStep, on_receive, flowVars, streamVars
<1>7. UNCHANGED <<s2c, sFin>>
  BY <1>5 DEF s2cVars
<1>8. \E k \in 1..Len(c2s[c]) :
        /\ c2s' = [c2s EXCEPT ![c] = SubSeq(@, k + 1, Len(@))]
        /\ \/ ~receiving_file /\ UNCHANGED <<waitVars, file_header, rx, disk>>
           \/ rx.header_parsed /\ BodyBytes(SubSeq(c2s[c], 1, k))
           \/ /\ ~rx.header_parsed
              /\ \/ HeaderIncomplete(c, rx.buffer \o SubSeq(c2s[c], 1, k))
                 \/ HeaderOffered(c, rx.buffer \o SubSeq(c2s[c], 1, k))
  BY <1>4, <1>5 DEF data, buffer
<1> QED
  BY <1>1, <1>2, <1>6, <1>7, <1>8

\* The parts of on_receive(c) that concern the streams, if it reads n units.
Reads(c, n) ==
  /\ UNCHANGED <<clientVars, cFin, reset, cStream, sStream, s2c, sFin, rpc, receiving_file,
                 file_stream>>
  /\ sStream[c] # "none" /\ rpc \notin Arming
  /\ c2s' = [c2s EXCEPT ![c] = SubSeq(@, n + 1, Len(@))]

\* It brings the streams forward, ...
LEMMA ReadsOn ==
  ASSUME IInv, ManyInv, NEW c \in Clients, NEW n \in 1..Len(c2s[c]), Reads(c, n)
  PROVE  /\ SetupInv' /\ JobInv' /\ StreamInv'
         /\ \A d \in Clients :
              /\ Untold(d)' <=> Untold(d)
              /\ OkNews(d)' <=> OkNews(d)
              /\ Sound(d)' => Sound(d)
              /\ Whole(d)' = Whole(d)
         /\ \A d \in Clients \ {c} : Taken(d)' = Taken(d)
         /\ Accurate(c) =>
              /\ Taken(c) \in Nat /\ Taken(c)' = Taken(c) + n /\ n \in Nat \ {0}
              /\ Taken(c) + n <= Len(Whole(c))
              /\ \A i \in 1..n : SubSeq(c2s[c], 1, n)[i] = Whole(c)[Taken(c) + i]
         /\ file_stream \in Clients
<1>t. /\ file_stream \in Clients \cup {None}
      /\ c2s \in [Clients -> Seq(Units)]
  BY DEF IInv, TypeOK, ServerTypeOK, QuicTypeOK
<1>m. SetupInv /\ CurrentInv /\ JobInv /\ StreamInv
  BY DEF ManyInv
<1>u. /\ UNCHANGED <<cpc, sent, job, source, decision, decision_buf, file_ack, ack, send_result>>
      /\ UNCHANGED <<clientVars, cFin, reset, cStream, sStream, s2c, sFin, rpc, file_stream>>
      /\ sStream[c] # "none" /\ cStream[c] # "none"
      /\ c2s'[c] = SubSeq(c2s[c], n + 1, Len(c2s[c]))
      /\ \A d \in Clients \ {c} : c2s'[d] = c2s[d]
  BY <1>t, <1>m DEF Reads, clientVars, jobVars, decisionVars, ackVars, SetupInv
<1>1. \A d \in Clients : Untold(d)' <=> Untold(d)
  BY <1>u DEF Untold
<1>2. \A d \in Clients : OkNews(d)' <=> OkNews(d)
  BY <1>u DEF OkNews, Without
<1>3. \A d \in Clients : Whole(d)' = Whole(d)
  BY <1>u DEF Whole
<1>4. \A d \in Clients \ {c} : Taken(d)' = Taken(d)
  BY <1>u, <1>3 DEF Taken
<1>5. InOrder(c) =>
        /\ Taken(c) \in Nat /\ Taken(c)' = Taken(c) + n /\ n \in Nat \ {0}
        /\ Taken(c) + n <= Len(Whole(c))
        /\ InOrder(c)'
        /\ \A i \in 1..n : SubSeq(c2s[c], 1, n)[i] = Whole(c)[Taken(c) + i]
  <2>1. Honest(c)
    BY <1>m, <1>u DEF JobInv
  <2> QED
    BY <1>u, <2>1, TakesOff
<1>6. \A d \in Clients : Kept(d)
  <2> SUFFICES ASSUME NEW d \in Clients PROVE Kept(d)
    OBVIOUS
  <2>1. InOrder(d) => InOrder(d)'
    <3>1. CASE d = c
      BY <1>5, <3>1
    <3>2. CASE d # c
      BY <1>u, <1>3, <1>4, <3>2 DEF InOrder
    <3> QED
      BY <3>1, <3>2
  <2>2. cStream[d] = "none" => d # c /\ sStream[d] = "none"
    BY <1>m, <1>u DEF SetupInv
  <2> QED
    BY <1>u, <2>1, <2>2 DEF Kept
<1>7. /\ SetupInv' /\ JobInv' /\ StreamInv'
      /\ \A d \in Clients : Accurate(d)' => Accurate(d)
  BY <1>u, <1>6, StreamFrame
<1>8. \A d \in Clients : Sound(d)' => Sound(d)
  BY <1>u, <1>7 DEF Sound
<1>9. Accurate(c) => InOrder(c)
  BY <1>m DEF StreamInv
<1>10. file_stream \in Clients
  BY <1>t, <1>m, <1>u DEF CurrentInv
<1> QED
  BY <1>1, <1>2, <1>3, <1>4, <1>5, <1>7, <1>8, <1>9, <1>10

\* ... tells nobody anything, and stores nothing once the output is closed.
LEMMA ReadsMany ==
  ASSUME IInv, ManyInv, NEW c \in Clients, NEW n \in 1..Len(c2s[c]), Reads(c, n),
         CallInv', ShelfInv', HeadInv', BodyInv',
         rx'.out = rx.out, rx.out = "open" \/ UNCHANGED disk
  PROVE  ManyInv'
<1>m. ToldInv /\ CurrentInv /\ ClosedInv /\ NewsInv /\ None \notin Clients
  BY ClientsAssumption DEF ManyInv
<1>u. UNCHANGED <<cFin, reset, sStream, rpc, receiving_file, file_stream, job>>
  BY DEF Reads, clientVars, jobVars
<1>n. /\ SetupInv' /\ JobInv' /\ StreamInv'
      /\ \A d \in Clients : (Untold(d)' <=> Untold(d)) /\ (OkNews(d)' <=> OkNews(d))
      /\ file_stream \in Clients
  BY ReadsOn
<1>1. ToldInv'
  BY <1>m, <1>u, <1>n DEF ToldInv
<1>2. CurrentInv'
  BY <1>m, <1>u, <1>n DEF CurrentInv
<1>3. ClosedInv'
  BY <1>m, <1>u DEF ClosedInv
<1>4. NewsInv'
  <2> SUFFICES ASSUME NEW d \in Clients, OkNews(d)' PROVE Stored(d)'
    BY DEF NewsInv
  <2>1. Stored(d)
    BY <1>m, <1>n DEF NewsInv
  <2>2. UNCHANGED disk
    BY <2>1 DEF Stored
  <2> QED
    BY <1>u, <2>1, <2>2 DEF Stored
<1> QED
  BY <1>n, <1>1, <1>2, <1>3, <1>4 DEF ManyInv

\* Bytes that come before receive_file, or after it, are lost.
LEMMA LostMany ==
  ASSUME IInv, ManyInv, NEW c \in Clients, NEW n \in 1..Len(c2s[c]), Reads(c, n),
         ~receiving_file, UNCHANGED <<waitVars, file_header, rx, disk>>
  PROVE  ManyInv'
<1>m. CallInv /\ ShelfInv
  BY DEF ManyInv
<1>u. UNCHANGED <<rpc, receiving_file, blocked, file_header, rx, disk>>
  BY DEF Reads, waitVars
<1>1. ~Live' /\ CallInv' /\ ShelfInv'
  BY <1>m, <1>u DEF CallInv, ShelfInv, Live, Ended, Accepting
<1>2. HeadInv' /\ BodyInv'
  BY <1>1 DEF HeadInv, BodyInv
<1> QED
  BY <1>u, <1>1, <1>2, ReadsMany

\* A text stays tainted, or becomes so by a fragment at the front of what is added.
LEMMA TaintStays ==
  ASSUME NEW s \in Seq(Units), NEW t \in Seq(Units),
         Tainted(s) \/ (Len(t) # 0 /\ t[1] \in HeaderFragments)
  PROVE  Tainted(s \o t)
<1>1. Len(s) \in Nat /\ Len(t) \in Nat
  BY LenProperties
<1>2. /\ Len(s \o t) = Len(s) + Len(t)
      /\ \A i \in 1..Len(s) + Len(t) : (s \o t)[i] = IF i <= Len(s) THEN s[i] ELSE t[i - Len(s)]
  BY ConcatProperties, Zenon
<1>3. CASE Tainted(s)
  <2>1. PICK i \in 1..Len(s) : s[i] \in HeaderFragments
    BY <1>3 DEF Tainted
  <2>2. i \in 1..Len(s) + Len(t) /\ i <= Len(s)
    BY <1>1
  <2> QED
    BY <1>2, <2>1, <2>2 DEF Tainted
<1>4. CASE Len(t) # 0 /\ t[1] \in HeaderFragments
  <2>1. /\ Len(s) + 1 \in 1..Len(s) + Len(t) /\ ~(Len(s) + 1 <= Len(s))
        /\ Len(s) + 1 - Len(s) = 1
    BY <1>1, <1>4
  <2> QED
    BY <1>2, <1>4, <2>1 DEF Tainted
<1> QED
  BY <1>3, <1>4

\* t is the part of f behind its first k elements.
Follows(t, f, k) ==
  k + Len(t) <= Len(f) /\ \A i \in 1..Len(t) : t[i] = f[k + i]

\* A beginning of a sequence and what follows it are a longer beginning.
LEMMA LongerPrefix ==
  ASSUME NEW S, NEW f \in Seq(S), NEW k \in Nat, NEW t \in Seq(S), Follows(t, f, k)
  PROVE  SubSeq(f, 1, k) \o t = SubSeq(f, 1, k + Len(t))
<1> DEFINE n == Len(t)
<1>n. n \in Nat /\ k + n <= Len(f) /\ \A i \in 1..n : t[i] = f[k + i]
  BY LenProperties DEF Follows
<1> HIDE DEF n
<1>1. Len(f) \in Nat
  BY LenProperties
<1>2. t = SubSeq(f, k + 1, k + n)
  <2>1. \A i \in k + 1..k + n : f[i] \in S
    BY <1>1, <1>n, ElementOfSeq
  <2>2. /\ SubSeq(f, k + 1, k + n) \in Seq(S)
        /\ Len(SubSeq(f, k + 1, k + n)) = n
        /\ \A i \in 1..(k + n) - (k + 1) + 1 : SubSeq(f, k + 1, k + n)[i] = f[k + 1 + i - 1]
    BY <1>n, <2>1, SubSeqProperties
  <2>3. \A i \in 1..n : SubSeq(f, k + 1, k + n)[i] = f[k + i]
    <3> TAKE i \in 1..n
    <3>1. i \in 1..(k + n) - (k + 1) + 1 /\ k + 1 + i - 1 = k + i
      BY <1>n
    <3> QED
      BY <2>2, <3>1
  <2>4. Len(t) = n
    BY DEF n
  <2>5. \A i \in 1..n : t[i] = SubSeq(f, k + 1, k + n)[i]
    BY <1>n, <2>3
  <2> QED
    BY <2>2, <2>4, <2>5, SeqEqual
<1>3. 1 \in 1..Len(f) + 1 /\ k \in 1 - 1..Len(f) /\ k + n \in k..Len(f)
  BY <1>1, <1>n
<1>4. SubSeq(f, 1, k) \o SubSeq(f, k + 1, k + n) = SubSeq(f, 1, k + n)
  BY <1>3, ConcatAdjacentSubSeq
<1> QED
  BY <1>2, <1>4 DEF n

\* What arrives next from the stream the output belongs to is the next part of its file.
LEMMA BodyGrows ==
  ASSUME IInv, ManyInv, NEW c \in Clients, NEW n \in 1..Len(c2s[c]), Reads(c, n),
         Sound(file_stream), rx.out # "null",
         NEW text \in Seq(Units),
         \/ Tainted(text)
         \/ text = SubSeq(source[file_stream], 1, Taken(file_stream) - 2)
  PROVE  \/ Tainted(text \o SubSeq(c2s[c], 1, n))
         \/ text \o SubSeq(c2s[c], 1, n)
              = SubSeq(source[file_stream], 1, Taken(file_stream)' - 2)
<1> DEFINE data == SubSeq(c2s[c], 1, n)
<1>1. data \in Seq(Units) /\ Len(data) = n /\ n \in Nat \ {0}
  <2>1. c2s[c] \in Seq(Units)
    BY DEF IInv, TypeOK, QuicTypeOK
  <2> QED
    BY <2>1, SplitType
<1>m. ToldInv /\ SetupInv /\ JobInv /\ StreamInv
  BY DEF ManyInv
<1>n. /\ Accurate(c) =>
           /\ Taken(c) \in Nat /\ Taken(c)' = Taken(c) + n
           /\ Taken(c) + n <= Len(Whole(c))
           /\ \A i \in 1..n : data[i] = Whole(c)[Taken(c) + i]
      /\ file_stream \in Clients
  BY ReadsOn
<1>a. Accurate(c)
  <2>1. cStream[c] # "none"
    BY <1>m DEF Reads, SetupInv
  <2>2. c = file_stream \/ Untold(c)
    BY <1>m DEF ToldInv
  <2> QED
    BY <2>1, <2>2 DEF Sound, Accurate
<1>h. Honest(c) /\ InOrder(c)
  BY <1>m, <1>a DEF JobInv, StreamInv, Accurate
<1>w. /\ Len(Whole(c)) = 2 + sent[c]
      /\ sent[c] \in Nat /\ Len(source[c]) \in Nat /\ sent[c] <= Len(source[c])
      /\ Whole(c)[1] \in HeaderFragments /\ Whole(c)[2] \in HeaderFragments
      /\ \A i \in 1..sent[c] : Whole(c)[2 + i] = source[c][i]
  BY <1>h, WholeIs DEF Honest, InOrder
<1>x. /\ n \in Nat \ {0} /\ Taken(c) \in Nat /\ Taken(c)' = Taken(c) + n
      /\ Taken(c) + n <= 2 + sent[c]
      /\ sent[c] \in Nat /\ Len(source[c]) \in Nat /\ sent[c] <= Len(source[c])
  <2>1. Taken(c) + n <= Len(Whole(c)) /\ Len(Whole(c)) = 2 + sent[c]
    BY <1>a, <1>n, <1>w
  <2> QED
    BY <1>1, <1>a, <1>n, <1>w, <2>1
<1> HIDE DEF data
<1>2. Taken(c) < 2 => data[1] \in HeaderFragments
  <2> SUFFICES ASSUME Taken(c) < 2 PROVE data[1] \in HeaderFragments
    OBVIOUS
  <2>1. Taken(c) \in Nat /\ 1 \in 1..n
    BY <1>1, <1>a, <1>n
  <2>2. data[1] = Whole(c)[Taken(c) + 1]
    BY <1>a, <1>n, <2>1
  <2>3. Taken(c) + 1 = 1 \/ Taken(c) + 1 = 2
    BY <2>1
  <2> QED
    BY <1>w, <2>2, <2>3
<1>3. c # file_stream => Taken(c) < 2
  <2> SUFFICES ASSUME c # file_stream PROVE Taken(c) < 2
    OBVIOUS
  <2>1. sent[c] = 0
    BY <1>m DEF ToldInv, Untold
  <2>2. Taken(c) + n <= 2 /\ Taken(c) \in Nat
    BY <1>x, <2>1
  <2> QED
    BY <1>x, <2>2
<1>4. CASE Taken(c) < 2
  <2>1. Len(data) # 0 /\ data[1] \in HeaderFragments
    BY <1>1, <1>2, <1>4
  <2> QED
    BY <1>1, <2>1, TaintStays DEF data
<1>5. CASE Tainted(text)
  BY <1>1, <1>5, TaintStays DEF data
<1>6. CASE ~(Taken(c) < 2) /\ ~Tainted(text)
  <2>1. c = file_stream /\ text = SubSeq(source[c], 1, Taken(c) - 2)
    BY <1>3, <1>6
  <2> DEFINE k == Taken(c) - 2
  <2>2. /\ k \in Nat /\ k + n <= Len(source[c]) /\ Taken(c)' - 2 = k + n
        /\ k + n <= sent[c]
    <3>1. /\ Taken(c) \in Nat /\ n \in Nat /\ sent[c] \in Nat /\ Len(source[c]) \in Nat
          /\ Taken(c) + n <= 2 + sent[c] /\ sent[c] <= Len(source[c])
          /\ Taken(c)' = Taken(c) + n
      BY <1>x
    <3>2. ~(Taken(c) < 2)
      BY <1>6
    <3>3. k \in Nat /\ Taken(c) = k + 2
      BY <3>1, <3>2
    <3> HIDE DEF k
    <3>4. k + n <= sent[c]
      BY <3>1, <3>3
    <3>5. Taken(c)' - 2 = k + n
      BY <3>1, <3>3
    <3>6. k + n <= Len(source[c])
      BY <3>1, <3>3, <3>4
    <3> QED
      BY <3>3, <3>4, <3>5, <3>6
  <2>3. ASSUME NEW i \in 1..n PROVE data[i] = source[c][k + i]
    <3>1. data[i] = Whole(c)[Taken(c) + i]
      BY <1>a, <1>n
    <3>2. Taken(c) + i = 2 + (k + i) /\ k + i \in 1..sent[c]
      <4>1. i \in Nat /\ 1 <= i /\ i <= n
        BY <1>x
      <4>2. Taken(c) + i = 2 + (k + i)
        BY <1>x, <4>1
      <4>3. k + i \in 1..sent[c]
        <5>1. /\ k \in Nat /\ i \in Nat /\ n \in Nat /\ sent[c] \in Nat
              /\ k + n <= sent[c] /\ 1 <= i /\ i <= n
          BY <1>x, <2>2, <4>1
        <5> HIDE DEF k
        <5> QED
          BY <5>1
      <4> QED
        BY <4>2, <4>3
    <3> QED
      BY <1>w, <3>1, <3>2
  <2>4. source[c] \in Seq(Units)
    <3>1. source[c] \in Seq(Bytes)
      BY ContentsAssumption DEF IInv, TypeOK, ClientTypeOK
    <3>2. Bytes \subseteq Units
      BY DEF Units
    <3> QED
      BY <3>1, <3>2, SeqMonotonic
  <2> HIDE DEF k
  <2>5. SubSeq(source[c], 1, k) \o data = SubSeq(source[c], 1, k + n)
    <3>1. data \in Seq(Units) /\ Len(data) = n /\ k \in Nat
      BY <1>1, <2>2
    <3>2. Follows(data, source[c], k)
      BY <2>2, <2>3, <3>1 DEF Follows
    <3> QED
      BY <2>4, <3>1, <3>2, LongerPrefix
  <2>6. text = SubSeq(source[c], 1, k)
    BY <2>1 DEF k
  <2>7. text \o data = SubSeq(source[c], 1, Taken(c)' - 2)
    BY <2>2, <2>5, <2>6, Zenon
  <2>8. file_stream' = file_stream
    BY DEF Reads
  <2> QED
    BY <2>1, <2>7, <2>8, Zenon DEF data
<1> QED
  BY <1>4, <1>5, <1>6

\* Bytes that follow the header are written behind those before them, or dropped.
LEMMA BodyMany ==
  ASSUME IInv, ManyInv, NEW c \in Clients, NEW n \in 1..Len(c2s[c]), Reads(c, n),
         rx.header_parsed, BodyBytes(SubSeq(c2s[c], 1, n))
  PROVE  ManyInv'
<1> DEFINE data == SubSeq(c2s[c], 1, n)
<1>t. /\ rx \in RxState /\ disk \in Disks /\ file_header \in HeaderOrNone
      /\ rx.bytes_written <= file_header.size
  BY DEF IInv, TypeOK, ServerTypeOK, Disks, RxInv
<1>d. data \in Seq(Units) /\ Len(data) = n /\ n \in Nat \ {0}
  <2>1. c2s[c] \in Seq(Units)
    BY DEF IInv, TypeOK, QuicTypeOK
  <2> QED
    BY <2>1, SplitType
<1>m. ShelfInv /\ CallInv /\ BodyInv /\ ToldInv /\ JobInv /\ StreamInv
  BY DEF ManyInv
<1>u. UNCHANGED <<rpc, receiving_file, blocked, file_header, file_stream, source>>
  BY DEF Reads, BodyBytes, waitVars, clientVars, jobVars
<1>b. /\ IF rx.accepted /\ ~rx.io_error /\ rx.out = "open"
         THEN \E good \in WriteOutcomes(rx, file_header, data) :
                /\ rx' = WrittenRx(rx, file_header, data, good)
                /\ disk' = WrittenDisk(disk, rx, file_header, data, good)
         ELSE UNCHANGED <<rx, disk>>
  BY DEF BodyBytes
<1>n. /\ file_stream \in Clients
      /\ Sound(file_stream)' => Sound(file_stream)
  BY <1>u, ReadsOn
<1> HIDE DEF data
<1>c. CallInv'
  BY <1>m, <1>u DEF CallInv
<1>1. CASE ~(rx.accepted /\ ~rx.io_error /\ rx.out = "open")
  <2>1. UNCHANGED <<rx, disk>>
    BY <1>1, <1>b
  <2>2. ShelfInv'
    BY <1>m, <1>u, <2>1 DEF ShelfInv
  <2>3. HeadInv'
    BY <2>1 DEF HeadInv
  <2>4. BodyInv'
    <3> DEFINE f == file_stream
    <3> SUFFICES ASSUME rx.out = "open", rx.header_parsed, ~rx.overflow, ~rx.io_error,
                        Sound(f)
                 PROVE  \/ Tainted(disk[rx.out_path])
                        \/ disk[rx.out_path] = SubSeq(source[f], 1, Taken(f)' - 2)
      BY <1>u, <1>n, <2>1 DEF BodyInv, Tainted
    <3>1. rpc = "accept_flag"
      BY <1>m, <1>1 DEF ShelfInv
    <3>2. Untold(f) /\ Accurate(f) /\ Live /\ f \in Clients
      BY <1>m, <1>n, <3>1 DEF ToldInv, Unanswered, Accepting, Sound, Live
    <3>3. Taken(f) <= 2 /\ Taken(f) \in Nat
      BY <3>2, HeaderOnly
    <3>4. Taken(f)' <= 2 /\ Taken(f)' \in Nat
      <4>1. CASE f # c
        BY <1>u, <3>2, <3>3, <4>1, ReadsOn
      <4>2. CASE f = c
        <5>1. Honest(c) /\ InOrder(c) /\ sent[c] = 0
          BY <1>m, <3>2, <4>2 DEF JobInv, StreamInv, Accurate, Untold
        <5>2. Len(Whole(c)) = 2 + sent[c]
          BY <5>1, WholeIs DEF Honest, InOrder
        <5>3. /\ Taken(c)' = Taken(c) + n /\ n \in Nat /\ Taken(c) \in Nat
              /\ Taken(c) + n <= Len(Whole(c))
          BY <3>2, <4>2, ReadsOn
        <5> QED
          BY <1>u, <4>2, <5>1, <5>2, <5>3
      <4> QED
        BY <4>1, <4>2
    <3>5. /\ SubSeq(source[f], 1, Taken(f) - 2) = <<>>
          /\ SubSeq(source[f], 1, Taken(f)' - 2) = <<>>
      BY <3>3, <3>4, SubSeqEmpty
    <3>6. ~(rx.bytes_written < Taken(f) - 2)
      BY <1>t, <3>3 DEF RxState
    <3> QED
      BY <1>m, <3>2, <3>5, <3>6 DEF BodyInv
  <2> QED
    BY <1>c, <2>1, <2>2, <2>3, <2>4, ReadsMany
<1>2. CASE rx.accepted /\ ~rx.io_error /\ rx.out = "open"
  <2>1. PICK good \in BOOLEAN :
          /\ rx' = WrittenRx(rx, file_header, data, good)
          /\ disk' = WrittenDisk(disk, rx, file_header, data, good)
    BY <1>2, <1>b DEF WriteOutcomes, Outcomes
  <2> DEFINE p == rx.out_path
             k == Room(rx, file_header, Len(data))
  <2>2. /\ p \in Names /\ disk[p] \in Seq(Units) /\ Len(disk[p]) = rx.bytes_written
        /\ \A m \in Names \ {p} : disk[m] = None
    BY <1>m, <1>2 DEF ShelfInv
  <2>3. /\ k \in 0..Len(data)
        /\ disk' \in Disks /\ disk'[p] \in Seq(Units)
    <3>1. Len(data) \in Nat
      BY <1>d
    <3>2. k \in 0..Len(data)
      BY <1>t, <3>1, RoomBounds
    <3>3. /\ WrittenDisk(disk, rx, file_header, data, good) \in Disks
          /\ WrittenDisk(disk, rx, file_header, data, good)[rx.out_path] \in Seq(Units)
          /\ WrittenRx(rx, file_header, data, good).out_path = rx.out_path
      <4>1. /\ WrittenDisk(disk, rx, file_header, data, good) \in Disks
            /\ WrittenDisk(disk, rx, file_header, data, good)
                 [WrittenRx(rx, file_header, data, good).out_path] \in Seq(Units)
        BY <1>t, <1>d, <2>2, WrittenType
      <4>2. WrittenRx(rx, file_header, data, good).out_path = rx.out_path
        BY <1>t DEF WrittenRx, RxState
      <4> QED
        BY <4>1, <4>2
    <3> QED
      BY <2>1, <3>2, <3>3
  <2>4. /\ rx'.out = "open" /\ rx'.out_path = p /\ rx'.accepted /\ rx'.header_parsed
        /\ rx'.path = rx.path
        /\ good => /\ rx'.bytes_written = rx.bytes_written + k
                   /\ rx'.overflow = (rx.overflow \/ k < Len(data))
                   /\ ~rx'.io_error
        /\ ~good => rx'.bytes_written = rx.bytes_written /\ rx'.io_error
    BY <1>t, <1>2, <2>1 DEF WrittenRx, RxState
  <2>5. /\ good => disk' = [disk EXCEPT ![p] = disk[p] \o SubSeq(data, 1, k)]
        /\ ~good => disk' = disk
    BY <2>1 DEF WrittenDisk
  <2> HIDE DEF k, p
  <2>6. good => disk'[p] = disk[p] \o SubSeq(data, 1, k)
    BY <1>t, <2>2, <2>5 DEF Disks
  <2>7. \A m \in Names \ {p} : disk'[m] = None
    BY <1>t, <2>2, <2>5 DEF Disks
  <2>8. Len(disk'[p]) = rx'.bytes_written
    <3>1. CASE good
      <4>1. SubSeq(data, 1, k) \in Seq(Units) /\ Len(SubSeq(data, 1, k)) = k
        <5>1. Len(data) \in Nat /\ k \in Nat /\ \A i \in 1..k : data[i] \in Units
          BY <1>d, <2>3, ElementOfSeq
        <5>2. k \in Int /\ 1 \in Int
          BY <5>1
        <5>3. /\ SubSeq(data, 1, k) \in Seq(Units)
              /\ Len(SubSeq(data, 1, k)) = IF 1 <= k THEN k - 1 + 1 ELSE 0
          BY <5>1, <5>2, SubSeqProperties
        <5> QED
          BY <5>1, <5>3
      <4>2. Len(disk[p] \o SubSeq(data, 1, k)) = Len(disk[p]) + k
        BY <2>2, <4>1, ConcatProperties
      <4> QED
        BY <2>2, <2>4, <2>6, <3>1, <4>2
    <3>2. CASE ~good
      BY <2>2, <2>4, <2>5, <3>2
    <3> QED
      BY <3>1, <3>2
  <2>9. ShelfInv'
    <3>1. rpc' \in Accepting \cup Answered
      BY <1>m, <1>2, <1>u DEF ShelfInv
    <3>2. rx'.header_parsed /\ ~rx'.io_error => file_header' \in FileTransferHeader
      BY <1>m, <1>2, <1>u DEF ShelfInv
    <3>3. /\ rx'.out_path \in Names
          /\ disk'[rx'.out_path] \in Seq(Units)
          /\ Len(disk'[rx'.out_path]) = rx'.bytes_written
          /\ \A m \in Names \ {rx'.out_path} : disk'[m] = None
      BY <2>2, <2>3, <2>4, <2>7, <2>8
    <3> QED
      BY <2>4, <3>1, <3>2, <3>3 DEF ShelfInv
  <2>10. HeadInv'
    BY <2>4 DEF HeadInv
  <2>11. BodyInv'
    <3> SUFFICES ASSUME Live', ~rx'.overflow, ~rx'.io_error, Sound(file_stream)'
                 PROVE  \/ Tainted(disk'[p])
                        \/ disk'[p] = SubSeq(source[file_stream], 1, Taken(file_stream)' - 2)
                        \/ /\ file_header.size = Len(source[file_stream])
                           /\ rx'.bytes_written < Taken(file_stream)' - 2
      <4>1. Tainted(disk[rx.out_path])' <=> Tainted(disk'[p])
        BY <2>4 DEF Tainted
      <4> QED
        BY <1>u, <2>4, <4>1 DEF BodyInv
    <3>1. good /\ ~rx.overflow /\ k = Len(data)
      <4>1. good
        BY <2>4
      <4>2. ~rx.overflow /\ ~(k < Len(data))
        BY <2>4, <4>1
      <4> QED
        BY <1>d, <2>3, <4>1, <4>2
    <3>2. Live /\ Sound(file_stream)
      BY <1>u, <1>n, <1>2 DEF Live
    <3>3. disk'[p] = disk[p] \o data
      <4>1. SubSeq(data, 1, k) = data
        BY <1>d, <3>1, SubSeqFull
      <4> QED
        BY <2>6, <3>1, <4>1
    <3>4. \/ Tainted(disk[p])
          \/ disk[p] = SubSeq(source[file_stream], 1, Taken(file_stream) - 2)
          \/ /\ file_header.size = Len(source[file_stream])
             /\ rx.bytes_written < Taken(file_stream) - 2
      BY <1>m, <1>2, <3>1, <3>2 DEF BodyInv, p
    <3>5. CASE \/ Tainted(disk[p])
               \/ disk[p] = SubSeq(source[file_stream], 1, Taken(file_stream) - 2)
      <4>1. \/ Tainted(disk[p] \o data)
            \/ disk[p] \o data = SubSeq(source[file_stream], 1, Taken(file_stream)' - 2)
        <5>1. rx.out # "null"
          BY <1>2
        <5> QED
          BY <2>2, <3>2, <3>5, <5>1, BodyGrows DEF data
      <4> QED
        BY <3>3, <4>1
    <3>6. CASE /\ file_header.size = Len(source[file_stream])
               /\ rx.bytes_written < Taken(file_stream) - 2
               /\ c = file_stream
      <4>1. Taken(file_stream)' = Taken(file_stream) + n /\ Taken(file_stream) \in Nat
        <5>1. Accurate(c)
          BY <3>2, <3>6 DEF Sound
        <5>2. Taken(c) \in Nat /\ Taken(c)' = Taken(c) + n
          BY <5>1, ReadsOn
        <5> QED
          BY <1>u, <3>6, <5>2
      <4>2. rx'.bytes_written = rx.bytes_written + n /\ rx.bytes_written \in Nat
        BY <1>t, <1>d, <2>4, <3>1 DEF RxState
      <4>3. rx'.bytes_written < Taken(file_stream)' - 2
        BY <1>d, <3>6, <4>1, <4>2
      <4> QED
        BY <3>6, <4>3
    <3>7. CASE c # file_stream
      <4>2. <<>> \in Seq(Units) /\ Len(data) # 0 /\ data[1] \in HeaderFragments
        <5>1. Untold(c) /\ cStream[c] # "none"
          BY <1>2, <3>7 DEF ManyInv, ToldInv, SetupInv, Reads
        <5>2. Accurate(c)
          BY <5>1 DEF Accurate
        <5>3. Honest(c) /\ InOrder(c) /\ sent[c] = 0
          BY <5>1, <5>2 DEF ManyInv, JobInv, StreamInv, Untold
        <5>4. /\ Len(Whole(c)) = 2 + sent[c]
              /\ Whole(c)[1] \in HeaderFragments /\ Whole(c)[2] \in HeaderFragments
          BY <5>3, WholeIs DEF Honest, InOrder
        <5>5. /\ Taken(c) \in Nat /\ Taken(c) + n <= Len(Whole(c))
              /\ \A i \in 1..n : data[i] = Whole(c)[Taken(c) + i]
          BY <5>2, ReadsOn DEF data
        <5>6. Taken(c) + 1 = 1 \/ Taken(c) + 1 = 2
          BY <1>d, <5>3, <5>4, <5>5
        <5>7. 1 \in 1..n
          BY <1>d
        <5> QED
          BY <1>d, <5>4, <5>5, <5>6, <5>7, EmptySeq
      <4>3. Tainted(disk[p] \o data)
        BY <1>d, <2>2, <4>2, TaintStays
      <4> QED
        BY <3>3, <4>3
    <3> QED
      BY <3>4, <3>5, <3>6, <3>7
  <2>12. rx'.out = rx.out
    BY <1>2, <2>4
  <2> QED
    BY <1>c, <1>2, <2>9, <2>10, <2>11, <2>12, ReadsMany
<1> QED
  BY <1>1, <1>2

\* The buffer with what a receive event adds to it.
LEMMA BufferGrows ==
  ASSUME IInv, NEW c \in Clients, NEW n \in 1..Len(c2s[c])
  PROVE  LET data   == SubSeq(c2s[c], 1, n)
             buffer == rx.buffer \o data
         IN /\ rx.buffer \in Seq(Units) /\ data \in Seq(Units) /\ buffer \in Seq(Units)
            /\ Len(rx.buffer) \in Nat /\ Len(data) = n /\ n \in Nat \ {0}
            /\ Len(buffer) = Len(rx.buffer) + n
            /\ \A i \in 1..Len(rx.buffer) : buffer[i] = rx.buffer[i]
            /\ \A i \in 1..n : buffer[Len(rx.buffer) + i] = data[i]
<1> DEFINE data == SubSeq(c2s[c], 1, n)
           old  == rx.buffer
<1>1. c2s[c] \in Seq(Units) /\ old \in Seq(Units)
  BY DEF IInv, TypeOK, QuicTypeOK, ServerTypeOK, RxState
<1>2. data \in Seq(Units) /\ Len(data) = n /\ n \in Nat \ {0} /\ Len(old) \in Nat
  BY <1>1, SplitType, LenProperties
<1> HIDE DEF data, old
<1>3. /\ old \o data \in Seq(Units) /\ Len(old \o data) = Len(old) + Len(data)
      /\ \A i \in 1..Len(old) + Len(data) :
           (old \o data)[i] = IF i <= Len(old) THEN old[i] ELSE data[i - Len(old)]
  BY <1>1, <1>2, ConcatProperties, Zenon
<1>4. ASSUME NEW i \in 1..Len(old) PROVE (old \o data)[i] = old[i]
  <2>1. i \in 1..Len(old) + Len(data) /\ i <= Len(old)
    BY <1>2
  <2> QED
    BY <1>3, <2>1
<1>5. ASSUME NEW i \in 1..n PROVE (old \o data)[Len(old) + i] = data[i]
  <2>1. /\ Len(old) + i \in 1..Len(old) + Len(data) /\ ~(Len(old) + i <= Len(old))
        /\ Len(old) + i - Len(old) = i
    BY <1>2
  <2> QED
    BY <1>3, <2>1
<1>6. Len(old \o data) = Len(old) + n
  BY <1>2, <1>3
<1> QED
  BY <1>1, <1>2, <1>3, <1>4, <1>5, <1>6 DEF data, old

\* A header that is not complete yet keeps the buffer together.
LEMMA IncompleteMany ==
  ASSUME IInv, ManyInv, NEW c \in Clients, NEW n \in 1..Len(c2s[c]), Reads(c, n),
         ~rx.header_parsed, HeaderIncomplete(c, rx.buffer \o SubSeq(c2s[c], 1, n))
  PROVE  ManyInv'
<1> DEFINE data   == SubSeq(c2s[c], 1, n)
           buffer == rx.buffer \o data
<1>t. /\ rx \in RxState
      /\ blocked \in [Clients -> {"no", "offer", "notify_true", "notify_false"}]
  BY DEF IInv, TypeOK, ServerTypeOK
<1>b. /\ rx.buffer \in Seq(Units) /\ data \in Seq(Units) /\ buffer \in Seq(Units)
      /\ Len(rx.buffer) \in Nat /\ Len(data) = n /\ n \in Nat \ {0}
      /\ Len(buffer) = Len(rx.buffer) + n
      /\ \A i \in 1..n : buffer[Len(rx.buffer) + i] = data[i]
  BY BufferGrows
<1>m. ShelfInv /\ CallInv /\ HeadInv /\ None \notin Clients
  BY ClientsAssumption DEF ManyInv
<1>u. /\ UNCHANGED <<rpc, receiving_file, file_header, file_stream, disk>>
      /\ sStream[c] # "none"
  BY DEF Reads, HeaderIncomplete
<1>n. /\ file_stream \in Clients
      /\ Sound(file_stream)' => Sound(file_stream)
      /\ Whole(c)' = Whole(c)
      /\ \A d \in Clients \ {c} : Taken(d)' = Taken(d)
      /\ Accurate(c) =>
           /\ Taken(c) \in Nat /\ Taken(c)' = Taken(c) + n
           /\ \A i \in 1..n : data[i] = Whole(c)[Taken(c) + i]
  BY <1>u, ReadsOn
<1>i. /\ ~DecodesHeader(buffer)
      /\ \/ rx' = [rx EXCEPT !.buffer = buffer] /\ UNCHANGED waitVars
         \/ /\ rx' = [rx EXCEPT !.buffer = <<>>, !.io_error = TRUE, !.header_parsed = TRUE]
            /\ \E r : notify_file_waiter(c, FALSE, r)
  BY DEF HeaderIncomplete
<1> HIDE DEF buffer, data
<1>1. CASE rx' = [rx EXCEPT !.buffer = buffer] /\ UNCHANGED waitVars
  <2>1. /\ rx'.out = rx.out /\ rx'.bytes_written = rx.bytes_written /\ rx'.out_path = rx.out_path
        /\ rx'.header_parsed = rx.header_parsed /\ rx'.io_error = rx.io_error
        /\ rx'.accepted = rx.accepted /\ rx'.buffer = buffer
    BY <1>t, <1>1 DEF RxState
  <2>2. CallInv'
    BY <1>m, <1>u, <1>1 DEF CallInv, waitVars
  <2>3. ShelfInv'
    BY <1>m, <1>u, <1>i, <2>1 DEF ShelfInv
  <2>4. BodyInv'
    BY <2>1 DEF BodyInv
  <2>5. HeadInv'
    <3> SUFFICES ASSUME Live', Sound(file_stream)', ~(Len(buffer) >= 2)
                 PROVE  \/ Taken(file_stream)' = 0
                        \/ Taken(file_stream)' = 1 /\ buffer = <<Whole(file_stream)'[1]>>
      BY <2>1 DEF HeadInv
    <3>1. Len(rx.buffer) = 0 /\ n = 1 /\ Len(buffer) = 1
      BY <1>b
    <3>2. Live /\ Sound(file_stream) /\ file_stream # None
      BY <1>m, <1>u, <1>n, <2>1 DEF Live
    <3>3. Taken(file_stream) = 0
      <4>1. \/ Len(rx.buffer) >= 2
            \/ Taken(file_stream) = 0
            \/ rx.buffer = <<Whole(file_stream)[1]>>
        BY <1>m, <3>2 DEF HeadInv
      <4>2. \A x : Len(<<x>>) = 1
        OBVIOUS
      <4>3. Len(rx.buffer) # 1
        BY <3>1
      <4>4. rx.buffer # <<Whole(file_stream)[1]>>
        BY <4>2, <4>3, Zenon
      <4> QED
        BY <3>1, <4>1, <4>4
    <3>4. CASE c = file_stream
      <4>1. Accurate(c)
        BY <3>2, <3>4 DEF Sound
      <4>2. Taken(c)' = 1 /\ data[1] = Whole(c)[1]
        <5>1. 1 \in 1..n /\ Taken(c) = 0 /\ Taken(c) + 1 = 1 /\ Taken(c) + n = 1
          BY <1>b, <3>1, <3>3, <3>4
        <5>2. Taken(c)' = Taken(c) + n /\ data[1] = Whole(c)[Taken(c) + 1]
          BY <1>n, <4>1, <5>1
        <5> QED
          BY <5>1, <5>2
      <4>3. buffer[1] = Whole(c)[1]
        <5>1. 1 \in 1..n /\ Len(rx.buffer) + 1 = 1
          BY <1>b, <3>1
        <5>2. buffer[Len(rx.buffer) + 1] = data[1]
          BY <1>b, <5>1
        <5> QED
          BY <4>2, <5>1, <5>2
      <4>4. buffer = <<buffer[1]>>
        <5> DEFINE q == <<buffer[1]>>
        <5>1. buffer[1] \in Units
          BY <1>b, <3>1, ElementOfSeq
        <5>2. q \in Seq(Units) /\ Len(q) = 1 /\ q[1] = buffer[1]
          BY <5>1
        <5> HIDE DEF q
        <5>3. \A i \in 1..Len(buffer) : buffer[i] = q[i]
          BY <3>1, <5>2
        <5>4. buffer = q
          BY <1>b, <3>1, <5>2, <5>3, SeqEqual
        <5> QED
          BY <5>4 DEF q
      <4> QED
        BY <1>n, <1>u, <3>4, <4>2, <4>3, <4>4
    <3>5. CASE c # file_stream
      BY <1>n, <1>u, <3>3, <3>5
    <3> QED
      BY <3>4, <3>5
  <2> QED
    BY <1>u, <2>1, <2>2, <2>3, <2>4, <2>5, ReadsMany
<1>2. CASE /\ rx' = [rx EXCEPT !.buffer = <<>>, !.io_error = TRUE, !.header_parsed = TRUE]
           /\ \E r : notify_file_waiter(c, FALSE, r)
  <2>1. /\ rx'.out = rx.out /\ rx'.bytes_written = rx.bytes_written /\ rx'.out_path = rx.out_path
        /\ rx'.header_parsed /\ rx'.io_error /\ rx'.accepted = rx.accepted
    BY <1>t, <1>2 DEF RxState
  <2>2. CallInv'
    <3>1. PICK r : notify_file_waiter(c, FALSE, r)
      BY <1>2
    <3> QED
      BY <1>t, <1>u, <3>1, NotifyCall
  <2>3. ShelfInv'
    BY <1>m, <1>u, <2>1 DEF ShelfInv
  <2>4. HeadInv' /\ BodyInv'
    BY <2>1 DEF HeadInv, BodyInv
  <2> QED
    BY <1>u, <2>1, <2>2, <2>3, <2>4, ReadsMany
<1> QED
  BY <1>i, <1>1, <1>2

\* A buffer that begins with the first fragment of c's header decodes to c's size.
LEMMA DecodesSize ==
  ASSUME IInv, NEW c \in Clients, Honest(c), InOrder(c),
         NEW buffer, DecodesHeader(buffer), buffer[1] = Whole(c)[1]
  PROVE  DecodedHeader(buffer).size = Len(source[c])
<1> DEFINE clean == [job[c].header EXCEPT !.name = sanitize_file_name(@)]
<1>1. <<Whole(c)[1], Whole(c)[2]>>
        = <<[part |-> 1, header |-> clean], [part |-> 2, header |-> clean]>>
  BY WholeIs DEF Honest, InOrder, encode_file_header
<1>2. buffer[1] = [part |-> 1, header |-> clean]
  BY <1>1
<1>3. job[c].header \in FileTransferHeader /\ job[c].header.size = Len(source[c])
  BY DEF Honest, Jobs
<1>4. clean \in [name : {sanitize_file_name(job[c].header.name)}, size : {Len(source[c])},
                 sha256_hex : Hashes]
  BY <1>3 DEF FileTransferHeader
<1> HIDE DEF clean
<1>5. buffer[1].header = clean
  BY <1>2
<1> QED
  BY <1>4, <1>5 DEF DecodedHeader

\* No header begins with a second fragment, and none follows a first one.
LEMMA SecondIsNotFirst ==
  ASSUME IInv, NEW c \in Clients, Honest(c), InOrder(c),
         NEW buffer, DecodesHeader(buffer)
  PROVE  buffer[2] # Whole(c)[1]
<1> DEFINE clean == [job[c].header EXCEPT !.name = sanitize_file_name(@)]
<1>1. <<Whole(c)[1], Whole(c)[2]>>
        = <<[part |-> 1, header |-> clean], [part |-> 2, header |-> clean]>>
  BY WholeIs DEF Honest, InOrder, encode_file_header
<1> HIDE DEF clean
<1>2. Whole(c)[1].part = 1
  BY <1>1
<1>3. buffer[2].part = 2
  BY DEF DecodesHeader, HeaderFragments
<1> QED
  BY <1>2, <1>3

\* Nothing is written when a header is read; what file_stream_ has delivered of its file by
\* then is lost, and the size in the header is its own.
LEMMA OfferedMany ==
  ASSUME IInv, ManyInv, NEW c \in Clients, NEW n \in 1..Len(c2s[c]), Reads(c, n),
         ~rx.header_parsed, HeaderOffered(c, rx.buffer \o SubSeq(c2s[c], 1, n))
  PROVE  ManyInv'
<1> DEFINE data   == SubSeq(c2s[c], 1, n)
           buffer == rx.buffer \o data
           p      == rx.out_path
<1>t. /\ rx \in RxState /\ rx.bytes_written = 0
      /\ blocked \in [Clients -> {"no", "offer", "notify_true", "notify_false"}]
  BY DEF IInv, TypeOK, ServerTypeOK, RxInv
<1>b. /\ rx.buffer \in Seq(Units) /\ buffer \in Seq(Units)
      /\ Len(rx.buffer) \in Nat /\ n \in Nat \ {0}
      /\ Len(buffer) = Len(rx.buffer) + n
      /\ \A i \in 1..Len(rx.buffer) : buffer[i] = rx.buffer[i]
      /\ \A i \in 1..n : buffer[Len(rx.buffer) + i] = data[i]
  BY BufferGrows
<1>m. ShelfInv /\ CallInv /\ HeadInv /\ JobInv /\ StreamInv /\ None \notin Clients
  BY ClientsAssumption DEF ManyInv
<1>u. /\ UNCHANGED <<rpc, receiving_file, file_stream, disk, source>>
      /\ rpc \notin Arming
  BY DEF Reads, HeaderOffered, clientVars, jobVars
<1>n. /\ file_stream \in Clients
      /\ Sound(file_stream)' => Sound(file_stream)
      /\ \A d \in Clients \ {c} : Taken(d)' = Taken(d)
      /\ Accurate(c) =>
           /\ Taken(c) \in Nat /\ Taken(c)' = Taken(c) + n
           /\ \A i \in 1..n : data[i] = Whole(c)[Taken(c) + i]
  BY <1>u, ReadsOn
<1>o. /\ DecodesHeader(buffer) /\ file_header' = DecodedHeader(buffer)
      /\ \/ /\ MutexHeld
            /\ rx' = ParsedRx(buffer)
         \/ /\ rx' = [ParsedRx(buffer) EXCEPT !.buffer = <<>>]
            /\ UNCHANGED blocked
  BY DEF HeaderOffered
<1> HIDE DEF buffer, data, p
<1>1. /\ rx'.out = rx.out /\ rx'.bytes_written = 0 /\ rx'.out_path = p
      /\ rx'.header_parsed /\ rx'.io_error = rx.io_error /\ rx'.accepted = rx.accepted
  BY <1>t, <1>o DEF ParsedRx, RxState, p
<1>2. CallInv'
  <2>1. MutexHeld => rpc = "reject_locked"
    BY <1>u DEF MutexHeld, Arming
  <2> QED
    BY <1>m, <1>o, <1>u, <2>1 DEF CallInv
<1>3. ShelfInv'
  <2>1. file_header' \in FileTransferHeader
    BY <1>b, <1>o, DecodeType
  <2> QED
    BY <1>m, <1>t, <1>u, <1>1, <2>1 DEF ShelfInv, p
<1>4. HeadInv'
  BY <1>1 DEF HeadInv
<1>5. BodyInv'
  <2> SUFFICES ASSUME Live', rx.out = "open", Sound(file_stream)'
               PROVE  \/ disk[p] = SubSeq(source[file_stream], 1, Taken(file_stream)' - 2)
                      \/ /\ file_header'.size = Len(source[file_stream])
                         /\ 0 < Taken(file_stream)' - 2
    BY <1>u, <1>1 DEF BodyInv
  <2>1. Live /\ Sound(file_stream) /\ file_stream # None
    BY <1>m, <1>u, <1>n, <1>1 DEF Live
  <2>2. disk[p] = <<>>
    <3>1. disk[p] \in Seq(Units) /\ Len(disk[p]) = 0
      BY <1>m, <1>t DEF ShelfInv, p
    <3> QED
      BY <3>1, EmptySeq
  <2>3. ~(Len(rx.buffer) >= 2)
    <3> SUFFICES ASSUME Len(rx.buffer) >= 2 PROVE FALSE
      OBVIOUS
    <3>a. 1 \in 1..Len(rx.buffer) /\ 2 \in 1..Len(rx.buffer)
      BY <1>b
    <3>b. \A i \in 1..Len(rx.buffer) : buffer[i] = rx.buffer[i]
      BY <1>b
    <3>1. buffer[1] = rx.buffer[1] /\ buffer[2] = rx.buffer[2]
      BY <3>a, <3>b, Zenon
    <3>2. DecodesHeader(rx.buffer)
      BY <1>o, <3>1 DEF DecodesHeader, HeaderUnits
    <3> QED
      BY <1>m, <3>2 DEF ShelfInv
  <2>4. \/ Taken(file_stream) = 0
        \/ Taken(file_stream) = 1 /\ rx.buffer = <<Whole(file_stream)[1]>>
    BY <1>m, <2>1, <2>3 DEF HeadInv
  <2>5. ASSUME Taken(file_stream)' \in Int, Taken(file_stream)' <= 2
        PROVE  disk[p] = SubSeq(source[file_stream], 1, Taken(file_stream)' - 2)
    <3>1. SubSeq(source[file_stream], 1, Taken(file_stream)' - 2) = <<>>
      BY <2>5, SubSeqEmpty
    <3> QED
      BY <2>2, <3>1
  <2>6. CASE c # file_stream
    <3>1. Taken(file_stream)' = Taken(file_stream)
      BY <1>n, <1>u, <2>6
    <3> QED
      BY <2>4, <2>5, <3>1
  <2>7. CASE c = file_stream
    <3>1. Accurate(c) /\ Honest(c) /\ InOrder(c)
      BY <1>m, <2>1, <2>7 DEF Sound, Accurate, JobInv, StreamInv
    <3>2. Taken(c) \in Nat /\ Taken(c)' = Taken(c) + n
      BY <1>n, <3>1
    <3>3. buffer[1] = Whole(c)[1]
      <4>1. CASE Len(rx.buffer) = 0
        <5>1. Taken(c) = 0
          <6>1. \A x : Len(<<x>>) = 1
            OBVIOUS
          <6>2. Len(rx.buffer) # 1
            BY <4>1
          <6>3. rx.buffer # <<Whole(file_stream)[1]>>
            BY <6>1, <6>2, Zenon
          <6> QED
            BY <2>4, <2>7, <6>3
        <5>2. 1 \in 1..n /\ Len(rx.buffer) + 1 = 1 /\ Taken(c) + 1 = 1
          BY <1>b, <4>1, <5>1
        <5>3. buffer[Len(rx.buffer) + 1] = data[1] /\ data[1] = Whole(c)[Taken(c) + 1]
          BY <1>b, <1>n, <3>1, <5>2
        <5> QED
          BY <5>2, <5>3
      <4>2. CASE Len(rx.buffer) = 1 /\ Taken(c) = 0
        <5>1. 1 \in 1..n /\ Len(rx.buffer) + 1 = 2 /\ Taken(c) + 1 = 1
          BY <1>b, <4>2
        <5>2. buffer[Len(rx.buffer) + 1] = data[1] /\ data[1] = Whole(c)[Taken(c) + 1]
          BY <1>b, <1>n, <3>1, <5>1
        <5>3. buffer[2] = Whole(c)[1]
          BY <5>1, <5>2
        <5> QED
          BY <1>o, <3>1, <5>3, SecondIsNotFirst
      <4>3. CASE Len(rx.buffer) = 1 /\ Taken(c) # 0
        <5>1. rx.buffer = <<Whole(c)[1]>>
          BY <2>4, <2>7, <4>3
        <5>2. rx.buffer[1] = Whole(c)[1]
          BY <5>1
        <5>a. 1 \in 1..Len(rx.buffer)
          BY <4>3
        <5>b. \A i \in 1..Len(rx.buffer) : buffer[i] = rx.buffer[i]
          BY <1>b
        <5>3. buffer[1] = rx.buffer[1]
          BY <5>a, <5>b, Zenon
        <5> QED
          BY <5>2, <5>3
      <4>4. Len(rx.buffer) \in Nat /\ ~(Len(rx.buffer) >= 2)
        BY <1>b, <2>3
      <4>5. Len(rx.buffer) = 0 \/ Len(rx.buffer) = 1
        <5>1. \A k \in Nat : ~(k >= 2) => k = 0 \/ k = 1
          OBVIOUS
        <5> QED
          BY <4>4, <5>1, Zenon
      <4> QED
        BY <4>1, <4>2, <4>3, <4>5
    <3>4. file_header'.size = Len(source[c])
      BY <1>o, <3>1, <3>3, DecodesSize
    <3>5. Taken(file_stream)' = Taken(c)' /\ Taken(c)' \in Int
      <4>1. Taken(c) + n \in Int
        BY <1>b, <3>2
      <4> QED
        BY <1>u, <2>7, <3>2, <4>1
    <3>6. Taken(c)' <= 2 \/ 0 < Taken(c)' - 2
      BY <3>5
    <3> QED
      BY <2>5, <2>7, <3>4, <3>5, <3>6
  <2> QED
    BY <2>6, <2>7
<1> QED
  BY <1>u, <1>1, <1>2, <1>3, <1>4, <1>5, ReadsMany

\* Every receive event keeps the invariant.
LEMMA ReceiveMany ==
  ASSUME IInv, ManyInv, Prompt, NEW c \in Clients, ServerCallbackStep(c), on_receive(c)
  PROVE  ManyInv'
<1>1. PICK n \in 1..Len(c2s[c]) :
        /\ c2s' = [c2s EXCEPT ![c] = SubSeq(@, n + 1, Len(@))]
        /\ \/ ~receiving_file /\ UNCHANGED <<waitVars, file_header, rx, disk>>
           \/ rx.header_parsed /\ BodyBytes(SubSeq(c2s[c], 1, n))
           \/ /\ ~rx.header_parsed
              /\ \/ HeaderIncomplete(c, rx.buffer \o SubSeq(c2s[c], 1, n))
                 \/ HeaderOffered(c, rx.buffer \o SubSeq(c2s[c], 1, n))
  BY ReceiveIs
<1>2. Reads(c, n)
  <2>1. /\ UNCHANGED <<clientVars, cFin, reset, cStream, sStream, s2c, sFin, rpc,
                       receiving_file, file_stream>>
        /\ sStream[c] # "none" /\ rpc \notin Arming
    BY ReceiveIs
  <2> QED
    BY <1>1, <2>1 DEF Reads
<1>3. CASE ~receiving_file /\ UNCHANGED <<waitVars, file_header, rx, disk>>
  BY <1>2, <1>3, LostMany
<1>4. CASE rx.header_parsed /\ BodyBytes(SubSeq(c2s[c], 1, n))
  BY <1>2, <1>4, BodyMany
<1>5. CASE ~rx.header_parsed /\ HeaderIncomplete(c, rx.buffer \o SubSeq(c2s[c], 1, n))
  BY <1>2, <1>5, IncompleteMany
<1>6. CASE ~rx.header_parsed /\ HeaderOffered(c, rx.buffer \o SubSeq(c2s[c], 1, n))
  BY <1>2, <1>6, OfferedMany
<1> QED
  BY <1>1, <1>3, <1>4, <1>5, <1>6

\* Every callback of the server keeps the invariant.
LEMMA ServerCallbackMany ==
  ASSUME IInv, ManyInv, OrderlySenders, NEW c \in Clients, ServerCallbackStep(c)
  PROVE  ManyInv'
<1>t. /\ blocked \in [Clients -> {"no", "offer", "notify_true", "notify_false"}]
      /\ rx \in RxState /\ sStream \in [Clients -> StreamStates]
  BY DEF IInv, TypeOK, ServerTypeOK, QuicTypeOK
<1>m. CallInv
  BY DEF ManyInv
<1>c. UNCHANGED clientVars
  BY DEF ServerCallbackStep
<1> DEFINE Quiet == UNCHANGED <<clientVars, c2sVars, s2cVars, cStream, file_stream, file_header,
                                disk, rpc, receiving_file>>
<1>1. CASE on_new_connection(c) \/ on_connected(c) \/ on_connection_shutdown_complete(c)
           \/ on_stream_shutdown_complete(c)
  <2>1. Quiet /\ UNCHANGED <<rx, waitVars>>
    BY <1>1, <1>c
       DEF on_new_connection, on_connected, on_connection_shutdown_complete,
           on_stream_shutdown_complete, serverVars, flowVars, streamVars
  <2>2. \A d \in Clients : sStream'[d] = "none" <=> sStream[d] = "none"
    <3>1. CASE UNCHANGED sStream
      BY <3>1
    <3>2. CASE on_stream_shutdown_complete(c)
      BY <1>t, <3>2 DEF on_stream_shutdown_complete, ServerStreamOver
    <3> QED
      BY <1>1, <3>1, <3>2
         DEF on_new_connection, on_connected, on_connection_shutdown_complete, streamVars
  <2>3. CallInv' /\ UNCHANGED offer_ready
    BY <1>m, <2>1 DEF CallInv, waitVars
  <2> QED
    BY <2>1, <2>2, <2>3, QuietMany
<1>2. CASE on_send_complete(c)
  <2>1. Quiet /\ UNCHANGED <<rx, sStream>> /\ sStream[c] = "open"
    BY <1>2, <1>c DEF on_send_complete, flowVars, streamVars
  <2>2. CallInv' /\ UNCHANGED offer_ready
    <3>1. CASE UNCHANGED waitVars
      BY <1>m, <2>1, <3>1 DEF CallInv, waitVars
    <3>2. CASE notify_file_waiter(c, file_result.success, file_result)
      BY <1>t, <2>1, <3>2, NotifyCall
    <3> QED
      BY <1>2, <3>1, <3>2 DEF on_send_complete
  <2> QED
    BY <2>1, <2>2, QuietMany
<1>3. CASE EnterFileMutex(c)
  <2>1. /\ Quiet /\ UNCHANGED sStream
        /\ blocked[c] # "no" /\ ~MutexHeld
        /\ rx' = [rx EXCEPT !.buffer = <<>>] \/ rx' = rx
    BY <1>3, <1>c DEF EnterFileMutex, flowVars, quicVars, streamVars
  <2>2. rpc \in Ended
    BY <1>m, <2>1 DEF CallInv, MutexHeld
  <2>3. CallInv'
    BY <1>m, <2>1, <2>2 DEF CallInv
  <2> QED
    BY <2>1, <2>2, <2>3, QuietMany
<1>4. CASE on_peer_stream_started(c)
  BY <1>4, StreamStartedMany
<1>5. CASE on_receive(c)
  BY <1>5, ReceiveMany DEF OrderlySenders
<1>6. CASE on_peer_send_shutdown(c)
  BY <1>6, FinMany
<1>7. CASE on_peer_aborted(c)
  BY <1>7, AbortedMany
<1> QED
  BY <1>1, <1>2, <1>3, <1>4, <1>5, <1>6, <1>7 DEF ServerCallbackStep, ServerCallback

-----------------------------------------------------------------------------
(* Putting the steps together.                                             *)

\* At the start nobody has said or stored anything.
LEMMA InitMany == Init => ManyInv
<1> SUFFICES ASSUME Init PROVE ManyInv
  OBVIOUS
<1>i. QuicInit /\ ServerInit /\ ClientInit
  BY DEF Init
<1>r. /\ rx.out = "null" /\ rx.bytes_written = 0 /\ ~rx.header_parsed /\ rx.buffer = <<>>
  BY <1>i DEF ServerInit, FreshRx
<1>1. \A c \in Clients : Untold(c) /\ ~OkNews(c)
  BY <1>i DEF QuicInit, ClientInit, Untold, OkNews, Without, BodyStates
<1>2. ToldInv /\ SetupInv
  BY <1>i, <1>1 DEF QuicInit, ClientInit, ToldInv, SetupInv
<1>3. CurrentInv
  BY <1>i, <1>r DEF QuicInit, ServerInit, CurrentInv
<1>4. JobInv /\ StreamInv
  BY <1>i DEF QuicInit, JobInv, StreamInv, Accurate
<1>5. ShelfInv
  <2>1. ~DecodesHeader(<<>>)
    BY EmptySeq DEF DecodesHeader, HeaderUnits
  <2> QED
    BY <1>r, <2>1 DEF ShelfInv
<1>6. CallInv
  BY <1>i DEF ServerInit, CallInv, Ended
<1>7. HeadInv /\ BodyInv /\ ClosedInv
  BY <1>i, <1>r DEF ServerInit, HeadInv, BodyInv, ClosedInv
<1>8. NewsInv
  BY <1>1 DEF NewsInv
<1> QED
  BY <1>2, <1>3, <1>4, <1>5, <1>6, <1>7, <1>8 DEF ManyInv

\* Every step keeps the invariant, whoever takes it.
LEMMA StepMany ==
  ASSUME OrderlySenders, IInv, IInv', ApprovalInv, ManyInv, [Next]_vars
  PROVE  ManyInv'
<1>n. UNCHANGED <<serverVars, clientVars, c2sVars, s2cVars, streamVars>> => ManyInv'
  <2> SUFFICES ASSUME UNCHANGED <<serverVars, clientVars, c2sVars, s2cVars, streamVars>>
               PROVE  ManyInv'
    OBVIOUS
  <2>1. /\ UNCHANGED <<clientVars, c2sVars, s2cVars, cStream, sStream, file_stream, file_header,
                       disk, rpc, receiving_file, rx, offer_ready, blocked>>
    BY DEF serverVars, flowVars, waitVars, streamVars
  <2>2. CallInv'
    BY <2>1 DEF ManyInv, CallInv
  <2> QED
    BY <2>1, <2>2, QuietMany
<1>1. CASE ServerThreadStep
  BY <1>1, ServerThreadMany DEF OrderlySenders
<1>2. ASSUME NEW c \in Clients, ServerCallbackStep(c) PROVE ManyInv'
  BY <1>2, ServerCallbackMany
<1>3. ASSUME NEW c \in Clients, ServerTransportStep(c) PROVE ManyInv'
  BY <1>3, <1>n DEF ServerTransportStep, ServerLearnsClose
<1>4. ASSUME NEW c \in Clients, ClientThreadStep(c) PROVE ManyInv'
  BY <1>4, ClientThreadMany
<1>5. ASSUME NEW c \in Clients, ClientCallbackStep(c) PROVE ManyInv'
  BY <1>5, ClientCallbackMany
<1>6. ASSUME NEW c \in Clients, LinkDownStep(c) PROVE ManyInv'
  BY <1>6, <1>n DEF LinkDownStep, LinkDown
<1>7. ASSUME NEW c \in Clients, EditStep(c) PROVE ManyInv'
  BY <1>7 DEF EditStep, EditSource, OrderlySenders
<1>8. CASE UNCHANGED vars
  BY <1>8, <1>n DEF vars, quicVars
<1> QED
  BY <1>1, <1>2, <1>3, <1>4, <1>5, <1>6, <1>7, <1>8 DEF Next, Finished

\* The invariant of many senders holds in every state of every run.
LEMMA ManyHolds ==
  ASSUME OrderlySenders PROVE Spec => []ManyInv
<1>1. Prompt /\ ~EarlySenders
  BY DEF OrderlySenders
<1>2. Spec => []ApprovalInv
  BY <1>1, ApprovalHolds
<1>3. IInv /\ IInv' /\ ApprovalInv /\ ManyInv /\ [Next]_vars => ManyInv'
  BY StepMany
<1> QED
  BY <1>2, <1>3, InitMany, IInvHolds, PTL DEF Spec

\* However many senders there are, and whatever links, opens and writes fail: a sender that
\* is told OK (finish_file_receive, quic_server.cpp) announced bytes that the receiver's
\* disk holds in some file.
THEOREM OkMeansBytesStored ==
  ASSUME OrderlySenders PROVE Spec => []OkBytesAreStored
<1>1. ManyInv => OkBytesAreStored
  BY DEF ManyInv, NewsInv, OkNews, Stored, OkBytesAreStored
<1> QED
  BY <1>1, ManyHolds, PTL
=============================================================================
