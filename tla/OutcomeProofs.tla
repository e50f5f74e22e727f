---------------------------- MODULE OutcomeProofs ----------------------------
(***************************************************************************)
(* What success means, proved for one sender that starts after             *)
(* receive_file is armed, any contents, names, faults and test entry       *)
(* points, with and without a prompt: an "OK" of send_file, a "true" of    *)
(* receive_file and a success of last_file_result() each imply that the    *)
(* receiver's disk holds exactly what was announced.                       *)
(*                                                                         *)
(* The argument: all of these go back to one step, finish_file_receive     *)
(* with a matching hash.  It takes place at the sender's FIN, after its    *)
(* last byte, and closes the output; from then on nothing can reach the    *)
(* file or the header it was compared with, because the stream carries     *)
(* nothing more and the sender opens no other.                             *)
(*                                                                         *)
(* The second part proves that receive_file returns to a sender that has   *)
(* read the answer, if no link is lost, no drain cut short and no sender   *)
(* impatient (Undisturbed).  The replies come one at a time, each behind   *)
(* the one before; the connection whose end drain_connection waits for     *)
(* ends by the sender's disconnect, and the sender disconnects once it has *)
(* read what it waited for.                                                *)
(***************************************************************************)
EXTENDS SessionProofs

\* The counter is the length of the output, which is where rx.path says.
LengthInv ==
  /\ rx.out = "null" => rx.bytes_written = 0
  /\ rx.out # "null" => rx.out_path = rx.path /\ Len(disk[rx.path]) = rx.bytes_written

\* Everything was received, and the hash matched.
Delivered(c) ==
  /\ cFin[c] = "seen" /\ c2s[c] = <<>>
  /\ rx.header_parsed /\ ~rx.io_error /\ rx.out = "closed"
  /\ rx.bytes_written = file_header.size
  /\ sha256(disk[rx.path]) = file_header.sha256_hex

\* Somebody has said so, on the way from finish_file_receive to the callers.
Claimed(c) ==
  \/ file_result.success \/ file_ok
  \/ blocked[c] = "notify_true"
  \/ rpc = "ok_drain" \/ recv_result = "true"
  \/ ~Without(s2c[c], "OK") \/ ~Without(file_ack[c], "OK")
  \/ ack[c] = "ok" \/ send_result[c] = "ok"

StoredInv(c) == Claimed(c) => Delivered(c)

\* Which question was answered, and how.
AskedInv ==
  /\ rpc \in Arming \cup {"offer_wait", "prompt"} => answer = "none" /\ recv_result = "none"
  /\ rpc \in Arming \cup {"offer_wait"} => offered = NoHeader
  /\ recv_result # "none" => rpc \in {"returned", "stopping", "stopped"}
  /\ rpc \in Accepting \/ (Prompt /\ rpc \in {"final_wait", "ok_drain"}) => answer = "accept"
  /\ rpc \in Engaged => offered = file_header
  /\ offered # NoHeader => Prompt /\ offered = file_header
  /\ Prompt /\ recv_result = "true" => answer = "accept" /\ offered # NoHeader

OutcomeInv(c) == LengthInv /\ StoredInv(c) /\ AskedInv

-----------------------------------------------------------------------------
(* The output is as long as it was counted to be.                          *)

\* Nothing that leaves the output file and its count alone disturbs them.
LEMMA LengthFrame ==
  ASSUME LengthInv, UNCHANGED disk,
         rx'.bytes_written = rx.bytes_written, rx'.out_path = rx.out_path,
         rx.out = "null" \/ rx'.path = rx.path, rx'.out = "null" <=> rx.out = "null"
  PROVE  LengthInv'
BY DEF LengthInv

\* Closing the output keeps it.
LEMMA CloseFacts ==
  ASSUME NEW r \in RxState
  PROVE  /\ CloseFile(r) \in RxState
         /\ CloseFile(r).header_parsed = r.header_parsed
         /\ CloseFile(r).io_error = r.io_error
         /\ CloseFile(r).bytes_written = r.bytes_written
         /\ CloseFile(r).out_path = r.out_path /\ CloseFile(r).path = r.path
         /\ CloseFile(r).accepted = r.accepted
         /\ CloseFile(r).out = "null" <=> r.out = "null"
         /\ r.out # "null" => CloseFile(r).out = "closed"
         /\ r.out = "closed" => CloseFile(r).out = "closed"
BY DEF CloseFile, RxState

\* The server thread opens and closes the file, and writes nothing.
LEMMA ServerThreadLength ==
  ASSUME NEW c, Clients = {c}, IInv, SessionInv(c), LengthInv, ServerThreadStep
  PROVE  LengthInv'
<1>t. rx \in RxState /\ disk \in Disks
  BY DEF IInv, TypeOK, ServerTypeOK, Disks
<1>f. rpc \in Arming => rx = FreshRx(rx.path)
  BY DEF SessionInv, FlowInv, OpensOnce, Unopened, Unheard
<1>1. CASE ArmReceiving
  BY <1>1, LengthFrame DEF ArmReceiving
<1>2. CASE ArmPath
  <2>1. /\ rx.out = "null" /\ rx' = [rx EXCEPT !.path = OutputPath]
    BY <1>2, <1>f, FreshFields DEF ArmPath, Arming
  <2>2. /\ rx'.bytes_written = rx.bytes_written /\ rx'.out_path = rx.out_path
        /\ rx'.out = rx.out
    BY <1>t, <2>1 DEF RxState
  <2> QED
    BY <1>2, <2>1, <2>2, LengthFrame DEF ArmPath
<1>3. CASE ArmOffer
  BY <1>3, LengthFrame DEF ArmOffer
<1>4. CASE ArmReset
  BY <1>4, FreshFields DEF ArmReset, LengthInv
<1>5. CASE OfferArrived
  BY <1>5, LengthFrame DEF OfferArrived
<1>6. CASE OfferFailed
  BY <1>6, LengthFrame DEF OfferFailed
<1>7. CASE OfferTimeout
  BY <1>7, LengthFrame DEF OfferTimeout
<1>8. CASE PromptReject
  BY <1>8, LengthFrame DEF PromptReject
<1>9. CASE PromptAccept
  <2>1. PICK opened \in OpenOutcomes(rx.path) :
          /\ rx' = OpenedRx(rx, opened)
          /\ disk' = OpenedDisk(rx, opened)
    BY <1>9 DEF PromptAccept
  <2>2. rx.bytes_written = 0
    BY <1>9 DEF PromptAccept, SessionInv, FlowInv, PhaseInv, LengthInv
  <2>3. opened \in BOOLEAN /\ (opened => rx.path \in Names)
    BY <1>t DEF OpenOutcomes, Outcomes, RxState
  <2>4. CASE opened
    <3>1. /\ rx'.out = "open" /\ rx'.out_path = rx.path /\ rx'.path = rx.path
          /\ rx'.bytes_written = 0
      BY <1>t, <2>1, <2>2, <2>4 DEF OpenedRx, RxState
    <3>2. Len(disk'[rx.path]) = 0
      BY <1>t, <2>1, <2>3, <2>4 DEF OpenedDisk, Disks
    <3> QED
      BY <3>1, <3>2 DEF LengthInv
  <2>5. CASE ~opened
    BY <1>t, <2>1, <2>2, <2>5 DEF OpenedRx, RxState, LengthInv
  <2> QED
    BY <2>3, <2>4, <2>5
<1>10. CASE SendAccept
  BY <1>10, LengthFrame DEF SendAccept
<1>11. CASE TransferFinished
  BY <1>11, LengthFrame DEF TransferFinished
<1>12. CASE TransferFailed
  BY <1>12, <1>t, CloseFacts, LengthFrame DEF TransferFailed
<1>13. CASE DrainAfterReject
  BY <1>13, LengthFrame DEF DrainAfterReject
<1>14. CASE DrainAfterTransfer
  BY <1>14, LengthFrame DEF DrainAfterTransfer
<1>15. CASE Stop
  BY <1>15, LengthFrame DEF Stop
<1>16. CASE StopReturns
  BY <1>16, LengthFrame DEF StopReturns
<1>17. CASE MarkAccepted
  <2>1. /\ rx'.bytes_written = rx.bytes_written /\ rx'.out_path = rx.out_path
        /\ rx'.path = rx.path /\ rx'.out = rx.out
    BY <1>17, <1>t DEF MarkAccepted, RxState
  <2> QED
    BY <1>17, <2>1, LengthFrame DEF MarkAccepted
<1> QED
  BY <1>1, <1>2, <1>3, <1>4, <1>5, <1>6, <1>7, <1>8, <1>9, <1>10, <1>11, <1>12, <1>13,
     <1>14, <1>15, <1>16, <1>17 DEF ServerThreadStep, ServerThread

\* on_receive counts what it writes.
LEMMA OnReceiveLength ==
  ASSUME NEW c, Clients = {c}, IInv, SessionInv(c), LengthInv, on_receive(c)
  PROVE  LengthInv'
<1>t. /\ rx \in RxState /\ disk \in Disks /\ RxInv /\ c \in Clients
      /\ file_header \in HeaderOrNone /\ c2s[c] \in Seq(Units)
  BY DEF IInv, TypeOK, ServerTypeOK, QuicTypeOK, Disks
<1>1. PICK n \in 1..Len(c2s[c]) :
        IF receiving_file
        THEN append_file_bytes(c, SubSeq(c2s[c], 1, n))
        ELSE UNCHANGED <<waitVars, file_header, rx, file_result, disk, s2cVars, sSends>>
  BY DEF on_receive
<1> DEFINE data == SubSeq(c2s[c], 1, n)
<1>2. data \in Seq(Units) /\ rx.buffer \o data \in Seq(Units)
  <2>1. data \in Seq(Units) /\ rx.buffer \in Seq(Units)
    BY <1>t, SplitType DEF RxState
  <2> QED
    BY <2>1, ConcatProperties
<1>3. CASE ~receiving_file
  BY <1>1, <1>3, LengthFrame
<1>4. CASE receiving_file /\ rx.header_parsed
  <2>1. BodyBytes(data)
    BY <1>1, <1>4 DEF append_file_bytes
  <2> HIDE DEF data
  <2>2. CASE UNCHANGED <<rx, disk>>
    BY <2>2, LengthFrame
  <2>3. CASE rx.out = "open"
    <3>1. \/ UNCHANGED <<rx, disk>>
          \/ \E good \in WriteOutcomes(rx, file_header, data) :
               /\ rx' = WrittenRx(rx, file_header, data, good)
               /\ disk' = WrittenDisk(disk, rx, file_header, data, good)
      BY <2>1 DEF BodyBytes
    <3>2. SUFFICES ASSUME NEW good \in BOOLEAN,
                          rx' = WrittenRx(rx, file_header, data, good),
                          disk' = WrittenDisk(disk, rx, file_header, data, good)
                   PROVE  LengthInv'
      BY <2>2, <3>1 DEF WriteOutcomes, Outcomes
    <3>3. /\ rx.bytes_written <= file_header.size /\ rx.out_path \in Names
          /\ disk[rx.out_path] \in Seq(Units) /\ Len(disk[rx.out_path]) = rx.bytes_written
          /\ rx.out_path = rx.path
      BY <1>t, <2>3 DEF RxInv, LengthInv
    <3>4. /\ Len(WrittenDisk(disk, rx, file_header, data, good)[rx.out_path])
               = WrittenRx(rx, file_header, data, good).bytes_written
          /\ WrittenRx(rx, file_header, data, good).out = rx.out
          /\ WrittenRx(rx, file_header, data, good).out_path = rx.out_path
          /\ WrittenRx(rx, file_header, data, good).path = rx.path
      BY <1>2, <1>t, <3>3, WrittenFacts
    <3> QED
      BY <2>3, <3>2, <3>3, <3>4 DEF LengthInv
  <2> QED
    BY <2>1, <2>2, <2>3 DEF BodyBytes
<1>5. CASE receiving_file /\ ~rx.header_parsed
  <2> DEFINE buffer == rx.buffer \o data
  <2>1. \/ HeaderIncomplete(c, buffer)
        \/ HeaderOffered(c, buffer)
        \/ HeaderAutoAccepted(c, buffer)
    BY <1>1, <1>5 DEF append_file_bytes
  <2>2. rx.out = "null" /\ rx.bytes_written = 0 /\ buffer \in Seq(Units)
    BY <1>2, <1>5, <1>t DEF SessionInv, FlowInv, PhaseInv, LengthInv
  <2> HIDE DEF data, buffer
  <2>3. CASE HeaderIncomplete(c, buffer)
    BY <1>t, <2>2, <2>3 DEF HeaderIncomplete, RxState, LengthInv
  <2>4. CASE HeaderOffered(c, buffer)
    BY <1>t, <2>2, <2>4 DEF HeaderOffered, ParsedRx, RxState, LengthInv
  <2>5. CASE HeaderAutoAccepted(c, buffer)
    BY <1>t, <1>5, <2>2, <2>5, AutoAcceptedFacts DEF LengthInv
  <2> QED
    BY <2>1, <2>3, <2>4, <2>5
<1> QED
  BY <1>3, <1>4, <1>5

\* So do the callbacks of the server as a whole.
LEMMA ServerCallbackLength ==
  ASSUME NEW c, Clients = {c}, IInv, SessionInv(c), LengthInv, ServerCallbackStep(c)
  PROVE  LengthInv'
<1>t. rx \in RxState
  BY DEF IInv, TypeOK, ServerTypeOK
<1>1. CASE on_new_connection(c)
  BY <1>1, LengthFrame DEF on_new_connection, serverVars
<1>2. CASE on_connected(c)
  BY <1>2, LengthFrame DEF on_connected
<1>3. CASE on_connection_shutdown_complete(c)
  BY <1>3, LengthFrame DEF on_connection_shutdown_complete
<1>4. CASE on_peer_stream_started(c)
  BY <1>4, FreshFields DEF on_peer_stream_started, LengthInv
<1>5. CASE on_receive(c)
  BY <1>5, OnReceiveLength
<1>6. CASE on_peer_send_shutdown(c)
  <2>1. \/ UNCHANGED rx
        \/ \E ok \in BOOLEAN : rx' = [CloseFile(rx) EXCEPT !.sending_final_ack = ok]
    BY <1>6 DEF on_peer_send_shutdown, finish_file_receive, SendOutcomes, Outcomes
  <2>2. /\ rx'.bytes_written = rx.bytes_written /\ rx'.out_path = rx.out_path
        /\ rx'.path = rx.path /\ (rx'.out = "null" <=> rx.out = "null")
    <3>1. CASE UNCHANGED rx
      BY <3>1
    <3>2. CASE \E ok \in BOOLEAN : rx' = [CloseFile(rx) EXCEPT !.sending_final_ack = ok]
      BY <1>t, <3>2, CloseFacts DEF RxState
    <3> QED
      BY <2>1, <3>1, <3>2
  <2>3. UNCHANGED disk
    BY <1>6 DEF on_peer_send_shutdown
  <2> QED
    BY <2>2, <2>3, LengthFrame
<1>7. CASE on_send_complete(c)
  BY <1>7, LengthFrame DEF on_send_complete
<1>8. CASE on_peer_aborted(c)
  BY <1>8, <1>t, CloseFacts, LengthFrame, ZenonT(60) DEF on_peer_aborted
<1>9. CASE on_stream_shutdown_complete(c)
  BY <1>9, LengthFrame DEF on_stream_shutdown_complete, serverVars
<1>10. CASE EnterFileMutex(c)
  <2>1. rx' = rx
    BY <1>10 DEF EnterFileMutex, SessionInv, FlowInv, PhaseInv
  <2> QED
    BY <1>10, <2>1, LengthFrame DEF EnterFileMutex
<1> QED
  BY <1>1, <1>2, <1>3, <1>4, <1>5, <1>6, <1>7, <1>8, <1>9, <1>10
     DEF ServerCallbackStep, ServerCallback

-----------------------------------------------------------------------------
(* What was delivered stays, and who claims it relies on it.               *)

\* Nothing of the file is under way any more, and no stream will be opened.
LEMMA DeliveredFacts ==
  ASSUME NEW c, SessionInv(c), Delivered(c)
  PROVE  /\ sStream[c] # "none" /\ cStream[c] # "none"
         /\ rpc \notin Arming \cup {"offer_wait", "prompt"}
         /\ cpc[c] # "ready"
BY FreshFields DEF SessionInv, FlowInv, Unopened, OpensOnce, Unheard, PhaseInv, Delivered

\* A file that was delivered stays so while its bytes and its count stay.
LEMMA DeliveredFrame ==
  ASSUME NEW c, Delivered(c), UNCHANGED <<disk, file_header>>,
         cFin'[c] = cFin[c], c2s'[c] = <<>>,
         rx'.header_parsed = rx.header_parsed, rx'.io_error = rx.io_error,
         rx'.bytes_written = rx.bytes_written, rx'.path = rx.path, rx'.out = rx.out
  PROVE  Delivered(c)'
BY DEF Delivered

\* Closing the stream object of a delivered file changes nothing of it.
LEMMA CloseDelivered ==
  ASSUME NEW c, Delivered(c), UNCHANGED <<disk, file_header, cFin>>, c2s'[c] = <<>>,
         rx \in RxState, rx' = CloseFile(rx)
  PROVE  Delivered(c)'
<1>1. rx' = rx
  BY DEF CloseFile, Delivered
<1> QED
  BY <1>1, DeliveredFrame

\* The server thread reports a success only for a file that was stored.
LEMMA ServerThreadStored ==
  ASSUME NEW c, Clients = {c}, IInv, SessionInv(c), StoredInv(c), ServerThreadStep
  PROVE  StoredInv(c)'
<1>t. /\ QuicTypeOK /\ rx \in RxState /\ file_result \in Results /\ c \in Clients
      /\ UNCHANGED <<cpc, file_ack, ack, send_result>>
  BY DEF IInv, TypeOK, ServerTypeOK, Results, ServerThreadStep, clientVars, ackVars
<1>d. Delivered(c) => rpc \notin Arming \cup {"offer_wait", "prompt"} /\ c2s[c] = <<>>
  BY DeliveredFacts DEF Delivered
<1>w. ASSUME NEW word \in Words \ {"OK"}, NEW fin \in BOOLEAN,
             ServerSends(file_stream, word, fin) \/ UNCHANGED <<s2cVars, sSends>>
      PROVE  Without(s2c[c], "OK") => Without(s2c'[c], "OK")
  BY <1>t, <1>w, SendsWithout
<1>r. {"ACCEPT", "REJECT"} \subseteq Words \ {"OK"}
  BY DEF Words
<1> USE DEF StoredInv, Claimed, waitVars, Return
<1> USE DEF quicVars, c2sVars, s2cVars
<1>1. CASE ArmReceiving
  BY <1>1, <1>t, <1>d, DeliveredFrame DEF ArmReceiving
<1>2. CASE ArmPath
  BY <1>2, <1>t, <1>d DEF ArmPath, Arming
<1>3. CASE ArmOffer
  BY <1>3, <1>t, <1>d DEF ArmOffer, Arming
<1>4. CASE ArmReset
  BY <1>4, <1>t, <1>d DEF ArmReset, Arming, NoResult
<1>5. CASE OfferArrived
  BY <1>5, <1>t, <1>d DEF OfferArrived
<1>6. CASE OfferFailed
  BY <1>6, <1>t, <1>d DEF OfferFailed
<1>7. CASE OfferTimeout
  BY <1>7, <1>t, <1>d DEF OfferTimeout
<1>8. CASE PromptReject
  <2>1. Without(s2c[c], "OK") => Without(s2c'[c], "OK")
    BY <1>8, <1>w, <1>r DEF PromptReject, SendReject
  <2>2. file_result'.success = file_result.success
    BY <1>8, <1>t DEF PromptReject, Results
  <2>3. ~Delivered(c)
    BY <1>8, <1>d DEF PromptReject
  <2> QED
    BY <1>8, <1>t, <2>1, <2>2, <2>3 DEF PromptReject
<1>9. CASE PromptAccept
  <2>1. Without(s2c[c], "OK") => Without(s2c'[c], "OK")
    BY <1>9, <1>w, <1>r DEF PromptAccept, SendReject
  <2>2. file_result'.success = file_result.success
    BY <1>9, <1>t DEF PromptAccept, OpenedResult, Results
  <2>3. ~Delivered(c)
    BY <1>9, <1>d DEF PromptAccept
  <2> QED
    BY <1>9, <1>t, <2>1, <2>2, <2>3 DEF PromptAccept
<1>10. CASE SendAccept
  <2>1. Without(s2c[c], "OK") => Without(s2c'[c], "OK")
    BY <1>10, <1>w, <1>r DEF SendAccept
  <2>2. Delivered(c) => Delivered(c)'
    BY <1>10, <1>d, DeliveredFrame DEF SendAccept
  <2> QED
    BY <1>10, <1>t, <2>1, <2>2 DEF SendAccept
<1>11. CASE TransferFinished
  <2>1. Delivered(c) => Delivered(c)'
    BY <1>11, <1>d, DeliveredFrame DEF TransferFinished
  <2> QED
    BY <1>11, <1>t, <2>1 DEF TransferFinished, TransferOk
<1>12. CASE TransferFailed
  <2>1. Delivered(c) => Delivered(c)'
    BY <1>12, <1>t, <1>d, CloseDelivered DEF TransferFailed
  <2> QED
    BY <1>12, <1>t, <2>1 DEF TransferFailed
<1>13. CASE DrainAfterReject
  <2>1. Delivered(c) => Delivered(c)'
    BY <1>13, <1>d, DeliveredFrame DEF DrainAfterReject
  <2> QED
    BY <1>13, <1>t, <2>1 DEF DrainAfterReject
<1>14. CASE DrainAfterTransfer
  <2>1. Delivered(c) => Delivered(c)'
    BY <1>14, <1>d, DeliveredFrame DEF DrainAfterTransfer
  <2> QED
    BY <1>14, <1>t, <2>1 DEF DrainAfterTransfer
<1>15. CASE Stop
  <2>1. Delivered(c) => Delivered(c)'
    BY <1>15, <1>d, DeliveredFrame DEF Stop
  <2> QED
    BY <1>15, <1>t, <2>1 DEF Stop
<1>16. CASE StopReturns
  <2>1. Delivered(c) => Delivered(c)'
    BY <1>16, <1>d, DeliveredFrame DEF StopReturns
  <2> QED
    BY <1>16, <1>t, <2>1 DEF StopReturns
<1>17. CASE MarkAccepted
  <2>1. /\ rx'.header_parsed = rx.header_parsed /\ rx'.io_error = rx.io_error
        /\ rx'.bytes_written = rx.bytes_written /\ rx'.path = rx.path /\ rx'.out = rx.out
    BY <1>17, <1>t DEF MarkAccepted, RxState
  <2>2. Delivered(c) => Delivered(c)'
    BY <1>17, <1>d, <2>1, DeliveredFrame DEF MarkAccepted
  <2> QED
    BY <1>17, <1>t, <2>2 DEF MarkAccepted
<1> QED
  BY <1>1, <1>2, <1>3, <1>4, <1>5, <1>6, <1>7, <1>8, <1>9, <1>10, <1>11, <1>12, <1>13,
     <1>14, <1>15, <1>16, <1>17 DEF ServerThreadStep, ServerThread

\* A failure reported to receive_file claims nothing.
LEMMA NotifyClaims ==
  ASSUME NEW c \in Clients, NEW success \in BOOLEAN, NEW r \in Results,
         blocked \in [Clients -> {"no", "offer", "notify_true", "notify_false"}],
         notify_file_waiter(c, success, r)
  PROVE  /\ file_result'.success => r.success \/ success
         /\ file_ok' => file_ok \/ success
         /\ blocked'[c] = "notify_true" => blocked[c] = "notify_true" \/ success
BY DEF notify_file_waiter, Results

\* A receive event claims nothing: there are no more bytes once the file is
\* delivered.
LEMMA OnReceiveClaims ==
  ASSUME NEW c, Clients = {c}, IInv, SessionInv(c), StoredInv(c), on_receive(c),
         UNCHANGED <<file_ack, ack, send_result>>
  PROVE  ~Claimed(c)'
<1>t. /\ QuicTypeOK /\ rx \in RxState /\ file_result \in Results /\ c \in Clients
      /\ c2s[c] \in Seq(Units) /\ rx.buffer \in Seq(Units)
      /\ blocked \in [Clients -> {"no", "offer", "notify_true", "notify_false"}]
  BY DEF IInv, TypeOK, ServerTypeOK, QuicTypeOK, Results, RxState
<1>1. PICK n \in 1..Len(c2s[c]) :
        IF receiving_file
        THEN append_file_bytes(c, SubSeq(c2s[c], 1, n))
        ELSE UNCHANGED <<waitVars, file_header, rx, file_result, disk, s2cVars, sSends>>
  BY DEF on_receive
<1>2. c2s[c] # <<>>
  BY <1>t, <1>1
<1>3. ~Claimed(c) /\ UNCHANGED <<rpc, recv_result>>
  BY <1>2 DEF StoredInv, Delivered, on_receive, flowVars
<1> DEFINE data   == SubSeq(c2s[c], 1, n)
           buffer == rx.buffer \o data
<1>4. data \in Seq(Units) /\ buffer \in Seq(Units)
  BY <1>t, SplitType, ConcatProperties
<1> HIDE DEF data, buffer
<1>5. /\ file_result'.success => file_result.success
      /\ file_ok' => file_ok
      /\ blocked'[c] = "notify_true" => blocked[c] = "notify_true"
      /\ Without(s2c[c], "OK") => Without(s2c'[c], "OK")
  <2>1. CASE ~receiving_file
    BY <1>1, <2>1 DEF waitVars, s2cVars
  <2>2. CASE receiving_file /\ rx.header_parsed
    <3>1. BodyBytes(data)
      BY <1>1, <2>2 DEF append_file_bytes, data
    <3> QED
      BY <1>t, <3>1 DEF BodyBytes, Results, waitVars, s2cVars
  <2>3. CASE receiving_file /\ ~rx.header_parsed
    <3>1. \/ HeaderIncomplete(c, buffer)
          \/ HeaderOffered(c, buffer)
          \/ HeaderAutoAccepted(c, buffer)
      BY <1>1, <2>3 DEF append_file_bytes, buffer, data
    <3>2. CASE HeaderIncomplete(c, buffer)
      <4>1. [file_result EXCEPT !.error = TRUE] \in Results
            /\ [file_result EXCEPT !.error = TRUE].success = file_result.success
        BY <1>t DEF Results
      <4>2. UNCHANGED s2c
        BY <3>2 DEF HeaderIncomplete, s2cVars
      <4>3. CASE UNCHANGED <<waitVars, file_result>>
        BY <4>2, <4>3 DEF waitVars
      <4>4. CASE notify_file_waiter(c, FALSE, [file_result EXCEPT !.error = TRUE])
        <5>1. \A r \in Results : notify_file_waiter(c, FALSE, r) =>
                /\ file_result'.success => r.success
                /\ file_ok' => file_ok
                /\ blocked'[c] = "notify_true" => blocked[c] = "notify_true"
          BY <1>t, NotifyClaims
        <5> QED
          BY <4>1, <4>2, <4>4, <5>1
      <4> QED
        BY <3>2, <4>3, <4>4 DEF HeaderIncomplete
    <3>3. CASE HeaderOffered(c, buffer)
      BY <1>t, <3>3 DEF HeaderOffered, s2cVars
    <3>4. CASE HeaderAutoAccepted(c, buffer)
      <4>1. rx.out = "null"
        BY <2>3, <1>t DEF SessionInv, FlowInv, PhaseInv
      <4>2. file_result'.success = file_result.success
        BY <1>4, <1>t, <2>3, <3>4, <4>1, AutoAcceptedFacts
      <4>3. ServerSends(file_stream, "ACCEPT", FALSE) \/ UNCHANGED <<s2cVars, sSends>>
        BY <3>4 DEF HeaderAutoAccepted
      <4>4. "ACCEPT" \in Words \ {"OK"}
        BY DEF Words
      <4>5. Without(s2c[c], "OK") => Without(s2c'[c], "OK")
        BY <1>t, <4>3, <4>4, SendsWithout
      <4> QED
        BY <3>4, <4>2, <4>5 DEF HeaderAutoAccepted, waitVars
    <3> QED
      BY <3>1, <3>2, <3>3, <3>4
  <2> QED
    BY <2>1, <2>2, <2>3
<1> QED
  BY <1>3, <1>5 DEF Claimed

\* The one step that starts a claim: the file is complete, closed and verified.
LEMMA FinishStored ==
  ASSUME NEW c, Clients = {c}, IInv, SessionInv(c), LengthInv, StoredInv(c),
         on_peer_send_shutdown(c), UNCHANGED <<cpc, file_ack, ack, send_result>>
  PROVE  StoredInv(c)'
<1>t. /\ QuicTypeOK /\ rx \in RxState /\ file_result \in Results /\ c \in Clients
      /\ blocked \in [Clients -> {"no", "offer", "notify_true", "notify_false"}]
      /\ cFin \in [Clients -> Signals]
  BY DEF IInv, TypeOK, ServerTypeOK, QuicTypeOK, Results
<1>1. /\ ~Claimed(c) /\ UNCHANGED <<rpc, recv_result, file_header, disk, c2s>>
      /\ cFin'[c] = "seen" /\ c2s[c] = <<>>
  BY <1>t DEF on_peer_send_shutdown, StoredInv, Delivered, flowVars
<1>2. CASE ~(receiving_file /\ (rx.accepted \/ rx.io_error))
  BY <1>1, <1>2 DEF on_peer_send_shutdown, StoredInv, Claimed, waitVars, s2cVars
<1>3. CASE receiving_file /\ (rx.accepted \/ rx.io_error)
  <2>1. finish_file_receive(c)
    BY <1>3 DEF on_peer_send_shutdown
  <2>2. PICK readable \in BOOLEAN, ok \in BOOLEAN :
          LET result == [file_result EXCEPT !.success = Verified(readable),
                                            !.error = @ \/ ~Verified(readable)]
          IN /\ rx' = [CloseFile(rx) EXCEPT !.sending_final_ack = ok]
             /\ IF ok
                THEN /\ ServerSends(c, IF Verified(readable) THEN "OK" ELSE "FAIL", TRUE)
                     /\ file_result' = result
                     /\ UNCHANGED waitVars
                ELSE /\ notify_file_waiter(c, FALSE, result)
                     /\ UNCHANGED <<s2cVars, sSends>>
    BY <2>1, Zenon DEF finish_file_receive, SendOutcomes, Outcomes
  <2>3. CASE Verified(readable)
    <3>1. /\ rx'.header_parsed = rx.header_parsed /\ rx'.io_error = rx.io_error
          /\ rx'.bytes_written = rx.bytes_written /\ rx'.path = rx.path
          /\ rx'.out = "closed"
      <4>1. rx' = [CloseFile(rx) EXCEPT !.sending_final_ack = ok]
        BY <2>2, Zenon
      <4>2. rx.out # "null"
        BY <2>3 DEF Verified
      <4>3. /\ CloseFile(rx) \in RxState
            /\ CloseFile(rx).header_parsed = rx.header_parsed
            /\ CloseFile(rx).io_error = rx.io_error
            /\ CloseFile(rx).bytes_written = rx.bytes_written
            /\ CloseFile(rx).path = rx.path /\ CloseFile(rx).out = "closed"
        BY <1>t, <4>2, CloseFacts
      <4> QED
        BY <4>1, <4>3 DEF RxState
    <3>2. Delivered(c)'
      BY <1>1, <2>3, <3>1 DEF Delivered, Verified
    <3> QED
      BY <3>2 DEF StoredInv
  <2>4. CASE ~Verified(readable)
    <3> DEFINE result == [file_result EXCEPT !.success = Verified(readable),
                                             !.error = @ \/ ~Verified(readable)]
    <3>1. result \in Results /\ ~result.success
      <4>1. Verified(readable) = FALSE
        BY <2>4 DEF Verified
      <4>2. result = [file_result EXCEPT !.success = FALSE, !.error = @ \/ ~FALSE]
        BY <4>1
      <4> QED
        BY <1>t, <4>2 DEF Results
    <3> HIDE DEF result
    <3>2. CASE ok
      <4>1. ServerSends(c, "FAIL", TRUE) /\ file_result' = result /\ UNCHANGED waitVars
        BY <2>2, <2>4, <3>2 DEF result
      <4>2. "FAIL" \in Words \ {"OK"}
        BY DEF Words
      <4>3. Without(s2c[c], "OK") => Without(s2c'[c], "OK")
        BY <1>t, <4>1, <4>2, SendsWithout
      <4> QED
        BY <1>1, <3>1, <4>1, <4>3 DEF StoredInv, Claimed, waitVars
    <3>3. CASE ~ok
      <4>1. notify_file_waiter(c, FALSE, result) /\ UNCHANGED s2c
        BY <2>2, <3>3 DEF result, s2cVars
      <4>2. /\ ~file_result'.success
            /\ file_ok' => file_ok
            /\ blocked'[c] = "notify_true" => blocked[c] = "notify_true"
        BY <1>t, <3>1, <4>1, NotifyClaims
      <4> QED
        BY <1>1, <4>1, <4>2 DEF StoredInv, Claimed
    <3> QED
      BY <3>2, <3>3
  <2> QED
    BY <2>3, <2>4
<1> QED
  BY <1>2, <1>3

\* finish_file_receive answers OK only when the whole file is in place.
LEMMA ServerCallbackStored ==
  ASSUME NEW c, Clients = {c}, IInv, SessionInv(c), LengthInv, StoredInv(c),
         ServerCallbackStep(c)
  PROVE  StoredInv(c)'
<1>t. /\ rx \in RxState /\ file_result \in Results /\ c \in Clients
      /\ blocked \in [Clients -> {"no", "offer", "notify_true", "notify_false"}]
      /\ file_ok \in BOOLEAN
      /\ UNCHANGED <<cpc, file_ack, ack, send_result>>
  BY DEF IInv, TypeOK, ServerTypeOK, Results, ServerCallbackStep, clientVars, ackVars
<1>d. Delivered(c) => sStream[c] # "none" /\ c2s[c] = <<>>
  BY DeliveredFacts DEF Delivered
<1>n. ASSUME NEW success \in BOOLEAN, success => Claimed(c), NEW r \in Results,
             r.success => Claimed(c), notify_file_waiter(c, success, r),
             UNCHANGED <<rpc, recv_result, s2c>>, Delivered(c) => Delivered(c)'
      PROVE  StoredInv(c)'
  <2>1. /\ file_result'.success => r.success \/ success
        /\ file_ok' => file_ok \/ success
        /\ blocked'[c] = "notify_true" => blocked[c] = "notify_true" \/ success
    BY <1>t, <1>n, NotifyClaims
  <2> QED
    BY <1>t, <1>n, <2>1 DEF StoredInv, Claimed
<1>k. ASSUME UNCHANGED <<rpc, recv_result, s2c, file_result, file_ok, blocked>>,
             Delivered(c) => Delivered(c)'
      PROVE  StoredInv(c)'
  BY <1>t, <1>k DEF StoredInv, Claimed
<1> USE DEF flowVars, waitVars
<1> USE DEF c2sVars, s2cVars
<1>1. CASE on_new_connection(c)
  BY <1>1, <1>k, <1>d, DeliveredFrame DEF on_new_connection, serverVars
<1>2. CASE on_connected(c)
  BY <1>2, <1>k, <1>d, DeliveredFrame DEF on_connected
<1>3. CASE on_connection_shutdown_complete(c)
  BY <1>3, <1>k, <1>d, DeliveredFrame DEF on_connection_shutdown_complete
<1>4. CASE on_peer_stream_started(c)
  BY <1>4, <1>k, <1>d DEF on_peer_stream_started
<1>5. CASE on_receive(c)
  BY <1>5, <1>t, OnReceiveClaims DEF StoredInv
<1>6. CASE on_peer_send_shutdown(c)
  BY <1>6, <1>t, FinishStored
<1>7. CASE on_send_complete(c)
  <2>1. Delivered(c) => Delivered(c)'
    BY <1>7, <1>d, DeliveredFrame DEF on_send_complete
  <2>2. UNCHANGED <<rpc, recv_result, s2c>>
    BY <1>7 DEF on_send_complete
  <2>3. CASE UNCHANGED <<waitVars, file_result>>
    BY <1>k, <2>1, <2>2, <2>3
  <2>4. CASE notify_file_waiter(c, file_result.success, file_result)
    <3>1. file_result.success \in BOOLEAN /\ (file_result.success => Claimed(c))
      BY <1>t DEF Results, Claimed
    <3> QED
      BY <1>n, <1>t, <2>1, <2>2, <2>4, <3>1
  <2> QED
    BY <1>7, <2>3, <2>4 DEF on_send_complete
<1>8. CASE on_peer_aborted(c)
  <2>1. CASE receiving_file
    <3>1. Delivered(c) => Delivered(c)'
      <4>1. rx' = CloseFile(rx) /\ UNCHANGED <<disk, file_header, cFin>>
        BY <1>8, <2>1 DEF on_peer_aborted
      <4>2. c2s'[c] = <<>>
        BY <1>8, <1>t DEF on_peer_aborted, IInv, TypeOK, QuicTypeOK
      <4> QED
        BY <1>t, <4>1, <4>2, CloseDelivered
    <3>2. UNCHANGED <<rpc, recv_result, s2c>>
      BY <1>8 DEF on_peer_aborted
    <3>3. PICK r : r = [file_result EXCEPT !.error = TRUE]
      OBVIOUS
    <3>4. r \in Results /\ r.success = file_result.success
      BY <1>t, <3>3 DEF Results
    <3>5. notify_file_waiter(c, FALSE, r)
      BY <1>8, <2>1, <3>3, Zenon DEF on_peer_aborted
    <3>6. r.success => Claimed(c)
      BY <3>4 DEF Claimed
    <3> QED
      BY <1>n, <3>1, <3>2, <3>4, <3>5, <3>6
  <2>2. CASE ~receiving_file
    <3>1. Delivered(c) => Delivered(c)'
      <4>1. UNCHANGED <<rx, disk, file_header, cFin>>
        BY <1>8, <2>2 DEF on_peer_aborted
      <4>2. c2s'[c] = <<>>
        BY <1>8, <1>t DEF on_peer_aborted, IInv, TypeOK, QuicTypeOK
      <4> QED
        BY <4>1, <4>2, DeliveredFrame
    <3> QED
      BY <1>8, <1>k, <2>2, <3>1 DEF on_peer_aborted
  <2> QED
    BY <2>1, <2>2
<1>9. CASE on_stream_shutdown_complete(c)
  BY <1>9, <1>k, <1>d, DeliveredFrame DEF on_stream_shutdown_complete, serverVars
<1>10. CASE EnterFileMutex(c)
  <2>1. rx' = rx /\ UNCHANGED <<disk, file_header, cFin, c2s, s2c, rpc, recv_result>>
    BY <1>10 DEF EnterFileMutex, SessionInv, FlowInv, PhaseInv, quicVars
  <2>2. Delivered(c) => Delivered(c)'
    BY <1>d, <2>1, DeliveredFrame
  <2>3. /\ blocked'[c] = "no"
        /\ file_ok' => blocked[c] = "notify_true" \/ file_ok
        /\ file_result'.success => blocked[c] = "notify_true" \/ file_result.success
    BY <1>10, <1>t DEF EnterFileMutex, Results
  <2> QED
    BY <1>t, <2>1, <2>2, <2>3 DEF StoredInv, Claimed
<1> QED
  BY <1>1, <1>2, <1>3, <1>4, <1>5, <1>6, <1>7, <1>8, <1>9, <1>10
     DEF ServerCallbackStep, ServerCallback

\* A step of the sender's side that sends and reads nothing keeps both.
LEMMA SenderStored ==
  ASSUME NEW c, StoredInv(c), UNCHANGED serverVars,
         Delivered(c) => cFin'[c] = cFin[c] /\ c2s'[c] = c2s[c],
         ~Without(s2c'[c], "OK") => Claimed(c),
         ~Without(file_ack'[c], "OK") => Claimed(c),
         ack'[c] = "ok" \/ send_result'[c] = "ok" => Claimed(c)
  PROVE  StoredInv(c)'
<1>1. Delivered(c) => Delivered(c)'
  BY DEF Delivered, serverVars
<1>2. Claimed(c)' => Claimed(c)
  BY DEF Claimed, serverVars, flowVars, waitVars
<1> QED
  BY <1>1, <1>2 DEF StoredInv

\* A sending thread returns true only after an OK.
LEMMA ClientThreadStored ==
  ASSUME NEW c, Clients = {c}, IInv, SessionInv(c), StoredInv(c), ClientThreadStep(c)
  PROVE  StoredInv(c)'
<1>t. /\ c \in Clients /\ UNCHANGED serverVars
      /\ file_ack \in [Clients -> Seq(Fragments)]
      /\ ack \in [Clients -> {"none", "ok", "fail"}]
      /\ send_result \in [Clients -> {"none", "ok", "failed", "raw"}]
  BY DEF IInv, TypeOK, ClientTypeOK, ClientThreadStep
<1>d. Delivered(c) => cpc[c] # "ready" /\ cFin[c] # "no"
  BY DeliveredFacts DEF Delivered
<1>k. ASSUME Delivered(c) => UNCHANGED <<cFin, c2s>>, UNCHANGED <<s2c, ackVars>>,
             send_result'[c] = "ok" => Claimed(c)
      PROVE  StoredInv(c)'
  BY <1>t, <1>k, SenderStored DEF Claimed, ackVars
<1>e. ASSUME cpc[c] = "ready", UNCHANGED s2c, send_result'[c] # "ok",
             file_ack' = [file_ack EXCEPT ![c] = <<>>], ack' = [ack EXCEPT ![c] = "none"]
      PROVE  StoredInv(c)'
  <2>1. Without(file_ack'[c], "OK") /\ ack'[c] = "none"
    BY <1>t, <1>e DEF Without
  <2> QED
    BY <1>t, <1>d, <1>e, <2>1, SenderStored DEF Claimed
<1>f. ASSUME NEW units, NEW fin, NEW label, FirstSend(c, units, fin, label),
             send_result[c] # "ok"
      PROVE  send_result'[c] # "ok"
  BY <1>t, <1>f DEF FirstSend, Finish
<1>g. ASSUME send_result[c] = "ok", cpc[c] = "ready" PROVE FALSE
  BY <1>d, <1>g DEF StoredInv, Claimed
<1>h. send_result[c] = "ok" => Claimed(c)
  BY DEF Claimed
<1> USE DEF Finish, Goto, ackVars
<1> USE DEF quicVars, c2sVars, s2cVars
<1>1. CASE Connect(c)
  BY <1>1, <1>h, <1>k DEF Connect
<1>2. CASE ConnectReturns(c)
  BY <1>2, <1>h, <1>k, <1>t DEF ConnectReturns
<1>3. CASE SendHeader(c)
  <2>1. PICK j \in {FileJob(c, name) : name \in RawNames} \cup TestJobs :
          FirstSend(c, encode_file_header(j.header), FALSE, "header_wait")
    BY <1>3 DEF SendHeader
  <2>2. cpc[c] = "ready"
    BY <1>3 DEF SendHeader
  <2>3. send_result'[c] # "ok"
    BY <1>f, <1>g, <2>1, <2>2
  <2> QED
    BY <1>3, <1>e, <2>2, <2>3 DEF SendHeader
<1>4. CASE SendWithoutConnection(c)
  BY <1>4, <1>h, <1>k, <1>t DEF SendWithoutConnection
<1>5. CASE HeaderSent(c)
  BY <1>5, <1>h, <1>k DEF HeaderSent
<1>6. CASE DecisionAccepted(c)
  BY <1>6, <1>h, <1>k DEF DecisionAccepted
<1>7. CASE DecisionRejected(c)
  BY <1>7, <1>h, <1>k, <1>t DEF DecisionRejected
<1>8. CASE WaitExpires(c)
  BY <1>8, <1>h, <1>k, <1>t DEF WaitExpires
<1>9. CASE SendChunk(c)
  <2>1. Delivered(c) => UNCHANGED <<cFin, c2s>>
    BY <1>9, <1>d DEF SendChunk, SendOutcomes, ClientCanSend
  <2>2. send_result'[c] = "ok" => send_result[c] = "ok"
    BY <1>9, <1>t DEF SendChunk
  <2>3. UNCHANGED <<s2c, ackVars>>
    BY <1>9 DEF SendChunk
  <2> QED
    BY <1>h, <1>k, <2>1, <2>2, <2>3
<1>10. CASE FileShrank(c)
  BY <1>10, <1>h, <1>k, <1>t DEF FileShrank
<1>11. CASE ChunkSent(c)
  BY <1>11, <1>h, <1>k DEF ChunkSent
<1>12. CASE SendReturns(c)
  <2>1. send_result'[c] = "ok" => ack[c] = "ok"
    BY <1>12, <1>t DEF SendReturns, AckedOk
  <2> QED
    BY <1>12, <1>k, <2>1 DEF SendReturns, Claimed
<1>13. CASE SendRaw(c)
  <2>1. PICK b \in Bytes : FirstSend(c, [i \in 1..JunkLength |-> b], TRUE, "raw_wait")
    BY <1>13 DEF SendRaw
  <2>2. cpc[c] = "ready"
    BY <1>13 DEF SendRaw
  <2>3. send_result'[c] # "ok"
    BY <1>f, <1>g, <2>1, <2>2
  <2> QED
    BY <1>13, <1>e, <2>2, <2>3 DEF SendRaw
<1>14. CASE RawReturns(c)
  BY <1>14, <1>h, <1>k, <1>t DEF RawReturns
<1>15. CASE Disconnect(c)
  BY <1>15, <1>h, <1>k DEF Disconnect
<1>16. CASE DisconnectReturns(c)
  BY <1>16, <1>h, <1>k DEF DisconnectReturns
<1> QED
  BY <1>1, <1>2, <1>3, <1>4, <1>5, <1>6, <1>7, <1>8, <1>9, <1>10, <1>11, <1>12, <1>13,
     <1>14, <1>15, <1>16 DEF ClientThreadStep, ClientThread

\* The claim travels with the text: from the wire to the ack, and to its verdict.
LEMMA ClientCallbackStored ==
  ASSUME NEW c, Clients = {c}, IInv, StoredInv(c), ClientCallbackStep(c)
  PROVE  StoredInv(c)'
<1>t. /\ c \in Clients /\ UNCHANGED serverVars
      /\ s2c \in [Clients -> Seq(Fragments)] /\ file_ack \in [Clients -> Seq(Fragments)]
      /\ ack \in [Clients -> {"none", "ok", "fail"}]
  BY DEF IInv, TypeOK, QuicTypeOK, ClientTypeOK, ClientCallbackStep
<1>k. ASSUME UNCHANGED <<cFin, c2s, s2c, ackVars, send_result>>
      PROVE  StoredInv(c)'
  BY <1>t, <1>k, SenderStored DEF Claimed, ackVars
<1> USE DEF ackVars, c2sVars, s2cVars
<1>1. CASE OnConnected(c)
  BY <1>1, <1>k DEF OnConnected
<1>2. CASE OnShutdownInitiated(c)
  BY <1>2, <1>k DEF OnShutdownInitiated
<1>3. CASE OnConnectionShutdownComplete(c)
  BY <1>3, <1>k DEF OnConnectionShutdownComplete
<1>4. CASE OnReceive(c)
  <2>1. PICK n \in 1..Len(s2c[c]) :
          /\ s2c' = [s2c EXCEPT ![c] = SubSeq(@, n + 1, Len(@))]
          /\ \/ UNCHANGED file_ack
             \/ file_ack' = [file_ack EXCEPT ![c] = @ \o SubSeq(s2c[c], 1, n)]
    BY <1>4 DEF OnReceive
  <2>2. /\ s2c'[c] = SubSeq(s2c[c], n + 1, Len(s2c[c]))
        /\ file_ack'[c] \in {file_ack[c], file_ack[c] \o SubSeq(s2c[c], 1, n)}
    BY <1>t, <2>1
  <2>3. s2c[c] \in Seq(Fragments) /\ file_ack[c] \in Seq(Fragments)
        /\ SubSeq(s2c[c], 1, n) \in Seq(Fragments)
    BY <1>t, SplitType
  <2>4. Without(s2c[c], "OK") =>
          Without(s2c'[c], "OK") /\ Without(SubSeq(s2c[c], 1, n), "OK")
    BY <2>2, <2>3, WithoutSplit
  <2>5. Without(s2c[c], "OK") /\ Without(file_ack[c], "OK") => Without(file_ack'[c], "OK")
    BY <2>2, <2>3, <2>4, WithoutConcat
  <2>6. UNCHANGED <<cFin, c2s, ack, send_result>>
    BY <1>4 DEF OnReceive
  <2> QED
    BY <1>t, <2>4, <2>5, <2>6, SenderStored DEF Claimed
<1>5. CASE OnPeerSendShutdown(c)
  <2>1. ack'[c] = "ok" => ack[c] = "ok" \/ StartsWith(file_ack[c], "OK")
    BY <1>5, <1>t DEF OnPeerSendShutdown
  <2>2. StartsWith(file_ack[c], "OK") => ~Without(file_ack[c], "OK")
    BY <1>t, StartsWithout
  <2>3. UNCHANGED <<cFin, c2s, s2c, file_ack, send_result>>
    BY <1>5 DEF OnPeerSendShutdown
  <2> QED
    BY <1>t, <2>1, <2>2, <2>3, SenderStored DEF Claimed
<1>6. CASE OnSendComplete(c)
  BY <1>6, <1>k DEF OnSendComplete
<1>7. CASE OnStreamShutdownComplete(c)
  BY <1>7, <1>k DEF OnStreamShutdownComplete, clientVars
<1> QED
  BY <1>1, <1>2, <1>3, <1>4, <1>5, <1>6, <1>7 DEF ClientCallbackStep, ClientCallback

-----------------------------------------------------------------------------
(* The question and its answer.                                            *)

\* The server thread asks about the header that was announced, and once.
LEMMA ServerThreadAsked ==
  ASSUME NEW c, FlowInv(c), AskedInv, ServerThreadStep
  PROVE  AskedInv'
<1>p. /\ rpc \in Engaged => file_header # NoHeader
      /\ rpc \in {"offer_wait", "prompt"} => Prompt
  BY DEF FlowInv, PhaseInv
<1>o. offer_ready => file_header # NoHeader
  BY DEF FlowInv, PhaseInv
<1> USE DEF AskedInv, Accepting, Engaged, Arming, Return
<1>1. CASE ArmReceiving
  BY <1>1 DEF ArmReceiving
<1>2. CASE ArmPath
  BY <1>2 DEF ArmPath
<1>3. CASE ArmOffer
  BY <1>3 DEF ArmOffer
<1>4. CASE ArmReset
  BY <1>4 DEF ArmReset
<1>5. CASE OfferArrived
  BY <1>5, <1>p DEF OfferArrived
<1>6. CASE OfferFailed
  BY <1>6 DEF OfferFailed
<1>7. CASE OfferTimeout
  BY <1>7 DEF OfferTimeout
<1>8. CASE PromptReject
  BY <1>8, <1>p DEF PromptReject
<1>9. CASE PromptAccept
  <2>1. rpc' \in {"accept_flag", "reject_locked"}
    BY <1>9 DEF PromptAccept
  <2> QED
    BY <1>9, <1>p, <2>1 DEF PromptAccept
<1>10. CASE SendAccept
  BY <1>10, <1>p DEF SendAccept
<1>11. CASE TransferFinished
  BY <1>11, <1>p DEF TransferFinished
<1>12. CASE TransferFailed
  BY <1>12, <1>p DEF TransferFailed
<1>13. CASE DrainAfterReject
  BY <1>13, <1>p DEF DrainAfterReject
<1>14. CASE DrainAfterTransfer
  BY <1>14, <1>p DEF DrainAfterTransfer
<1>15. CASE Stop
  BY <1>15 DEF Stop
<1>16. CASE StopReturns
  BY <1>16 DEF StopReturns
<1>17. CASE MarkAccepted
  BY <1>17, <1>p DEF MarkAccepted
<1> QED
  BY <1>1, <1>2, <1>3, <1>4, <1>5, <1>6, <1>7, <1>8, <1>9, <1>10, <1>11, <1>12, <1>13,
     <1>14, <1>15, <1>16, <1>17 DEF ServerThreadStep, ServerThread

\* What leaves the offer and the answer alone keeps them in step.
LEMMA AskedFrame ==
  ASSUME AskedInv, UNCHANGED <<flowVars, file_header>>
  PROVE  AskedInv'
BY DEF AskedInv, Accepting, flowVars, Engaged

\* A header that arrives is the first one, so nothing was shown before.
LEMMA ServerCallbackAsked ==
  ASSUME NEW c, FlowInv(c), AskedInv, ServerCallbackStep(c)
  PROVE  AskedInv'
<1>1. UNCHANGED flowVars /\ (UNCHANGED file_header \/ ~rx.header_parsed)
  BY DEF ServerCallbackStep, ServerCallback, on_new_connection, on_connected,
         on_connection_shutdown_complete, on_peer_stream_started, on_receive,
         append_file_bytes, BodyBytes, on_peer_send_shutdown, on_send_complete,
         on_peer_aborted, on_stream_shutdown_complete, EnterFileMutex, serverVars
<1>2. CASE UNCHANGED file_header
  BY <1>1, <1>2, AskedFrame
<1>3. CASE ~rx.header_parsed
  <2>1. file_header = NoHeader /\ rpc \notin Engaged
    BY <1>3 DEF FlowInv, HeaderInv, PhaseInv
  <2> QED
    BY <1>1, <2>1 DEF AskedInv, Accepting, flowVars, Engaged
<1> QED
  BY <1>1, <1>2, <1>3

-----------------------------------------------------------------------------
(* Putting the steps together.                                             *)

\* At the start nothing was stored, reported or asked.
LEMMA InitOutcome ==
  ASSUME NEW c, Clients = {c}, Init PROVE OutcomeInv(c)
<1> USE DEF Init, QuicInit, ServerInit, ClientInit
<1>t. c \in Clients
  OBVIOUS
<1>1. LengthInv
  BY FreshFields DEF LengthInv
<1>2. StoredInv(c)
  BY <1>t DEF StoredInv, Claimed, Without, NoResult
<1>3. AskedInv
  BY DEF AskedInv, Accepting, Engaged, Arming
<1> QED
  BY <1>1, <1>2, <1>3 DEF OutcomeInv

\* Every step keeps the outcomes in step with the disk.
LEMMA StepOutcome ==
  ASSUME NEW c, Clients = {c}, ~EarlySenders, IInv, SessionInv(c), OutcomeInv(c), [Next]_vars
  PROVE  OutcomeInv(c)'
<1> USE DEF OutcomeInv
<1>s. FlowInv(c)
  BY DEF SessionInv
<1>u. ASSUME UNCHANGED serverVars PROVE LengthInv' /\ AskedInv'
  BY <1>u, LengthFrame, AskedFrame DEF serverVars
<1>n. ASSUME UNCHANGED <<serverVars, c2s, cFin, s2c, ackVars, send_result>>
      PROVE  OutcomeInv(c)'
  BY <1>n, <1>u, SenderStored DEF Claimed, ackVars
<1> USE DEF quicVars, c2sVars, s2cVars, clientVars, ackVars
<1>1. CASE ServerThreadStep
  BY <1>1, <1>s, ServerThreadLength, ServerThreadStored, ServerThreadAsked
<1>2. CASE ServerCallbackStep(c)
  BY <1>2, <1>s, ServerCallbackLength, ServerCallbackStored, ServerCallbackAsked
<1>3. CASE ServerTransportStep(c)
  BY <1>3, <1>n DEF ServerTransportStep, ServerLearnsClose
<1>4. CASE ClientThreadStep(c)
  BY <1>4, <1>u, ClientThreadStored DEF ClientThreadStep
<1>5. CASE ClientCallbackStep(c)
  BY <1>5, <1>u, ClientCallbackStored DEF ClientCallbackStep
<1>6. CASE LinkDownStep(c)
  BY <1>6, <1>n DEF LinkDownStep, LinkDown
<1>7. CASE EditStep(c)
  BY <1>7, <1>n DEF EditStep, EditSource
<1>8. CASE UNCHANGED vars
  BY <1>8, <1>n DEF vars
<1> QED
  BY <1>1, <1>2, <1>3, <1>4, <1>5, <1>6, <1>7, <1>8 DEF Next, Finished

\* The invariant holds in every state of every run with one sender.
LEMMA OutcomeHolds ==
  ASSUME NEW CONSTANT c, Clients = {c}, ~EarlySenders
  PROVE  Spec => []OutcomeInv(c)
<1>1. IInv /\ SessionInv(c) /\ OutcomeInv(c) /\ [Next]_vars => OutcomeInv(c)'
  BY StepOutcome
<1>2. Init => OutcomeInv(c)
  BY InitOutcome
<1> QED
  BY <1>1, <1>2, IInvHolds, SessionHolds, PTL DEF Spec

-----------------------------------------------------------------------------
(* The theorems.                                                           *)

\* What was delivered is what the sender announced, where its header says.
LEMMA DeliveredHolds ==
  ASSUME NEW c, Clients = {c}, IInv, SessionInv(c), Delivered(c)
  PROVE  Holds(file_header) /\ Holds(job[c].header)
<1>1. /\ file_header # NoHeader /\ job[c] # NoJob
      /\ file_header = Announced(job[c].header) /\ rx.path = TargetOf(file_header)
  BY DEF SessionInv, FlowInv, HeaderInv, Delivered
<1>2. job[c].header \in FileTransferHeader
  BY <1>1 DEF IInv, TypeOK, ClientTypeOK, Jobs
<1>3. /\ TargetOf(file_header) = TargetOf(job[c].header)
      /\ file_header.sha256_hex = job[c].header.sha256_hex
  BY <1>1, <1>2, AnnouncedFacts
<1>4. sha256(disk[rx.path]) = file_header.sha256_hex
  BY DEF Delivered
<1> QED
  BY <1>1, <1>3, <1>4 DEF Holds

\* send_file returns true only when the receiver's disk holds exactly what its
\* header announced, and the file stays (quic_client.cpp, 539-556): whatever
\* was cut short, edited, cancelled or aborted on the way.
THEOREM OkMeansStored ==
  ASSUME NEW CONSTANT c, Clients = {c}, ~EarlySenders
  PROVE  Spec => []SenderOkMeansStored
<1>1. IInv /\ SessionInv(c) /\ OutcomeInv(c) => SenderOkMeansStored
  BY DeliveredHolds DEF OutcomeInv, StoredInv, Claimed, SenderOkMeansStored
<1> QED
  BY <1>1, IInvHolds, SessionHolds, OutcomeHolds, PTL

-----------------------------------------------------------------------------
(* And the sender knows: drain_connection.                                 *)

\* No link is lost, no drain is cut short and no sender gives up waiting: what
\* ReplyDelivered takes for granted.  Everything else may fail.
Undisturbed == {"link", "drain_timeout", "send_timeout"} \cap Faults = {}

\* Then a connection ends because its sender disconnects, or by stop(); and the
\* server knows the connection of every stream that is not over.
ConnectedInv(c) ==
  /\ lost = {}
  /\ rpc \notin {"stopping", "stopped"} =>
       /\ listening
       /\ \/ cConn[c] \in {"shutdown", "closed"}
          \/ sConn[c] \in {"shutdown", "closed"}
          => cpc[c] \in {"shutdown_wait", "done"}
  /\ sConn[c] = "connected" => client_connection = c
  /\ sStream[c] # "none" => client_connection = c \/ sConn[c] = "closed"

\* A sender whose header was sent waits for the decision, and one that sent the
\* whole file waits for the answer.
PatientInv(c) ==
  job[c] # NoJob =>
    /\ decision[c] = "none" => \/ cpc[c] \in {"header_wait", "decision_wait"}
                               \/ c2s[c] = <<>> /\ rx.buffer = <<>> /\ ~rx.header_parsed
    /\ cFin[c] # "no" => \/ cpc[c] = "chunk_wait" /\ sent[c] >= job[c].total
                         \/ cpc[c] = "ack_wait"
                         \/ ack[c] # "none"

\* What the sender has read towards the decision, and what is under way to it.
Heard(c) == decision_buf[c] \o s2c[c]

\* The receiver has not said anything yet.
Silent == ~rx.header_parsed \/ (Prompt /\ (answer = "none" \/ rpc \in Accepting))

\* The replies come one at a time: a decision while one is awaited, and nothing
\* between an ACCEPT that was read and the final answer.
TalkInv(c) ==
  job[c] # NoJob =>
    /\ awaiting_decision[c] <=> decision[c] = "none"
    /\ cpc[c] \in BodyStates => decision[c] = "accepted"
    /\ ack[c] # "none" => sFin[c] = "seen"
    /\ Silent => awaiting_decision[c] /\ Heard(c) = <<>> /\ sFin[c] = "no"
    /\ awaiting_decision[c] =>
         /\ cFin[c] = "no" /\ file_ack[c] = <<>> /\ ack[c] = "none"
         /\ \/ Heard(c) = <<>> /\ sFin[c] = "no"
            \/ Heard(c) = ReplyText("ACCEPT") /\ sFin[c] = "no" /\ answer # "reject"
            \/ Heard(c) = ReplyText("REJECT") /\ sFin[c] = "sent"
    /\ ~awaiting_decision[c] /\ sFin[c] = "no" =>
         s2c[c] = <<>> /\ file_ack[c] = <<>> /\ ack[c] = "none"
    /\ decision[c] = "accepted" => answer # "reject"

\* Which answers there can be at a point of receive_file.
AnswerPhase ==
  /\ answer # "none" => Prompt /\ offered # NoHeader
  /\ rpc = "reject_locked" => answer = "accept" /\ rx.out = "null"
  /\ answer = "reject" => rpc \in {"reject_drain", "returned", "stopping", "stopped"}

\* A success that the receiver knows of has been told to the sender, or is under
\* way to it and will be read as one.
Succeeded(c) ==
  \/ file_result.success \/ file_ok \/ blocked[c] = "notify_true"
  \/ rpc = "ok_drain" \/ recv_result = "true"

OkInv(c) ==
  Succeeded(c) => \/ ack[c] = "ok"
                  \/ /\ sFin[c] = "sent" /\ ack[c] = "none" /\ ~awaiting_decision[c]
                     /\ file_ack[c] \o s2c[c] = ReplyText("OK")

-----------------------------------------------------------------------------
(* Nobody leaves before it has been told.                                  *)

\* Connections end in the order of the protocol.
LEMMA StepConnected ==
  ASSUME NEW c, Clients = {c}, Undisturbed, IInv, FlowInv(c), ConnectedInv(c), [Next]_vars
  PROVE  ConnectedInv(c)'
<1>t. /\ c \in Clients
      /\ sConn \in [Clients -> ConnStates] /\ cConn \in [Clients -> ConnStates]
      /\ sStream \in [Clients -> StreamStates] /\ cpc \in [Clients -> CpcStates]
  BY DEF IInv, TypeOK, QuicTypeOK, ClientTypeOK
<1>n. ASSUME UNCHANGED <<lost, listening, cConn, sConn, cpc, sStream, client_connection>>,
             rpc' \notin {"stopping", "stopped"} => rpc \notin {"stopping", "stopped"}
      PROVE  ConnectedInv(c)'
  BY <1>n DEF ConnectedInv
<1> USE DEF quicVars, connVars, streamVars, serverVars, flowVars, callbackVars, clientVars
<1>1. CASE ServerThreadStep
  <2>1. CASE Stop
    BY <1>t, <1>1, <2>1 DEF Stop, ConnectedInv, ServerThreadStep
  <2>2. CASE ServerThread /\ ~Stop
    <3>1. /\ UNCHANGED <<lost, listening, cConn, sConn, sStream, client_connection>>
          /\ rpc' \notin {"stopping", "stopped"} => rpc \notin {"stopping", "stopped"}
      BY <2>2 DEF ServerThread, ArmReceiving, ArmPath, ArmOffer, ArmReset, OfferArrived,
           OfferFailed, OfferTimeout, PromptReject, PromptAccept, MarkAccepted, SendAccept,
           TransferFinished, TransferFailed, DrainAfterReject, DrainAfterTransfer,
           StopReturns, Return
    <3> QED
      BY <1>1, <1>n, <3>1 DEF ServerThreadStep
  <2> QED
    BY <1>1, <2>1, <2>2 DEF ServerThreadStep
<1>2. CASE ServerCallbackStep(c)
  <2>0. UNCHANGED <<cpc, connected>>
    BY <1>2 DEF ServerCallbackStep
  <2>1. CASE on_new_connection(c)
    BY <1>t, <2>0, <2>1 DEF on_new_connection, ConnectedInv
  <2>2. CASE on_connected(c)
    BY <1>t, <2>0, <2>2 DEF on_connected, ConnectedInv
  <2>3. CASE on_connection_shutdown_complete(c)
    BY <1>t, <2>0, <2>3 DEF on_connection_shutdown_complete, ConnectedInv
  <2>4. CASE on_peer_stream_started(c)
    BY <1>t, <2>0, <2>4 DEF on_peer_stream_started, ConnectedInv
  <2>5. CASE on_stream_shutdown_complete(c)
    BY <1>t, <2>0, <2>5 DEF on_stream_shutdown_complete, ServerStreamOver, ConnectedInv
  <2>6. CASE on_receive(c) \/ on_peer_send_shutdown(c) \/ on_send_complete(c)
             \/ on_peer_aborted(c) \/ EnterFileMutex(c)
    <3>1. UNCHANGED <<lost, listening, cConn, sConn, sStream, client_connection, rpc>>
      BY <2>6 DEF on_receive, on_peer_send_shutdown, on_send_complete, on_peer_aborted,
           EnterFileMutex
    <3> QED
      BY <1>n, <2>0, <3>1
  <2> QED
    BY <1>2, <2>1, <2>2, <2>3, <2>4, <2>5, <2>6 DEF ServerCallbackStep, ServerCallback
<1>3. CASE ServerTransportStep(c)
  BY <1>t, <1>3 DEF ServerTransportStep, ServerLearnsClose, ConnectedInv
<1>4. CASE ClientThreadStep(c)
  <2>0. UNCHANGED <<rpc, client_connection>>
    BY <1>4 DEF ClientThreadStep
  <2>1. CASE Connect(c)
    BY <1>t, <2>0, <2>1 DEF Connect, Goto, ConnectedInv
  <2>2. CASE Disconnect(c)
    BY <1>t, <2>0, <2>2 DEF Disconnect, Goto, ConnectedInv
  <2>3. CASE DisconnectReturns(c)
    BY <1>t, <2>0, <2>3 DEF DisconnectReturns, Goto, ConnectedInv
  <2>4. CASE ~(Connect(c) \/ Disconnect(c) \/ DisconnectReturns(c))
    <3>1. UNCHANGED <<lost, listening, cConn, sConn, sStream>>
          /\ cpc[c] \notin {"shutdown_wait", "done"}
      BY <1>4, <2>4 DEF ClientThreadStep, ClientThread, ConnectReturns, SendHeader,
           SendWithoutConnection, HeaderSent, DecisionAccepted, DecisionRejected, WaitExpires,
           SendChunk, FileShrank, ChunkSent, SendReturns, SendRaw, RawReturns
    <3> QED
      BY <2>0, <3>1 DEF ConnectedInv
  <2> QED
    BY <2>1, <2>2, <2>3, <2>4
<1>5. CASE ClientCallbackStep(c)
  <2>0. UNCHANGED <<rpc, client_connection>>
    BY <1>5 DEF ClientCallbackStep
  <2>1. CASE OnConnected(c)
    BY <1>t, <2>0, <2>1 DEF OnConnected, ConnectedInv
  <2>2. CASE OnShutdownInitiated(c)
    BY <1>t, <2>0, <2>2 DEF OnShutdownInitiated, ConnectedInv
  <2>3. CASE OnConnectionShutdownComplete(c)
    BY <1>t, <2>0, <2>3 DEF OnConnectionShutdownComplete, ConnectedInv
  <2>4. CASE OnReceive(c) \/ OnPeerSendShutdown(c) \/ OnSendComplete(c)
             \/ OnStreamShutdownComplete(c)
    <3>1. UNCHANGED <<lost, listening, cConn, sConn, sStream, cpc>>
      BY <2>4 DEF OnReceive, OnPeerSendShutdown, OnSendComplete, OnStreamShutdownComplete
    <3> QED
      BY <1>n, <2>0, <3>1
  <2> QED
    BY <1>5, <2>1, <2>2, <2>3, <2>4 DEF ClientCallbackStep, ClientCallback
<1>6. CASE LinkDownStep(c)
  BY <1>6 DEF LinkDownStep, LinkDown, Undisturbed
<1>7. CASE EditStep(c)
  BY <1>7, <1>n DEF EditStep, EditSource
<1>8. CASE UNCHANGED vars
  BY <1>8, <1>n DEF vars
<1> QED
  BY <1>1, <1>2, <1>3, <1>4, <1>5, <1>6, <1>7, <1>8 DEF Next, Finished

\* What the server has read of a header does not grow while nothing is sent.
LEMMA ServerReads ==
  ASSUME NEW c, Clients = {c}, IInv, FlowInv(c), job[c] # NoJob,
         ServerThreadStep \/ ServerCallbackStep(c),
         c2s[c] = <<>> /\ rx.buffer = <<>> /\ ~rx.header_parsed
  PROVE  c2s'[c] = <<>> /\ rx'.buffer = <<>> /\ ~rx'.header_parsed
<1>t. c \in Clients /\ rx \in RxState /\ c2s \in [Clients -> Seq(Units)]
  BY DEF IInv, TypeOK, QuicTypeOK, ServerTypeOK
<1>a. rpc \notin Arming
  BY DEF FlowInv, Unopened, OpensOnce
<1> USE DEF quicVars, c2sVars, serverVars
<1>1. CASE ServerThreadStep
  <2>1. c2s' = c2s
    BY <1>1 DEF ServerThreadStep, ServerThread, ArmReceiving, ArmPath, ArmOffer, ArmReset,
         OfferArrived, OfferFailed, OfferTimeout, PromptReject, PromptAccept, MarkAccepted,
         SendAccept,
         TransferFinished, TransferFailed, DrainAfterReject, DrainAfterTransfer, Stop,
         StopReturns
  <2>2. CASE PromptAccept
    BY <2>2 DEF PromptAccept, FlowInv, PhaseInv, HeaderInv, Engaged, Accepting
  <2>3. CASE TransferFailed
    BY <1>t, <2>1, <2>3 DEF TransferFailed, CloseFile, RxState
  <2>4. CASE MarkAccepted
    BY <1>t, <2>1, <2>4 DEF MarkAccepted, RxState
  <2>5. CASE ~(PromptAccept \/ TransferFailed \/ MarkAccepted)
    BY <1>1, <1>a, <2>1, <2>5 DEF ServerThreadStep, ServerThread, ArmReceiving, ArmPath,
       ArmOffer, ArmReset, Arming, OfferArrived, OfferFailed, OfferTimeout, PromptReject,
       SendAccept, TransferFinished, DrainAfterReject, DrainAfterTransfer, Stop, StopReturns
  <2> QED
    BY <2>2, <2>3, <2>4, <2>5
<1>2. CASE ServerCallbackStep(c)
  <2>1. CASE on_receive(c)
    BY <1>t, <2>1 DEF on_receive
  <2>2. CASE on_peer_send_shutdown(c)
    <3>1. \/ UNCHANGED rx
          \/ \E ok \in BOOLEAN : rx' = [CloseFile(rx) EXCEPT !.sending_final_ack = ok]
      BY <2>2 DEF on_peer_send_shutdown, finish_file_receive, SendOutcomes, Outcomes
    <3>2. CASE \E ok \in BOOLEAN : rx' = [CloseFile(rx) EXCEPT !.sending_final_ack = ok]
      BY <1>t, <2>2, <3>2 DEF on_peer_send_shutdown, CloseFile, RxState
    <3> QED
      BY <2>2, <3>1, <3>2 DEF on_peer_send_shutdown
  <2>3. CASE on_peer_aborted(c)
    BY <1>t, <2>3 DEF on_peer_aborted, CloseFile, RxState
  <2>4. CASE on_peer_stream_started(c)
    BY <1>t, <2>4, FreshFields DEF on_peer_stream_started
  <2>5. CASE EnterFileMutex(c)
    BY <2>5 DEF EnterFileMutex, FlowInv, PhaseInv
  <2>6. CASE on_new_connection(c) \/ on_connected(c) \/ on_connection_shutdown_complete(c)
             \/ on_send_complete(c) \/ on_stream_shutdown_complete(c)
    BY <2>6 DEF on_new_connection, on_connected, on_connection_shutdown_complete,
       on_send_complete, on_stream_shutdown_complete
  <2> QED
    BY <1>2, <2>1, <2>2, <2>3, <2>4, <2>5, <2>6 DEF ServerCallbackStep, ServerCallback
<1> QED
  BY <1>1, <1>2

\* A sender that asked stays until it has the decision, and until it has the
\* answer after its last byte.
LEMMA StepPatient ==
  ASSUME NEW c, Clients = {c}, Undisturbed, IInv, FlowInv(c), TalkInv(c), PatientInv(c),
         [Next]_vars
  PROVE  PatientInv(c)'
<1>t. /\ c \in Clients
      /\ cpc \in [Clients -> CpcStates] /\ job \in [Clients -> Jobs \cup {NoJob}]
      /\ decision \in [Clients -> {"none", "accepted", "rejected"}]
      /\ cFin \in [Clients -> Signals] /\ sent \in [Clients -> Nat]
      /\ ack \in [Clients -> {"none", "ok", "fail"}]
  BY DEF IInv, TypeOK, QuicTypeOK, ClientTypeOK
<1>r. cpc[c] \in {"start", "connecting", "ready"} =>
        job[c] = NoJob /\ c2s[c] = <<>> /\ cFin[c] = "no" /\ rx.buffer = <<>>
        /\ ~rx.header_parsed
  BY FreshFields DEF FlowInv, OpensOnce, Unopened, Unheard
<1>s. ASSUME UNCHANGED clientVars, cFin'[c] # "no" => cFin[c] # "no",
             job[c] # NoJob /\ c2s[c] = <<>> /\ rx.buffer = <<>> /\ ~rx.header_parsed
               => c2s'[c] = <<>> /\ rx'.buffer = <<>> /\ ~rx'.header_parsed
      PROVE  PatientInv(c)'
  BY <1>s DEF PatientInv, clientVars, decisionVars, ackVars, jobVars
<1> USE DEF quicVars, c2sVars, serverVars
<1>1. CASE ServerThreadStep
  <2>1. UNCHANGED <<clientVars, cFin>>
    BY <1>1 DEF ServerThreadStep, ServerThread, ArmReceiving, ArmPath, ArmOffer, ArmReset,
         OfferArrived, OfferFailed, OfferTimeout, PromptReject, PromptAccept, MarkAccepted,
         SendAccept,
         TransferFinished, TransferFailed, DrainAfterReject, DrainAfterTransfer, Stop,
         StopReturns
  <2> QED
    BY <1>1, <1>s, <2>1, ServerReads
<1>2. CASE ServerCallbackStep(c)
  <2>1. UNCHANGED clientVars /\ (cFin'[c] # "no" => cFin[c] # "no")
    BY <1>2, <1>t DEF ServerCallbackStep, ServerCallback, on_new_connection, on_connected,
         on_connection_shutdown_complete, on_peer_stream_started, on_receive,
         on_peer_send_shutdown, on_send_complete, on_peer_aborted,
         on_stream_shutdown_complete, EnterFileMutex
  <2> QED
    BY <1>2, <1>s, <2>1, ServerReads
<1>3. CASE ServerTransportStep(c)
  BY <1>3, <1>s DEF ServerTransportStep, ServerLearnsClose
<1>4. CASE ClientThreadStep(c)
  <2>0. UNCHANGED rx
    BY <1>4 DEF ClientThreadStep
  <2> USE DEF Goto, Finish, jobVars, decisionVars, ackVars
  <2>1. CASE SendHeader(c)
    <3>1. PICK j \in {FileJob(c, name) : name \in RawNames} \cup TestJobs :
            FirstSend(c, encode_file_header(j.header), FALSE, "header_wait")
      BY <2>1 DEF SendHeader
    <3>2. /\ cFin'[c] = "no"
          /\ cpc'[c] = "header_wait" \/ c2s'[c] = <<>>
      BY <1>r, <1>t, <2>1, <3>1 DEF SendHeader, FirstSend, ClientSends
    <3> QED
      BY <1>r, <2>0, <2>1, <3>2 DEF SendHeader, PatientInv
  <2>2. CASE SendChunk(c)
    <3>1. cpc[c] = "send_chunk" /\ UNCHANGED <<job, decision, ack>>
          /\ sent'[c] = sent[c] + Len(NextChunk(c))
      BY <1>t, <2>2 DEF SendChunk
    <3>2. CASE job[c] = NoJob
      BY <3>1, <3>2 DEF PatientInv
    <3>3. CASE job[c] # NoJob
      <4>1. decision[c] = "accepted"
        BY <3>1, <3>3 DEF TalkInv, BodyStates
      <4>2. \/ /\ cFin'[c] # "no" => cFin[c] # "no" \/ sent'[c] >= job[c].total
               /\ cpc'[c] = "chunk_wait"
            \/ UNCHANGED cFin /\ cpc'[c] = "disconnect"
        BY <1>t, <2>2, <3>1 DEF SendChunk, ClientSends
      <4> QED
        BY <3>1, <3>3, <4>1, <4>2 DEF PatientInv
    <3> QED
      BY <3>2, <3>3
  <2>3. CASE ChunkSent(c)
    <3>1. /\ UNCHANGED <<job, decision, ack, cFin, c2s, sent>> /\ cpc[c] = "chunk_wait"
          /\ cpc'[c] = IF sent[c] < job[c].total THEN "send_chunk" ELSE "ack_wait"
      BY <1>t, <2>3 DEF ChunkSent
    <3>2. CASE job[c] # NoJob
      <4>1. sent[c] \in Nat /\ job[c].total \in Nat
        BY <1>t, <3>2 DEF Jobs
      <4> QED
        BY <2>0, <3>1, <3>2, <4>1 DEF PatientInv
    <3> QED
      BY <3>1, <3>2 DEF PatientInv
  <2>4. CASE SendReturns(c)
    BY <1>t, <2>0, <2>4 DEF SendReturns, PatientInv, AckedOk, Undisturbed
  <2>5. CASE WaitExpires(c)
    BY <2>5 DEF WaitExpires, Undisturbed
  <2>6. CASE SendRaw(c)
    BY <1>r, <2>6 DEF SendRaw, PatientInv
  <2>7. CASE Connect(c) \/ ConnectReturns(c) \/ SendWithoutConnection(c)
    BY <1>r, <2>7 DEF Connect, ConnectReturns, SendWithoutConnection, PatientInv
  <2>8. CASE HeaderSent(c) \/ DecisionAccepted(c) \/ DecisionRejected(c) \/ FileShrank(c)
             \/ RawReturns(c) \/ Disconnect(c) \/ DisconnectReturns(c)
    <3>1. UNCHANGED <<job, decision, ack, cFin, c2s, sent>>
      BY <2>8 DEF HeaderSent, DecisionAccepted, DecisionRejected, FileShrank, RawReturns,
         Disconnect, DisconnectReturns
    <3>2. /\ cpc[c] \notin {"chunk_wait", "ack_wait"}
          /\ cpc[c] = "header_wait" => cpc'[c] = "decision_wait"
          /\ cpc[c] = "decision_wait" => decision[c] # "none"
      BY <1>t, <2>8 DEF HeaderSent, DecisionAccepted, DecisionRejected, FileShrank, RawReturns,
         Disconnect, DisconnectReturns
    <3> QED
      BY <2>0, <3>1, <3>2 DEF PatientInv
  <2> QED
    BY <1>4, <2>1, <2>2, <2>3, <2>4, <2>5, <2>6, <2>7, <2>8 DEF ClientThreadStep, ClientThread
<1>5. CASE ClientCallbackStep(c)
  <2>1. UNCHANGED <<rx, cpc, job, sent, c2s, cFin>>
    BY <1>5 DEF ClientCallbackStep, ClientCallback, OnConnected, OnShutdownInitiated,
         OnConnectionShutdownComplete, OnReceive, OnPeerSendShutdown, OnSendComplete,
         OnStreamShutdownComplete, clientVars, jobVars
  <2>2. /\ decision'[c] = "none" => decision[c] = "none"
        /\ ack'[c] = "none" => ack[c] = "none"
    BY <1>t, <1>5 DEF ClientCallbackStep, ClientCallback, OnConnected, OnShutdownInitiated,
         OnConnectionShutdownComplete, OnReceive, OnPeerSendShutdown, OnSendComplete,
         OnStreamShutdownComplete, Resolved, clientVars, decisionVars, ackVars
  <2> QED
    BY <2>1, <2>2 DEF PatientInv
<1>6. CASE LinkDownStep(c)
  BY <1>6 DEF LinkDownStep, LinkDown, Undisturbed
<1>7. CASE EditStep(c)
  BY <1>7 DEF EditStep, EditSource, PatientInv, decisionVars, ackVars
<1>8. CASE UNCHANGED vars
  BY <1>8, <1>s DEF vars
<1> QED
  BY <1>1, <1>2, <1>3, <1>4, <1>5, <1>6, <1>7, <1>8 DEF Next, Finished

-----------------------------------------------------------------------------
(* Reading a reply.                                                        *)

\* Three texts in a row can be put together in either order.
LEMMA TextAssociative ==
  ASSUME NEW s \in Seq(Fragments), NEW t \in Seq(Fragments), NEW u \in Seq(Fragments)
  PROVE  (s \o t) \o u = s \o (t \o u)
BY ConcatAssociative

\* Reading takes from the wire what it adds to the text.
LEMMA ReadKeeps ==
  ASSUME NEW buf \in Seq(Fragments), NEW wire \in Seq(Fragments), NEW n \in 1..Len(wire)
  PROVE  (buf \o SubSeq(wire, 1, n)) \o SubSeq(wire, n + 1, Len(wire)) = buf \o wire
<1>1. Len(wire) \in Nat /\ n \in Nat /\ n <= Len(wire)
  BY LenProperties
<1>2. SUFFICES ASSUME NEW front \in Seq(Fragments), front = SubSeq(wire, 1, n),
                      NEW back \in Seq(Fragments), back = SubSeq(wire, n + 1, Len(wire))
               PROVE  (buf \o front) \o back = buf \o wire
  BY SplitType
<1>3. front \o back = wire
  <2>1. SubSeq(wire, 1, n) \o SubSeq(wire, n + 1, Len(wire)) = SubSeq(wire, 1, Len(wire))
    BY <1>1, ConcatAdjacentSubSeq
  <2> QED
    BY <1>2, <2>1, SubSeqFull
<1>4. (buf \o front) \o back = buf \o (front \o back)
  BY TextAssociative, ZenonT(60)
<1> QED
  BY <1>3, <1>4

\* A part of a reply that has its newline is the whole reply.
LEMMA CompleteIsWhole ==
  ASSUME NEW text \in Seq(Fragments), NEW rest \in Seq(Fragments), NEW word \in Words,
         text \o rest = ReplyText(word), HasNewline(text)
  PROVE  text = ReplyText(word) /\ rest = <<>>
<1>1. /\ Len(text) \in Nat /\ Len(rest) \in Nat /\ Len(text) + Len(rest) = 2
      /\ \A i \in 1..Len(text) : (text \o rest)[i] = text[i]
  <2>1. Len(ReplyText(word)) = 2
    BY DEF ReplyText
  <2>2. /\ Len(text \o rest) = Len(text) + Len(rest)
        /\ \A i \in 1..Len(text) : (text \o rest)[i] = text[i]
    <3>1. Len(text) \in Nat /\ Len(rest) \in Nat
      BY LenProperties
    <3>2. \A i \in 1..(Len(text) + Len(rest)) :
            (text \o rest)[i] = IF i <= Len(text) THEN text[i] ELSE rest[i - Len(text)]
      BY ConcatProperties
    <3> QED
      BY <3>1, <3>2, ConcatProperties
  <2> QED
    BY <2>1, <2>2, LenProperties
<1>2. PICK i \in 1..Len(text) : text[i].part = 2
  BY DEF HasNewline
<1>3. ReplyText(word)[i].part = 2
  BY <1>1, <1>2
<1>4. ReplyText(word)[1].part = 1
  BY DEF ReplyText
<1>5. i # 1
  BY <1>3, <1>4
<1>6. Len(rest) = 0
  BY <1>1, <1>2, <1>5
<1>7. rest = <<>>
  BY <1>6, EmptySeq
<1> QED
  BY <1>7, ConcatEmptySeq

\* resolve_decision reads a decision as what it is.
LEMMA ResolvesReply ==
  /\ Resolved(ReplyText("ACCEPT")) = "accepted"
  /\ Resolved(ReplyText("REJECT")) = "rejected"
  /\ Resolved(<<>>) = "rejected"
<1>1. \A word \in Words : /\ Len(ReplyText(word)) = 2
                          /\ SubSeq(ReplyText(word), 1, 2) = ReplyText(word)
  <2> SUFFICES ASSUME NEW word \in Words
               PROVE  /\ Len(ReplyText(word)) = 2
                      /\ SubSeq(ReplyText(word), 1, 2) = ReplyText(word)
    OBVIOUS
  <2>1. Len(ReplyText(word)) = 2
    BY DEF ReplyText
  <2> QED
    BY <2>1, ReplyType, SubSeqFull
<1>2. ReplyText("ACCEPT") # ReplyText("REJECT")
  BY DEF ReplyText
<1>3. "ACCEPT" \in Words /\ "REJECT" \in Words
  BY DEF Words
<1>4. StartsWith(ReplyText("ACCEPT"), "ACCEPT") /\ ~StartsWith(ReplyText("REJECT"), "ACCEPT")
  BY <1>1, <1>2, <1>3 DEF StartsWith
<1>5. ~StartsWith(<<>>, "ACCEPT")
  BY DEF StartsWith
<1> QED
  BY <1>4, <1>5 DEF Resolved

-----------------------------------------------------------------------------
(* One reply at a time.                                                    *)

\* With a prompt a callback neither opens the output nor answers, except at the
\* sender's FIN.
LEMMA CallbackQuiet ==
  ASSUME NEW c, Clients = {c}, Prompt, IInv, FlowInv(c), ServerCallbackStep(c)
  PROVE  /\ rx'.out = "null" <=> rx.out = "null"
         /\ cFin[c] = "no" => cFin'[c] = "no" /\ UNCHANGED <<s2c, sFin>>
<1>t. rx \in RxState /\ c \in Clients /\ cFin \in [Clients -> Signals]
  BY DEF IInv, TypeOK, ServerTypeOK, QuicTypeOK
<1> USE DEF quicVars, c2sVars, s2cVars
<1>1. CASE on_new_connection(c)
  BY <1>1 DEF on_new_connection, serverVars
<1>2. CASE on_connected(c)
  BY <1>2 DEF on_connected
<1>3. CASE on_connection_shutdown_complete(c)
  BY <1>3 DEF on_connection_shutdown_complete
<1>4. CASE on_peer_stream_started(c)
  <2>1. rx' = rx
    BY <1>4, Zenon DEF on_peer_stream_started, FlowInv, Unheard
  <2> QED
    BY <1>4, <2>1 DEF on_peer_stream_started
<1>5. CASE on_receive(c)
  <2>1. PICK n \in 1..Len(c2s[c]) :
          IF receiving_file
          THEN append_file_bytes(c, SubSeq(c2s[c], 1, n))
          ELSE UNCHANGED <<waitVars, file_header, rx, file_result, disk, s2cVars, sSends>>
    BY <1>5 DEF on_receive
  <2>2. OfferRegistered
    BY <1>5 DEF on_receive, ServerHears, FlowInv, Unopened, OpensOnce, OfferRegistered, Arming
  <2> DEFINE data   == SubSeq(c2s[c], 1, n)
             buffer == rx.buffer \o data
  <2>3. CASE receiving_file
    <3>1. \/ BodyBytes(data)
          \/ HeaderIncomplete(c, buffer)
          \/ HeaderOffered(c, buffer)
      BY <2>1, <2>2, <2>3 DEF append_file_bytes, HeaderAutoAccepted
    <3> HIDE DEF data, buffer
    <3>2. rx'.out = rx.out /\ UNCHANGED s2cVars
      BY <1>t, <3>1, ZenonT(60)
         DEF BodyBytes, WrittenRx, HeaderIncomplete, HeaderOffered, ParsedRx, RxState
    <3> QED
      BY <1>5, <3>2 DEF on_receive
  <2>4. CASE ~receiving_file
    BY <1>5, <2>1, <2>4 DEF on_receive
  <2> QED
    BY <2>3, <2>4
<1>6. CASE on_peer_send_shutdown(c)
  <2>1. cFin[c] = "sent"
    BY <1>6 DEF on_peer_send_shutdown
  <2>2. \/ UNCHANGED rx
        \/ \E ok \in BOOLEAN : rx' = [CloseFile(rx) EXCEPT !.sending_final_ack = ok]
    BY <1>6 DEF on_peer_send_shutdown, finish_file_receive, SendOutcomes, Outcomes
  <2>3. rx'.out = "null" <=> rx.out = "null"
    <3>1. CASE UNCHANGED rx
      BY <3>1
    <3>2. CASE \E ok \in BOOLEAN : rx' = [CloseFile(rx) EXCEPT !.sending_final_ack = ok]
      BY <1>t, <3>2, CloseFacts DEF RxState
    <3> QED
      BY <2>2, <3>1, <3>2
  <2> QED
    BY <2>1, <2>3
<1>7. CASE on_send_complete(c)
  BY <1>7 DEF on_send_complete
<1>8. CASE on_peer_aborted(c)
  BY <1>8, <1>t, CloseFacts DEF on_peer_aborted
<1>9. CASE on_stream_shutdown_complete(c)
  BY <1>9 DEF on_stream_shutdown_complete, serverVars
<1>10. CASE EnterFileMutex(c)
  BY <1>10 DEF EnterFileMutex, FlowInv, PhaseInv
<1> QED
  BY <1>1, <1>2, <1>3, <1>4, <1>5, <1>6, <1>7, <1>8, <1>9, <1>10
     DEF ServerCallbackStep, ServerCallback

\* Only a server that prompts has an answer, and a file it could not create is not
\* open.
LEMMA StepAnswer ==
  ASSUME NEW c, Clients = {c}, IInv, FlowInv(c), AskedInv, AnswerPhase, [Next]_vars
  PROVE  AnswerPhase'
<1>t. rx \in RxState /\ c \in Clients
  BY DEF IInv, TypeOK, ServerTypeOK
<1>p. /\ rpc \in {"prompt", "reject_locked"} => Prompt
      /\ rpc = "prompt" => offered # NoHeader
      /\ offer_ready => file_header # NoHeader
  BY DEF FlowInv, PhaseInv, AskedInv, Accepting, Engaged
<1>u. ASSUME UNCHANGED <<rpc, answer, offered, rx>> PROVE AnswerPhase'
  BY <1>u DEF AnswerPhase
<1> USE DEF serverVars, flowVars
<1>1. CASE ServerThreadStep
  <2>1. CASE PromptReject
    BY <1>p, <2>1 DEF PromptReject, AnswerPhase
  <2>2. CASE PromptAccept
    BY <1>p, <1>t, <2>2 DEF PromptAccept, AnswerPhase, OpenedRx, RxState
  <2>3. CASE MarkAccepted
    BY <1>p, <1>t, <2>3 DEF MarkAccepted, AnswerPhase
  <2>4. CASE ~(PromptReject \/ PromptAccept \/ MarkAccepted)
    BY <1>1, <1>p, <2>4 DEF ServerThreadStep, ServerThread, ArmReceiving, ArmPath, ArmOffer,
       ArmReset, OfferArrived, OfferFailed, OfferTimeout, MarkAccepted, SendAccept,
       TransferFinished,
       TransferFailed, DrainAfterReject, DrainAfterTransfer, Stop, StopReturns, Return,
       AnswerPhase
  <2> QED
    BY <2>1, <2>2, <2>3, <2>4
<1>2. CASE ServerCallbackStep(c)
  <2>1. UNCHANGED <<rpc, answer, offered>>
    BY <1>2 DEF ServerCallbackStep, ServerCallback, on_new_connection, on_connected,
         on_connection_shutdown_complete, on_peer_stream_started, on_receive,
         on_peer_send_shutdown, on_send_complete, on_peer_aborted,
         on_stream_shutdown_complete, EnterFileMutex
  <2>2. Prompt => (rx'.out = "null" <=> rx.out = "null")
    BY <1>2, CallbackQuiet
  <2> QED
    BY <1>p, <2>1, <2>2 DEF AnswerPhase
<1>3. CASE UNCHANGED serverVars
  BY <1>3, <1>u
<1> QED
  BY <1>1, <1>2, <1>3 DEF Next, Finished, vars, ServerTransportStep, ClientThreadStep,
     ClientCallbackStep, LinkDownStep, EditStep

-----------------------------------------------------------------------------
(* The two results: what receive_file returns, what last_file_result says. *)

\* receive_file goes by a success.
Believed == file_ok \/ rpc = "ok_drain" \/ recv_result = "true"

\* Then the other result says so too, unless the sender's one abort came after it; and
\* no callback is on its way to set either.
AgreeInv(c) ==
  /\ reset[c] # "no" => cpc[c] \in Gone
  /\ Believed => blocked[c] = "no" /\ (file_result.success \/ reset[c] = "seen")

\* Such a success stands for a delivered file, and receive_file is past the places where
\* it holds the mutex.
LEMMA BelievedFacts ==
  ASSUME NEW c, SessionInv(c), OutcomeInv(c), AnswerPhase, Believed
  PROVE  Claimed(c) /\ Delivered(c) /\ ~MutexHeld
<1>1. Claimed(c) /\ Delivered(c)
  BY DEF Believed, Claimed, OutcomeInv, StoredInv
<1>2. rpc \notin Arming
  BY <1>1, DeliveredFacts
<1>3. rpc # "reject_locked"
  BY <1>1 DEF Delivered, AnswerPhase
<1> QED
  BY <1>1, <1>2, <1>3 DEF MutexHeld, Arming

\* What leaves both results alone, and does not take back an abort, keeps them in step.
LEMMA AgreeFrame ==
  ASSUME NEW c, AgreeInv(c), Believed' => Believed, blocked'[c] = blocked[c],
         Believed' => file_result'.success = file_result.success,
         reset[c] = "seen" => reset'[c] = "seen",
         reset'[c] # "no" => cpc'[c] \in Gone
  PROVE  AgreeInv(c)'
BY DEF AgreeInv

\* The thread in receive_file takes the one over from the other.
LEMMA ThreadResultsAgree ==
  ASSUME NEW c, Clients = {c}, IInv, SessionInv(c), OutcomeInv(c), AnswerPhase, AgreeInv(c),
         ServerThreadStep
  PROVE  AgreeInv(c)'
<1>t. /\ file_result \in Results /\ UNCHANGED cpc
      /\ Believed => rpc \notin Arming \cup {"prompt"}
  BY BelievedFacts, DeliveredFacts
     DEF IInv, TypeOK, ServerTypeOK, Results, ServerThreadStep, clientVars
<1>1. (file_ok' = FALSE \/ file_ok' = file_ok) /\ blocked' = blocked /\ reset' = reset
  BY DEF ServerThreadStep, ServerThread, ArmReceiving, ArmPath, ArmOffer, ArmReset,
     OfferArrived, OfferFailed, OfferTimeout, PromptReject, PromptAccept, MarkAccepted,
     SendAccept, TransferFinished, TransferFailed, DrainAfterReject, DrainAfterTransfer,
     Stop, StopReturns, waitVars, quicVars, c2sVars
<1>2. /\ rpc' = "ok_drain" => rpc = "ok_drain" \/ file_ok
      /\ recv_result' = "true" => recv_result = "true" \/ rpc = "ok_drain"
  BY DEF ServerThreadStep, ServerThread, ArmReceiving, ArmPath, ArmOffer, ArmReset,
     OfferArrived, OfferFailed, OfferTimeout, PromptReject, PromptAccept, MarkAccepted,
     SendAccept, TransferFinished, TransferFailed, DrainAfterReject, DrainAfterTransfer,
     Stop, StopReturns, Return, TransferOk
<1>3. Believed' => Believed
  BY <1>1, <1>2 DEF Believed
<1>4. Believed => UNCHANGED file_result
  BY <1>t DEF ServerThreadStep, ServerThread, ArmReceiving, ArmPath, ArmOffer, ArmReset,
     Arming, OfferArrived, OfferFailed, OfferTimeout, PromptReject, PromptAccept,
     MarkAccepted, SendAccept, TransferFinished, TransferFailed, DrainAfterReject,
     DrainAfterTransfer, Stop, StopReturns
<1> QED
  BY <1>t, <1>1, <1>3, <1>4, AgreeFrame DEF AgreeInv

\* notify_file_waiter sets both at once.
LEMMA NotifyResultsAgree ==
  ASSUME NEW c \in Clients, AgreeInv(c), NEW success \in BOOLEAN, NEW r \in Results,
         notify_file_waiter(c, success, r), Believed => ~MutexHeld, blocked[c] = "no",
         reset'[c] = "seen" \/ (success = file_result.success /\ reset' = reset),
         reset'[c] # "no" => cpc'[c] \in Gone,
         UNCHANGED <<rpc, recv_result>>
  PROVE  AgreeInv(c)'
<1>1. CASE MutexHeld
  BY <1>1 DEF notify_file_waiter, AgreeInv, Believed
<1>2. CASE ~MutexHeld
  <2>1. file_ok' = success /\ file_result'.success = success /\ blocked' = blocked
    BY <1>2 DEF notify_file_waiter, Results
  <2> QED
    BY <2>1 DEF AgreeInv, Believed
<1> QED
  BY <1>1, <1>2

\* So do all the callbacks.
LEMMA CallbackResultsAgree ==
  ASSUME NEW c, Clients = {c}, IInv, SessionInv(c), OutcomeInv(c), AnswerPhase, AgreeInv(c),
         ServerCallbackStep(c)
  PROVE  AgreeInv(c)'
<1>t. /\ file_result \in Results /\ c \in Clients /\ UNCHANGED clientVars
      /\ file_ok \in BOOLEAN /\ reset \in [Clients -> Signals]
      /\ blocked \in [Clients -> {"no", "offer", "notify_true", "notify_false"}]
      /\ \A r \in Results : r.success \in BOOLEAN
  BY DEF IInv, TypeOK, QuicTypeOK, ServerTypeOK, Results, ServerCallbackStep
<1>u. UNCHANGED <<rpc, recv_result, cpc, file_ack, ack, send_result>>
  BY <1>t DEF ServerCallbackStep, ServerCallback, on_new_connection, on_connected,
     on_connection_shutdown_complete, on_peer_stream_started, on_receive,
     on_peer_send_shutdown, on_send_complete, on_peer_aborted,
     on_stream_shutdown_complete, EnterFileMutex, serverVars, flowVars, clientVars, ackVars
<1>b. Believed => ~MutexHeld /\ Delivered(c)
  BY BelievedFacts
<1>g. reset[c] # "no" => cpc'[c] \in Gone
  BY <1>u DEF AgreeInv
<1>s. ASSUME UNCHANGED <<file_result, file_ok, blocked, reset>> PROVE AgreeInv(c)'
  BY <1>s, <1>u, <1>g, AgreeFrame DEF Believed
<1> USE DEF quicVars, serverVars, waitVars, c2sVars
<1>1. CASE on_receive(c)
  <2>1. ~Claimed(c)'
    BY <1>1, <1>u, OnReceiveClaims DEF OutcomeInv
  <2>2. ~Believed' /\ reset' = reset
    BY <1>1, <2>1 DEF Believed, Claimed, on_receive
  <2> QED
    BY <1>g, <2>2 DEF AgreeInv
<1>2. CASE on_peer_send_shutdown(c)
  <2>1. ~Believed /\ reset' = reset
    BY <1>2, <1>b DEF on_peer_send_shutdown, Delivered
  <2>2. UNCHANGED waitVars \/ \E r : notify_file_waiter(c, FALSE, r)
    BY <1>2, Zenon DEF on_peer_send_shutdown, finish_file_receive
  <2>3. ~Believed'
    BY <1>u, <2>1, <2>2 DEF notify_file_waiter, Believed
  <2> QED
    BY <1>g, <2>1, <2>3 DEF AgreeInv
<1>3. CASE on_send_complete(c)
  <2>1. reset' = reset /\ blocked[c] = "no"
    BY <1>3 DEF on_send_complete, WorkerFree
  <2>2. \/ notify_file_waiter(c, file_result.success, file_result)
        \/ UNCHANGED <<waitVars, file_result>>
    BY <1>3 DEF on_send_complete
  <2> QED
    BY <1>t, <1>u, <1>b, <1>g, <1>s, <2>1, <2>2, NotifyResultsAgree
<1>4. CASE on_peer_aborted(c)
  <2>1. /\ reset[c] = "sent" /\ reset'[c] = "seen" /\ blocked[c] = "no"
        /\ UNCHANGED <<rpc, recv_result>>
    BY <1>4, <1>t, <1>u DEF on_peer_aborted, WorkerFree
  <2>2. PICK r : r = [file_result EXCEPT !.error = TRUE]
    OBVIOUS
  <2>3. r \in Results
    BY <1>t, <2>2 DEF Results
  <2>4. notify_file_waiter(c, FALSE, r) \/ UNCHANGED <<waitVars, file_result>>
    BY <1>4, <2>2, Zenon DEF on_peer_aborted
  <2>5. CASE notify_file_waiter(c, FALSE, r)
    BY <1>t, <1>b, <1>g, <2>1, <2>3, <2>5, NotifyResultsAgree
  <2>6. CASE UNCHANGED <<waitVars, file_result>>
    BY <1>u, <1>g, <2>1, <2>6, AgreeFrame DEF Believed
  <2> QED
    BY <2>4, <2>5, <2>6
<1>5. CASE EnterFileMutex(c)
  <2>1. ~Believed /\ blocked[c] # "offer"
    BY <1>5 DEF EnterFileMutex, AgreeInv, SessionInv, FlowInv, PhaseInv
  <2>2. /\ blocked'[c] = "no" /\ reset' = reset
        /\ file_ok' = file_result'.success
    BY <1>5, <1>t, <2>1 DEF EnterFileMutex, Results
  <2> QED
    BY <1>u, <1>g, <2>1, <2>2 DEF AgreeInv, Believed
<1>6. CASE on_new_connection(c) \/ on_connected(c) \/ on_connection_shutdown_complete(c)
           \/ on_peer_stream_started(c) \/ on_stream_shutdown_complete(c)
  BY <1>6, <1>s DEF on_new_connection, on_connected, on_connection_shutdown_complete,
     on_peer_stream_started, on_stream_shutdown_complete
<1> QED
  BY <1>1, <1>2, <1>3, <1>4, <1>5, <1>6 DEF ServerCallbackStep, ServerCallback

\* A sender aborts at most once, on its way out.
LEMMA SenderResultsAgree ==
  ASSUME NEW c, Clients = {c}, IInv, AgreeInv(c), ClientThreadStep(c)
  PROVE  AgreeInv(c)'
<1>t. /\ cpc \in [Clients -> CpcStates] /\ reset \in [Clients -> Signals]
      /\ UNCHANGED <<rpc, recv_result, file_ok, file_result, blocked>>
  BY DEF IInv, TypeOK, QuicTypeOK, ClientTypeOK, ClientThreadStep, serverVars, flowVars,
         waitVars
<1>1. /\ reset[c] = "seen" => reset'[c] = "seen"
      /\ reset'[c] # "no" => cpc'[c] \in Gone
  BY <1>t DEF AgreeInv, Gone, ClientThreadStep, ClientThread, Connect, ConnectReturns,
     SendHeader, SendWithoutConnection, HeaderSent, DecisionAccepted, DecisionRejected,
     WaitExpires, SendChunk, FileShrank, ChunkSent, SendReturns, SendRaw, RawReturns,
     Disconnect, DisconnectReturns, FirstSend, abort_stream, Goto, Finish, quicVars,
     c2sVars
<1> QED
  BY <1>t, <1>1, AgreeFrame DEF Believed

\* Every step keeps the two results in step.
LEMMA StepResultsAgree ==
  ASSUME NEW c, Clients = {c}, IInv, SessionInv(c), OutcomeInv(c), AnswerPhase, AgreeInv(c),
         [Next]_vars
  PROVE  AgreeInv(c)'
<1>n. ASSUME UNCHANGED <<serverVars, cpc, reset>> PROVE AgreeInv(c)'
  BY <1>n DEF AgreeInv, Believed, serverVars, flowVars, waitVars
<1> USE DEF quicVars, c2sVars, clientVars
<1>1. CASE ServerThreadStep
  BY <1>1, ThreadResultsAgree
<1>2. CASE ServerCallbackStep(c)
  BY <1>2, CallbackResultsAgree
<1>3. CASE ServerTransportStep(c)
  BY <1>3, <1>n DEF ServerTransportStep, ServerLearnsClose
<1>4. CASE ClientThreadStep(c)
  BY <1>4, SenderResultsAgree
<1>5. CASE ClientCallbackStep(c)
  BY <1>5, <1>n DEF ClientCallbackStep, ClientCallback, OnConnected, OnShutdownInitiated,
     OnConnectionShutdownComplete, OnReceive, OnPeerSendShutdown, OnSendComplete,
     OnStreamShutdownComplete
<1>6. CASE LinkDownStep(c)
  BY <1>6, <1>n DEF LinkDownStep, LinkDown
<1>7. CASE EditStep(c)
  BY <1>7, <1>n DEF EditStep, EditSource
<1>8. CASE UNCHANGED vars
  BY <1>8, <1>n DEF vars
<1> QED
  BY <1>1, <1>2, <1>3, <1>4, <1>5, <1>6, <1>7, <1>8 DEF Next, Finished

\* receive_file returns true, and last_file_result() says success, only when the
\* disk holds the very file the user was asked about (quic_server.cpp, 659-677); and
\* after a true the second says success too, unless the sender's abort came late.
THEOREM ReceivedIsStored ==
  ASSUME NEW CONSTANT c, Clients = {c}, ~EarlySenders
  PROVE  Spec => []ReceivedMeansStored
<1>1. ASSUME IInv, SessionInv(c), OutcomeInv(c), AgreeInv(c) PROVE ReceivedMeansStored
  <2>1. recv_result = "true" \/ file_result.success => Holds(file_header)
    BY <1>1, DeliveredHolds DEF OutcomeInv, StoredInv, Claimed
  <2>2. recv_result = "true" /\ Prompt => answer = "accept" /\ offered = file_header
    BY <1>1 DEF OutcomeInv, AskedInv
  <2>3. recv_result = "true" /\ ~file_result.success => reset[c] = "seen"
    BY <1>1 DEF AgreeInv, Believed
  <2> QED
    BY <2>1, <2>2, <2>3 DEF ReceivedMeansStored
<1>2. Init => AnswerPhase /\ AgreeInv(c)
  BY DEF Init, QuicInit, ServerInit, ClientInit, AnswerPhase, AgreeInv, Believed
<1>3. IInv /\ SessionInv(c) /\ OutcomeInv(c) /\ AnswerPhase /\ AgreeInv(c) /\ [Next]_vars
      => AnswerPhase' /\ AgreeInv(c)'
  <2> SUFFICES ASSUME IInv, SessionInv(c), OutcomeInv(c), AnswerPhase, AgreeInv(c),
                      [Next]_vars
               PROVE  AnswerPhase' /\ AgreeInv(c)'
    OBVIOUS
  <2>1. FlowInv(c) /\ AskedInv
    BY DEF SessionInv, OutcomeInv
  <2> QED
    BY <2>1, StepAnswer, StepResultsAgree
<1> QED
  BY <1>1, <1>2, <1>3, IInvHolds, SessionHolds, OutcomeHolds, PTL DEF Spec

-----------------------------------------------------------------------------
(* What is said, and what is read.                                         *)

\* Talk goes on as it was if nothing is said and nothing is read.
LEMMA TalkFrame ==
  ASSUME NEW c, TalkInv(c), UNCHANGED <<job, decisionVars, ackVars>>,
         s2c'[c] = s2c[c], sFin'[c] = sFin[c],
         job[c] # NoJob => /\ cpc'[c] \in BodyStates =>
                                cpc[c] \in BodyStates \/ decision[c] = "accepted"
                           /\ awaiting_decision[c] => cFin'[c] = cFin[c]
                           /\ Silent' => Silent
                           /\ answer' = "reject" => answer = "reject"
  PROVE  TalkInv(c)'
BY DEF TalkInv, Heard, decisionVars, ackVars

\* A reply on a wire that carried nothing is all there is to read.
LEMMA FirstReply ==
  ASSUME QuicTypeOK, NEW c \in Clients, NEW d, NEW word \in Words, NEW fin \in BOOLEAN,
         NEW buf \in Seq(Fragments), buf \o s2c[c] = <<>>,
         ServerSends(d, word, fin) \/ UNCHANGED <<s2cVars, sSends>>
  PROVE  \/ buf \o s2c'[c] = <<>> /\ sFin'[c] = sFin[c]
         \/ /\ buf \o s2c'[c] = ReplyText(word)
            /\ sFin'[c] = IF fin THEN "sent" ELSE sFin[c]
<1>t. s2c[c] \in Seq(Fragments) /\ ReplyText(word) \in Seq(Fragments)
  BY ReplyType DEF QuicTypeOK
<1>1. buf = <<>> /\ s2c[c] = <<>>
  <2>1. Len(buf) + Len(s2c[c]) = 0
    BY <1>t, ConcatProperties
  <2>2. Len(buf) = 0 /\ Len(s2c[c]) = 0
    BY <1>t, <2>1, LenProperties
  <2> QED
    BY <1>t, <2>2, EmptySeq
<1>2. \/ s2c'[c] = s2c[c] /\ sFin'[c] = sFin[c]
      \/ /\ s2c'[c] = s2c[c] \o ReplyText(word)
         /\ sFin'[c] = IF fin THEN "sent" ELSE sFin[c]
  BY DEF ServerSends, s2cVars, QuicTypeOK
<1>3. s2c[c] \o ReplyText(word) = ReplyText(word)
  BY <1>t, <1>1, ConcatEmptySeq
<1>4. <<>> \o <<>> = <<>> /\ <<>> \o ReplyText(word) = ReplyText(word)
  BY <1>t, ConcatEmptySeq, EmptySeq
<1> QED
  BY <1>1, <1>2, <1>3, <1>4

\* The decision is the first thing the receiver says.
LEMMA FirstTalk ==
  ASSUME NEW c, Clients = {c}, IInv, TalkInv(c), Silent, ~Silent' \/ job[c] = NoJob,
         UNCHANGED <<clientVars, cFin>>,
         \/ SendReject
         \/ /\ \E d : ServerSends(d, "ACCEPT", FALSE) \/ UNCHANGED <<s2cVars, sSends>>
            /\ answer' # "reject"
  PROVE  TalkInv(c)'
<1>t. QuicTypeOK /\ c \in Clients /\ decision_buf[c] \in Seq(Fragments)
  BY DEF IInv, TypeOK, ClientTypeOK
<1>w. "ACCEPT" \in Words /\ "REJECT" \in Words
  BY DEF Words
<1>u. UNCHANGED <<job, awaiting_decision, decision, decision_buf, file_ack, ack, cpc, cFin>>
  BY DEF clientVars, decisionVars, ackVars, jobVars
<1>1. CASE job[c] = NoJob
  BY <1>1, <1>u DEF TalkInv
<1>2. CASE job[c] # NoJob
  <2>1. awaiting_decision[c] /\ Heard(c) = <<>> /\ sFin[c] = "no"
    BY <1>2 DEF TalkInv
  <2>2. CASE SendReject
    <3>1. ServerSends(file_stream, "REJECT", TRUE) \/ UNCHANGED <<s2cVars, sSends>>
      BY <2>2 DEF SendReject
    <3>2. \/ decision_buf[c] \o s2c'[c] = <<>> /\ sFin'[c] = "no"
          \/ decision_buf[c] \o s2c'[c] = ReplyText("REJECT") /\ sFin'[c] = "sent"
      BY <1>t, <1>w, <2>1, <3>1, FirstReply DEF Heard
    <3> QED
      BY <1>2, <1>u, <2>1, <3>2 DEF TalkInv, Heard
  <2>3. ASSUME NEW d, ServerSends(d, "ACCEPT", FALSE) \/ UNCHANGED <<s2cVars, sSends>>,
               answer' # "reject"
        PROVE  TalkInv(c)'
    <3>2. \/ decision_buf[c] \o s2c'[c] = <<>> /\ sFin'[c] = "no"
          \/ decision_buf[c] \o s2c'[c] = ReplyText("ACCEPT") /\ sFin'[c] = "no"
      BY <1>t, <1>w, <2>1, <2>3, FirstReply DEF Heard
    <3> QED
      BY <1>2, <1>u, <2>1, <2>3, <3>2 DEF TalkInv, Heard
  <2> QED
    BY <2>2, <2>3
<1> QED
  BY <1>1, <1>2

\* The thread in receive_file says what was decided, once.
LEMMA ServerThreadTalks ==
  ASSUME NEW c, Clients = {c}, IInv, FlowInv(c), AskedInv, TalkInv(c), ServerThreadStep
  PROVE  TalkInv(c)'
<1>t. rx \in RxState /\ UNCHANGED clientVars
  BY DEF IInv, TypeOK, ServerTypeOK, ServerThreadStep
<1>a. rpc \in Arming => job[c] = NoJob
  BY DEF FlowInv, OpensOnce, Unopened
<1>k. ASSUME UNCHANGED <<c2sVars, s2cVars>>,
             rpc \notin Arming =>
               /\ rx'.header_parsed = rx.header_parsed
               /\ answer' = "reject" => answer = "reject"
               /\ Prompt /\ (answer' = "none" \/ rpc' \in Accepting) =>
                    answer = "none" \/ rpc \in Accepting
      PROVE  TalkInv(c)'
  <2>1. CASE rpc \in Arming
    BY <1>a, <1>t, <2>1 DEF TalkInv, clientVars, jobVars
  <2>2. CASE rpc \notin Arming
    <3>1. Silent' => Silent
      BY <1>k, <2>2 DEF Silent, Accepting
    <3> QED
      BY <1>k, <1>t, <2>2, <3>1, TalkFrame DEF clientVars, jobVars, c2sVars, s2cVars
  <2> QED
    BY <2>1, <2>2
<1>f. ASSUME rpc \in Accepting \cup {"prompt"}
      PROVE  rx.header_parsed /\ Silent /\ Prompt
  BY <1>f DEF FlowInv, PhaseInv, HeaderInv, Engaged, Accepting, AskedInv, Silent
<1> USE DEF quicVars, c2sVars, s2cVars, Return
<1>1. CASE PromptReject
  <2>1. ~Silent'
    BY <1>1, <1>f DEF PromptReject, Silent, Accepting
  <2> QED
    BY <1>1, <1>f, <1>t, <2>1, FirstTalk DEF PromptReject
<1>2. CASE PromptAccept
  <2>1. PICK opened \in OpenOutcomes(rx.path) :
          /\ rpc' = IF opened THEN "accept_flag" ELSE "reject_locked"
          /\ rx' = OpenedRx(rx, opened)
          /\ IF opened THEN UNCHANGED <<s2cVars, sSends>> ELSE SendReject
    BY <1>2 DEF PromptAccept
  <2>2. rx'.header_parsed = rx.header_parsed
    BY <1>t, <2>1 DEF OpenedRx, RxState
  <2>3. rpc = "prompt" /\ answer' = "accept" /\ UNCHANGED c2sVars
    BY <1>2 DEF PromptAccept
  <2>4. CASE opened
    <3>1. answer = "none"
      BY <2>3 DEF AskedInv, Accepting
    <3> QED
      BY <1>k, <2>1, <2>2, <2>3, <2>4, <3>1
  <2>5. CASE ~opened
    <3>1. ~Silent'
      BY <1>f, <2>1, <2>2, <2>3, <2>5 DEF Silent, Accepting
    <3> QED
      BY <1>f, <1>t, <2>1, <2>3, <2>5, <3>1, FirstTalk
  <2> QED
    BY <2>4, <2>5
<1>3. CASE SendAccept
  <2>1. answer = "accept" /\ UNCHANGED <<answer, rx, cFin>> /\ rpc' = "final_wait"
        /\ rpc = "accept_send"
    BY <1>3 DEF SendAccept, AskedInv, Accepting
  <2>2. ~Silent'
    BY <1>f, <2>1 DEF Silent, Accepting
  <2>3. ServerSends(file_stream, "ACCEPT", FALSE) \/ UNCHANGED <<s2cVars, sSends>>
    BY <1>3 DEF SendAccept
  <2> QED
    BY <1>f, <1>t, <2>1, <2>2, <2>3, FirstTalk DEF Accepting
<1>4. CASE ArmReceiving \/ ArmPath \/ ArmOffer \/ ArmReset
  BY <1>4, <1>k DEF ArmReceiving, ArmPath, ArmOffer, ArmReset, Arming
<1>5. CASE TransferFailed
  BY <1>5, <1>k, <1>t, CloseFacts DEF TransferFailed, Accepting
<1>6. CASE OfferArrived \/ OfferFailed \/ OfferTimeout \/ TransferFinished
           \/ DrainAfterReject \/ DrainAfterTransfer \/ Stop \/ StopReturns
  BY <1>6, <1>k DEF OfferArrived, OfferFailed, OfferTimeout, TransferFinished,
     DrainAfterReject, DrainAfterTransfer, Stop, StopReturns, Accepting
<1>7. CASE MarkAccepted
  <2>1. rx'.header_parsed = rx.header_parsed
    BY <1>7, <1>t DEF MarkAccepted, RxState
  <2> QED
    BY <1>7, <1>k, <2>1 DEF MarkAccepted, Accepting
<1> QED
  BY <1>1, <1>2, <1>3, <1>4, <1>5, <1>6, <1>7 DEF ServerThreadStep, ServerThread

\* A receive event says something only where a header is accepted without a prompt.
LEMMA OnReceiveTalks ==
  ASSUME NEW c, Clients = {c}, IInv, FlowInv(c), AnswerPhase, TalkInv(c), on_receive(c),
         UNCHANGED clientVars
  PROVE  TalkInv(c)'
<1>t. rx \in RxState /\ c2s[c] \in Seq(Units) /\ rx.buffer \in Seq(Units)
  BY DEF IInv, TypeOK, ServerTypeOK, QuicTypeOK, RxState
<1>u. UNCHANGED <<job, decisionVars, ackVars, cpc, cFin, answer, rpc>>
  BY DEF clientVars, jobVars, on_receive, flowVars
<1>1. PICK n \in 1..Len(c2s[c]) :
        IF receiving_file
        THEN append_file_bytes(c, SubSeq(c2s[c], 1, n))
        ELSE UNCHANGED <<waitVars, file_header, rx, file_result, disk, s2cVars, sSends>>
  BY DEF on_receive
<1> DEFINE data   == SubSeq(c2s[c], 1, n)
           buffer == rx.buffer \o data
<1>2. buffer \in Seq(Units) /\ data \in Seq(Units)
  BY <1>t, SplitType, ConcatProperties
<1>k. ASSUME UNCHANGED s2cVars, rx.header_parsed => rx'.header_parsed
      PROVE  TalkInv(c)'
  BY <1>k, <1>u, TalkFrame DEF Silent, Accepting, s2cVars
<1>3. CASE ~receiving_file
  BY <1>1, <1>3, <1>k
<1>4. CASE receiving_file /\ rx.header_parsed
  <2>1. BodyBytes(data)
    BY <1>1, <1>4 DEF append_file_bytes
  <2> HIDE DEF data
  <2>2. UNCHANGED s2cVars /\ rx'.header_parsed = rx.header_parsed
    BY <1>t, <2>1 DEF BodyBytes, WrittenRx, RxState
  <2> QED
    BY <1>k, <2>2
<1>5. CASE receiving_file /\ ~rx.header_parsed
  <2>1. \/ HeaderIncomplete(c, buffer)
        \/ HeaderOffered(c, buffer)
        \/ HeaderAutoAccepted(c, buffer)
    BY <1>1, <1>5 DEF append_file_bytes
  <2> HIDE DEF buffer, data
  <2>2. CASE HeaderIncomplete(c, buffer) \/ HeaderOffered(c, buffer)
    BY <1>5, <1>k, <2>2 DEF HeaderIncomplete, HeaderOffered
  <2>3. CASE HeaderAutoAccepted(c, buffer)
    <3>1. rx'.header_parsed
      BY <1>2, <1>t, <1>5, <2>3, AutoAcceptedFacts DEF FlowInv, PhaseInv
    <3>2. ServerSends(file_stream, "ACCEPT", FALSE) \/ UNCHANGED <<s2cVars, sSends>>
      BY <2>3 DEF HeaderAutoAccepted
    <3>3. CASE job[c] = NoJob
      BY <1>u, <3>3 DEF TalkInv
    <3>4. CASE job[c] # NoJob
      <4>1. ~Prompt
        <5>1. rpc \notin Arming
          BY <3>4 DEF FlowInv, OpensOnce, Unopened
        <5> QED
          BY <2>3, <5>1 DEF HeaderAutoAccepted, OfferRegistered, Arming
      <4>2. Silent /\ ~Silent' /\ answer' # "reject"
        BY <1>5, <1>u, <3>1, <4>1 DEF Silent, Accepting, AnswerPhase
      <4> QED
        BY <1>u, <3>2, <4>2, FirstTalk
    <3> QED
      BY <3>3, <3>4
  <2> QED
    BY <2>1, <2>2, <2>3
<1> QED
  BY <1>3, <1>4, <1>5

\* The callbacks answer otherwise only at the sender's FIN, when it has read the
\* decision.
LEMMA ServerCallbackTalks ==
  ASSUME NEW c, Clients = {c}, IInv, FlowInv(c), AnswerPhase, TalkInv(c),
         ServerCallbackStep(c)
  PROVE  TalkInv(c)'
<1>t. /\ c \in Clients /\ rx \in RxState /\ UNCHANGED clientVars
      /\ sFin \in [Clients -> Signals] /\ cFin \in [Clients -> Signals]
  BY DEF IInv, TypeOK, ServerTypeOK, QuicTypeOK, ServerCallbackStep
<1>u. UNCHANGED <<job, decisionVars, ackVars, cpc, rpc, answer>>
  BY <1>t DEF clientVars, jobVars, ServerCallbackStep, ServerCallback, on_new_connection,
     on_connected, on_connection_shutdown_complete, on_peer_stream_started, on_receive,
     on_peer_send_shutdown, on_send_complete, on_peer_aborted, on_stream_shutdown_complete,
     EnterFileMutex, serverVars, flowVars
<1>k. ASSUME UNCHANGED <<s2cVars, cFin>>, rx'.header_parsed = rx.header_parsed
      PROVE  TalkInv(c)'
  BY <1>k, <1>u, TalkFrame DEF Silent, Accepting, s2cVars
<1> USE DEF quicVars, c2sVars, serverVars
<1>1. CASE on_receive(c)
  BY <1>1, <1>t, OnReceiveTalks
<1>2. CASE on_peer_send_shutdown(c)
  <2>1. cFin[c] = "sent"
    BY <1>2 DEF on_peer_send_shutdown
  <2>2. CASE job[c] = NoJob
    BY <1>u, <2>2 DEF TalkInv
  <2>3. CASE job[c] # NoJob
    <3>1. ~awaiting_decision[c] /\ decision[c] # "none" /\ ~Silent
      BY <2>1, <2>3 DEF TalkInv
    <3>2. rx'.header_parsed = rx.header_parsed
      <4>1. \/ UNCHANGED rx
            \/ \E ok \in BOOLEAN : rx' = [CloseFile(rx) EXCEPT !.sending_final_ack = ok]
        BY <1>2 DEF on_peer_send_shutdown, finish_file_receive, SendOutcomes, Outcomes
      <4> QED
        BY <1>t, <4>1 DEF CloseFile, RxState
    <3>3. ~Silent'
      BY <1>u, <3>1, <3>2 DEF Silent, Accepting
    <3>4. \/ UNCHANGED s2cVars
          \/ sFin[c] = "no" /\ sFin'[c] = "sent"
      BY <1>2, <1>t DEF on_peer_send_shutdown, finish_file_receive, SendOutcomes, Outcomes,
         ServerCanSend, ServerSends
    <3> QED
      BY <1>u, <2>3, <3>1, <3>3, <3>4 DEF TalkInv, decisionVars, ackVars, s2cVars
  <2> QED
    BY <2>2, <2>3
<1>3. CASE on_peer_aborted(c)
  <2>1. rx' = rx \/ rx' = CloseFile(rx)
    BY <1>3 DEF on_peer_aborted
  <2>2. rx'.header_parsed = rx.header_parsed
    BY <1>t, <2>1, CloseFacts
  <2> QED
    BY <1>3, <1>k, <2>2 DEF on_peer_aborted
<1>4. CASE on_peer_stream_started(c)
  <2>1. rx' = rx
    BY <1>4, Zenon DEF on_peer_stream_started, FlowInv, Unheard
  <2> QED
    BY <1>4, <1>k, <2>1 DEF on_peer_stream_started
<1>5. CASE EnterFileMutex(c)
  BY <1>5, <1>k DEF EnterFileMutex, FlowInv, PhaseInv
<1>6. CASE on_new_connection(c) \/ on_connected(c) \/ on_connection_shutdown_complete(c)
           \/ on_send_complete(c) \/ on_stream_shutdown_complete(c)
  BY <1>6, <1>k DEF on_new_connection, on_connected, on_connection_shutdown_complete,
     on_send_complete, on_stream_shutdown_complete
<1> QED
  BY <1>1, <1>2, <1>3, <1>4, <1>5, <1>6 DEF ServerCallbackStep, ServerCallback

\* The sending thread says nothing new before it has read the decision.
LEMMA ClientThreadTalks ==
  ASSUME NEW c, Clients = {c}, IInv, FlowInv(c), TalkInv(c), ClientThreadStep(c)
  PROVE  TalkInv(c)'
<1>t. /\ c \in Clients /\ UNCHANGED <<serverVars, s2cVars>>
      /\ cpc \in [Clients -> CpcStates] /\ job \in [Clients -> Jobs \cup {NoJob}]
      /\ decision \in [Clients -> {"none", "accepted", "rejected"}]
      /\ decision_buf \in [Clients -> Seq(Fragments)]
      /\ file_ack \in [Clients -> Seq(Fragments)] /\ ack \in [Clients -> {"none", "ok", "fail"}]
      /\ awaiting_decision \in [Clients -> BOOLEAN] /\ cFin \in [Clients -> Signals]
  BY DEF IInv, TypeOK, ClientTypeOK, QuicTypeOK, ClientThreadStep, ClientThread, Connect,
     ConnectReturns, SendHeader, SendWithoutConnection, HeaderSent, DecisionAccepted,
     DecisionRejected, WaitExpires, SendChunk, FileShrank, ChunkSent, SendReturns, SendRaw,
     RawReturns, Disconnect, DisconnectReturns, quicVars
<1>u. UNCHANGED <<rx, rpc, answer>> /\ (Silent' <=> Silent)
  BY <1>t DEF serverVars, flowVars, Silent, Accepting
<1>r. cpc[c] = "ready" => /\ job[c] = NoJob /\ cFin[c] = "no"
                          /\ s2c[c] = <<>> /\ sFin[c] = "no"
  BY DEF FlowInv, OpensOnce, Unopened, Unheard
<1> USE DEF Goto, Finish, jobVars
<1>1. CASE SendHeader(c)
  <2>1. PICK j \in {FileJob(c, name) : name \in RawNames} \cup TestJobs :
          FirstSend(c, encode_file_header(j.header), FALSE, "header_wait")
    BY <1>1 DEF SendHeader
  <2>2. cFin'[c] = "no" /\ cpc'[c] \in {"header_wait", "disconnect"}
    BY <1>1, <1>r, <1>t, <2>1 DEF SendHeader, FirstSend, ClientSends
  <2>3. /\ awaiting_decision'[c] /\ decision'[c] = "none" /\ decision_buf'[c] = <<>>
        /\ file_ack'[c] = <<>> /\ ack'[c] = "none" /\ s2c'[c] = <<>> /\ sFin'[c] = "no"
    BY <1>1, <1>r, <1>t DEF SendHeader, s2cVars
  <2>4. decision_buf'[c] \o s2c'[c] = <<>>
    BY <2>3, EmptySeq, ConcatEmptySeq
  <2> QED
    BY <2>2, <2>3, <2>4 DEF TalkInv, Heard, BodyStates
<1>2. CASE SendRaw(c)
  BY <1>2, <1>r DEF SendRaw, TalkInv
<1>3. CASE SendChunk(c)
  <2>1. cpc[c] = "send_chunk" /\ UNCHANGED <<job, decisionVars, ackVars>>
    BY <1>3 DEF SendChunk
  <2>2. job[c] # NoJob => ~awaiting_decision[c]
    BY <2>1 DEF TalkInv, BodyStates
  <2> QED
    BY <1>t, <1>u, <2>1, <2>2, TalkFrame DEF s2cVars, BodyStates
<1>4. CASE ~(SendHeader(c) \/ SendRaw(c) \/ SendChunk(c))
  <2>1. UNCHANGED <<job, decisionVars, ackVars, cFin>>
    BY <1>4 DEF ClientThreadStep, ClientThread, Connect, ConnectReturns, SendWithoutConnection,
       HeaderSent, DecisionAccepted, DecisionRejected, WaitExpires, FileShrank, ChunkSent,
       SendReturns, RawReturns, Disconnect, DisconnectReturns, quicVars, c2sVars
  <2>2. cpc'[c] \in BodyStates => cpc[c] \in BodyStates \/ decision[c] = "accepted"
    BY <1>4, <1>t DEF ClientThreadStep, ClientThread, Connect, ConnectReturns,
       SendWithoutConnection, HeaderSent, DecisionAccepted, DecisionRejected, WaitExpires,
       FileShrank, ChunkSent, SendReturns, RawReturns, Disconnect, DisconnectReturns,
       BodyStates
  <2> QED
    BY <1>t, <1>u, <2>1, <2>2, TalkFrame DEF s2cVars
<1> QED
  BY <1>1, <1>2, <1>3, <1>4

\* What the client's callbacks read is the decision, and it is all there is to read.
LEMMA ClientCallbackTalks ==
  ASSUME NEW c, Clients = {c}, IInv, TalkInv(c), ClientCallbackStep(c)
  PROVE  TalkInv(c)'
<1>t. /\ c \in Clients /\ UNCHANGED serverVars
      /\ awaiting_decision \in [Clients -> BOOLEAN]
      /\ decision \in [Clients -> {"none", "accepted", "rejected"}]
      /\ decision_buf \in [Clients -> Seq(Fragments)] /\ s2c \in [Clients -> Seq(Fragments)]
      /\ file_ack \in [Clients -> Seq(Fragments)] /\ ack \in [Clients -> {"none", "ok", "fail"}]
      /\ sFin \in [Clients -> Signals]
  BY DEF IInv, TypeOK, ClientTypeOK, QuicTypeOK, ClientCallbackStep
<1>u. /\ UNCHANGED <<rx, rpc, answer, job, cpc>> /\ UNCHANGED cFin
      /\ Silent' <=> Silent
  <2>1. UNCHANGED <<job, cpc>> /\ UNCHANGED cFin
    BY DEF ClientCallbackStep, ClientCallback, OnConnected, OnShutdownInitiated,
       OnConnectionShutdownComplete, OnReceive, OnPeerSendShutdown, OnSendComplete,
       OnStreamShutdownComplete, clientVars, jobVars, c2sVars
  <2> QED
    BY <1>t, <2>1 DEF serverVars, flowVars, Silent, Accepting
<1>k. ASSUME UNCHANGED <<decisionVars, ackVars, s2cVars>> PROVE TalkInv(c)'
  BY <1>k, <1>u, TalkFrame DEF s2cVars
<1>w. "ACCEPT" \in Words /\ "REJECT" \in Words
  BY DEF Words
<1>1. CASE job[c] = NoJob
  BY <1>1, <1>u DEF TalkInv
<1>2. CASE OnReceive(c) /\ job[c] # NoJob
  <2>1. PICK n \in 1..Len(s2c[c]) :
          LET text == decision_buf[c] \o SubSeq(s2c[c], 1, n)
              now  == awaiting_decision[c] /\ ReplyComplete(text)
          IN /\ s2c' = [s2c EXCEPT ![c] = SubSeq(@, n + 1, Len(@))]
             /\ IF awaiting_decision[c]
                THEN decision_buf' = [decision_buf EXCEPT ![c] = text] /\ UNCHANGED file_ack
                ELSE UNCHANGED decision_buf
             /\ awaiting_decision' = [awaiting_decision EXCEPT ![c] = @ /\ ~now]
             /\ decision' = [decision EXCEPT ![c] = IF now THEN Resolved(text) ELSE @]
    BY <1>2 DEF OnReceive
  <2> DEFINE text == decision_buf[c] \o SubSeq(s2c[c], 1, n)
             rest == SubSeq(s2c[c], n + 1, Len(s2c[c]))
  <2>2. text \in Seq(Fragments) /\ rest \in Seq(Fragments)
    BY <1>t, SplitType, ConcatProperties
  <2>3. text \o rest = Heard(c)
    BY <1>t, ReadKeeps DEF Heard
  <2>4. /\ s2c'[c] = rest
        /\ awaiting_decision[c] => decision_buf'[c] = text /\ file_ack'[c] = file_ack[c]
        /\ awaiting_decision'[c] <=> awaiting_decision[c] /\ ~ReplyComplete(text)
        /\ decision'[c] = IF awaiting_decision[c] /\ ReplyComplete(text)
                          THEN Resolved(text) ELSE decision[c]
    BY <1>t, <2>1
  <2>5. s2c[c] # <<>>
    BY <1>t, <2>1
  <2> HIDE DEF text, rest
  <2>6. UNCHANGED <<sFin, ack>>
    BY <1>2 DEF OnReceive
  <2>7. CASE ~awaiting_decision[c]
    <3>1. sFin[c] # "no" /\ ~Silent
      BY <1>2, <2>5, <2>7 DEF TalkInv
    <3> QED
      BY <1>2, <1>u, <2>4, <2>6, <2>7, <3>1 DEF TalkInv
  <2>8. CASE awaiting_decision[c] /\ ~ReplyComplete(text)
    <3>1. Heard(c)' = Heard(c)
      BY <2>3, <2>4, <2>8 DEF Heard
    <3> QED
      BY <1>2, <1>u, <2>4, <2>6, <2>8, <3>1 DEF TalkInv
  <2>9. CASE awaiting_decision[c] /\ ReplyComplete(text)
    <3>1. text # <<>>
      BY <2>9 DEF ReplyComplete, HasNewline
    <3>2. text \o rest # <<>>
      BY <2>2, <3>1, ConcatSimplifications
    <3>3. PICK word \in Words : /\ text \o rest = ReplyText(word)
                                /\ \/ word = "ACCEPT" /\ sFin[c] = "no" /\ answer # "reject"
                                   \/ word = "REJECT" /\ sFin[c] = "sent"
      BY <1>2, <1>w, <2>3, <2>9, <3>2 DEF TalkInv
    <3>4. text = ReplyText(word) /\ rest = <<>>
      BY <2>2, <2>9, <3>3, CompleteIsWhole DEF ReplyComplete
    <3>5. \/ decision'[c] = "accepted" /\ answer # "reject"
          \/ decision'[c] = "rejected" /\ sFin[c] = "sent"
      BY <2>4, <2>9, <3>3, <3>4, ResolvesReply
    <3>6. ~Silent /\ cpc[c] \notin BodyStates /\ file_ack[c] = <<>> /\ ack[c] = "none"
      BY <1>2, <2>3, <2>9, <3>2 DEF TalkInv
    <3> QED
      BY <1>2, <1>u, <2>4, <2>6, <2>9, <3>4, <3>5, <3>6 DEF TalkInv
  <2> QED
    BY <2>7, <2>8, <2>9
<1>3. CASE OnPeerSendShutdown(c) /\ job[c] # NoJob
  <2>1. /\ s2c[c] = <<>> /\ sFin[c] = "sent" /\ sFin'[c] = "seen"
        /\ ~awaiting_decision'[c]
        /\ decision'[c] = IF awaiting_decision[c] THEN Resolved(decision_buf[c])
                                                  ELSE decision[c]
    BY <1>3, <1>t DEF OnPeerSendShutdown
  <2>2. ~Silent
    BY <1>3, <2>1 DEF TalkInv
  <2>3. CASE ~awaiting_decision[c]
    BY <1>3, <1>u, <2>1, <2>2, <2>3 DEF TalkInv
  <2>4. CASE awaiting_decision[c]
    <3>1. decision_buf[c] \o s2c[c] = decision_buf[c]
      BY <1>t, <2>1, ConcatEmptySeq
    <3>2. decision_buf[c] = ReplyText("REJECT") /\ cpc[c] \notin BodyStates
      BY <1>3, <2>1, <2>4, <3>1 DEF TalkInv, Heard
    <3>3. decision'[c] = "rejected"
      BY <2>1, <2>4, <3>2, ResolvesReply
    <3> QED
      BY <1>3, <1>u, <2>1, <2>2, <3>2, <3>3 DEF TalkInv
  <2> QED
    BY <2>3, <2>4
<1>4. CASE OnConnected(c) \/ OnShutdownInitiated(c) \/ OnConnectionShutdownComplete(c)
           \/ OnSendComplete(c) \/ OnStreamShutdownComplete(c)
  BY <1>4, <1>k DEF OnConnected, OnShutdownInitiated, OnConnectionShutdownComplete,
     OnSendComplete, OnStreamShutdownComplete, clientVars
<1> QED
  BY <1>1, <1>2, <1>3, <1>4 DEF ClientCallbackStep, ClientCallback

\* Every step keeps the talk in order.
LEMMA StepTalk ==
  ASSUME NEW c, Clients = {c}, IInv, FlowInv(c), AskedInv, AnswerPhase, TalkInv(c), [Next]_vars
  PROVE  TalkInv(c)'
<1>n. ASSUME UNCHANGED <<serverVars, job, decisionVars, ackVars, cpc, s2c, sFin, cFin>>
      PROVE  TalkInv(c)'
  BY <1>n, TalkFrame DEF serverVars, flowVars, Silent, Accepting
<1> USE DEF clientVars, jobVars, quicVars, c2sVars, s2cVars
<1>1. CASE ServerThreadStep
  BY <1>1, ServerThreadTalks
<1>2. CASE ServerCallbackStep(c)
  BY <1>2, ServerCallbackTalks
<1>3. CASE ServerTransportStep(c)
  BY <1>3, <1>n DEF ServerTransportStep, ServerLearnsClose
<1>4. CASE ClientThreadStep(c)
  BY <1>4, ClientThreadTalks
<1>5. CASE ClientCallbackStep(c)
  BY <1>5, ClientCallbackTalks
<1>6. CASE LinkDownStep(c)
  BY <1>6, <1>n DEF LinkDownStep, LinkDown
<1>7. CASE EditStep(c)
  BY <1>7, <1>n DEF EditStep, EditSource
<1>8. CASE UNCHANGED vars
  BY <1>8, <1>n DEF vars
<1> QED
  BY <1>1, <1>2, <1>3, <1>4, <1>5, <1>6, <1>7, <1>8 DEF Next, Finished

-----------------------------------------------------------------------------
(* A success reaches the sender.                                           *)

\* Who succeeded has received the whole of an announced file.
LEMMA SuccessFacts ==
  ASSUME NEW c, SessionInv(c), OutcomeInv(c), Succeeded(c)
  PROVE  /\ Delivered(c) /\ job[c] # NoJob /\ cFin[c] # "no"
         /\ sStream[c] # "none" /\ cpc[c] # "ready"
<1>1. Delivered(c)
  BY DEF Succeeded, OutcomeInv, StoredInv, Claimed
<1>2. file_header # NoHeader
  BY <1>1 DEF Delivered, SessionInv, FlowInv, HeaderInv
<1>3. job[c] # NoJob /\ cFin[c] # "no"
  BY <1>1, <1>2 DEF Delivered, SessionInv, FlowInv, HeaderInv
<1> QED
  BY <1>1, <1>3, DeliveredFacts

\* Nothing new is claimed, and nothing is said or read.
LEMMA OkFrame ==
  ASSUME NEW c, OkInv(c), Succeeded(c)' => Succeeded(c),
         Succeeded(c) => /\ awaiting_decision'[c] = awaiting_decision[c]
                         /\ file_ack'[c] = file_ack[c] /\ ack'[c] = ack[c]
                         /\ s2c'[c] = s2c[c] /\ sFin'[c] = sFin[c]
  PROVE  OkInv(c)'
BY DEF OkInv

\* The thread in receive_file says nothing once there is a success to report.
LEMMA ServerThreadOk ==
  ASSUME NEW c, Clients = {c}, IInv, SessionInv(c), OutcomeInv(c), TalkInv(c), OkInv(c),
         ServerThreadStep
  PROVE  OkInv(c)'
<1>t. /\ file_result \in Results
      /\ UNCHANGED <<awaiting_decision, file_ack, ack>>
  BY DEF IInv, TypeOK, ServerTypeOK, Results, ServerThreadStep, clientVars, decisionVars,
     ackVars
<1>1. Succeeded(c)' => Succeeded(c)
  <2>1. file_result'.success => file_result.success
    <3>1. CASE ArmReset
      BY <3>1 DEF ArmReset, NoResult
    <3>2. CASE PromptReject
      BY <1>t, <3>2 DEF PromptReject, Results
    <3>3. CASE PromptAccept
      BY <1>t, <3>3 DEF PromptAccept, OpenedResult, Results
    <3>4. CASE ~(ArmReset \/ PromptReject \/ PromptAccept)
      <4>1. UNCHANGED file_result
        BY <3>4 DEF ServerThreadStep, ServerThread, ArmReceiving, ArmPath, ArmOffer,
           OfferArrived, OfferFailed, OfferTimeout, MarkAccepted, SendAccept, TransferFinished,
           TransferFailed, DrainAfterReject, DrainAfterTransfer, Stop, StopReturns
      <4> QED
        BY <4>1
    <3> QED
      BY <3>1, <3>2, <3>3, <3>4
  <2>2. (file_ok' = FALSE \/ file_ok' = file_ok) /\ blocked' = blocked
    BY DEF ServerThreadStep, ServerThread, ArmReceiving, ArmPath, ArmOffer, ArmReset,
       OfferArrived, OfferFailed, OfferTimeout, PromptReject, PromptAccept, MarkAccepted,
       SendAccept,
       TransferFinished, TransferFailed, DrainAfterReject, DrainAfterTransfer, Stop,
       StopReturns, waitVars
  <2>3. /\ rpc' = "ok_drain" => rpc = "ok_drain" \/ file_ok
        /\ recv_result' = "true" => recv_result = "true" \/ rpc = "ok_drain"
    BY DEF ServerThreadStep, ServerThread, ArmReceiving, ArmPath, ArmOffer, ArmReset,
       OfferArrived, OfferFailed, OfferTimeout, PromptReject, PromptAccept, MarkAccepted,
       SendAccept,
       TransferFinished, TransferFailed, DrainAfterReject, DrainAfterTransfer, Stop,
       StopReturns, Return, TransferOk
  <2> QED
    BY <2>1, <2>2, <2>3 DEF Succeeded
<1>2. CASE PromptReject \/ PromptAccept \/ SendAccept
  <2>1. rpc \in Accepting \cup {"prompt"}
    BY <1>2 DEF PromptReject, PromptAccept, MarkAccepted, SendAccept, Accepting
  <2>2. Silent
    BY <2>1 DEF SessionInv, OutcomeInv, FlowInv, PhaseInv, AskedInv, Accepting, Silent
  <2>3. ~Succeeded(c)
    BY <2>2, SuccessFacts DEF TalkInv
  <2> QED
    BY <1>1, <2>3 DEF OkInv
<1>3. CASE ~(PromptReject \/ PromptAccept \/ SendAccept)
  <2>1. UNCHANGED <<s2c, sFin>>
    BY <1>3 DEF ServerThreadStep, ServerThread, ArmReceiving, ArmPath, ArmOffer, ArmReset,
       OfferArrived, OfferFailed, OfferTimeout, MarkAccepted, TransferFinished,
       TransferFailed, DrainAfterReject, DrainAfterTransfer, Stop, StopReturns, quicVars,
       s2cVars
  <2> QED
    BY <1>t, <1>1, <2>1, OkFrame
<1> QED
  BY <1>2, <1>3

\* finish_file_receive says OK where it claims a success, and where it cannot say
\* it, it claims none.
LEMMA FinishOk ==
  ASSUME NEW c, Clients = {c}, IInv, SessionInv(c), OutcomeInv(c), AnswerPhase, TalkInv(c),
         OkInv(c), on_peer_send_shutdown(c), UNCHANGED clientVars
  PROVE  OkInv(c)'
<1>t. /\ QuicTypeOK /\ rx \in RxState /\ file_result \in Results /\ c \in Clients
      /\ blocked \in [Clients -> {"no", "offer", "notify_true", "notify_false"}]
      /\ cFin \in [Clients -> Signals] /\ s2c \in [Clients -> Seq(Fragments)]
      /\ sFin \in [Clients -> Signals]
  BY DEF IInv, TypeOK, ServerTypeOK, QuicTypeOK, Results
<1>u. UNCHANGED <<rpc, recv_result, awaiting_decision, file_ack, ack, job>>
  BY DEF clientVars, decisionVars, ackVars, jobVars, on_peer_send_shutdown, flowVars
<1>1. ~Claimed(c) /\ cFin[c] = "sent"
  BY DEF on_peer_send_shutdown, OutcomeInv, StoredInv, Delivered
<1>2. ~Succeeded(c)
  BY <1>1 DEF Claimed, Succeeded
<1>3. CASE ~(receiving_file /\ (rx.accepted \/ rx.io_error))
  BY <1>2, <1>3, <1>u DEF on_peer_send_shutdown, OkInv, Succeeded, waitVars
<1>4. CASE receiving_file /\ (rx.accepted \/ rx.io_error)
  <2>1. finish_file_receive(c)
    BY <1>4 DEF on_peer_send_shutdown
  <2>2. PICK readable \in BOOLEAN, ok \in BOOLEAN :
          LET result == [file_result EXCEPT !.success = Verified(readable),
                                            !.error = @ \/ ~Verified(readable)]
          IN /\ ok => ServerCanSend(c)
             /\ IF ok
                THEN /\ ServerSends(c, IF Verified(readable) THEN "OK" ELSE "FAIL", TRUE)
                     /\ file_result' = result
                     /\ UNCHANGED waitVars
                ELSE notify_file_waiter(c, FALSE, result)
    BY <2>1, Zenon DEF finish_file_receive, SendOutcomes, Outcomes
  <2>3. PICK result : result = [file_result EXCEPT !.success = Verified(readable),
                                                   !.error = @ \/ ~Verified(readable)]
    OBVIOUS
  <2>4. result \in Results /\ (result.success <=> Verified(readable))
    <3>1. Verified(readable) \in BOOLEAN /\ (file_result.error \/ ~Verified(readable)) \in BOOLEAN
      BY DEF Verified
    <3>2. PICK v \in BOOLEAN, e \in BOOLEAN :
            result = [file_result EXCEPT !.success = v, !.error = e] /\ v = Verified(readable)
      BY <2>3, <3>1
    <3> QED
      BY <1>t, <3>2 DEF Results
  <2>5. CASE ok /\ Verified(readable)
    <3>1. ServerSends(c, "OK", TRUE) /\ sFin[c] = "no"
      BY <2>2, <2>5 DEF ServerCanSend
    <3>2. job[c] # NoJob
      BY <2>5 DEF Verified, SessionInv, FlowInv, HeaderInv
    <3>3. ~awaiting_decision[c] /\ s2c[c] = <<>> /\ file_ack[c] = <<>> /\ ack[c] = "none"
      BY <1>1, <3>1, <3>2 DEF TalkInv
    <3>4. s2c'[c] = <<>> \o ReplyText("OK") /\ sFin'[c] = "sent"
      BY <1>t, <3>1, <3>3 DEF ServerSends
    <3>5. ReplyText("OK") \in Seq(Fragments)
      BY ReplyType DEF Words
    <3>6. file_ack'[c] \o s2c'[c] = ReplyText("OK")
      BY <1>u, <3>3, <3>4, <3>5, ConcatEmptySeq
    <3> QED
      BY <1>u, <3>3, <3>4, <3>6 DEF OkInv
  <2>6. CASE ok /\ ~Verified(readable)
    <3>1. file_result' = result /\ UNCHANGED waitVars
      BY <2>2, <2>3, <2>6
    <3> QED
      BY <1>2, <1>u, <2>4, <2>6, <3>1 DEF OkInv, Succeeded, waitVars
  <2>7. CASE ~ok
    <3>1. notify_file_waiter(c, FALSE, result)
      BY <2>2, <2>3, <2>7
    <3>2. /\ file_result'.success => result.success
          /\ file_ok' => file_ok
          /\ blocked'[c] = "notify_true" => blocked[c] = "notify_true"
      BY <1>t, <2>4, <3>1, NotifyClaims
    <3>3. CASE ~Verified(readable)
      BY <1>2, <1>u, <2>4, <3>2, <3>3 DEF OkInv, Succeeded
    <3>4. CASE Verified(readable)
      <4>1. job[c] # NoJob /\ rx.out # "null"
        BY <3>4 DEF Verified, SessionInv, FlowInv, HeaderInv
      <4>2. ~MutexHeld
        BY <4>1 DEF MutexHeld, AnswerPhase, SessionInv, FlowInv, OpensOnce, Unopened, Arming
      <4>3. ~file_result'.success
        BY <2>4, <3>1, <4>2 DEF notify_file_waiter, Results
      <4> QED
        BY <1>2, <1>u, <3>2, <4>3 DEF OkInv, Succeeded
    <3> QED
      BY <3>3, <3>4
  <2> QED
    BY <2>5, <2>6, <2>7
<1> QED
  BY <1>3, <1>4

\* So do the other callbacks: they claim nothing new.
LEMMA ServerCallbackOk ==
  ASSUME NEW c, Clients = {c}, IInv, SessionInv(c), OutcomeInv(c), AnswerPhase, TalkInv(c),
         OkInv(c), ServerCallbackStep(c)
  PROVE  OkInv(c)'
<1>t. /\ file_result \in Results /\ c \in Clients /\ UNCHANGED clientVars
      /\ file_ok \in BOOLEAN
      /\ blocked \in [Clients -> {"no", "offer", "notify_true", "notify_false"}]
  BY DEF IInv, TypeOK, ServerTypeOK, Results, ServerCallbackStep
<1>u. UNCHANGED <<rpc, recv_result, awaiting_decision, file_ack, ack, send_result>>
  BY <1>t DEF ServerCallbackStep, ServerCallback, on_new_connection, on_connected,
     on_connection_shutdown_complete, on_peer_stream_started, on_receive,
     on_peer_send_shutdown, on_send_complete, on_peer_aborted,
     on_stream_shutdown_complete, EnterFileMutex, serverVars, flowVars, clientVars,
     decisionVars, ackVars
<1>k. ASSUME UNCHANGED s2cVars, file_result'.success => Succeeded(c), file_ok' => Succeeded(c),
             blocked'[c] = "notify_true" => Succeeded(c)
      PROVE  OkInv(c)'
  <2>1. Succeeded(c)' => Succeeded(c)
    BY <1>k, <1>u DEF Succeeded
  <2> QED
    BY <1>k, <1>u, <2>1, OkFrame DEF s2cVars
<1>n. ASSUME UNCHANGED s2cVars, NEW success \in BOOLEAN, NEW r \in Results,
             success \/ r.success => file_result.success, notify_file_waiter(c, success, r)
      PROVE  OkInv(c)'
  <2>1. /\ file_result'.success => r.success \/ success
        /\ file_ok' => file_ok \/ success
        /\ blocked'[c] = "notify_true" => blocked[c] = "notify_true" \/ success
    BY <1>t, <1>n, NotifyClaims
  <2> QED
    BY <1>k, <1>n, <2>1 DEF Succeeded
<1>s. ASSUME UNCHANGED <<s2cVars, file_result, waitVars>> PROVE OkInv(c)'
  BY <1>k, <1>s DEF Succeeded, waitVars
<1> USE DEF quicVars, serverVars
<1>1. CASE on_receive(c)
  <2>1. ~Claimed(c)'
    BY <1>1, <1>u, OnReceiveClaims DEF OutcomeInv
  <2> QED
    BY <2>1 DEF OkInv, Succeeded, Claimed
<1>2. CASE on_peer_send_shutdown(c)
  BY <1>2, <1>t, FinishOk
<1>3. CASE on_send_complete(c)
  <2>1. file_result.success \in BOOLEAN
    BY <1>t DEF Results
  <2> QED
    BY <1>3, <1>n, <1>s, <1>t, <2>1 DEF on_send_complete
<1>4. CASE on_peer_aborted(c)
  <2>1. PICK r : r = [file_result EXCEPT !.error = TRUE]
    OBVIOUS
  <2>2. r \in Results /\ r.success = file_result.success
    BY <1>t, <2>1 DEF Results
  <2>3. UNCHANGED s2cVars /\ (\/ notify_file_waiter(c, FALSE, r)
                              \/ UNCHANGED <<waitVars, file_result>>)
    BY <1>4, <2>1, Zenon DEF on_peer_aborted
  <2> QED
    BY <1>n, <1>s, <2>2, <2>3
<1>5. CASE EnterFileMutex(c)
  <2>1. /\ blocked'[c] = "no"
        /\ file_ok' => blocked[c] = "notify_true" \/ file_ok
        /\ file_result'.success => blocked[c] = "notify_true" \/ file_result.success
    BY <1>5, <1>t DEF EnterFileMutex, Results
  <2> QED
    BY <1>5, <1>k, <2>1 DEF EnterFileMutex, Succeeded
<1>6. CASE on_new_connection(c) \/ on_connected(c) \/ on_connection_shutdown_complete(c)
           \/ on_peer_stream_started(c) \/ on_stream_shutdown_complete(c)
  BY <1>6, <1>s DEF on_new_connection, on_connected, on_connection_shutdown_complete,
     on_peer_stream_started, on_stream_shutdown_complete
<1> QED
  BY <1>1, <1>2, <1>3, <1>4, <1>5, <1>6 DEF ServerCallbackStep, ServerCallback

\* The sending thread begins nothing new once the receiver has succeeded.
LEMMA ClientThreadOk ==
  ASSUME NEW c, Clients = {c}, SessionInv(c), OutcomeInv(c), OkInv(c), ClientThreadStep(c)
  PROVE  OkInv(c)'
<1>1. Succeeded(c)' => Succeeded(c)
  BY DEF ClientThreadStep, serverVars, flowVars, waitVars, Succeeded
<1>2. CASE SendHeader(c) \/ SendRaw(c)
  <2>1. ~Succeeded(c)
    BY <1>2, SuccessFacts DEF SendHeader, SendRaw
  <2> QED
    BY <1>1, <2>1 DEF OkInv
<1>3. CASE ~(SendHeader(c) \/ SendRaw(c))
  <2>1. UNCHANGED <<awaiting_decision, file_ack, ack, s2c, sFin>>
    BY <1>3 DEF ClientThreadStep, ClientThread, Connect, ConnectReturns, SendWithoutConnection,
       HeaderSent, DecisionAccepted, DecisionRejected, WaitExpires, SendChunk, FileShrank,
       ChunkSent, SendReturns, RawReturns, Disconnect, DisconnectReturns, quicVars, s2cVars,
       decisionVars, ackVars
  <2> QED
    BY <1>1, <2>1, OkFrame
<1> QED
  BY <1>2, <1>3

\* An OK on the wire is read as one.
LEMMA ReadsOk == StartsWith(ReplyText("OK"), "OK")
<1>1. Len(ReplyText("OK")) = 2 /\ ReplyText("OK") \in Seq(Fragments)
  BY ReplyType DEF ReplyText, Words
<1>2. SubSeq(ReplyText("OK"), 1, 2) = ReplyText("OK")
  BY <1>1, SubSeqFull
<1> QED
  BY <1>1, <1>2 DEF StartsWith

\* The client's callbacks read what is under way and nothing else.
LEMMA ClientCallbackOk ==
  ASSUME NEW c, Clients = {c}, IInv, SessionInv(c), OutcomeInv(c), TalkInv(c), OkInv(c),
         ClientCallbackStep(c)
  PROVE  OkInv(c)'
<1>t. /\ c \in Clients /\ UNCHANGED serverVars
      /\ awaiting_decision \in [Clients -> BOOLEAN]
      /\ s2c \in [Clients -> Seq(Fragments)] /\ sFin \in [Clients -> Signals]
      /\ file_ack \in [Clients -> Seq(Fragments)] /\ ack \in [Clients -> {"none", "ok", "fail"}]
  BY DEF IInv, TypeOK, ClientTypeOK, QuicTypeOK, ClientCallbackStep
<1>1. Succeeded(c)' => Succeeded(c)
  BY <1>t DEF serverVars, flowVars, waitVars, Succeeded
<1>k. ASSUME UNCHANGED <<decisionVars, ackVars, s2cVars>> PROVE OkInv(c)'
  BY <1>k, <1>1, OkFrame DEF decisionVars, ackVars, s2cVars
<1>2. CASE ~Succeeded(c)
  BY <1>1, <1>2 DEF OkInv
<1>j. Succeeded(c) => job[c] # NoJob
  BY SuccessFacts
<1>3. CASE OnReceive(c) /\ Succeeded(c)
  <2>1. UNCHANGED ack /\ UNCHANGED sFin
    BY <1>3 DEF OnReceive
  <2>2. CASE ack[c] = "ok"
    BY <2>1, <2>2 DEF OkInv
  <2>3. CASE ack[c] # "ok"
    <3>1. PICK n \in 1..Len(s2c[c]) :
            /\ s2c' = [s2c EXCEPT ![c] = SubSeq(@, n + 1, Len(@))]
            /\ ~awaiting_decision[c] =>
                 file_ack' = [file_ack EXCEPT ![c] = @ \o SubSeq(s2c[c], 1, n)]
            /\ ~awaiting_decision[c] => ~awaiting_decision'[c]
      BY <1>3, <1>t DEF OnReceive
    <3>2. ~awaiting_decision[c]
      BY <1>3, <2>3 DEF OkInv
    <3>3. /\ s2c'[c] = SubSeq(s2c[c], n + 1, Len(s2c[c]))
          /\ file_ack'[c] = file_ack[c] \o SubSeq(s2c[c], 1, n)
      BY <1>t, <3>1, <3>2
    <3>4. file_ack'[c] \o s2c'[c] = file_ack[c] \o s2c[c]
      BY <1>t, <3>3, ReadKeeps, ZenonT(60)
    <3> QED
      BY <1>3, <2>1, <2>3, <3>1, <3>2, <3>4 DEF OkInv
  <2> QED
    BY <2>2, <2>3
<1>4. CASE OnPeerSendShutdown(c) /\ Succeeded(c)
  <2>1. s2c[c] = <<>> /\ sFin[c] = "sent"
    BY <1>4 DEF OnPeerSendShutdown
  <2>2. ack[c] = "none" /\ ~awaiting_decision[c] /\ file_ack[c] \o s2c[c] = ReplyText("OK")
    BY <1>4, <1>j, <2>1 DEF OkInv, TalkInv
  <2>3. file_ack[c] = ReplyText("OK")
    BY <1>t, <2>1, <2>2, ConcatEmptySeq
  <2>4. ack'[c] = "ok"
    BY <1>4, <1>t, <2>2, <2>3, ReadsOk DEF OnPeerSendShutdown
  <2> QED
    BY <2>4 DEF OkInv
<1>5. CASE OnConnected(c) \/ OnShutdownInitiated(c) \/ OnConnectionShutdownComplete(c)
           \/ OnSendComplete(c) \/ OnStreamShutdownComplete(c)
  BY <1>5, <1>k DEF OnConnected, OnShutdownInitiated, OnConnectionShutdownComplete,
     OnSendComplete, OnStreamShutdownComplete, clientVars
<1> QED
  BY <1>2, <1>3, <1>4, <1>5 DEF ClientCallbackStep, ClientCallback

\* Every step keeps a success on its way to the sender.
LEMMA StepOk ==
  ASSUME NEW c, Clients = {c}, IInv, SessionInv(c), OutcomeInv(c), AnswerPhase, TalkInv(c),
         OkInv(c), [Next]_vars
  PROVE  OkInv(c)'
<1>n. ASSUME UNCHANGED <<serverVars, decisionVars, ackVars, s2c, sFin>> PROVE OkInv(c)'
  <2>1. Succeeded(c)' => Succeeded(c)
    BY <1>n DEF serverVars, flowVars, waitVars, Succeeded
  <2> QED
    BY <1>n, <2>1, OkFrame DEF decisionVars, ackVars
<1> USE DEF clientVars, quicVars, s2cVars
<1>1. CASE ServerThreadStep
  BY <1>1, ServerThreadOk
<1>2. CASE ServerCallbackStep(c)
  BY <1>2, ServerCallbackOk
<1>3. CASE ServerTransportStep(c)
  BY <1>3, <1>n DEF ServerTransportStep, ServerLearnsClose
<1>4. CASE ClientThreadStep(c)
  BY <1>4, ClientThreadOk
<1>5. CASE ClientCallbackStep(c)
  BY <1>5, ClientCallbackOk
<1>6. CASE LinkDownStep(c)
  BY <1>6, <1>n DEF LinkDownStep, LinkDown
<1>7. CASE EditStep(c)
  BY <1>7, <1>n DEF EditStep, EditSource
<1>8. CASE UNCHANGED vars
  BY <1>8, <1>n DEF vars
<1> QED
  BY <1>1, <1>2, <1>3, <1>4, <1>5, <1>6, <1>7, <1>8 DEF Next, Finished

-----------------------------------------------------------------------------
(* receive_file returns to a sender that knows.                            *)

\* What the replies and the connection are known to be.
DeliveryInv(c) ==
  ConnectedInv(c) /\ PatientInv(c) /\ TalkInv(c) /\ AnswerPhase /\ OkInv(c)

\* Once the connection is gone the sender has what it waited for.
LEMMA DrainedMeansRead ==
  ASSUME NEW c, Clients = {c}, Undisturbed, Drained, sStream[c] # "none",
         rpc \notin {"stopping", "stopped"}, job[c] # NoJob,
         ConnectedInv(c), PatientInv(c)
  PROVE  /\ rx.header_parsed => decision[c] # "none"
         /\ cFin[c] # "no" => ack[c] # "none"
<1>1. client_connection = None
  BY DEF Drained, Undisturbed
<1>2. sConn[c] = "closed"
  BY <1>1, ClientsAssumption DEF ConnectedInv
<1>3. cpc[c] \in {"shutdown_wait", "done"}
  BY <1>2 DEF ConnectedInv
<1> QED
  BY <1>3 DEF PatientInv

\* The thread in receive_file returns only then.
LEMMA ServerThreadReplied ==
  ASSUME NEW c, Clients = {c}, Undisturbed, IInv, SessionInv(c), OutcomeInv(c),
         DeliveryInv(c), ReplyDelivered, ServerThreadStep
  PROVE  ReplyDelivered'
<1>t. c \in Clients /\ UNCHANGED <<ack, decision>>
      /\ ack \in [Clients -> {"none", "ok", "fail"}]
      /\ decision \in [Clients -> {"none", "accepted", "rejected"}]
  BY DEF IInv, TypeOK, ClientTypeOK, ServerThreadStep, clientVars, decisionVars, ackVars
<1>1. CASE DrainAfterTransfer
  <2>1. Succeeded(c) /\ Drained /\ rpc = "ok_drain" /\ answer' = answer
    BY <1>1 DEF DrainAfterTransfer, Succeeded
  <2>2. ack[c] # "none"
    BY <2>1, SuccessFacts, DrainedMeansRead DEF DeliveryInv
  <2>3. ack[c] = "ok"
    BY <2>1, <2>2 DEF DeliveryInv, OkInv
  <2>4. answer # "reject"
    BY <2>1 DEF DeliveryInv, AnswerPhase
  <2> QED
    BY <1>t, <2>1, <2>3, <2>4 DEF ReplyDelivered
<1>2. CASE DrainAfterReject
  <2>1. Drained /\ recv_result' = "false" /\ answer' = answer
        /\ rpc \in {"reject_drain", "reject_locked"}
    BY <1>2 DEF DrainAfterReject, Return
  <2>2. file_header # NoHeader /\ sStream[c] # "none"
    BY <2>1 DEF SessionInv, FlowInv, PhaseInv, Unheard, Engaged, Accepting
  <2>3. job[c] # NoJob /\ rx.header_parsed
    BY <2>2 DEF SessionInv, FlowInv, HeaderInv
  <2>4. decision[c] # "none"
    BY <2>1, <2>2, <2>3, DrainedMeansRead DEF DeliveryInv
  <2>5. answer = "reject" => decision[c] = "rejected"
    BY <1>t, <2>3, <2>4 DEF DeliveryInv, TalkInv
  <2> QED
    BY <1>t, <2>1, <2>5 DEF ReplyDelivered
<1>3. CASE OfferFailed \/ OfferTimeout \/ TransferFailed
  <2>1. recv_result' = "false" /\ answer' = answer /\ rpc \in {"offer_wait", "final_wait"}
    BY <1>3 DEF OfferFailed, OfferTimeout, TransferFailed, Return
  <2>2. answer # "reject"
    BY <2>1 DEF DeliveryInv, AnswerPhase
  <2> QED
    BY <1>t, <2>1, <2>2 DEF ReplyDelivered
<1>4. CASE PromptReject \/ PromptAccept
  <2>1. recv_result = "none" /\ recv_result' = recv_result
    BY <1>4 DEF PromptReject, PromptAccept, OutcomeInv, AskedInv, Accepting
  <2> QED
    BY <2>1 DEF ReplyDelivered
<1>5. CASE ~(\/ DrainAfterTransfer \/ DrainAfterReject \/ OfferFailed \/ OfferTimeout
             \/ TransferFailed \/ PromptReject \/ PromptAccept)
  <2>1. UNCHANGED <<recv_result, answer>>
    BY <1>5 DEF ServerThreadStep, ServerThread, ArmReceiving, ArmPath, ArmOffer, ArmReset,
       OfferArrived, MarkAccepted, SendAccept, TransferFinished, Stop, StopReturns
  <2> QED
    BY <1>t, <2>1 DEF ReplyDelivered
<1> QED
  BY <1>1, <1>2, <1>3, <1>4, <1>5

\* What a sender knows it does not forget.
LEMMA StepReplied ==
  ASSUME NEW c, Clients = {c}, Undisturbed, IInv, SessionInv(c), OutcomeInv(c),
         DeliveryInv(c), ReplyDelivered, [Next]_vars
  PROVE  ReplyDelivered'
<1>t. /\ c \in Clients
      /\ ack \in [Clients -> {"none", "ok", "fail"}]
      /\ awaiting_decision \in [Clients -> BOOLEAN]
      /\ decision \in [Clients -> {"none", "accepted", "rejected"}]
  BY DEF IInv, TypeOK, ClientTypeOK
<1>n. ASSUME UNCHANGED <<recv_result, answer, decision, ack>> PROVE ReplyDelivered'
  BY <1>n DEF ReplyDelivered
<1>s. ASSUME UNCHANGED <<recv_result, answer>>,
             recv_result = "true" /\ ack[c] = "ok" => ack'[c] = "ok",
             recv_result # "none" /\ answer = "reject" /\ decision[c] = "rejected"
               => decision'[c] = "rejected"
      PROVE  ReplyDelivered'
  BY <1>s, <1>t DEF ReplyDelivered
<1>j. /\ recv_result = "true" => job[c] # NoJob /\ cpc[c] # "ready"
      /\ answer = "reject" => job[c] # NoJob /\ cpc[c] # "ready"
  <2>1. recv_result = "true" => job[c] # NoJob /\ cpc[c] # "ready"
    BY SuccessFacts DEF Succeeded
  <2>2. ASSUME answer = "reject" PROVE job[c] # NoJob /\ cpc[c] # "ready"
    <3>1. file_header # NoHeader
      BY <2>2 DEF DeliveryInv, AnswerPhase, OutcomeInv, AskedInv, Accepting
    <3>2. job[c] # NoJob
      BY <3>1 DEF SessionInv, FlowInv, HeaderInv
    <3> QED
      BY <3>2 DEF SessionInv, FlowInv, OpensOnce, Unopened
  <2> QED
    BY <2>1, <2>2
<1> USE DEF clientVars, serverVars, flowVars, decisionVars, ackVars
<1>1. CASE ServerThreadStep
  BY <1>1, ServerThreadReplied
<1>2. CASE ServerCallbackStep(c)
  <2>1. UNCHANGED flowVars
    BY <1>2 DEF ServerCallbackStep, ServerCallback, on_new_connection, on_connected,
       on_connection_shutdown_complete, on_peer_stream_started, on_receive,
       on_peer_send_shutdown, on_send_complete, on_peer_aborted,
       on_stream_shutdown_complete, EnterFileMutex
  <2> QED
    BY <1>2, <1>n, <2>1 DEF ServerCallbackStep
<1>3. CASE ServerTransportStep(c)
  BY <1>3, <1>n DEF ServerTransportStep
<1>4. CASE ClientThreadStep(c)
  <2>1. CASE SendHeader(c) \/ SendRaw(c)
    BY <1>4, <1>j, <1>s, <2>1 DEF SendHeader, SendRaw, ClientThreadStep
  <2>2. CASE ~(SendHeader(c) \/ SendRaw(c))
    <3>1. UNCHANGED <<decision, ack>>
      BY <1>4, <2>2 DEF ClientThreadStep, ClientThread, Connect, ConnectReturns,
         SendWithoutConnection, HeaderSent, DecisionAccepted, DecisionRejected, WaitExpires,
         SendChunk, FileShrank, ChunkSent, SendReturns, RawReturns, Disconnect,
         DisconnectReturns
    <3> QED
      BY <1>4, <1>n, <3>1 DEF ClientThreadStep
  <2> QED
    BY <2>1, <2>2
<1>5. CASE ClientCallbackStep(c)
  <2>1. UNCHANGED <<recv_result, answer>>
    BY <1>5 DEF ClientCallbackStep
  <2>2. /\ decision'[c] # decision[c] => awaiting_decision[c]
        /\ ack'[c] # ack[c] => sFin[c] = "sent"
    BY <1>5, <1>t DEF ClientCallbackStep, ClientCallback, OnConnected, OnShutdownInitiated,
       OnConnectionShutdownComplete, OnReceive, OnPeerSendShutdown, OnSendComplete,
       OnStreamShutdownComplete
  <2> QED
    BY <1>j, <1>s, <2>1, <2>2 DEF DeliveryInv, TalkInv
<1>6. CASE LinkDownStep(c)
  BY <1>6, <1>n DEF LinkDownStep
<1>7. CASE EditStep(c)
  BY <1>7, <1>n DEF EditStep, EditSource
<1>8. CASE UNCHANGED vars
  BY <1>8, <1>n DEF vars
<1> QED
  BY <1>1, <1>2, <1>3, <1>4, <1>5, <1>6, <1>7, <1>8 DEF Next, Finished

\* At the start nobody has connected, said or claimed anything.
LEMMA InitDelivery ==
  ASSUME NEW c, Clients = {c}, Init PROVE DeliveryInv(c) /\ ReplyDelivered
<1> USE DEF Init, QuicInit, ServerInit, ClientInit
<1>t. c \in Clients /\ c # None
  BY ClientsAssumption
<1>1. ConnectedInv(c)
  BY <1>t DEF ConnectedInv
<1>2. PatientInv(c) /\ TalkInv(c)
  BY <1>t DEF PatientInv, TalkInv
<1>3. AnswerPhase /\ OkInv(c) /\ ReplyDelivered
  BY <1>t DEF AnswerPhase, OkInv, Succeeded, NoResult, ReplyDelivered
<1> QED
  BY <1>1, <1>2, <1>3 DEF DeliveryInv

\* When receive_file returns, the sender has already read the answer, which is
\* what drain_connection waits for (quic_server.cpp, 595-598): true is "OK" at the
\* sender and a refusal is "REJECT", with any contents, names, timeouts of the
\* receiver, failed opens, writes and sends, edits and test entry points, so long
\* as the link holds, no drain runs into its 2 s and the sender does not give up.
THEOREM RepliesAreDelivered ==
  ASSUME NEW CONSTANT c, Clients = {c}, ~EarlySenders, Undisturbed
  PROVE  Spec => []ReplyDelivered
<1>1. Init => DeliveryInv(c) /\ ReplyDelivered
  BY InitDelivery
<1>2. /\ IInv /\ SessionInv(c) /\ OutcomeInv(c)
      /\ DeliveryInv(c) /\ ReplyDelivered /\ [Next]_vars
      => (DeliveryInv(c) /\ ReplyDelivered)'
  <2> SUFFICES ASSUME IInv, SessionInv(c), OutcomeInv(c), DeliveryInv(c), ReplyDelivered,
                      [Next]_vars
               PROVE  DeliveryInv(c)' /\ ReplyDelivered'
    OBVIOUS
  <2>1. /\ FlowInv(c) /\ AskedInv
        /\ ConnectedInv(c) /\ PatientInv(c) /\ TalkInv(c) /\ AnswerPhase /\ OkInv(c)
    BY DEF SessionInv, OutcomeInv, DeliveryInv
  <2>2. ConnectedInv(c)' /\ PatientInv(c)' /\ TalkInv(c)' /\ AnswerPhase' /\ OkInv(c)'
    BY <2>1, StepConnected, StepPatient, StepTalk, StepAnswer, StepOk
  <2>3. ReplyDelivered'
    BY StepReplied
  <2> QED
    BY <2>2, <2>3 DEF DeliveryInv
<1> QED
  BY <1>1, <1>2, IInvHolds, SessionHolds, OutcomeHolds, PTL DEF Spec
=============================================================================
