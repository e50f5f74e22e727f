-------------------------- MODULE RefinementProofs --------------------------
(***************************************************************************)
(* The endpoints implement FileTransfer, proved for one sender that starts *)
(* after receive_file is armed, and a receiver that asks: any contents,    *)
(* names, faults and test entry points.                                    *)
(*                                                                         *)
(* The argument has two halves.  While the sender waits for the decision,  *)
(* what is in its buffer and on the wire together is exactly what the      *)
(* receiver has decided, so that the two sides never disagree; and what    *)
(* was stored or claimed is known from OutcomeProofs.  With these, every   *)
(* step of the endpoints is matched with the one step of FileTransfer it   *)
(* takes, or with none.                                                    *)
(***************************************************************************)
EXTENDS TransferRefinement, OutcomeProofs

\* send_file (or connect) has not returned yet.
Calling(c) == cpc[c] \notin {"disconnect", "shutdown_wait", "done"}

\* What the sending thread knows of its own call.
CallerInv(c) ==
  /\ Calling(c) => send_result[c] = "none" /\ ~rejected[c]
  /\ ~Calling(c) => send_result[c] # "none"
  /\ rejected[c] => send_result[c] = "failed" /\ cFin[c] = "no"
  /\ cpc[c] \in {"header_wait", "decision_wait"} =>
       cFin[c] = "no" /\ (decision[c] = "none" => awaiting_decision[c])
  /\ cpc[c] \in {"header_wait", "decision_wait"} \cup BodyStates => job[c] # NoJob
  /\ cStream[c] = "none" => ~awaiting_decision[c] /\ decision[c] = "none"

\* While a decision is awaited, the text read and the text under way are what
\* the receiver has decided, and nothing else.
AwaitInv(c) ==
  awaiting_decision[c] =>
    LET text == decision_buf[c] \o s2c[c]
    IN /\ cFin[c] = "no" /\ cpc[c] \notin BodyStates /\ decision[c] = "none"
       /\ DecisionMade = "none" \/ rpc \in Accepting => text = <<>> /\ sFin[c] = "no"
       /\ DecisionMade = "accept" => text \in {<<>>, ReplyText("ACCEPT")} /\ sFin[c] = "no"
       /\ DecisionMade \in {"reject", "unwritable"} => text \in {<<>>, ReplyText("REJECT")}

\* The sender acts on the decision the receiver made, about a header that was
\* shown.
DecidedInv(c) ==
  /\ decision[c] = "accepted" \/ cpc[c] \in BodyStates => DecisionMade = "accept"
  /\ decision[c] = "rejected" => DecisionMade \in {"reject", "unwritable"}
  /\ rpc \in Accepting => rx.out # "null"
  /\ answer # "none" => offered # NoHeader

\* Bytes behind a header that was read come from a sender that streams, or that
\* has given up on it.
BodyWireInv(c) ==
  file_header # NoHeader /\ c2s[c] # <<>> => SenderPhase(c) \in {"streaming", "failed"}

AgreementInv(c) == CallerInv(c) /\ AwaitInv(c) /\ DecidedInv(c) /\ BodyWireInv(c)

-----------------------------------------------------------------------------
(* The two sides as FileTransfer sees them.                                *)

\* A step that changes nothing FileTransfer sees is a stutter of it.
LEMMA ViewStutters ==
  ASSUME NEW c, Clients = {c},
         UNCHANGED <<job, offered, recv_result>>,
         DecisionMade' = DecisionMade, StoredFile' = StoredFile,
         SenderPhase(c)' = SenderPhase(c)
  PROVE  UNCHANGED Abstract!vars
BY DEF Abstract!vars

\* A header that is put before the user is FileTransfer's Show.
LEMMA ViewShows ==
  ASSUME NEW c, Clients = {c}, offered = NoHeader, recv_result = "none", job[c] # NoJob,
         offered' = Announced(job[c].header), Announced(job[c].header) # NoHeader,
         UNCHANGED <<job, recv_result>>,
         DecisionMade' = DecisionMade, StoredFile' = StoredFile,
         SenderPhase(c)' = SenderPhase(c)
  PROVE  Abstract!Next
<1>1. Abstract!Show
  BY DEF Abstract!Show
<1> QED
  BY <1>1 DEF Abstract!Next

\* The sender announces, and may have given up already.
LEMMA ViewAnnounces ==
  ASSUME NEW c, Clients = {c}, job \in [Clients -> Jobs \cup {NoJob}],
         SenderPhase(c) = "waiting", job[c] = NoJob,
         NEW j \in Jobs, j # NoJob, job' = [job EXCEPT ![c] = j],
         SenderPhase(c)' \in {"waiting", "failed"},
         UNCHANGED <<offered, recv_result>>,
         DecisionMade' = DecisionMade, StoredFile' = StoredFile
  PROVE  Abstract!Next
<1>1. job'[c] = j /\ Announced(j.header) \in FileTransferHeader
  BY AnnouncedFacts DEF Jobs
<1>2. Abstract!Announce(c)
  BY <1>1 DEF Abstract!Announce
<1> QED
  BY <1>2 DEF Abstract!Next

\* An answer that takes effect is its Decide.
LEMMA ViewDecides ==
  ASSUME NEW c, Clients = {c}, offered # NoHeader, DecisionMade = "none",
         DecisionMade' \in {"accept", "reject", "unwritable"},
         StoredFile' => DecisionMade' = "accept" /\ offered.size = 0,
         UNCHANGED <<job, offered, recv_result>>, SenderPhase(c)' = SenderPhase(c)
  PROVE  Abstract!Next
<1>1. StoredFile' \in {FALSE, DecisionMade' = "accept" /\ offered.size = 0}
  BY DEF StoredFile
<1>2. Abstract!Decide
  BY <1>1 DEF Abstract!Decide
<1> QED
  BY <1>2 DEF Abstract!Next

\* A sender that begins with the body is its Stream.
LEMMA ViewStreams ==
  ASSUME NEW c, Clients = {c}, job[c] # NoJob, offered = Announced(job[c].header),
         DecisionMade = "accept",
         SenderPhase(c) = "waiting", SenderPhase(c)' = "streaming",
         UNCHANGED <<job, offered, recv_result>>,
         DecisionMade' = DecisionMade, StoredFile' = StoredFile
  PROVE  Abstract!Next
<1>1. Abstract!Stream(c)
  BY DEF Abstract!Stream
<1> QED
  BY <1>1 DEF Abstract!Next

\* The file's last byte is its Store.
LEMMA ViewStores ==
  ASSUME NEW c, Clients = {c}, job[c] # NoJob, offered = Announced(job[c].header),
         DecisionMade = "accept", SenderPhase(c) \in {"streaming", "failed"},
         ~StoredFile, StoredFile',
         UNCHANGED <<job, offered, recv_result>>,
         DecisionMade' = DecisionMade, SenderPhase(c)' = SenderPhase(c)
  PROVE  Abstract!Next
<1>1. StoredFile' = TRUE /\ StoredFile = FALSE
  BY DEF StoredFile
<1>2. Abstract!Store
  BY <1>1 DEF Abstract!Store
<1> QED
  BY <1>2 DEF Abstract!Next

\* send_file returns, with one of its three answers.
LEMMA ViewSenderReports ==
  ASSUME NEW c, Clients = {c}, SenderPhase(c) \in {"waiting", "streaming"},
         \/ SenderPhase(c) = "streaming" /\ StoredFile /\ SenderPhase(c)' = "ok"
         \/ /\ SenderPhase(c) = "waiting" /\ DecisionMade \in {"reject", "unwritable"}
            /\ SenderPhase(c)' = "rejected"
         \/ SenderPhase(c)' = "failed",
         UNCHANGED <<job, offered, recv_result>>,
         DecisionMade' = DecisionMade, StoredFile' = StoredFile
  PROVE  Abstract!Next
<1>1. Abstract!SenderReports(c)
  BY DEF Abstract!SenderReports, Abstract!Running
<1> QED
  BY <1>1 DEF Abstract!Next

\* The return of receive_file is its ReceiverReports.
LEMMA ViewReceiverReports ==
  ASSUME NEW c, Clients = {c}, recv_result = "none",
         recv_result' = "false" \/ (recv_result' = "true" /\ StoredFile),
         UNCHANGED <<job, offered>>,
         DecisionMade' = DecisionMade, StoredFile' = StoredFile,
         SenderPhase(c)' = SenderPhase(c)
  PROVE  Abstract!Next
<1>1. Abstract!ReceiverReports
  BY DEF Abstract!ReceiverReports
<1> QED
  BY <1>1 DEF Abstract!Next

-----------------------------------------------------------------------------
(* The sending thread and its own call.                                    *)

\* What leaves the call alone keeps it in order.
LEMMA CallerFrame ==
  ASSUME NEW c, CallerInv(c),
         UNCHANGED <<cpc, send_result, rejected, job, decision, awaiting_decision, cStream>>,
         cFin[c] = "no" => cFin'[c] = "no"
  PROVE  CallerInv(c)'
BY DEF CallerInv, Calling

\* The server does not touch the sender's call.
LEMMA ServerCaller ==
  ASSUME NEW c, Clients = {c}, IInv, CallerInv(c),
         ServerThreadStep \/ ServerCallbackStep(c)
  PROVE  CallerInv(c)'
<1>1. UNCHANGED clientVars
  BY DEF ServerThreadStep, ServerCallbackStep
<1>2. UNCHANGED cStream /\ (cFin[c] = "no" => cFin'[c] = "no")
  <2>1. cFin \in [Clients -> Signals]
    BY DEF IInv, TypeOK, QuicTypeOK
  <2>2. CASE ServerThreadStep
    BY <2>2 DEF ServerThreadStep, ServerThread, ArmReceiving, ArmPath, ArmOffer, ArmReset,
         OfferArrived, OfferFailed, OfferTimeout, PromptReject, PromptAccept, MarkAccepted,
         SendAccept, TransferFinished, TransferFailed, DrainAfterReject, DrainAfterTransfer,
         Stop, StopReturns, quicVars, c2sVars, streamVars
  <2>3. CASE ServerCallbackStep(c)
    BY <2>1, <2>3 DEF ServerCallbackStep, ServerCallback, on_new_connection, on_connected,
         on_connection_shutdown_complete, on_peer_stream_started, on_receive,
         on_peer_send_shutdown, on_send_complete, on_peer_aborted,
         on_stream_shutdown_complete, EnterFileMutex, quicVars, c2sVars, streamVars
  <2> QED
    BY <2>2, <2>3
<1> QED
  BY <1>1, <1>2, CallerFrame DEF clientVars, jobVars, decisionVars

\* The sending thread goes through its call in order.
LEMMA ClientThreadCaller ==
  ASSUME NEW c, Clients = {c}, IInv, FlowInv(c), CallerInv(c), AwaitInv(c),
         ClientThreadStep(c)
  PROVE  CallerInv(c)'
<1>t. /\ c \in Clients /\ cpc \in [Clients -> CpcStates]
      /\ job \in [Clients -> Jobs \cup {NoJob}]
      /\ send_result \in [Clients -> {"none", "ok", "failed", "raw"}]
      /\ rejected \in [Clients -> BOOLEAN] /\ awaiting_decision \in [Clients -> BOOLEAN]
      /\ decision \in [Clients -> {"none", "accepted", "rejected"}]
      /\ cFin \in [Clients -> Signals] /\ cStream \in [Clients -> StreamStates]
  BY DEF IInv, TypeOK, ClientTypeOK, QuicTypeOK
<1>r. cpc[c] = "ready" => cStream[c] = "none" /\ cFin[c] = "no"
  BY DEF FlowInv, Unopened, OpensOnce
<1>j. cpc[c] = "ready" => job[c] = NoJob
  BY DEF FlowInv, Unopened, OpensOnce
<1> USE DEF CallerInv, Calling, BodyStates, Finish, Goto
<1> USE DEF quicVars, c2sVars, s2cVars, streamVars, jobVars, decisionVars
<1>1. CASE Connect(c)
  BY <1>1, <1>t DEF Connect
<1>2. CASE ConnectReturns(c)
  BY <1>2, <1>t DEF ConnectReturns
<1>3. CASE SendHeader(c)
  <2>1. PICK j \in {FileJob(c, name) : name \in RawNames} \cup TestJobs :
          /\ job' = [job EXCEPT ![c] = j]
          /\ FirstSend(c, encode_file_header(j.header), FALSE, "header_wait")
    BY <1>3 DEF SendHeader
  <2>2. j # NoJob
    <3>1. j.header \in FileTransferHeader
      BY <1>t, JobType DEF Jobs, IInv, TypeOK
    <3>2. NoJob.header = None
      BY DEF NoJob
    <3> QED
      BY <3>1, <3>2, NoneAssumption
  <2>3. cFin'[c] = "no" /\ cStream'[c] = "open"
    BY <1>3, <1>r, <1>t, <2>1, ZenonT(60) DEF SendHeader, FirstSend, ClientSends
  <2>4. \/ cpc'[c] = "header_wait" /\ send_result' = send_result
        \/ cpc'[c] = "disconnect" /\ send_result'[c] = "failed"
    BY <1>t, <2>1 DEF FirstSend
  <2>5. job'[c] # NoJob /\ awaiting_decision'[c] /\ ~rejected'[c]
    BY <1>3, <1>t, <2>1, <2>2 DEF SendHeader
  <2>6. send_result[c] = "none"
    BY <1>3 DEF SendHeader
  <2> QED
    BY <2>3, <2>4, <2>5, <2>6
<1>4. CASE SendWithoutConnection(c)
  BY <1>4, <1>t DEF SendWithoutConnection
<1>5. CASE HeaderSent(c)
  BY <1>5, <1>t DEF HeaderSent
<1>6. CASE DecisionAccepted(c)
  BY <1>6, <1>t DEF DecisionAccepted
<1>7. CASE DecisionRejected(c)
  BY <1>7, <1>t DEF DecisionRejected
<1>8. CASE WaitExpires(c)
  BY <1>8, <1>t DEF WaitExpires
<1>9. CASE SendChunk(c)
  BY <1>9, <1>t DEF SendChunk
<1>10. CASE FileShrank(c)
  BY <1>10, <1>t DEF FileShrank
<1>11. CASE ChunkSent(c)
  BY <1>11, <1>t DEF ChunkSent
<1>12. CASE SendReturns(c)
  BY <1>12, <1>t DEF SendReturns
<1>13. CASE SendRaw(c)
  <2>1. PICK b \in Bytes : FirstSend(c, [i \in 1..JunkLength |-> b], TRUE, "raw_wait")
    BY <1>13 DEF SendRaw
  <2>2. cStream'[c] = "open"
    BY <1>t, <2>1 DEF FirstSend
  <2>3. \/ cpc'[c] = "raw_wait" /\ send_result' = send_result
        \/ cpc'[c] = "disconnect" /\ send_result'[c] = "failed"
    BY <1>t, <2>1 DEF FirstSend
  <2>4. send_result[c] = "none" /\ ~rejected'[c]
    BY <1>13, <1>t DEF SendRaw
  <2> QED
    BY <2>2, <2>3, <2>4
<1>14. CASE RawReturns(c)
  BY <1>14, <1>t DEF RawReturns
<1>15. CASE Disconnect(c)
  BY <1>15, <1>t DEF Disconnect
<1>16. CASE DisconnectReturns(c)
  BY <1>16, <1>t DEF DisconnectReturns
<1> QED
  BY <1>1, <1>2, <1>3, <1>4, <1>5, <1>6, <1>7, <1>8, <1>9, <1>10, <1>11, <1>12, <1>13,
     <1>14, <1>15, <1>16 DEF ClientThreadStep, ClientThread

\* The client's callbacks tell it the answer and nothing else.
LEMMA ClientCallbackCaller ==
  ASSUME NEW c, Clients = {c}, IInv, FlowInv(c), CallerInv(c), ClientCallbackStep(c)
  PROVE  CallerInv(c)'
<1>t. /\ c \in Clients /\ awaiting_decision \in [Clients -> BOOLEAN]
      /\ decision \in [Clients -> {"none", "accepted", "rejected"}]
      /\ cStream \in [Clients -> StreamStates]
      /\ UNCHANGED <<cpc, send_result, rejected, job>> /\ UNCHANGED cFin
  BY DEF IInv, TypeOK, ClientTypeOK, QuicTypeOK, ClientCallbackStep, ClientCallback,
         OnConnected, OnShutdownInitiated, OnConnectionShutdownComplete, OnReceive,
         OnPeerSendShutdown, OnSendComplete, OnStreamShutdownComplete,
         clientVars, jobVars, c2sVars
<1>s. CASE UNCHANGED <<decision, awaiting_decision, cStream>>
  BY <1>t, <1>s, CallerFrame
<1> USE DEF decisionVars, streamVars
<1>1. CASE OnConnected(c)
  BY <1>1, <1>s DEF OnConnected
<1>2. CASE OnShutdownInitiated(c)
  BY <1>2, <1>s DEF OnShutdownInitiated
<1>3. CASE OnConnectionShutdownComplete(c)
  BY <1>3, <1>s DEF OnConnectionShutdownComplete
<1>4. CASE OnReceive(c)
  <2>1. PICK text :
          /\ awaiting_decision' = [awaiting_decision EXCEPT
               ![c] = @ /\ ~(awaiting_decision[c] /\ ReplyComplete(text))]
          /\ decision' = [decision EXCEPT
               ![c] = IF awaiting_decision[c] /\ ReplyComplete(text) THEN Resolved(text) ELSE @]
    BY <1>4 DEF OnReceive
  <2>2. Resolved(text) # "none"
    BY DEF Resolved
  <2>3. \/ awaiting_decision'[c] = awaiting_decision[c] /\ decision'[c] = decision[c]
        \/ decision'[c] # "none"
    BY <1>t, <2>1, <2>2
  <2>4. cStream'[c] = cStream[c] /\ cStream[c] # "none"
    BY <1>4 DEF OnReceive, ClientHears
  <2> QED
    BY <1>t, <2>3, <2>4 DEF CallerInv, Calling
<1>5. CASE OnPeerSendShutdown(c)
  <2>1. \/ UNCHANGED <<awaiting_decision, decision>>
        \/ decision'[c] # "none"
    BY <1>5, <1>t DEF OnPeerSendShutdown, Resolved
  <2>2. cStream' = cStream /\ cStream[c] # "none"
    BY <1>5 DEF OnPeerSendShutdown, ClientHears
  <2> QED
    BY <1>t, <2>1, <2>2 DEF CallerInv, Calling
<1>6. CASE OnSendComplete(c)
  BY <1>6, <1>s DEF OnSendComplete
<1>7. CASE OnStreamShutdownComplete(c)
  <2>1. cStream'[c] = "closed" /\ UNCHANGED <<decision, awaiting_decision>>
    BY <1>7, <1>t DEF OnStreamShutdownComplete, clientVars
  <2> QED
    BY <1>t, <2>1 DEF CallerInv, Calling
<1> QED
  BY <1>1, <1>2, <1>3, <1>4, <1>5, <1>6, <1>7 DEF ClientCallbackStep, ClientCallback

-----------------------------------------------------------------------------
(* The receiving side keeps the agreement.                                 *)

\* The decision stands as long as the answer and the output do.
LEMMA DecisionStays ==
  ASSUME UNCHANGED answer, answer = "none" \/ (rx'.out = "null" <=> rx.out = "null")
  PROVE  DecisionMade' = DecisionMade
BY DEF DecisionMade

\* What the two sides agree on stays agreed if the server makes no decision and
\* sends none.
LEMMA ServerAgreeFrame ==
  ASSUME NEW c, AwaitInv(c), DecidedInv(c), AskedInv, UNCHANGED clientVars,
         UNCHANGED answer, answer = "none" \/ (rx'.out = "null" <=> rx.out = "null"),
         cFin[c] = "no" => cFin'[c] = "no",
         awaiting_decision[c] => s2c'[c] = s2c[c] /\ sFin'[c] = sFin[c],
         rpc' \in Accepting => rpc \in Accepting,
         offered' # offered => answer = "none"
  PROVE  AwaitInv(c)' /\ DecidedInv(c)'
<1>1. DecisionMade' = DecisionMade
  BY DecisionStays
<1>2. rpc' \in Accepting => (rx'.out = "null" <=> rx.out = "null")
  BY DEF AskedInv, Accepting
<1> QED
  BY <1>1, <1>2 DEF AwaitInv, DecidedInv, clientVars, decisionVars

\* The answer of the user is what goes to the waiting sender.
LEMMA AnswerAgrees ==
  ASSUME NEW c, Clients = {c}, IInv, FlowInv(c), AskedInv, AwaitInv(c), DecidedInv(c),
         UNCHANGED <<clientVars, cFin, offered>>, rpc = "prompt",
         \/ /\ DecisionMade' \in {"reject", "unwritable"} /\ rpc' \notin Accepting
            /\ SendReject
         \/ /\ DecisionMade' = "accept" /\ rpc' = "accept_flag" /\ rx'.out # "null"
            /\ UNCHANGED s2cVars
  PROVE  AwaitInv(c)' /\ DecidedInv(c)'
<1>t. QuicTypeOK /\ c \in Clients /\ decision_buf[c] \in Seq(Fragments)
      /\ decision[c] \in {"none", "accepted", "rejected"}
  BY DEF IInv, TypeOK, ClientTypeOK
<1>1. DecisionMade = "none" /\ offered # NoHeader
  BY DEF AskedInv, Accepting, DecisionMade, FlowInv, PhaseInv, Engaged
<1>2. decision[c] = "none" /\ cpc[c] \notin BodyStates
  BY <1>t, <1>1 DEF DecidedInv
<1>3. DecidedInv(c)'
  BY <1>1, <1>2 DEF DecidedInv, clientVars, decisionVars
<1>4. awaiting_decision[c] => decision_buf[c] \o s2c[c] = <<>> /\ sFin[c] = "no"
  BY <1>1 DEF AwaitInv
<1>5. CASE SendReject
  <2>1. ServerSends(file_stream, "REJECT", TRUE) \/ UNCHANGED <<s2cVars, sSends>>
    BY <1>5 DEF SendReject
  <2>2. "REJECT" \in Words
    BY DEF Words
  <2>3. awaiting_decision[c] => decision_buf[c] \o s2c'[c] \in {<<>>, ReplyText("REJECT")}
    BY <1>4, <1>t, <2>1, <2>2, FirstReply
  <2>4. CASE DecisionMade' \in {"reject", "unwritable"} /\ rpc' \notin Accepting
    BY <1>3, <2>3, <2>4 DEF AwaitInv, clientVars, decisionVars
  <2>5. CASE UNCHANGED s2cVars /\ DecisionMade' = "accept"
    BY <1>3, <1>4, <2>5 DEF AwaitInv, clientVars, decisionVars, s2cVars
  <2> QED
    BY <2>4, <2>5
<1>6. CASE DecisionMade' = "accept" /\ UNCHANGED s2cVars
  BY <1>3, <1>4, <1>6 DEF AwaitInv, clientVars, decisionVars, s2cVars
<1> QED
  BY <1>5, <1>6

\* The thread in receive_file sends the decision that was made.
LEMMA ServerThreadAgrees ==
  ASSUME NEW c, Clients = {c}, IInv, FlowInv(c), AskedInv, AwaitInv(c), DecidedInv(c),
         ServerThreadStep
  PROVE  AwaitInv(c)' /\ DecidedInv(c)'
<1>t. /\ rx \in RxState /\ UNCHANGED clientVars
      /\ rpc \in Arming \cup {"offer_wait", "prompt"} => answer = "none"
  BY DEF IInv, TypeOK, ServerTypeOK, ServerThreadStep, AskedInv, Accepting
<1> USE DEF Return, Accepting
<1> USE DEF quicVars, c2sVars, s2cVars
<1>1. CASE ArmReceiving
  BY <1>1, <1>t, ServerAgreeFrame DEF ArmReceiving
<1>2. CASE ArmPath
  BY <1>2, <1>t, ServerAgreeFrame DEF ArmPath, Arming
<1>3. CASE ArmOffer
  BY <1>3, <1>t, ServerAgreeFrame DEF ArmOffer
<1>4. CASE ArmReset
  BY <1>4, <1>t, ServerAgreeFrame DEF ArmReset, Arming
<1>5. CASE OfferArrived
  BY <1>5, <1>t, ServerAgreeFrame DEF OfferArrived
<1>6. CASE OfferFailed
  BY <1>6, <1>t, ServerAgreeFrame DEF OfferFailed
<1>7. CASE OfferTimeout
  BY <1>7, <1>t, ServerAgreeFrame DEF OfferTimeout
<1>8. CASE PromptReject
  <2>1. DecisionMade' = "reject"
    BY <1>8 DEF PromptReject, DecisionMade
  <2> QED
    BY <1>8, <1>t, <2>1, AnswerAgrees DEF PromptReject
<1>9. CASE PromptAccept
  <2>1. PICK opened \in OpenOutcomes(rx.path) :
          /\ rpc' = IF opened THEN "accept_flag" ELSE "reject_locked"
          /\ rx' = OpenedRx(rx, opened)
          /\ IF opened THEN UNCHANGED <<s2cVars, sSends>> ELSE SendReject
    BY <1>9 DEF PromptAccept
  <2>2. rx'.out = IF opened THEN "open" ELSE "null"
    BY <1>t, <2>1 DEF OpenedRx, RxState
  <2>3. answer' = "accept"
    BY <1>9 DEF PromptAccept
  <2>4. DecisionMade' = IF opened THEN "accept" ELSE "unwritable"
    BY <2>2, <2>3 DEF DecisionMade
  <2> QED
    BY <1>9, <1>t, <2>1, <2>2, <2>4, AnswerAgrees DEF PromptAccept
<1>10. CASE SendAccept
  <2>1. DecisionMade = "accept" /\ DecisionMade' = "accept"
    BY <1>10 DEF SendAccept, AskedInv, Accepting, DecidedInv, DecisionMade
  <2>2. "ACCEPT" \in Words
    BY DEF Words
  <2>3. ServerSends(file_stream, "ACCEPT", FALSE) \/ UNCHANGED <<s2cVars, sSends>>
    BY <1>10 DEF SendAccept
  <2>4. QuicTypeOK /\ c \in Clients /\ decision_buf[c] \in Seq(Fragments)
    BY DEF IInv, TypeOK, ClientTypeOK
  <2>5. awaiting_decision[c] => decision_buf[c] \o s2c[c] = <<>> /\ sFin[c] = "no"
    BY <1>10 DEF SendAccept, AwaitInv
  <2>6. awaiting_decision[c] =>
          decision_buf[c] \o s2c'[c] \in {<<>>, ReplyText("ACCEPT")} /\ sFin'[c] = "no"
    BY <2>2, <2>3, <2>4, <2>5, FirstReply
  <2>7. AwaitInv(c)'
    BY <1>10, <1>t, <2>1, <2>6 DEF SendAccept, AwaitInv, clientVars, decisionVars
  <2> QED
    BY <1>10, <1>t, <2>1, <2>7 DEF SendAccept, DecidedInv, clientVars, decisionVars
<1>11. CASE TransferFinished
  BY <1>11, <1>t, ServerAgreeFrame DEF TransferFinished
<1>12. CASE TransferFailed
  <2>1. rx'.out = "null" <=> rx.out = "null"
    BY <1>12, <1>t, CloseFacts DEF TransferFailed
  <2> QED
    BY <1>12, <1>t, <2>1, ServerAgreeFrame DEF TransferFailed
<1>13. CASE DrainAfterReject
  BY <1>13, <1>t, ServerAgreeFrame DEF DrainAfterReject
<1>14. CASE DrainAfterTransfer
  BY <1>14, <1>t, ServerAgreeFrame DEF DrainAfterTransfer
<1>15. CASE Stop
  BY <1>15, <1>t, ServerAgreeFrame DEF Stop
<1>16. CASE StopReturns
  BY <1>16, <1>t, ServerAgreeFrame DEF StopReturns
<1>17. CASE MarkAccepted
  <2>1. rx'.out = rx.out
    BY <1>17, <1>t DEF MarkAccepted, RxState
  <2> QED
    BY <1>17, <1>t, <2>1, ServerAgreeFrame DEF MarkAccepted
<1> QED
  BY <1>1, <1>2, <1>3, <1>4, <1>5, <1>6, <1>7, <1>8, <1>9, <1>10, <1>11, <1>12, <1>13,
     <1>14, <1>15, <1>16, <1>17 DEF ServerThreadStep, ServerThread

\* The callbacks of a server that prompts make no decision.
LEMMA ServerCallbackAgrees ==
  ASSUME NEW c, Clients = {c}, Prompt, IInv, FlowInv(c), AskedInv, AwaitInv(c),
         DecidedInv(c), ServerCallbackStep(c)
  PROVE  AwaitInv(c)' /\ DecidedInv(c)'
<1>1. UNCHANGED clientVars /\ UNCHANGED <<answer, offered, rpc>>
  BY DEF ServerCallbackStep, ServerCallback, on_new_connection, on_connected,
         on_connection_shutdown_complete, on_peer_stream_started, on_receive,
         on_peer_send_shutdown, on_send_complete, on_peer_aborted,
         on_stream_shutdown_complete, EnterFileMutex, serverVars, flowVars
<1>2. awaiting_decision[c] => cFin[c] = "no"
  BY DEF AwaitInv
<1> QED
  BY <1>1, <1>2, CallbackQuiet, ServerAgreeFrame

-----------------------------------------------------------------------------
(* So does the sender, who reads the decision piece by piece.              *)

\* A sender that reads nothing learns nothing new.
LEMMA ClientAgreeFrame ==
  ASSUME NEW c, AwaitInv(c), DecidedInv(c), UNCHANGED serverVars,
         UNCHANGED <<decisionVars, s2c, sFin>>,
         awaiting_decision[c] => cFin'[c] = cFin[c],
         cpc'[c] \in BodyStates => cpc[c] \in BodyStates \/ decision[c] = "accepted"
  PROVE  AwaitInv(c)' /\ DecidedInv(c)'
<1>1. DecisionMade' = DecisionMade
  BY DecisionStays DEF serverVars, flowVars
<1> QED
  BY <1>1 DEF AwaitInv, DecidedInv, serverVars, flowVars, decisionVars

\* A sending thread goes on with the body only if it was accepted.
LEMMA ClientThreadAgrees ==
  ASSUME NEW c, Clients = {c}, IInv, FlowInv(c), CallerInv(c), AwaitInv(c), DecidedInv(c),
         ClientThreadStep(c)
  PROVE  AwaitInv(c)' /\ DecidedInv(c)'
<1>t. /\ c \in Clients /\ cpc \in [Clients -> CpcStates] /\ UNCHANGED serverVars
      /\ cFin \in [Clients -> Signals]
  BY DEF IInv, TypeOK, ClientTypeOK, QuicTypeOK, ClientThreadStep
<1>r. cpc[c] = "ready" => /\ cStream[c] = "none" /\ sStream[c] = "none" /\ cFin[c] = "no"
                          /\ s2c[c] = <<>> /\ sFin[c] = "no" /\ ~awaiting_decision[c]
                          /\ rpc \notin Accepting
  BY DEF FlowInv, Unopened, OpensOnce, Unheard, CallerInv, Engaged, Accepting
<1>b. cpc[c] \in BodyStates => ~awaiting_decision[c]
  BY DEF AwaitInv
<1> USE DEF BodyStates, Finish, Goto
<1> USE DEF quicVars, c2sVars, s2cVars
<1>1. CASE Connect(c)
  BY <1>1, <1>t, ClientAgreeFrame DEF Connect
<1>2. CASE ConnectReturns(c)
  BY <1>2, <1>t, ClientAgreeFrame DEF ConnectReturns
<1>3. CASE SendHeader(c)
  <2>1. PICK j \in {FileJob(c, name) : name \in RawNames} \cup TestJobs :
          FirstSend(c, encode_file_header(j.header), FALSE, "header_wait")
    BY <1>3 DEF SendHeader
  <2>2. cFin'[c] = "no" /\ cpc'[c] \in {"header_wait", "disconnect"}
    BY <1>3, <1>r, <1>t, <2>1 DEF SendHeader, FirstSend, ClientSends
  <2>3. /\ decision_buf'[c] = <<>> /\ decision'[c] = "none"
        /\ s2c'[c] = <<>> /\ sFin'[c] = "no"
    <3>1. /\ decision_buf \in [Clients -> Seq(Fragments)]
          /\ decision \in [Clients -> {"none", "accepted", "rejected"}]
      BY DEF IInv, TypeOK, ClientTypeOK
    <3> QED
      BY <1>3, <1>r, <1>t, <3>1 DEF SendHeader
  <2>4. decision_buf'[c] \o s2c'[c] = <<>>
    BY <2>3, EmptySeq, ConcatEmptySeq
  <2>5. DecisionMade' = DecisionMade
    BY <1>t, DecisionStays DEF serverVars, flowVars
  <2>6. AwaitInv(c)'
    BY <2>2, <2>3, <2>4 DEF AwaitInv
  <2> QED
    BY <1>t, <2>2, <2>3, <2>5, <2>6 DEF DecidedInv, serverVars, flowVars
<1>4. CASE SendWithoutConnection(c)
  BY <1>4, <1>t, ClientAgreeFrame DEF SendWithoutConnection
<1>5. CASE HeaderSent(c)
  BY <1>5, <1>t, ClientAgreeFrame DEF HeaderSent
<1>6. CASE DecisionAccepted(c)
  BY <1>6, <1>t, ClientAgreeFrame DEF DecisionAccepted
<1>7. CASE DecisionRejected(c)
  BY <1>7, <1>t, ClientAgreeFrame DEF DecisionRejected
<1>8. CASE WaitExpires(c)
  BY <1>8, <1>t, ClientAgreeFrame DEF WaitExpires
<1>9. CASE SendChunk(c)
  BY <1>9, <1>t, <1>b, ClientAgreeFrame DEF SendChunk
<1>10. CASE FileShrank(c)
  BY <1>10, <1>t, ClientAgreeFrame DEF FileShrank
<1>11. CASE ChunkSent(c)
  BY <1>11, <1>t, ClientAgreeFrame DEF ChunkSent
<1>12. CASE SendReturns(c)
  BY <1>12, <1>t, ClientAgreeFrame DEF SendReturns
<1>13. CASE SendRaw(c)
  <2>1. PICK b \in Bytes : FirstSend(c, [i \in 1..JunkLength |-> b], TRUE, "raw_wait")
    BY <1>13 DEF SendRaw
  <2>2. cpc'[c] \notin BodyStates
    BY <1>t, <2>1 DEF FirstSend
  <2> QED
    BY <1>13, <1>t, <1>r, <2>2, ClientAgreeFrame DEF SendRaw
<1>14. CASE RawReturns(c)
  BY <1>14, <1>t, ClientAgreeFrame DEF RawReturns
<1>15. CASE Disconnect(c)
  BY <1>15, <1>t, ClientAgreeFrame DEF Disconnect
<1>16. CASE DisconnectReturns(c)
  BY <1>16, <1>t, ClientAgreeFrame DEF DisconnectReturns
<1> QED
  BY <1>1, <1>2, <1>3, <1>4, <1>5, <1>6, <1>7, <1>8, <1>9, <1>10, <1>11, <1>12, <1>13,
     <1>14, <1>15, <1>16 DEF ClientThreadStep, ClientThread

\* What the client's callbacks read is the decision that was sent.
LEMMA ClientCallbackAgrees ==
  ASSUME NEW c, Clients = {c}, IInv, AwaitInv(c), DecidedInv(c), ClientCallbackStep(c)
  PROVE  AwaitInv(c)' /\ DecidedInv(c)'
<1>t. /\ c \in Clients /\ UNCHANGED serverVars
      /\ awaiting_decision \in [Clients -> BOOLEAN]
      /\ decision \in [Clients -> {"none", "accepted", "rejected"}]
      /\ decision_buf \in [Clients -> Seq(Fragments)] /\ s2c \in [Clients -> Seq(Fragments)]
      /\ answer \in {"none", "accept", "reject"}
  BY DEF IInv, TypeOK, ServerTypeOK, ClientTypeOK, QuicTypeOK, ClientCallbackStep
<1>m. DecisionMade' = DecisionMade
  BY <1>t, DecisionStays DEF serverVars, flowVars
<1>d. DecisionMade \in {"none", "accept", "reject", "unwritable"}
  BY <1>t DEF DecisionMade
<1>w. "ACCEPT" \in Words /\ "REJECT" \in Words
  BY DEF Words
<1> USE DEF c2sVars, s2cVars
<1>1. CASE OnConnected(c)
  BY <1>1, <1>t, ClientAgreeFrame DEF OnConnected
<1>2. CASE OnShutdownInitiated(c)
  BY <1>2, <1>t, ClientAgreeFrame DEF OnShutdownInitiated
<1>3. CASE OnConnectionShutdownComplete(c)
  BY <1>3, <1>t, ClientAgreeFrame DEF OnConnectionShutdownComplete
<1>4. CASE OnReceive(c)
  <2>1. PICK n \in 1..Len(s2c[c]) :
          LET text == decision_buf[c] \o SubSeq(s2c[c], 1, n)
              now  == awaiting_decision[c] /\ ReplyComplete(text)
          IN /\ s2c' = [s2c EXCEPT ![c] = SubSeq(@, n + 1, Len(@))]
             /\ IF awaiting_decision[c]
                THEN decision_buf' = [decision_buf EXCEPT ![c] = text]
                ELSE UNCHANGED decision_buf
             /\ awaiting_decision' = [awaiting_decision EXCEPT ![c] = @ /\ ~now]
             /\ decision' = [decision EXCEPT ![c] = IF now THEN Resolved(text) ELSE @]
    BY <1>4 DEF OnReceive
  <2> DEFINE text == decision_buf[c] \o SubSeq(s2c[c], 1, n)
             rest == SubSeq(s2c[c], n + 1, Len(s2c[c]))
  <2>2. text \in Seq(Fragments) /\ rest \in Seq(Fragments)
    BY <1>t, SplitType, ConcatProperties
  <2>3. text \o rest = decision_buf[c] \o s2c[c]
    BY <1>t, ReadKeeps
  <2>4. /\ s2c'[c] = rest
        /\ awaiting_decision[c] => decision_buf'[c] = text
        /\ awaiting_decision'[c] <=> awaiting_decision[c] /\ ~ReplyComplete(text)
        /\ decision'[c] = IF awaiting_decision[c] /\ ReplyComplete(text)
                          THEN Resolved(text) ELSE decision[c]
    BY <1>t, <2>1
  <2> HIDE DEF text, rest
  <2>5. UNCHANGED <<cpc, cFin, sFin, rpc, answer, offered>> /\ UNCHANGED rx
    BY <1>4, <1>t DEF OnReceive, serverVars, flowVars
  <2>6. AwaitInv(c)'
    BY <1>m, <2>3, <2>4, <2>5 DEF AwaitInv
  <2>7. CASE ~(awaiting_decision[c] /\ ReplyComplete(text))
    BY <1>m, <2>4, <2>5, <2>6, <2>7 DEF DecidedInv
  <2>8. CASE awaiting_decision[c] /\ ReplyComplete(text)
    <3>1. text # <<>>
      BY <2>8 DEF ReplyComplete, HasNewline
    <3>2. text \o rest # <<>>
      BY <2>2, <3>1, ConcatSimplifications
    <3>3. PICK word \in Words : /\ text \o rest = ReplyText(word)
                                /\ \/ word = "ACCEPT" /\ DecisionMade = "accept"
                                   \/ /\ word = "REJECT"
                                      /\ DecisionMade \in {"reject", "unwritable"}
      BY <1>d, <1>w, <2>3, <2>8, <3>2 DEF AwaitInv
    <3>4. text = ReplyText(word)
      BY <2>2, <2>8, <3>3, CompleteIsWhole DEF ReplyComplete
    <3>5. \/ decision'[c] = "accepted" /\ DecisionMade = "accept"
          \/ decision'[c] = "rejected" /\ DecisionMade \in {"reject", "unwritable"}
      BY <2>4, <2>8, <3>3, <3>4, ResolvesReply
    <3>6. cpc'[c] \notin BodyStates
      BY <2>5, <2>8 DEF AwaitInv
    <3> QED
      BY <1>m, <2>5, <2>6, <3>5, <3>6 DEF DecidedInv
  <2> QED
    BY <2>7, <2>8
<1>5. CASE OnPeerSendShutdown(c)
  <2>1. /\ s2c[c] = <<>> /\ sFin[c] = "sent"
        /\ UNCHANGED <<cpc, cFin, s2c, decision_buf>> /\ UNCHANGED <<rpc, answer, offered, rx>>
    BY <1>5, <1>t DEF OnPeerSendShutdown, serverVars, flowVars
  <2>2. /\ ~awaiting_decision'[c]
        /\ decision'[c] = IF awaiting_decision[c] THEN Resolved(decision_buf[c])
                                                  ELSE decision[c]
    BY <1>5, <1>t DEF OnPeerSendShutdown
  <2>3. CASE ~awaiting_decision[c]
    BY <1>m, <2>1, <2>2, <2>3 DEF AwaitInv, DecidedInv
  <2>4. CASE awaiting_decision[c]
    <3>1. DecisionMade \in {"reject", "unwritable"}
      BY <1>d, <2>1, <2>4 DEF AwaitInv
    <3>2. decision_buf[c] \o s2c[c] = decision_buf[c]
      BY <1>t, <2>1, ConcatEmptySeq
    <3>3. decision_buf[c] \in {<<>>, ReplyText("REJECT")}
      BY <2>4, <3>1, <3>2 DEF AwaitInv
    <3>4. decision'[c] = "rejected"
      BY <2>2, <2>4, <3>3, ResolvesReply
    <3>5. cpc'[c] \notin BodyStates
      BY <2>1, <2>4 DEF AwaitInv
    <3> QED
      BY <1>m, <2>1, <2>2, <3>1, <3>4, <3>5 DEF AwaitInv, DecidedInv
  <2> QED
    BY <2>3, <2>4
<1>6. CASE OnSendComplete(c)
  BY <1>6, <1>t, ClientAgreeFrame DEF OnSendComplete
<1>7. CASE OnStreamShutdownComplete(c)
  BY <1>7, <1>t, ClientAgreeFrame DEF OnStreamShutdownComplete, clientVars
<1> QED
  BY <1>1, <1>2, <1>3, <1>4, <1>5, <1>6, <1>7 DEF ClientCallbackStep, ClientCallback

-----------------------------------------------------------------------------
(* How far the sender has got.                                             *)

\* How far a sender is, by where its thread is, ...
LEMMA PhaseFacts ==
  ASSUME NEW c, CallerInv(c), send_result[c] \in {"none", "ok", "failed", "raw"}
  PROVE  /\ cpc[c] \in BodyStates => SenderPhase(c) = "streaming"
         /\ Calling(c) /\ cpc[c] \notin BodyStates => SenderPhase(c) = "waiting"
         /\ ~Calling(c) /\ rejected[c] => SenderPhase(c) = "rejected"
         /\ ~Calling(c) /\ ~rejected[c] /\ send_result[c] = "ok" => SenderPhase(c) = "ok"
         /\ ~Calling(c) /\ ~rejected[c] /\ send_result[c] # "ok" => SenderPhase(c) = "failed"
BY DEF CallerInv, SenderPhase, Calling, BodyStates

\* ... also after the step.
LEMMA NextPhaseFacts ==
  ASSUME NEW c, CallerInv(c)', send_result'[c] \in {"none", "ok", "failed", "raw"}
  PROVE  /\ cpc'[c] \in BodyStates => SenderPhase(c)' = "streaming"
         /\ Calling(c)' /\ cpc'[c] \notin BodyStates => SenderPhase(c)' = "waiting"
         /\ ~Calling(c)' /\ rejected'[c] => SenderPhase(c)' = "rejected"
         /\ ~Calling(c)' /\ ~rejected'[c] /\ send_result'[c] = "ok" => SenderPhase(c)' = "ok"
         /\ ~Calling(c)' /\ ~rejected'[c] /\ send_result'[c] # "ok" => SenderPhase(c)' = "failed"
BY DEF CallerInv, SenderPhase, Calling, BodyStates

\* A sender whose thread stays where it is is as far as before.
LEMMA PhaseStays ==
  ASSUME NEW c, UNCHANGED <<cpc, rejected, send_result>>
  PROVE  SenderPhase(c)' = SenderPhase(c)
BY DEF SenderPhase

\* What every step of the sending thread makes of it.
LEMMA ThreadPhase ==
  ASSUME NEW c, Clients = {c}, IInv, CallerInv(c), CallerInv(c)', ClientThreadStep(c)
  PROVE  \/ SenderPhase(c)' = SenderPhase(c) /\ UNCHANGED <<job, c2s>>
         \/ SendHeader(c) /\ SenderPhase(c) = "waiting" /\ SenderPhase(c)' \in {"waiting", "failed"}
         \/ SendRaw(c) /\ SenderPhase(c) = "waiting" /\ SenderPhase(c)' \in {"waiting", "failed"}
         \/ /\ DecisionAccepted(c) /\ UNCHANGED <<job, c2s>>
            /\ SenderPhase(c) = "waiting" /\ SenderPhase(c)' = "streaming"
         \/ /\ DecisionRejected(c) /\ UNCHANGED <<job, c2s>>
            /\ SenderPhase(c) = "waiting" /\ SenderPhase(c)' = "rejected"
         \/ /\ SendReturns(c) /\ ack[c] = "ok" /\ UNCHANGED <<job, c2s>>
            /\ SenderPhase(c) = "streaming" /\ SenderPhase(c)' = "ok"
         \/ /\ SenderPhase(c) \in {"waiting", "streaming"} /\ SenderPhase(c)' = "failed"
            /\ UNCHANGED <<job, c2s>>
         \/ /\ SendChunk(c) /\ UNCHANGED job
            /\ SenderPhase(c) = "streaming" /\ SenderPhase(c)' \in {"streaming", "failed"}
<1>t. /\ c \in Clients /\ cpc \in [Clients -> CpcStates]
      /\ send_result \in [Clients -> {"none", "ok", "failed", "raw"}]
      /\ rejected \in [Clients -> BOOLEAN]
  BY DEF IInv, TypeOK, ClientTypeOK
<1>p. /\ cpc[c] \in BodyStates => SenderPhase(c) = "streaming"
      /\ Calling(c) /\ cpc[c] \notin BodyStates => SenderPhase(c) = "waiting"
  BY <1>t, PhaseFacts
<1>q. ASSUME send_result'[c] \in {"none", "ok", "failed", "raw"}
      PROVE  /\ cpc'[c] \in BodyStates => SenderPhase(c)' = "streaming"
             /\ Calling(c)' /\ cpc'[c] \notin BodyStates => SenderPhase(c)' = "waiting"
             /\ ~Calling(c)' /\ rejected'[c] => SenderPhase(c)' = "rejected"
             /\ ~Calling(c)' /\ ~rejected'[c] /\ send_result'[c] = "ok" =>
                  SenderPhase(c)' = "ok"
             /\ ~Calling(c)' /\ ~rejected'[c] /\ send_result'[c] # "ok" =>
                  SenderPhase(c)' = "failed"
  BY <1>q, NextPhaseFacts
\* The sending thread goes on.
<1>g. ASSUME NEW from \in CpcStates, cpc[c] = from, NEW label \in CpcStates, Goto(c, label),
             UNCHANGED send_result,
             from \notin {"disconnect", "shutdown_wait", "done"},
             label \notin {"disconnect", "shutdown_wait", "done"},
             from \in BodyStates <=> label \in BodyStates
      PROVE  SenderPhase(c)' = SenderPhase(c)
  BY <1>g, <1>t, <1>p, <1>q DEF Goto, Calling
\* It gives up.
<1>f. ASSUME cpc[c] \notin {"disconnect", "shutdown_wait", "done"}, Finish(c, "failed"),
             UNCHANGED rejected
      PROVE  SenderPhase(c) \in {"waiting", "streaming"} /\ SenderPhase(c)' = "failed"
  BY <1>f, <1>t, <1>p, <1>q DEF Finish, Goto, Calling, CallerInv
<1>s. ASSUME NEW units, NEW fin, NEW label \in {"header_wait", "raw_wait"},
             FirstSend(c, units, fin, label), cpc[c] = "ready", ~rejected'[c]
      PROVE  SenderPhase(c) = "waiting" /\ SenderPhase(c)' \in {"waiting", "failed"}
  <2>1. \/ cpc'[c] = label /\ send_result' = send_result
        \/ cpc'[c] = "disconnect" /\ send_result'[c] = "failed"
    BY <1>s, <1>t DEF FirstSend, Finish, Goto
  <2> QED
    BY <1>s, <1>t, <1>p, <1>q, <2>1 DEF Calling, BodyStates
<1> USE DEF quicVars, c2sVars, jobVars, BodyStates, CpcStates
<1>1. CASE Connect(c)
  BY <1>1, <1>g DEF Connect
<1>2. CASE ConnectReturns(c)
  BY <1>2, <1>g, <1>f DEF ConnectReturns
<1>3. CASE SendHeader(c)
  BY <1>3, <1>s, <1>t DEF SendHeader
<1>4. CASE SendWithoutConnection(c)
  BY <1>4, <1>f DEF SendWithoutConnection
<1>5. CASE HeaderSent(c)
  BY <1>5, <1>g DEF HeaderSent
<1>6. CASE DecisionAccepted(c)
  BY <1>6, <1>t, <1>p, <1>q DEF DecisionAccepted, Goto, Calling
<1>7. CASE DecisionRejected(c)
  BY <1>7, <1>t, <1>p, <1>q DEF DecisionRejected, Finish, Goto, Calling
<1>8. CASE WaitExpires(c)
  BY <1>8, <1>f DEF WaitExpires
<1>9. CASE SendChunk(c)
  <2>1. \/ cpc'[c] = "chunk_wait" /\ send_result' = send_result
        \/ cpc'[c] = "disconnect" /\ send_result'[c] = "failed" /\ UNCHANGED rejected
    BY <1>9, <1>t DEF SendChunk, Finish, Goto
  <2>2. SenderPhase(c) = "streaming" /\ ~rejected[c]
    BY <1>9, <1>p DEF SendChunk, CallerInv, Calling
  <2>3. SenderPhase(c)' \in {"streaming", "failed"}
    BY <1>t, <1>q, <2>1, <2>2 DEF Calling
  <2> QED
    BY <1>9, <2>2, <2>3 DEF SendChunk
<1>10. CASE FileShrank(c)
  BY <1>10, <1>f DEF FileShrank
<1>11. CASE ChunkSent(c)
  BY <1>11, <1>g DEF ChunkSent
<1>12. CASE SendReturns(c)
  <2>1. CASE AckedOk(c) /\ Finish(c, "ok")
    BY <1>12, <1>t, <1>p, <1>q, <2>1
       DEF SendReturns, AckedOk, Finish, Goto, Calling, CallerInv
  <2>2. CASE Finish(c, "failed")
    BY <1>12, <1>f, <2>2 DEF SendReturns
  <2> QED
    BY <1>12, <2>1, <2>2 DEF SendReturns
<1>13. CASE SendRaw(c)
  BY <1>13, <1>s, <1>t DEF SendRaw
<1>14. CASE RawReturns(c)
  <2>1. CASE Goto(c, "raw_ack_wait") /\ cpc[c] = "raw_wait"
    BY <1>14, <1>g, <2>1 DEF RawReturns
  <2>2. CASE Finish(c, "raw") /\ cpc[c] = "raw_ack_wait"
    BY <1>14, <1>t, <1>p, <1>q, <2>2 DEF RawReturns, Finish, Goto, Calling, CallerInv
  <2> QED
    BY <1>14, <2>1, <2>2 DEF RawReturns
<1>15. CASE Disconnect(c)
  <2>1. /\ ~Calling(c) /\ ~Calling(c)' /\ UNCHANGED <<rejected, send_result, job, c2s>>
    BY <1>15, <1>t DEF Disconnect, Calling, Goto
  <2> QED
    BY <1>t, <1>q, <2>1, PhaseFacts
<1>16. CASE DisconnectReturns(c)
  <2>1. /\ ~Calling(c) /\ ~Calling(c)' /\ UNCHANGED <<rejected, send_result, job, c2s>>
    BY <1>16, <1>t DEF DisconnectReturns, Calling, Goto
  <2> QED
    BY <1>t, <1>q, <2>1, PhaseFacts
<1> QED
  BY <1>1, <1>2, <1>3, <1>4, <1>5, <1>6, <1>7, <1>8, <1>9, <1>10, <1>11, <1>12, <1>13,
     <1>14, <1>15, <1>16 DEF ClientThreadStep, ClientThread

-----------------------------------------------------------------------------
(* What is stored.                                                         *)

\* A decision was made about the file that was shown, which is the file the
\* sender announced and the receiver writes.
LEMMA ShownIsAnnounced ==
  ASSUME NEW c, FlowInv(c), AskedInv, DecidedInv(c), DecisionMade # "none"
  PROVE  /\ offered # NoHeader /\ offered = file_header
         /\ job[c] # NoJob /\ offered = Announced(job[c].header)
         /\ rx.header_parsed /\ rx.path = TargetOf(offered)
<1>1. answer # "none"
  BY DEF DecisionMade
<1> QED
  BY <1>1 DEF DecidedInv, AskedInv, Accepting, FlowInv, HeaderInv

\* What leaves the offer, the decision and the disk alone stores nothing.
LEMMA StoredStays ==
  ASSUME UNCHANGED <<offered, disk>>, DecisionMade' = DecisionMade
  PROVE  StoredFile' = StoredFile
BY DEF StoredFile, Holds, TargetOf

\* Without an acceptance nothing counts as stored.
LEMMA StoredDecided ==
  ASSUME DecisionMade # "accept", DecisionMade' # "accept"
  PROVE  StoredFile' = StoredFile
BY DEF StoredFile

\* Verified means stored.
LEMMA DeliveredIsStored ==
  ASSUME NEW c, FlowInv(c), LengthInv, AskedInv, DecidedInv(c), Delivered(c),
         DecisionMade = "accept"
  PROVE  StoredFile
<1>1. /\ offered = file_header /\ rx.path = TargetOf(offered)
  BY ShownIsAnnounced
<1>2. /\ Len(disk[rx.path]) = file_header.size
      /\ sha256(disk[rx.path]) = file_header.sha256_hex
  BY DEF Delivered, LengthInv
<1> QED
  BY <1>1, <1>2 DEF StoredFile, Holds

\* A stored file is full: what arrives after that is not written.
LEMMA ReceivingStores ==
  ASSUME NEW c, Clients = {c}, Prompt, IInv, SessionInv(c), LengthInv, AskedInv,
         DecidedInv(c), on_receive(c), UNCHANGED offered, DecisionMade' = DecisionMade
  PROVE  /\ StoredFile => StoredFile'
         /\ file_header # NoHeader \/ UNCHANGED disk
         /\ c2s[c] # <<>>
         /\ file_header' # file_header => c2s'[c] = <<>>
<1>t. /\ rx \in RxState /\ disk \in Disks /\ RxInv /\ c \in Clients
      /\ file_header \in HeaderOrNone /\ c2s \in [Clients -> Seq(Units)]
  BY DEF IInv, TypeOK, ServerTypeOK, QuicTypeOK, Disks
<1>f. FlowInv(c) /\ WireInv(c)
  BY DEF SessionInv
<1>1. PICK n \in 1..Len(c2s[c]) :
        /\ c2s' = [c2s EXCEPT ![c] = SubSeq(@, n + 1, Len(@))]
        /\ IF receiving_file
           THEN append_file_bytes(c, SubSeq(c2s[c], 1, n))
           ELSE UNCHANGED <<waitVars, file_header, rx, file_result, disk, s2cVars, sSends>>
  BY DEF on_receive
<1>2. OfferRegistered
  BY <1>f DEF on_receive, ServerHears, FlowInv, Unopened, OpensOnce, OfferRegistered, Arming
<1>3. c2s[c] # <<>>
  BY <1>t, <1>1
<1> DEFINE data   == SubSeq(c2s[c], 1, n)
           buffer == rx.buffer \o data
<1>4. data \in Seq(Units)
  BY <1>t, SplitType
<1>5. CASE ~receiving_file
  BY <1>1, <1>3, <1>5, StoredStays
<1>6. CASE receiving_file /\ ~rx.header_parsed
  <2>1. HeaderIncomplete(c, buffer) \/ HeaderOffered(c, buffer)
    BY <1>1, <1>2, <1>6 DEF append_file_bytes, HeaderAutoAccepted
  <2>2. UNCHANGED disk
    BY <2>1 DEF HeaderIncomplete, HeaderOffered
  <2>3. file_header' # file_header => c2s'[c] = <<>>
    <3>1. SUFFICES ASSUME file_header' # file_header PROVE c2s'[c] = <<>>
      OBVIOUS
    <3>2. DecodesHeader(buffer)
      BY <2>1, <3>1 DEF HeaderIncomplete, HeaderOffered
    <3>3. Len(c2s[c]) = n
      BY <1>f, <1>6, <3>2, DecodesAnnounced
    <3>4. c2s'[c] = SubSeq(c2s[c], n + 1, Len(c2s[c]))
      BY <1>t, <1>1
    <3> QED
      BY <1>t, <3>3, <3>4, SubSeqEmpty
  <2> QED
    BY <1>3, <2>2, <2>3, StoredStays
<1>7. CASE receiving_file /\ rx.header_parsed
  <2>1. BodyBytes(data)
    BY <1>1, <1>7 DEF append_file_bytes
  <2> HIDE DEF data
  <2>2. UNCHANGED file_header
    BY <2>1 DEF BodyBytes
  <2>3. CASE UNCHANGED disk
    BY <1>3, <2>2, <2>3, StoredStays
  <2>4. CASE ~UNCHANGED disk
    <3>1. rx.out = "open" /\ ~rx.io_error
      BY <2>1, <2>4 DEF BodyBytes
    <3>2. file_header # NoHeader
      BY <1>f, <1>7, <3>1 DEF FlowInv, HeaderInv
    <3>3. PICK good \in BOOLEAN : disk' = WrittenDisk(disk, rx, file_header, data, good)
      BY <2>1, <2>4 DEF BodyBytes, WriteOutcomes, Outcomes
    <3>4. /\ rx.bytes_written <= file_header.size /\ rx.out_path \in Names
          /\ disk[rx.out_path] \in Seq(Units) /\ Len(disk[rx.out_path]) = rx.bytes_written
          /\ rx.out_path = rx.path
      BY <1>t, <3>1 DEF RxInv, LengthInv
    <3>5. rx.bytes_written = file_header.size => disk'[rx.out_path] = disk[rx.out_path]
      <4>1. rx \in RxState /\ file_header \in HeaderOrNone /\ data \in Seq(Units) /\ disk \in Disks
        BY <1>4, <1>t
      <4>2. rx.bytes_written = file_header.size =>
              WrittenDisk(disk, rx, file_header, data, good)[rx.out_path] = disk[rx.out_path]
        BY <3>4, <4>1, WrittenFacts
      <4> QED
        BY <3>3, <4>2
    <3>6. StoredFile => StoredFile'
      <4>1. SUFFICES ASSUME StoredFile PROVE StoredFile'
        OBVIOUS
      <4>2. DecisionMade = "accept"
        BY <4>1 DEF StoredFile
      <4>3. offered = file_header /\ rx.path = TargetOf(offered)
        BY <1>f, <4>2, ShownIsAnnounced
      <4>4. disk'[TargetOf(offered)] = disk[TargetOf(offered)]
        BY <3>4, <3>5, <4>1, <4>3 DEF StoredFile
      <4> QED
        BY <4>1, <4>4 DEF StoredFile, Holds, TargetOf
    <3> QED
      BY <1>3, <2>2, <3>2, <3>6
  <2> QED
    BY <2>3, <2>4
<1> QED
  BY <1>5, <1>6, <1>7

\* A callback stores only what a sender whose header was read has sent.
LEMMA CallbackStores ==
  ASSUME NEW c, Clients = {c}, Prompt, IInv, SessionInv(c), LengthInv, AskedInv,
         DecidedInv(c), ServerCallbackStep(c)
  PROVE  /\ UNCHANGED <<offered, recv_result>> /\ DecisionMade' = DecisionMade
         /\ StoredFile => StoredFile'
         /\ \/ StoredFile' = StoredFile
            \/ file_header # NoHeader /\ c2s[c] # <<>>
         /\ \/ c2s'[c] = <<>>
            \/ file_header' = file_header /\ c2s[c] # <<>>
<1>t. c \in Clients /\ c2s \in [Clients -> Seq(Units)] /\ FlowInv(c)
  BY DEF IInv, TypeOK, QuicTypeOK, SessionInv
<1>1. UNCHANGED <<offered, recv_result, answer>>
  BY DEF ServerCallbackStep, ServerCallback, on_new_connection, on_connected,
         on_connection_shutdown_complete, on_peer_stream_started, on_receive,
         on_peer_send_shutdown, on_send_complete, on_peer_aborted,
         on_stream_shutdown_complete, EnterFileMutex, serverVars, flowVars
<1>2. DecisionMade' = DecisionMade
  BY <1>1, <1>t, CallbackQuiet, DecisionStays
<1>n. ASSUME UNCHANGED disk PROVE StoredFile' = StoredFile
  BY <1>1, <1>2, <1>n, StoredStays
<1>3. CASE on_receive(c)
  <2>1. /\ StoredFile => StoredFile'
        /\ file_header # NoHeader \/ UNCHANGED disk
        /\ c2s[c] # <<>>
        /\ file_header' # file_header => c2s'[c] = <<>>
    BY <1>1, <1>2, <1>3, ReceivingStores
  <2> QED
    BY <1>1, <1>2, <1>n, <2>1
<1>4. CASE on_peer_aborted(c)
  <2>1. UNCHANGED disk /\ c2s'[c] = <<>>
    BY <1>t, <1>4 DEF on_peer_aborted
  <2> QED
    BY <1>1, <1>2, <1>n, <2>1
<1>5. ASSUME UNCHANGED <<disk, file_header, c2s>>
      PROVE  /\ StoredFile' = StoredFile
             /\ \/ c2s'[c] = <<>>
                \/ file_header' = file_header /\ c2s[c] # <<>>
  BY <1>5, <1>n
<1>6. CASE ~on_receive(c) /\ ~on_peer_aborted(c)
  <2>1. UNCHANGED <<disk, file_header, c2s>>
    BY <1>6 DEF ServerCallbackStep, ServerCallback, on_new_connection, on_connected,
           on_connection_shutdown_complete, on_peer_stream_started,
           on_peer_send_shutdown, on_send_complete,
           on_stream_shutdown_complete, EnterFileMutex, serverVars, quicVars, c2sVars
  <2> QED
    BY <1>1, <1>2, <1>5, <2>1
<1> QED
  BY <1>3, <1>4, <1>6

-----------------------------------------------------------------------------
(* The agreement holds.                                                    *)

\* The body leaves after the decision, and the sender is not at its header any
\* more when the header has been read.
LEMMA BodyWireFrame ==
  ASSUME NEW c, BodyWireInv(c), SenderPhase(c)' = SenderPhase(c),
         c2s'[c] = <<>> \/ (file_header' = file_header /\ c2s[c] # <<>>)
  PROVE  BodyWireInv(c)'
BY DEF BodyWireInv

\* What a sending thread adds to the body is the next of the file's bytes.
LEMMA ThreadBodyWire ==
  ASSUME NEW c, Clients = {c}, IInv, SessionInv(c), StoredInv(c), BodyWireInv(c), CallerInv(c),
         CallerInv(c)', ClientThreadStep(c)
  PROVE  BodyWireInv(c)'
<1>t. UNCHANGED file_header
  BY DEF ClientThreadStep, serverVars
<1>r. cpc[c] = "ready" => file_header = NoHeader
  BY DEF SessionInv, FlowInv, Unopened, OpensOnce, Unheard
<1>d. ack[c] = "ok" => c2s[c] = <<>>
  BY DEF StoredInv, Claimed, Delivered
<1> USE DEF BodyWireInv
<1>1. CASE SenderPhase(c)' = SenderPhase(c) /\ UNCHANGED <<job, c2s>>
  BY <1>1, <1>t
<1>2. CASE SendHeader(c) \/ SendRaw(c)
  BY <1>2, <1>t, <1>r DEF SendHeader, SendRaw
<1>3. CASE SenderPhase(c) = "waiting" /\ UNCHANGED <<job, c2s>>
  BY <1>3, <1>t
<1>4. CASE ack[c] = "ok" /\ UNCHANGED <<job, c2s>>
  BY <1>4, <1>t, <1>d
<1>5. CASE SenderPhase(c)' \in {"streaming", "failed"}
  BY <1>5
<1> QED
  BY <1>1, <1>2, <1>3, <1>4, <1>5, ThreadPhase

\* At the start there is nothing to agree on.
LEMMA InitAgreement ==
  ASSUME NEW c, Clients = {c}, Init PROVE AgreementInv(c)
<1> USE DEF Init, QuicInit, ServerInit, ClientInit
<1>t. c \in Clients
  OBVIOUS
<1>1. CallerInv(c)
  BY <1>t DEF CallerInv, Calling, BodyStates
<1>2. AwaitInv(c) /\ DecidedInv(c)
  BY <1>t DEF AwaitInv, DecidedInv, BodyStates, Accepting
<1>3. BodyWireInv(c)
  BY <1>t DEF BodyWireInv
<1> QED
  BY <1>1, <1>2, <1>3 DEF AgreementInv

\* Every step keeps the agreement of the two sides.
LEMMA StepAgreement ==
  ASSUME NEW c, Clients = {c}, Prompt, IInv, SessionInv(c), OutcomeInv(c), AgreementInv(c),
         [Next]_vars
  PROVE  AgreementInv(c)'
<1> USE DEF AgreementInv
<1>s. FlowInv(c) /\ LengthInv /\ StoredInv(c) /\ AskedInv
  BY DEF SessionInv, OutcomeInv
<1>n. ASSUME UNCHANGED <<serverVars, clientVars, c2s, cFin, s2c, sFin, cStream>>
      PROVE  AgreementInv(c)'
  <2>1. CallerInv(c)'
    BY <1>n, CallerFrame DEF clientVars, jobVars, decisionVars
  <2>2. AwaitInv(c)' /\ DecidedInv(c)'
    BY <1>n, ClientAgreeFrame DEF clientVars
  <2>3. BodyWireInv(c)'
    <3>1. SenderPhase(c)' = SenderPhase(c)
      BY <1>n, PhaseStays DEF clientVars
    <3> QED
      BY <1>n, <3>1, BodyWireFrame DEF serverVars, BodyWireInv
  <2> QED
    BY <2>1, <2>2, <2>3
<1> USE DEF quicVars, c2sVars, s2cVars, streamVars
<1>1. CASE ServerThreadStep
  <2>1. CallerInv(c)' /\ AwaitInv(c)' /\ DecidedInv(c)'
    BY <1>1, <1>s, ServerCaller, ServerThreadAgrees
  <2>2. UNCHANGED <<clientVars, c2s, file_header>>
    BY <1>1 DEF ServerThreadStep, ServerThread, ArmReceiving, ArmPath, ArmOffer, ArmReset,
         OfferArrived, OfferFailed, OfferTimeout, PromptReject, PromptAccept, MarkAccepted,
         SendAccept, TransferFinished, TransferFailed, DrainAfterReject, DrainAfterTransfer,
         Stop, StopReturns
  <2>3. SenderPhase(c)' = SenderPhase(c)
    BY <2>2, PhaseStays DEF clientVars
  <2> QED
    BY <2>1, <2>2, <2>3 DEF BodyWireInv
<1>2. CASE ServerCallbackStep(c)
  <2>1. CallerInv(c)' /\ AwaitInv(c)' /\ DecidedInv(c)'
    BY <1>2, <1>s, ServerCaller, ServerCallbackAgrees
  <2>2. SenderPhase(c)' = SenderPhase(c)
    BY <1>2, PhaseStays DEF ServerCallbackStep, clientVars
  <2>3. c2s'[c] = <<>> \/ (file_header' = file_header /\ c2s[c] # <<>>)
    BY <1>2, <1>s, CallbackStores
  <2> QED
    BY <2>1, <2>2, <2>3, BodyWireFrame
<1>3. CASE ServerTransportStep(c)
  BY <1>3, <1>n DEF ServerTransportStep, ServerLearnsClose
<1>4. CASE ClientThreadStep(c)
  BY <1>4, <1>s, ClientThreadCaller, ClientThreadAgrees, ThreadBodyWire
<1>5. CASE ClientCallbackStep(c)
  <2>1. CallerInv(c)' /\ AwaitInv(c)' /\ DecidedInv(c)'
    BY <1>5, <1>s, ClientCallbackCaller, ClientCallbackAgrees
  <2>2. UNCHANGED <<cpc, rejected, send_result, c2s, file_header>>
    BY <1>5 DEF ClientCallbackStep, ClientCallback, OnConnected, OnShutdownInitiated,
         OnConnectionShutdownComplete, OnReceive, OnPeerSendShutdown, OnSendComplete,
         OnStreamShutdownComplete, clientVars, serverVars
  <2>3. SenderPhase(c)' = SenderPhase(c)
    BY <2>2, PhaseStays
  <2> QED
    BY <2>1, <2>2, <2>3 DEF BodyWireInv
<1>6. CASE LinkDownStep(c)
  BY <1>6, <1>n DEF LinkDownStep, LinkDown
<1>7. CASE EditStep(c)
  <2>1. UNCHANGED <<serverVars, cpc, send_result, rejected, job, decisionVars, c2s, cFin, s2c,
                    sFin, cStream>>
    BY <1>7 DEF EditStep, EditSource
  <2>2. CallerInv(c)'
    BY <2>1, CallerFrame DEF decisionVars
  <2>3. AwaitInv(c)' /\ DecidedInv(c)'
    BY <2>1, ClientAgreeFrame
  <2>4. SenderPhase(c)' = SenderPhase(c)
    BY <2>1, PhaseStays
  <2> QED
    BY <2>1, <2>2, <2>3, <2>4 DEF serverVars, BodyWireInv
<1>8. CASE UNCHANGED vars
  BY <1>8, <1>n DEF vars
<1> QED
  BY <1>1, <1>2, <1>3, <1>4, <1>5, <1>6, <1>7, <1>8 DEF Next, Finished

\* They agree in every state of every run with one sender that prompts.
LEMMA AgreementHolds ==
  ASSUME NEW CONSTANT c, Clients = {c}, Prompt, ~EarlySenders
  PROVE  Spec => []AgreementInv(c)
<1>1. IInv /\ SessionInv(c) /\ OutcomeInv(c) /\ AgreementInv(c) /\ [Next]_vars
        => AgreementInv(c)'
  BY StepAgreement
<1>2. Init => AgreementInv(c)
  BY InitAgreement
<1> QED
  BY <1>1, <1>2, IInvHolds, SessionHolds, OutcomeHolds, PTL DEF Spec

-----------------------------------------------------------------------------
(* Every step is a step of FileTransfer, or none.                          *)

Step == Abstract!Next \/ UNCHANGED Abstract!vars

\* The receiving thread: what receive_file does between two waits.
LEMMA ServerThreadMaps ==
  ASSUME NEW c, Clients = {c}, Prompt, IInv, SessionInv(c), OutcomeInv(c), AgreementInv(c),
         ServerThreadStep
  PROVE  Step
<1>t. /\ rx \in RxState /\ disk \in Disks /\ UNCHANGED clientVars
      /\ recv_result \in {"none", "true", "false"}
      /\ job \in [Clients -> Jobs \cup {NoJob}]
  BY DEF IInv, TypeOK, ServerTypeOK, ClientTypeOK, Disks, ServerThreadStep
<1>i. FlowInv(c) /\ PhaseInv(c) /\ LengthInv /\ StoredInv(c) /\ AskedInv /\ DecidedInv(c)
  BY DEF SessionInv, FlowInv, OutcomeInv, AgreementInv
<1>c. SenderPhase(c)' = SenderPhase(c) /\ UNCHANGED job
  BY <1>t, PhaseStays DEF clientVars, jobVars
<1>o. rpc \notin {"returned", "stopping", "stopped"} => recv_result = "none"
  BY <1>i DEF AskedInv, Accepting
\* Nothing that FileTransfer sees changes.
<1>n. ASSUME UNCHANGED <<offered, recv_result, disk>>, DecisionMade' = DecisionMade PROVE Step
  BY <1>n, <1>c, StoredStays, ViewStutters DEF Step
\* receive_file returns.
<1>r. ASSUME UNCHANGED <<offered, answer, disk>>, DecisionMade' = DecisionMade,
             recv_result = "none",
             recv_result' = "false" \/ (recv_result' = "true" /\ StoredFile)
      PROVE  Step
  BY <1>r, <1>c, StoredStays, ViewReceiverReports DEF Step
<1>e. UNCHANGED <<answer, rx>> => DecisionMade' = DecisionMade
  BY DecisionStays
<1>1. CASE ArmReceiving
  BY <1>1, <1>n, <1>e DEF ArmReceiving
<1>2. CASE ArmPath
  <2>1. answer = "none"
    BY <1>2, <1>i DEF ArmPath, AskedInv, Accepting, Arming
  <2> QED
    BY <1>2, <1>n, <2>1, DecisionStays DEF ArmPath
<1>3. CASE ArmOffer
  BY <1>3, <1>n, <1>e DEF ArmOffer
<1>4. CASE ArmReset
  <2>1. answer = "none"
    BY <1>4, <1>i DEF ArmReset, AskedInv, Accepting, Arming
  <2> QED
    BY <1>4, <1>n, <2>1, DecisionStays DEF ArmReset
<1>5. CASE OfferArrived
  <2>1. offered = NoHeader /\ recv_result = "none" /\ answer = "none"
    BY <1>5, <1>i DEF OfferArrived, AskedInv, Accepting
  <2>2. /\ file_header # NoHeader /\ job[c] # NoJob /\ file_header = Announced(job[c].header)
    BY <1>5, <1>i DEF OfferArrived, FlowInv, PhaseInv, HeaderInv
  <2>3. DecisionMade = "none" /\ DecisionMade' = "none"
    BY <1>5, <2>1 DEF OfferArrived, DecisionMade
  <2>4. StoredFile' = StoredFile
    BY <2>3, StoredDecided
  <2> QED
    BY <1>5, <1>c, <2>1, <2>2, <2>3, <2>4, ViewShows DEF OfferArrived, Step
<1>6. CASE OfferFailed
  BY <1>6, <1>r, <1>o, <1>e DEF OfferFailed, Return
<1>7. CASE OfferTimeout
  BY <1>7, <1>r, <1>o, <1>e DEF OfferTimeout, Return
<1>a. rpc = "prompt" => offered # NoHeader /\ answer = "none" /\ DecisionMade = "none"
  BY <1>i DEF PhaseInv, AskedInv, Accepting, Engaged, DecisionMade
<1>8. CASE PromptReject
  <2>1. DecisionMade' = "reject"
    BY <1>8 DEF PromptReject, DecisionMade
  <2>2. ~StoredFile'
    BY <2>1 DEF StoredFile
  <2> QED
    BY <1>8, <1>a, <1>c, <2>1, <2>2, ViewDecides DEF PromptReject, Step
<1>9. CASE PromptAccept
  <2>1. PICK opened \in OpenOutcomes(rx.path) :
          /\ rx' = OpenedRx(rx, opened)
          /\ disk' = OpenedDisk(rx, opened)
    BY <1>9 DEF PromptAccept
  <2>2. opened \in BOOLEAN /\ (opened => rx.path \in Names)
    BY <1>t DEF OpenOutcomes, Outcomes, RxState
  <2>3. rx'.out = (IF opened THEN "open" ELSE "null")
    BY <1>t, <2>1, <2>2 DEF OpenedRx, RxState
  <2>4. DecisionMade' = IF opened THEN "accept" ELSE "unwritable"
    BY <1>9, <2>2, <2>3 DEF PromptAccept, DecisionMade
  <2>5. UNCHANGED offered
    BY <1>9 DEF PromptAccept
  <2>6. StoredFile' => DecisionMade' = "accept" /\ offered.size = 0
    <3>1. SUFFICES ASSUME StoredFile' PROVE DecisionMade' = "accept" /\ offered.size = 0
      OBVIOUS
    <3>2. opened /\ Len(disk'[TargetOf(offered)]) = offered.size
      BY <2>2, <2>4, <2>5, <3>1 DEF StoredFile, TargetOf
    <3>3. rx.path = TargetOf(offered)
      BY <1>9, <1>i, <1>a DEF PromptAccept, FlowInv, HeaderInv, AskedInv, Accepting
    <3>4. disk'[rx.path] = <<>>
      BY <1>t, <2>1, <2>2, <3>2 DEF OpenedDisk, Disks
    <3> QED
      BY <2>4, <3>2, <3>3, <3>4
  <2> QED
    BY <1>9, <1>a, <1>c, <2>2, <2>4, <2>5, <2>6, ViewDecides DEF PromptAccept, Step
<1>10. CASE SendAccept
  BY <1>10, <1>n, <1>e DEF SendAccept
<1>11. CASE TransferFinished
  BY <1>11, <1>n, <1>e DEF TransferFinished
<1>12. CASE TransferFailed
  <2>1. rx'.out = "null" <=> rx.out = "null"
    BY <1>12, <1>t, CloseFacts DEF TransferFailed
  <2> QED
    BY <1>12, <1>r, <1>o, <2>1, DecisionStays DEF TransferFailed, Return
<1>13. CASE DrainAfterReject
  BY <1>13, <1>r, <1>o, <1>e DEF DrainAfterReject, Return
<1>14. CASE DrainAfterTransfer
  <2>1. Delivered(c) /\ answer = "accept"
    BY <1>14, <1>i DEF DrainAfterTransfer, StoredInv, Claimed, AskedInv, Accepting
  <2>2. DecisionMade = "accept"
    BY <2>1 DEF Delivered, DecisionMade
  <2>3. StoredFile
    BY <1>i, <2>1, <2>2, DeliveredIsStored
  <2> QED
    BY <1>14, <1>r, <1>o, <1>e, <2>3 DEF DrainAfterTransfer, Return
<1>15. CASE Stop
  BY <1>15, <1>n, <1>e DEF Stop
<1>16. CASE StopReturns
  BY <1>16, <1>n, <1>e DEF StopReturns
<1>17. CASE MarkAccepted
  <2>1. rx'.out = rx.out
    BY <1>17, <1>t DEF MarkAccepted, RxState
  <2> QED
    BY <1>17, <1>n, <2>1, DecisionStays DEF MarkAccepted
<1> QED
  BY <1>1, <1>2, <1>3, <1>4, <1>5, <1>6, <1>7, <1>8, <1>9, <1>10, <1>11, <1>12, <1>13,
     <1>14, <1>15, <1>16, <1>17 DEF ServerThreadStep, ServerThread

\* The callbacks of the receiver: the file becomes whole, or nothing shows.
LEMMA ServerCallbackMaps ==
  ASSUME NEW c, Clients = {c}, Prompt, IInv, SessionInv(c), OutcomeInv(c), AgreementInv(c),
         ServerCallbackStep(c)
  PROVE  Step
<1>i. FlowInv(c) /\ LengthInv /\ AskedInv /\ DecidedInv(c) /\ BodyWireInv(c)
  BY DEF SessionInv, OutcomeInv, AgreementInv
<1>c. SenderPhase(c)' = SenderPhase(c) /\ UNCHANGED job
  BY PhaseStays DEF ServerCallbackStep, clientVars, jobVars
<1>1. /\ UNCHANGED <<offered, recv_result>> /\ DecisionMade' = DecisionMade
      /\ StoredFile => StoredFile'
      /\ StoredFile' = StoredFile \/ (file_header # NoHeader /\ c2s[c] # <<>>)
  BY <1>i, CallbackStores
<1>2. CASE StoredFile' = StoredFile
  BY <1>c, <1>1, <1>2, ViewStutters DEF Step
<1>3. CASE StoredFile' # StoredFile
  <2>1. ~StoredFile /\ StoredFile'
    BY <1>1, <1>3 DEF StoredFile
  <2>2. SenderPhase(c) \in {"streaming", "failed"}
    BY <1>1, <1>3, <1>i DEF BodyWireInv
  <2>3. DecisionMade = "accept"
    BY <1>1, <2>1 DEF StoredFile
  <2>4. job[c] # NoJob /\ offered = Announced(job[c].header)
    BY <1>i, <2>3, ShownIsAnnounced
  <2> QED
    BY <1>c, <1>1, <2>1, <2>2, <2>3, <2>4, ViewStores DEF Step
<1> QED
  BY <1>2, <1>3

\* The sending thread: announce, stream, report.
LEMMA ClientThreadMaps ==
  ASSUME NEW c, Clients = {c}, Prompt, IInv, SessionInv(c), OutcomeInv(c), AgreementInv(c),
         CallerInv(c)', ClientThreadStep(c)
  PROVE  Step
<1>t. c \in Clients /\ UNCHANGED serverVars /\ job \in [Clients -> Jobs \cup {NoJob}]
  BY DEF IInv, TypeOK, ClientTypeOK, ClientThreadStep
<1>i. FlowInv(c) /\ LengthInv /\ StoredInv(c) /\ AskedInv /\ DecidedInv(c) /\ CallerInv(c)
  BY DEF SessionInv, OutcomeInv, AgreementInv
<1>s. /\ UNCHANGED <<offered, recv_result>>
      /\ DecisionMade' = DecisionMade /\ StoredFile' = StoredFile
  <2>1. UNCHANGED <<offered, recv_result, answer, rx, disk>>
    BY <1>t DEF serverVars, flowVars
  <2>2. DecisionMade' = DecisionMade
    BY <2>1, DecisionStays
  <2> QED
    BY <2>1, <2>2, StoredStays
\* send_file fails or goes on; nothing else is seen of it.
<1>n. ASSUME UNCHANGED job, SenderPhase(c) \in {"waiting", "streaming"},
             SenderPhase(c)' \in {SenderPhase(c), "failed"}
      PROVE  Step
  BY <1>n, <1>s, ViewStutters, ViewSenderReports DEF Step
<1>1. CASE SenderPhase(c)' = SenderPhase(c) /\ UNCHANGED job
  BY <1>1, <1>s, ViewStutters DEF Step
<1>2. CASE /\ SendHeader(c) /\ SenderPhase(c) = "waiting"
           /\ SenderPhase(c)' \in {"waiting", "failed"}
  <2>1. PICK j \in {FileJob(c, name) : name \in RawNames} \cup TestJobs :
          job' = [job EXCEPT ![c] = j]
    BY <1>2 DEF SendHeader
  <2>2. j \in Jobs
    BY <1>t, JobType DEF IInv, TypeOK
  <2>3. j # NoJob
    BY <2>2, NoneAssumption DEF Jobs, NoJob
  <2>4. job[c] = NoJob
    BY <1>2, <1>i DEF SendHeader, FlowInv, OpensOnce, Unopened
  <2> QED
    BY <1>2, <1>s, <1>t, <2>1, <2>2, <2>3, <2>4, ViewAnnounces DEF Step
<1>3. CASE /\ SendRaw(c) /\ SenderPhase(c) = "waiting"
           /\ SenderPhase(c)' \in {"waiting", "failed"}
  BY <1>3, <1>n DEF SendRaw, jobVars
<1>4. CASE /\ DecisionAccepted(c) /\ UNCHANGED job
           /\ SenderPhase(c) = "waiting" /\ SenderPhase(c)' = "streaming"
  <2>1. DecisionMade = "accept"
    BY <1>4, <1>i DEF DecisionAccepted, DecidedInv
  <2>2. job[c] # NoJob /\ offered = Announced(job[c].header)
    BY <1>i, <2>1, ShownIsAnnounced
  <2> QED
    BY <1>4, <1>s, <2>1, <2>2, ViewStreams DEF Step
<1>5. CASE /\ DecisionRejected(c) /\ UNCHANGED job
           /\ SenderPhase(c) = "waiting" /\ SenderPhase(c)' = "rejected"
  <2>1. DecisionMade \in {"reject", "unwritable"}
    BY <1>5, <1>i DEF DecisionRejected, DecidedInv
  <2> QED
    BY <1>5, <1>s, <2>1, ViewSenderReports DEF Step
<1>6. CASE /\ SendReturns(c) /\ ack[c] = "ok" /\ UNCHANGED job
           /\ SenderPhase(c) = "streaming" /\ SenderPhase(c)' = "ok"
  <2>1. Delivered(c)
    BY <1>6, <1>i DEF StoredInv, Claimed
  <2>2. DecisionMade = "accept"
    BY <1>6, <1>i DEF SendReturns, DecidedInv, BodyStates
  <2>3. StoredFile
    BY <1>i, <2>1, <2>2, DeliveredIsStored
  <2> QED
    BY <1>6, <1>s, <2>3, ViewSenderReports DEF Step
<1>7. CASE /\ SenderPhase(c) \in {"waiting", "streaming"} /\ SenderPhase(c)' = "failed"
           /\ UNCHANGED job
  BY <1>7, <1>n
<1>8. CASE /\ SenderPhase(c) = "streaming" /\ SenderPhase(c)' \in {"streaming", "failed"}
           /\ UNCHANGED job
  BY <1>8, <1>n
<1> QED
  BY <1>i, <1>1, <1>2, <1>3, <1>4, <1>5, <1>6, <1>7, <1>8, ThreadPhase

\* The sender's callbacks, msquic and the environment stay behind the scenes.
LEMMA QuietMaps ==
  ASSUME NEW c, Clients = {c}, UNCHANGED <<serverVars, job, cpc, rejected, send_result>>
  PROVE  Step
<1>1. UNCHANGED <<offered, recv_result, answer, rx, disk>>
  BY DEF serverVars, flowVars
<1>2. DecisionMade' = DecisionMade
  BY <1>1, DecisionStays
<1>3. StoredFile' = StoredFile
  BY <1>1, <1>2, StoredStays
<1>4. SenderPhase(c)' = SenderPhase(c)
  BY PhaseStays
<1> QED
  BY <1>1, <1>2, <1>3, <1>4, ViewStutters DEF Step

\* Every step of Transfer is a step of FileTransfer or a stutter.
LEMMA StepMaps ==
  ASSUME NEW c, Clients = {c}, Prompt, IInv, SessionInv(c), OutcomeInv(c), AgreementInv(c),
         AgreementInv(c)', [Next]_vars
  PROVE  [Abstract!Next]_Abstract!vars
<1> USE DEF clientVars, jobVars
<1>1. CASE ServerThreadStep
  BY <1>1, ServerThreadMaps DEF Step
<1>2. CASE ServerCallbackStep(c)
  BY <1>2, ServerCallbackMaps DEF Step
<1>3. CASE ServerTransportStep(c)
  BY <1>3, QuietMaps DEF ServerTransportStep, Step
<1>4. CASE ClientThreadStep(c)
  BY <1>4, ClientThreadMaps DEF AgreementInv, Step
<1>5. CASE ClientCallbackStep(c)
  <2>1. UNCHANGED <<serverVars, job, cpc, rejected, send_result>>
    BY <1>5 DEF ClientCallbackStep, ClientCallback, OnConnected, OnShutdownInitiated,
         OnConnectionShutdownComplete, OnReceive, OnPeerSendShutdown, OnSendComplete,
         OnStreamShutdownComplete
  <2> QED
    BY <2>1, QuietMaps DEF Step
<1>6. CASE LinkDownStep(c)
  BY <1>6, QuietMaps DEF LinkDownStep, Step
<1>7. CASE EditStep(c)
  BY <1>7, QuietMaps DEF EditStep, EditSource, Step
<1>8. CASE UNCHANGED vars
  BY <1>8, QuietMaps DEF vars, Step
<1> QED
  BY <1>1, <1>2, <1>3, <1>4, <1>5, <1>6, <1>7, <1>8 DEF Next, Finished

\* The initial states of Transfer are initial states of FileTransfer.
LEMMA InitMaps ==
  ASSUME NEW c, Clients = {c}, Init PROVE Abstract!Init
<1> USE DEF Init, QuicInit, ServerInit, ClientInit
<1>1. job[c] = NoJob /\ offered = NoHeader /\ recv_result = "none" /\ DecisionMade = "none"
  BY DEF DecisionMade
<1>2. SenderPhase(c) = "waiting"
  BY DEF SenderPhase, BodyStates
<1>3. StoredFile = FALSE
  BY <1>1 DEF StoredFile
<1> QED
  BY <1>1, <1>2, <1>3 DEF Abstract!Init

-----------------------------------------------------------------------------
(* The theorems.                                                           *)

\* What the two endpoints do is what FileTransfer promises: the file is
\* announced, shown, agreed to, streamed, stored and only then reported
\* (quic_client.cpp, 395-590; quic_server.cpp, 559-690), for every content, name,
\* fault and interleaving of threads, callbacks and network.
THEOREM TransferImplementsFileTransfer ==
  ASSUME NEW CONSTANT c, Clients = {c}, Prompt, ~EarlySenders
  PROVE  Spec => Implements
<1>1. Init => Abstract!Init
  BY InitMaps
<1>2. /\ IInv /\ SessionInv(c) /\ OutcomeInv(c) /\ AgreementInv(c) /\ AgreementInv(c)'
      /\ [Next]_vars
      => [Abstract!Next]_Abstract!vars
  BY StepMaps
<1> QED
  BY <1>1, <1>2, IInvHolds, SessionHolds, OutcomeHolds, AgreementHolds, PTL
     DEF Spec, Implements, Abstract!Spec

\* The sender that streams its body is the one whose header the user was shown
\* (ACCEPT goes to file_stream_, the prompt shows file_header_).
THEOREM ApprovedIsSent ==
  ASSUME NEW CONSTANT c, Clients = {c}, ~EarlySenders
  PROVE  Spec => []SentWasApproved
<1>1. CASE Prompt
  <2>1. ASSUME SessionInv(c), OutcomeInv(c), AgreementInv(c), cpc[c] \in BodyStates
        PROVE  offered = Announced(job[c].header)
    <3>1. DecisionMade = "accept"
      BY <2>1 DEF AgreementInv, DecidedInv
    <3> QED
      BY <2>1, <3>1, ShownIsAnnounced DEF SessionInv, OutcomeInv, AgreementInv
  <2>2. SessionInv(c) /\ OutcomeInv(c) /\ AgreementInv(c) => SentWasApproved
    BY <2>1 DEF SentWasApproved
  <2>3. Spec => []AgreementInv(c)
    BY <1>1, AgreementHolds
  <2> QED
    BY <2>2, <2>3, SessionHolds, OutcomeHolds, PTL
<1>2. CASE ~Prompt
  <2>1. IInv => SentWasApproved
    BY <1>2 DEF SentWasApproved
  <2> QED
    BY <2>1, IInvHolds, PTL
<1> QED
  BY <1>1, <1>2
=============================================================================
