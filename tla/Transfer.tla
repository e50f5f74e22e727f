------------------------------ MODULE Transfer ------------------------------
(***************************************************************************)
(* A receiver and its senders: QuicServer and QuicClient joined by Quic.   *)
(* Every step is a step of one thread, one callback, or the environment    *)
(* (the network and whoever edits the file that is being sent).            *)
(***************************************************************************)
EXTENDS QuicServer, QuicClient

CONSTANT
  EarlySenders   \* may send_file run before receive_file has been armed?

ASSUME EarlySendersAssumption == EarlySenders \in BOOLEAN

vars == <<quicVars, serverVars, clientVars>>

\* receive_file has armed the callbacks (on_armed, line 591).
Arming == {"started", "arm_path", "arm_offer", "arm_reset"}

Armed == rpc \notin Arming

Init == QuicInit /\ ServerInit /\ ClientInit

ServerThreadStep == ServerThread /\ UNCHANGED clientVars

ServerCallbackStep(c) == ServerCallback(c) /\ UNCHANGED clientVars

ServerTransportStep(c) == ServerLearnsClose(c) /\ UNCHANGED <<serverVars, clientVars>>

ClientThreadStep(c) ==
  /\ cpc[c] = "ready" => EarlySenders \/ Armed
  /\ ClientThread(c)
  /\ UNCHANGED serverVars

ClientCallbackStep(c) == ClientCallback(c) /\ UNCHANGED serverVars

LinkDownStep(c) == LinkDown(c) /\ UNCHANGED <<serverVars, clientVars>>

EditStep(c) == EditSource(c) /\ UNCHANGED serverVars

\* Everybody is done; the processes have exited.
Over == rpc = "stopped" /\ \A c \in Clients : cpc[c] = "done"

Finished == Over /\ UNCHANGED vars

Next ==
  \/ ServerThreadStep
  \/ \E c \in Clients :
       \/ ServerCallbackStep(c)
       \/ ServerTransportStep(c)
       \/ ClientThreadStep(c)
       \/ ClientCallbackStep(c)
       \/ LinkDownStep(c)
       \/ EditStep(c)
  \/ Finished

Spec == Init /\ [][Next]_vars

\* Threads are scheduled, msquic delivers its events and notices a closed peer,
\* the user answers the prompt, and timed waits expire (those whose timeout is
\* among Faults).  Neither the network's failures nor the editor of the file is fair.
Fairness ==
  /\ WF_vars(ServerThreadStep)
  /\ \A c \in Clients :
       /\ WF_vars(ServerCallbackStep(c))
       /\ WF_vars(ServerTransportStep(c))
       /\ WF_vars(ClientThreadStep(c))
       /\ WF_vars(ClientCallbackStep(c))

FairSpec == Spec /\ Fairness

-----------------------------------------------------------------------------
(* Properties.                                                             *)

\* Every variable holds a value of its type.
TypeOK == QuicTypeOK /\ ServerTypeOK /\ ClientTypeOK

\* The receiver must approve the transfer before file data is sent: with a
\* prompt, no sender reaches the code that streams the body (quic_client.cpp,
\* 490-537) unless on_offer has returned true.
BodyOnlyAfterApproval ==
  Prompt => \A c \in Clients : cpc[c] \in BodyStates => answer = "accept"

\* The header as the receiver sees it.
Announced(header) == [header EXCEPT !.name = sanitize_file_name(@)]

\* Stronger: the sender that streams its body is the one whose header the user
\* was shown (ACCEPT goes to file_stream_, the prompt shows file_header_).
SentWasApproved ==
  Prompt => \A c \in Clients :
              cpc[c] \in BodyStates => offered = Announced(job[c].header)

\* Where receive_file stores the file a header announces.
TargetOf(header) ==
  IF OutputPath = None THEN sanitize_file_name(header.name) ELSE OutputPath

Holds(header) == sha256(disk[TargetOf(header)]) = header.sha256_hex

\* send_file returns true only if the receiver's disk holds exactly the bytes
\* the header announced, from that moment on, whatever was lost, cut short,
\* edited or aborted on the way.
SenderOkMeansStored ==
  \A c \in Clients : send_result[c] = "ok" => Holds(job[c].header)

\* send_file returns true only if the receiver's disk holds, in some file, exactly
\* the bytes the header announced.  With several senders that is all the answer
\* says: if another sender's stream replaces file_stream_ at the prompt, equal
\* bytes under another name earn the OK.
OkBytesAreStored ==
  \A c \in Clients : send_result[c] = "ok" =>
    \E n \in Names : sha256(disk[n]) = job[c].header.sha256_hex

\* receive_file returns true only if the disk holds the very file whose header
\* was shown to the user (without a prompt: the file whose header arrived), and
\* last_file_result() says success only if it holds the file, also when
\* receive_file returned false because the answer was sent too late.  The two
\* disagree the other way round, success lost after receive_file said true, only
\* if the sender aborted while the connection was drained (quic_server.cpp, 193).
ReceivedMeansStored ==
  /\ recv_result = "true" \/ file_result.success => Holds(file_header)
  /\ recv_result = "true" /\ Prompt => answer = "accept" /\ offered = file_header
  /\ recv_result = "true" /\ ~file_result.success =>
       \E c \in Clients : reset[c] = "seen"

\* Until the user has said yes, nothing is written or truncated at the receiver
\* (quic_server.h, 39-41: on_offer is called before any bytes are written).
NothingWrittenUnapproved ==
  Prompt /\ answer # "accept" => disk = [n \in Names |-> None]

\* The unsigned subtraction header.size - bytes_written of append_file_bytes
\* never wraps, whatever header or body the peers send.
NoSizeUnderflow == rx.header_parsed => rx.bytes_written <= file_header.size

\* What drain_connection is for: when receive_file returns, the sender has
\* already read the answer (quic_server.cpp, 595-598).  It holds for one sender
\* whose connection survives and which waits for its answer, as long as no drain
\* runs into its 2 s bound.
ReplyDelivered ==
  \A c \in Clients :
    /\ recv_result = "true" => ack[c] = "ok"
    /\ recv_result # "none" /\ answer = "reject" => decision[c] = "rejected"

\* An approved transfer completes on both sides.
ApprovedTransferCompletes ==
  answer = "accept" ~> /\ recv_result = "true"
                       /\ \A c \in Clients : send_result[c] = "ok"

\* Whatever is lost, the timed waits get everybody home: receive_file, stop and
\* every send_file and disconnect return.
EverybodyReturns == <>Over

-----------------------------------------------------------------------------
(* What the repository says and the code does not keep; see the README.    *)

\* quic_server.cpp, 595-598: drain_connection waits "for the client to close -
\* which it does right after reading that message", so without its bound the
\* drain after a failed open ends too.
DrainEndsByClose == rpc = "reject_locked" ~> rpc # "reject_locked"
=============================================================================
