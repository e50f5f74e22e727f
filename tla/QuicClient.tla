----------------------------- MODULE QuicClient -----------------------------
(***************************************************************************)
(* QuicClient, the sending side (src/transfer/quic_client.cpp): for every  *)
(* client the thread that runs connect(), send_file() and disconnect(), as *)
(* the CLI and the GUI do, and the msquic callbacks that run beside it.    *)
(* A callback is one step: it never waits.  The thread is split where it   *)
(* waits for a callback.                                                   *)
(***************************************************************************)
EXTENDS Quic

CONSTANTS
  ChunkSize,   \* kFileChunkSize
  JunkLength,  \* how much send_raw_stream sends
  Testing      \* the test-only entry points of QuicTestAccess are used

ASSUME ClientAssumption ==
  /\ ChunkSize \in Nat \ {0}
  /\ JunkLength \in Nat
  /\ Testing \in BOOLEAN

VARIABLES
  cpc,                \* where the sending thread is
  connected,          \* connected_
  connect_done,       \* connect_done_ with connect_ok_
  send_done,          \* send_done_
  awaiting_decision,  \* awaiting_decision_
  decision,           \* decision_ready_ with decision_accepted_
  decision_buf,       \* decision_buf_
  file_ack,           \* file_ack_
  ack,                \* file_done_ with file_ok_
  rejected,           \* rejected_
  sent,               \* bytes of the body handed to msquic
  job,                \* header and byte count of the send under way
  source,             \* contents of the file to send
  send_result         \* how send_file (or connect) ended

decisionVars == <<awaiting_decision, decision, decision_buf>>
ackVars      == <<file_ack, ack>>
jobVars      == <<sent, job, source>>
clientVars   == <<cpc, connected, connect_done, send_done, decisionVars, ackVars,
                  rejected, jobVars, send_result>>

CpcStates ==
  {"start", "connecting", "ready",
   "header_wait",     \* stream_send_and_wait of the header
   "decision_wait",   \* waiting for ACCEPT or REJECT
   "send_chunk",      \* about to read and send the next chunk
   "chunk_wait",      \* stream_send_and_wait of a chunk
   "ack_wait",        \* waiting for OK or FAIL
   "raw_wait", "raw_ack_wait",  \* the two waits of send_raw_stream
   "disconnect", "shutdown_wait", "done"}

\* The states in which send_file has sent, or is about to send, file bytes.
BodyStates == {"send_chunk", "chunk_wait", "ack_wait"}

NoJob == [header |-> None, total |-> 0]

Jobs == [header : FileTransferHeader, total : Nat]

ClientTypeOK ==
  /\ cpc \in [Clients -> CpcStates]
  /\ connected \in [Clients -> BOOLEAN]
  /\ connect_done \in [Clients -> {"none", "ok", "fail"}]
  /\ send_done \in [Clients -> BOOLEAN]
  /\ awaiting_decision \in [Clients -> BOOLEAN]
  /\ decision \in [Clients -> {"none", "accepted", "rejected"}]
  /\ decision_buf \in [Clients -> Seq(Fragments)]
  /\ file_ack \in [Clients -> Seq(Fragments)]
  /\ ack \in [Clients -> {"none", "ok", "fail"}]
  /\ rejected \in [Clients -> BOOLEAN]
  /\ sent \in [Clients -> Nat]
  /\ job \in [Clients -> Jobs \cup {NoJob}]
  /\ source \in [Clients -> Contents]
  /\ send_result \in [Clients -> {"none", "ok", "failed", "raw"}]

ClientInit ==
  /\ cpc = [c \in Clients |-> "start"]
  /\ connected = [c \in Clients |-> FALSE]
  /\ connect_done = [c \in Clients |-> "none"]
  /\ send_done = [c \in Clients |-> FALSE]
  /\ awaiting_decision = [c \in Clients |-> FALSE]
  /\ decision = [c \in Clients |-> "none"]
  /\ decision_buf = [c \in Clients |-> <<>>]
  /\ file_ack = [c \in Clients |-> <<>>]
  /\ ack = [c \in Clients |-> "none"]
  /\ rejected = [c \in Clients |-> FALSE]
  /\ sent = [c \in Clients |-> 0]
  /\ job = [c \in Clients |-> NoJob]
  /\ source \in [Clients -> Contents]
  /\ send_result = [c \in Clients |-> "none"]

\* The thread of c moves on.
Goto(c, label) == cpc' = [cpc EXCEPT ![c] = label]

\* send_file (or connect) ends; the callers disconnect next.
Finish(c, result) ==
  /\ Goto(c, "disconnect")
  /\ send_result' = [send_result EXCEPT ![c] = result]

\* abort_stream: nothing to abort once stream_ is null or the connection gone.
abort_stream(c) ==
  reset' = [reset EXCEPT ![c] =
              IF cStream[c] = "open" /\ cConn[c] = "connected" THEN "sent" ELSE @]

-----------------------------------------------------------------------------
(* connect.                                                                *)

Connect(c) ==
  /\ cpc[c] = "start"
  /\ Goto(c, "connecting")
  /\ cConn' = [cConn EXCEPT ![c] = "handshake"]
  /\ UNCHANGED <<connected, connect_done, send_done, decisionVars, ackVars, rejected, jobVars,
                 send_result, listening, lost, sConn, c2sVars, s2cVars, streamVars, sendVars>>

\* The wait ends: with CONNECTED, with a failure event, or by kConnectTimeoutMs.
ConnectReturns(c) ==
  /\ cpc[c] = "connecting"
  /\ \/ /\ connect_done[c] = "ok"
        /\ Goto(c, "ready")
        /\ UNCHANGED send_result
     \/ /\ connect_done[c] = "fail"
        /\ Finish(c, "failed")
     \/ /\ connect_done[c] = "none" /\ "send_timeout" \in Faults
        /\ Finish(c, "failed")
  /\ UNCHANGED <<connected, connect_done, send_done, decisionVars, ackVars, rejected, jobVars,
                 quicVars>>

-----------------------------------------------------------------------------
(* send_file, send_file_internal and send_raw_stream.                      *)

\* The header send_file builds, and what QuicTestAccess may ask for instead.
Sizes == {Len(content) : content \in Contents}

FileJob(c, name) ==
  [header |-> [name |-> name, size |-> Len(source[c]), sha256_hex |-> sha256(source[c])],
   total  |-> Len(source[c])]

TestJobs ==
  IF Testing
  THEN [header : [name : RawNames, size : Sizes, sha256_hex : Hashes], total : Sizes]
  ELSE {}

\* open_stream and the stream_send_and_wait after it, up to its wait (label); a
\* failed StreamSend aborts the stream.
FirstSend(c, units, fin, label) ==
  /\ cStream' = [cStream EXCEPT ![c] = "open"]
  /\ send_done' = [send_done EXCEPT ![c] = FALSE]
  /\ \E ok \in Outcomes("send") :
       IF ok
       THEN /\ ClientSends(c, units, fin)
            /\ Goto(c, label)
            /\ UNCHANGED <<reset, send_result>>
       ELSE /\ Finish(c, "failed")
            /\ reset' = [reset EXCEPT ![c] = "sent"]
            /\ UNCHANGED <<c2s, cFin, cSends>>

\* send_file up to the first wait: hash the file, open the stream, expect a
\* decision, send the header.
SendHeader(c) ==
  /\ cpc[c] = "ready"
  /\ connected[c] /\ cConn[c] = "connected"
  /\ \E j \in {FileJob(c, name) : name \in RawNames} \cup TestJobs :
       /\ job' = [job EXCEPT ![c] = j]
       /\ FirstSend(c, encode_file_header(j.header), FALSE, "header_wait")
  /\ awaiting_decision' = [awaiting_decision EXCEPT ![c] = TRUE]
  /\ decision' = [decision EXCEPT ![c] = "none"]
  /\ decision_buf' = [decision_buf EXCEPT ![c] = <<>>]
  /\ file_ack' = [file_ack EXCEPT ![c] = <<>>]
  /\ ack' = [ack EXCEPT ![c] = "none"]
  /\ rejected' = [rejected EXCEPT ![c] = FALSE]
  /\ UNCHANGED <<connected, connect_done, sent, source, connVars, s2cVars, sStream, sSends>>

\* send_file without a usable connection.
SendWithoutConnection(c) ==
  /\ cpc[c] = "ready"
  /\ ~(connected[c] /\ cConn[c] = "connected")
  /\ Finish(c, "failed")
  /\ UNCHANGED <<connected, connect_done, send_done, decisionVars, ackVars, rejected, jobVars,
                 quicVars>>

\* The header is out (or its send was cancelled, which looks the same).
HeaderSent(c) ==
  /\ cpc[c] = "header_wait" /\ send_done[c]
  /\ Goto(c, "decision_wait")
  /\ UNCHANGED <<connected, connect_done, send_done, decisionVars, ackVars, rejected, jobVars,
                 send_result, quicVars>>

\* Mutant: whatever the receiver decided, the body is sent.
DecisionIgnored(c) ==
  /\ cpc[c] = "decision_wait" /\ decision[c] # "none"
  /\ Goto(c, "send_chunk")
  /\ UNCHANGED <<connected, connect_done, send_done, decisionVars, ackVars, rejected, jobVars,
                 send_result, quicVars>>

DecisionAccepted(c) ==
  /\ cpc[c] = "decision_wait" /\ decision[c] = "accepted"
  /\ Goto(c, "send_chunk")
  /\ UNCHANGED <<connected, connect_done, send_done, decisionVars, ackVars, rejected, jobVars,
                 send_result, quicVars>>

DecisionRejected(c) ==
  /\ cpc[c] = "decision_wait" /\ decision[c] = "rejected"
  /\ rejected' = [rejected EXCEPT ![c] = TRUE]
  /\ abort_stream(c)
  /\ Finish(c, "failed")
  /\ UNCHANGED <<connected, connect_done, send_done, decisionVars, ackVars, jobVars,
                 connVars, c2s, cFin, s2cVars, streamVars, sendVars>>

\* A wait for SEND_COMPLETE or for the decision expires.
WaitExpires(c) ==
  /\ "send_timeout" \in Faults
  /\ \/ cpc[c] \in {"header_wait", "chunk_wait", "raw_wait"} /\ ~send_done[c]
     \/ cpc[c] = "decision_wait" /\ decision[c] = "none"
  /\ abort_stream(c)
  /\ Finish(c, "failed")
  /\ UNCHANGED <<connected, connect_done, send_done, decisionVars, ackVars, rejected, jobVars,
                 connVars, c2s, cFin, s2cVars, streamVars, sendVars>>

\* What input.read yields: the file may have been edited since it was hashed.
NextChunk(c) ==
  LET left == job[c].total - sent[c]
      want == IF left <= ChunkSize THEN left ELSE ChunkSize
      end  == IF sent[c] + want <= Len(source[c]) THEN sent[c] + want ELSE Len(source[c])
  IN SubSeq(source[c], sent[c] + 1, end)

\* One turn of the loop up to its wait.  An empty file is sent as a lone FIN.
SendChunk(c) ==
  /\ cpc[c] = "send_chunk"
  /\ job[c].total = 0 \/ NextChunk(c) # <<>>
  /\ LET n == sent[c] + Len(NextChunk(c))
     IN /\ sent' = [sent EXCEPT ![c] = n]
        /\ send_done' = [send_done EXCEPT ![c] = FALSE]
        /\ \E ok \in SendOutcomes(ClientCanSend(c)) :
             IF ok
             THEN /\ ClientSends(c, NextChunk(c), n >= job[c].total)
                  /\ Goto(c, "chunk_wait")
                  /\ UNCHANGED <<reset, send_result>>
             ELSE /\ abort_stream(c)
                  /\ Finish(c, "failed")
                  /\ UNCHANGED <<c2s, cFin, cSends>>
  /\ UNCHANGED <<connected, connect_done, decisionVars, ackVars, rejected, job, source,
                 connVars, s2cVars, streamVars, sSends>>

\* Nothing left to read before all bytes are sent: "file shrank during send".
FileShrank(c) ==
  /\ cpc[c] = "send_chunk"
  /\ job[c].total > 0 /\ NextChunk(c) = <<>>
  /\ abort_stream(c)
  /\ Finish(c, "failed")
  /\ UNCHANGED <<connected, connect_done, send_done, decisionVars, ackVars, rejected, jobVars,
                 connVars, c2s, cFin, s2cVars, streamVars, sendVars>>

ChunkSent(c) ==
  /\ cpc[c] = "chunk_wait" /\ send_done[c]
  /\ Goto(c, IF sent[c] < job[c].total THEN "send_chunk" ELSE "ack_wait")
  /\ UNCHANGED <<connected, connect_done, send_done, decisionVars, ackVars, rejected, jobVars,
                 send_result, quicVars>>

\* Mutant: any answer counts as OK.
AnyAck(c) == ack[c] # "none"

AckedOk(c) == ack[c] = "ok"

\* The wait for OK or FAIL ends; it may expire, and then nothing is aborted.
SendReturns(c) ==
  /\ cpc[c] = "ack_wait"
  /\ \/ AckedOk(c) /\ Finish(c, "ok")
     \/ ~AckedOk(c) /\ (ack[c] # "none" \/ "send_timeout" \in Faults) /\ Finish(c, "failed")
  /\ UNCHANGED <<connected, connect_done, send_done, decisionVars, ackVars, rejected, jobVars,
                 quicVars>>

\* send_raw_stream, with a FIN, of bytes that are no header.
SendRaw(c) ==
  /\ Testing
  /\ cpc[c] = "ready"
  /\ connected[c] /\ cConn[c] = "connected"
  /\ \E b \in Bytes : FirstSend(c, [i \in 1..JunkLength |-> b], TRUE, "raw_wait")
  /\ file_ack' = [file_ack EXCEPT ![c] = <<>>]
  /\ ack' = [ack EXCEPT ![c] = "none"]
  /\ rejected' = [rejected EXCEPT ![c] = FALSE]
  /\ UNCHANGED <<connected, connect_done, decisionVars, jobVars, connVars,
                 s2cVars, sStream, sSends>>

RawReturns(c) ==
  /\ \/ /\ cpc[c] = "raw_wait" /\ send_done[c]
        /\ Goto(c, "raw_ack_wait")
        /\ UNCHANGED send_result
     \/ /\ cpc[c] = "raw_ack_wait" /\ (ack[c] # "none" \/ "send_timeout" \in Faults)
        /\ Finish(c, "raw")
  /\ UNCHANGED <<connected, connect_done, send_done, decisionVars, ackVars, rejected, jobVars,
                 quicVars>>

-----------------------------------------------------------------------------
(* disconnect.                                                             *)

Disconnect(c) ==
  /\ cpc[c] = "disconnect"
  /\ cConn' = [cConn EXCEPT ![c] = IF @ \in {"handshake", "connected"} THEN "shutdown" ELSE @]
  /\ Goto(c, "shutdown_wait")
  /\ UNCHANGED <<connected, connect_done, send_done, decisionVars, ackVars, rejected, jobVars,
                 send_result, listening, lost, sConn, c2sVars, s2cVars, streamVars, sendVars>>

\* The wait may expire, but RegistrationClose still blocks until the connection
\* is closed.
DisconnectReturns(c) ==
  /\ cpc[c] = "shutdown_wait" /\ cConn[c] = "closed"
  /\ Goto(c, "done")
  /\ connected' = [connected EXCEPT ![c] = FALSE]
  /\ connect_done' = [connect_done EXCEPT ![c] = "none"]
  /\ UNCHANGED <<send_done, decisionVars, ackVars, rejected, jobVars, send_result, quicVars>>

-----------------------------------------------------------------------------
(* Callbacks.                                                              *)

\* QUIC_CONNECTION_EVENT_CONNECTED.
OnConnected(c) ==
  /\ cConn[c] = "handshake" /\ sConn[c] = "handshake" /\ c \notin lost
  /\ cConn' = [cConn EXCEPT ![c] = "connected"]
  /\ connected' = [connected EXCEPT ![c] = TRUE]
  /\ connect_done' = [connect_done EXCEPT ![c] = "ok"]
  /\ UNCHANGED <<cpc, send_done, decisionVars, ackVars, rejected, jobVars, send_result,
                 listening, lost, sConn, c2sVars, s2cVars, streamVars, sendVars>>

\* QUIC_CONNECTION_EVENT_SHUTDOWN_INITIATED_BY_TRANSPORT and _BY_PEER: the
\* server closed, is not there, or the link is lost.
OnShutdownInitiated(c) ==
  /\ cConn[c] \in {"handshake", "connected"}
  /\ \/ c \in lost
     \/ sConn[c] \in {"shutdown", "closed"}
     \/ sConn[c] = "none" /\ ~listening
  /\ cConn' = [cConn EXCEPT ![c] = "shutdown"]
  /\ connect_done' = [connect_done EXCEPT ![c] = IF connected[c] THEN @ ELSE "fail"]
  /\ UNCHANGED <<cpc, connected, send_done, decisionVars, ackVars, rejected, jobVars,
                 send_result, listening, lost, sConn, c2sVars, s2cVars, streamVars, sendVars>>

\* QUIC_CONNECTION_EVENT_SHUTDOWN_COMPLETE, after the stream's.
OnConnectionShutdownComplete(c) ==
  /\ cConn[c] = "shutdown" /\ cStream[c] # "open"
  /\ cConn' = [cConn EXCEPT ![c] = "closed"]
  /\ connected' = [connected EXCEPT ![c] = FALSE]
  /\ UNCHANGED <<cpc, connect_done, send_done, decisionVars, ackVars, rejected, jobVars,
                 send_result, listening, lost, sConn, c2sVars, s2cVars, streamVars, sendVars>>

\* resolve_decision, from the text gathered so far.
Resolved(text) == IF StartsWith(text, "ACCEPT") THEN "accepted" ELSE "rejected"

\* Mutant: the decision is taken from the first bytes, newline or not.
AnyText(text) == text # <<>>

\* A reply is complete when its newline is in.
ReplyComplete(text) == HasNewline(text)

\* QUIC_STREAM_EVENT_RECEIVE: the text belongs to the decision while one is
\* awaited, else to the final ack.
OnReceive(c) ==
  /\ ClientHears(c)
  /\ \E n \in 1..Len(s2c[c]) :
       LET text == decision_buf[c] \o SubSeq(s2c[c], 1, n)
           now  == awaiting_decision[c] /\ ReplyComplete(text)
       IN /\ s2c' = [s2c EXCEPT ![c] = SubSeq(@, n + 1, Len(@))]
          /\ IF awaiting_decision[c]
             THEN /\ decision_buf' = [decision_buf EXCEPT ![c] = text]
                  /\ UNCHANGED file_ack
             ELSE /\ file_ack' = [file_ack EXCEPT ![c] = @ \o SubSeq(s2c[c], 1, n)]
                  /\ UNCHANGED decision_buf
          /\ awaiting_decision' = [awaiting_decision EXCEPT ![c] = @ /\ ~now]
          /\ decision' = [decision EXCEPT ![c] = IF now THEN Resolved(text) ELSE @]
  /\ UNCHANGED <<cpc, connected, connect_done, send_done, ack, rejected, jobVars, send_result,
                 connVars, c2sVars, sFin, streamVars, sendVars>>

\* QUIC_STREAM_EVENT_PEER_SEND_SHUTDOWN: the server's FIN, after its bytes.
OnPeerSendShutdown(c) ==
  /\ ClientHears(c)
  /\ s2c[c] = <<>> /\ sFin[c] = "sent"
  /\ sFin' = [sFin EXCEPT ![c] = "seen"]
  /\ IF awaiting_decision[c]
     THEN /\ awaiting_decision' = [awaiting_decision EXCEPT ![c] = FALSE]
          /\ decision' = [decision EXCEPT ![c] = Resolved(decision_buf[c])]
          /\ UNCHANGED ack
     ELSE /\ ack' = [ack EXCEPT ![c] = IF StartsWith(file_ack[c], "OK") THEN "ok" ELSE "fail"]
          /\ UNCHANGED <<awaiting_decision, decision>>
  /\ UNCHANGED <<cpc, connected, connect_done, send_done, decision_buf, file_ack, rejected,
                 jobVars, send_result, connVars, c2sVars, s2c, streamVars, sendVars>>

\* QUIC_STREAM_EVENT_SEND_COMPLETE, of a send that was delivered or cancelled.
OnSendComplete(c) ==
  /\ cStream[c] = "open" /\ cSends[c] > 0
  /\ cSends' = [cSends EXCEPT ![c] = Completed(@)]
  /\ send_done' = [send_done EXCEPT ![c] = TRUE]
  /\ UNCHANGED <<cpc, connected, connect_done, decisionVars, ackVars, rejected, jobVars,
                 send_result, connVars, c2sVars, s2cVars, streamVars, sSends>>

\* QUIC_STREAM_EVENT_SHUTDOWN_COMPLETE closes the handle and clears stream_.
OnStreamShutdownComplete(c) ==
  /\ ClientStreamOver(c)
  /\ cStream' = [cStream EXCEPT ![c] = "closed"]
  /\ UNCHANGED <<clientVars, connVars, c2sVars, s2cVars, sStream, sendVars>>

\* Somebody edits the file after it was hashed.
EditSource(c) ==
  /\ "edit" \in Faults
  /\ cpc[c] \in {"header_wait", "decision_wait", "send_chunk", "chunk_wait"}
  /\ \E content \in Contents \ {source[c]} : source' = [source EXCEPT ![c] = content]
  /\ UNCHANGED <<cpc, connected, connect_done, send_done, decisionVars, ackVars, rejected,
                 sent, job, send_result, quicVars>>

-----------------------------------------------------------------------------
ClientThread(c) ==
  \/ Connect(c) \/ ConnectReturns(c)
  \/ SendHeader(c) \/ SendWithoutConnection(c)
  \/ HeaderSent(c) \/ DecisionAccepted(c) \/ DecisionRejected(c) \/ WaitExpires(c)
  \/ SendChunk(c) \/ FileShrank(c) \/ ChunkSent(c) \/ SendReturns(c)
  \/ SendRaw(c) \/ RawReturns(c)
  \/ Disconnect(c) \/ DisconnectReturns(c)

ClientCallback(c) ==
  \/ OnConnected(c) \/ OnShutdownInitiated(c) \/ OnConnectionShutdownComplete(c)
  \/ OnReceive(c) \/ OnPeerSendShutdown(c) \/ OnSendComplete(c)
  \/ OnStreamShutdownComplete(c)
=============================================================================
