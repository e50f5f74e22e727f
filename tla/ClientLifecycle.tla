--------------------------- MODULE ClientLifecycle ---------------------------
(***************************************************************************)
(* The life of a QuicClient object (src/transfer/quic_client.cpp): one     *)
(* thread connects, sends several files over the connection, disconnects,  *)
(* connects again and destroys the object, while an msquic worker runs the *)
(* callbacks.  QuicClient models one send_file in detail; here a file is   *)
(* one chunk and a reply is one word, and what counts is which handle a    *)
(* call uses and which stream an event belongs to.                         *)
(*                                                                         *)
(* The thread is split wherever it reads or writes a member the callbacks  *)
(* use; a callback that closes a handle is split where it writes one.      *)
(***************************************************************************)
EXTENDS Naturals, Sequences, FiniteSets

CONSTANT
  MaxSends    \* send_file calls on one connection

ASSUME SendsAssumption == MaxSends \in Nat \ {0}

\* The streams of a connection are numbered; 0 is the null handle.
Streams == 1..MaxSends
NoStream == 0

VARIABLES
  apc,               \* where the thread is
  sends,             \* send_file calls on this connection
  leaving,           \* the destructor has called disconnect()
  api, registration, configuration, connection,  \* is the handle member set?
  stream,            \* stream_
  live,              \* library handles that are open
  conn, strm,        \* what msquic knows of the connection and its streams
  lost,              \* the peer or the transport ended the connection
  worker,            \* how far the callback in progress is
  connected, connect_done, shutdown_complete,
  send_done, awaiting_decision, decision, decision_buf, file_ack, ack, rejected,
  queued,            \* StreamSend calls without SEND_COMPLETE
  handed,            \* what has been handed to msquic: 1 the header, 2 the body too
  at_server,         \* how far the server is with each stream
  inbox,             \* its replies that are under way
  heard,             \* those this object has been given
  expired,           \* a wait of send_file expired on this connection
  dead_call,         \* a null or closed handle was used
  last               \* stream and outcome of the last send_file

handleVars == <<api, registration, configuration, live>>
connVars   == <<connection, conn, lost, connected, connect_done, shutdown_complete>>
flagVars   == <<send_done, awaiting_decision, decision, decision_buf, file_ack, ack, rejected>>
streamVars == <<stream, strm, queued, handed>>
peerVars   == <<at_server, inbox, heard>>
paceVars   == <<sends, leaving>>
noteVars   == <<expired, dead_call, last>>
vars == <<apc, worker, paceVars, handleVars, connVars, flagVars, streamVars, peerVars, noteVars>>

ConnectStates == {"open_registration", "open_configuration", "open_connection",
                  "start_connection", "connecting"}
SendStates == {"open_stream", "send_header", "header_wait", "decision_wait", "send_body",
               "body_wait", "ack_wait"}
DisconnectStates == {"disconnect", "clear_complete", "shutdown", "shutdown_wait",
                     "close_configuration", "close_registration", "close_api"}
ApcStates == {"idle", "ready", "destroyed"} \cup ConnectStates \cup SendStates
             \cup DisconnectStates

Replies == {"ACCEPT", "REJECT", "OK", "FAIL", "FIN"}

TypeOK ==
  /\ apc \in ApcStates
  /\ sends \in 0..MaxSends /\ leaving \in BOOLEAN
  /\ {api, registration, configuration, connection} \subseteq BOOLEAN
  /\ stream \in Streams \cup {NoStream}
  /\ live \subseteq {"api", "registration", "configuration"}
  /\ conn \in {"none", "open", "started", "connected", "shutdown", "closed"}
  /\ strm \in [Streams -> {"none", "started", "aborting", "aborted", "closed"}]
  /\ worker \in {"free", "conn_closed", "conn_cleared", "strm_closed"}
  /\ {lost, expired, dead_call} \subseteq BOOLEAN
  /\ connected \in BOOLEAN /\ shutdown_complete \in BOOLEAN /\ send_done \in BOOLEAN
  /\ connect_done \in {"none", "ok", "fail"}
  /\ awaiting_decision \in BOOLEAN /\ rejected \in BOOLEAN
  /\ decision \in {"none", "accepted", "rejected"} /\ ack \in {"none", "ok", "fail"}
  /\ {decision_buf, file_ack} \subseteq Replies \cup {"none"}
  /\ queued \in [Streams -> 0..2]
  /\ handed \in [Streams -> 0..2]
  /\ at_server \in [Streams -> {"unseen", "offered", "accepted", "answered"}]
  /\ inbox \in [Streams -> Seq(Replies)]
  /\ heard \in [Streams -> SUBSET Replies]
  /\ last \in (Streams \cup {NoStream}) \X {"none", "ok", "failed"}

Each(x) == [s \in Streams |-> x]

Init ==
  /\ apc = "idle"
  /\ leaving = FALSE
  /\ api = FALSE /\ registration = FALSE /\ configuration = FALSE /\ connection = FALSE
  /\ stream = NoStream
  /\ live = {}
  /\ sends = 0 /\ conn = "none" /\ lost = FALSE
  /\ strm = Each("none") /\ queued = Each(0) /\ handed = Each(0)
  /\ at_server = Each("unseen") /\ inbox = Each(<<>>) /\ heard = Each({})
  /\ expired = FALSE /\ dead_call = FALSE /\ last = <<NoStream, "none">>
  /\ worker = "free"
  /\ connected = FALSE /\ shutdown_complete = FALSE /\ connect_done = "none"
  /\ send_done = FALSE /\ awaiting_decision = FALSE /\ rejected = FALSE
  /\ decision = "none" /\ ack = "none" /\ decision_buf = "none" /\ file_ack = "none"

Moves(from, to) == apc = from /\ apc' = to

\* A call on the handle in connection_.
UsesConnection == dead_call' = (dead_call \/ ~connection \/ conn = "closed")

-----------------------------------------------------------------------------
(* connect.  The callers disconnect (or destroy the object) before they    *)
(* connect again.  An acquisition that fails hands over to disconnect().   *)
(* Nothing is left of the connection before.                               *)

Connect ==
  /\ sends' = 0 /\ conn' = "none" /\ lost' = FALSE
  /\ strm' = Each("none") /\ queued' = Each(0) /\ handed' = Each(0)
  /\ at_server' = Each("unseen") /\ inbox' = Each(<<>>) /\ heard' = Each({})
  /\ expired' = FALSE /\ dead_call' = FALSE /\ last' = <<NoStream, "none">>
  /\ connect_done' = "none" /\ shutdown_complete' = FALSE
  /\ \/ /\ Moves("idle", "open_registration")
        /\ api' = TRUE
        /\ live' = live \cup {"api"}
     \/ /\ Moves("idle", "idle")
        /\ UNCHANGED <<api, live>>
  /\ UNCHANGED <<leaving, registration, configuration, connection, connected, worker, flagVars,
                 stream>>

OpenRegistration ==
  /\ \/ /\ Moves("open_registration", "open_configuration")
        /\ registration' = TRUE
        /\ live' = live \cup {"registration"}
     \/ /\ Moves("open_registration", "disconnect")
        /\ UNCHANGED <<registration, live>>
  /\ UNCHANGED <<worker, paceVars, api, configuration, connVars, flagVars, streamVars, peerVars,
                 noteVars>>

\* Mutant: when the credentials cannot be loaded, only the member is cleared.
ConfigurationDropped(loaded) ==
  /\ configuration' = loaded
  /\ live' = live \cup {"configuration"}

\* ConfigurationLoadCredential fails: the new configuration is closed again.
LoadCredential(loaded) ==
  /\ configuration' = loaded
  /\ live' = IF loaded THEN live \cup {"configuration"} ELSE live

open_configuration ==
  /\ \/ Moves("open_configuration", "open_connection") /\ LoadCredential(TRUE)
     \/ Moves("open_configuration", "disconnect") /\ LoadCredential(FALSE)
     \/ Moves("open_configuration", "disconnect") /\ UNCHANGED <<configuration, live>>
  /\ UNCHANGED <<worker, paceVars, api, registration, connVars, flagVars, streamVars, peerVars,
                 noteVars>>

OpenConnection ==
  /\ \/ /\ Moves("open_connection", "start_connection")
        /\ connection' = TRUE
        /\ conn' = "open"
     \/ /\ Moves("open_connection", "disconnect")
        /\ UNCHANGED <<connection, conn>>
  /\ UNCHANGED <<worker, paceVars, handleVars, lost, connected, connect_done, shutdown_complete,
                 flagVars, streamVars, peerVars, noteVars>>

StartConnection ==
  /\ \/ /\ Moves("start_connection", "connecting")
        /\ conn' = "started"
     \/ /\ Moves("start_connection", "disconnect")
        /\ UNCHANGED conn
  /\ UNCHANGED <<worker, paceVars, handleVars, connection, lost, connected, connect_done,
                 shutdown_complete, flagVars, streamVars, peerVars, noteVars>>

\* The handshake's outcome, or kConnectTimeoutMs.
ConnectReturns ==
  /\ \/ connect_done = "ok" /\ Moves("connecting", "ready")
     \/ connect_done # "ok" /\ Moves("connecting", "disconnect")
  /\ UNCHANGED <<worker, paceVars, handleVars, connVars, flagVars, streamVars, peerVars, noteVars>>

-----------------------------------------------------------------------------
(* send_file.                                                              *)

Returns(outcome) == apc' = "ready" /\ last' = <<sends, outcome>>

\* The checks in front of a transfer fail: not connected, or no such file.
SendRefused ==
  /\ Moves("ready", "ready")
  /\ last' = <<NoStream, "failed">>
  /\ UNCHANGED <<worker, paceVars, handleVars, connVars, flagVars, streamVars, peerVars, expired,
                 dead_call>>

\* Mutant: an answer to an earlier send_file is left standing.
AckKept == ack

NoAck == "none"

SendFile ==
  /\ sends < MaxSends /\ connected /\ connection
  /\ Moves("ready", "open_stream")
  /\ sends' = sends + 1
  /\ decision' = "none" /\ ack' = NoAck
  /\ decision_buf' = "none" /\ file_ack' = "none" /\ rejected' = FALSE
  /\ UNCHANGED <<worker, leaving, handleVars, connVars, send_done, awaiting_decision,
                 streamVars, peerVars, noteVars>>

open_stream ==
  /\ apc = "open_stream"
  /\ UsesConnection
  /\ \/ /\ connection /\ conn = "connected"
        /\ apc' = "send_header"
        /\ stream' = sends
        /\ strm' = [strm EXCEPT ![sends] = "started"]
        /\ UNCHANGED last
     \/ /\ Returns("failed")
        /\ stream' = NoStream
        /\ UNCHANGED strm
  /\ UNCHANGED <<worker, paceVars, handleVars, connVars, flagVars, queued, handed, peerVars,
                 expired>>

\* Mutant: a failed send_file leaves its stream as it is.
StreamLeft == strm

\* abort_stream, on whatever stream_ is now; a null handle is left alone.
abort_stream ==
  [t \in Streams |-> IF t = stream /\ strm[t] = "started" THEN "aborting" ELSE strm[t]]

\* Mutant: the body's data is handed over once more, to carry the FIN.
BufferQueuedAgain(n) == [queued EXCEPT ![stream] = @ + n]

BufferQueued(n) == [queued EXCEPT ![stream] = @ + 1]

\* stream_send_and_wait up to its wait: n is what msquic has been handed then.
StreamSend(n, label) ==
  /\ send_done' = FALSE
  /\ \/ /\ stream # NoStream
        /\ strm[stream] = "started" /\ conn = "connected"
        /\ apc' = label
        /\ queued' = BufferQueued(n)
        /\ handed' = [handed EXCEPT ![stream] = n]
        /\ UNCHANGED <<strm, last>>
     \/ /\ Returns("failed")
        /\ strm' = abort_stream
        /\ UNCHANGED <<queued, handed>>
  /\ dead_call' = (dead_call \/ (stream # NoStream /\ strm[stream] = "closed"))
  /\ UNCHANGED <<worker, paceVars, handleVars, connVars, decision, decision_buf, file_ack, ack,
                 rejected, stream, peerVars, expired>>

SendHeader ==
  /\ apc = "send_header"
  /\ awaiting_decision' = TRUE
  /\ StreamSend(1, "header_wait")

SendBody ==
  /\ apc = "send_body"
  /\ StreamSend(2, "body_wait")
  /\ UNCHANGED awaiting_decision

WaitEnds ==
  /\ \/ send_done /\ Moves("header_wait", "decision_wait")
     \/ decision = "accepted" /\ Moves("decision_wait", "send_body")
     \/ send_done /\ Moves("body_wait", "ack_wait")
  /\ UNCHANGED <<worker, paceVars, handleVars, connVars, flagVars, streamVars, peerVars, noteVars>>

DecisionRejected ==
  /\ apc = "decision_wait" /\ decision = "rejected"
  /\ rejected' = TRUE
  /\ Returns("failed")
  /\ strm' = abort_stream
  /\ UNCHANGED <<worker, paceVars, handleVars, connVars, send_done, awaiting_decision, decision,
                 decision_buf, file_ack, ack, stream, queued, handed, peerVars, expired,
                 dead_call>>

\* A wait expires; the wait for OK or FAIL leaves the stream open.
WaitExpires ==
  /\ apc \in {"header_wait", "decision_wait", "body_wait", "ack_wait"}
  /\ Returns("failed")
  /\ expired' = TRUE
  /\ strm' = IF apc = "ack_wait" THEN strm ELSE abort_stream
  /\ UNCHANGED <<worker, paceVars, handleVars, connVars, flagVars, stream, queued, handed,
                 peerVars, dead_call>>

SendReturns ==
  /\ apc = "ack_wait" /\ ack # "none"
  /\ Returns(IF ack = "ok" THEN "ok" ELSE "failed")
  /\ UNCHANGED <<worker, paceVars, handleVars, connVars, flagVars, streamVars, peerVars, expired,
                 dead_call>>

-----------------------------------------------------------------------------
(* disconnect, also called by connect() when it fails and the destructor.  *)

disconnectVars == <<worker, sends, flagVars, streamVars, peerVars>>

Disconnect ==
  /\ Moves("ready", "disconnect")
  /\ UNCHANGED <<leaving, handleVars, connVars, noteVars, disconnectVars>>

Destroy ==
  /\ apc \in {"idle", "ready"}
  /\ apc' = "disconnect"
  /\ leaving' = TRUE
  /\ UNCHANGED <<handleVars, connVars, noteVars, disconnectVars>>

HasConnection == api /\ connection

\* Line 340.
TestConnection ==
  /\ \/ HasConnection /\ Moves("disconnect", "clear_complete")
     \/ ~HasConnection /\ Moves("disconnect", "close_configuration")
  /\ UNCHANGED <<leaving, handleVars, connVars, noteVars, disconnectVars>>

\* Line 341, without shutdown_mutex_.
ClearComplete ==
  /\ Moves("clear_complete", "shutdown")
  /\ shutdown_complete' = FALSE
  /\ UNCHANGED <<leaving, handleVars, connection, conn, lost, connected, connect_done, noteVars,
                 disconnectVars>>

\* Line 344, on the connection_ of this moment.
ConnectionShutdown ==
  /\ Moves("shutdown", "shutdown_wait")
  /\ UsesConnection
  /\ conn' = IF connection /\ conn # "closed" THEN "shutdown" ELSE conn
  /\ UNCHANGED <<leaving, handleVars, connection, lost, connected, connect_done,
                 shutdown_complete, expired, last, disconnectVars>>

\* SHUTDOWN_COMPLETE, or kShutdownTimeoutMs.
ShutdownWaitEnds ==
  /\ Moves("shutdown_wait", "close_configuration")
  /\ UNCHANGED <<leaving, handleVars, connVars, noteVars, disconnectVars>>

CloseConfiguration ==
  /\ Moves("close_configuration", "close_registration")
  /\ live' = live \ IF configuration THEN {"configuration"} ELSE {}
  /\ configuration' = FALSE
  /\ UNCHANGED <<leaving, api, registration, connVars, noteVars, disconnectVars>>

\* Mutant: RegistrationClose does not wait.
NothingToWaitFor == TRUE

\* It returns when every connection has been closed and its last callback is over.
AllClosed == worker = "free" /\ conn \in {"none", "closed"}

CloseRegistration ==
  /\ registration => AllClosed
  /\ Moves("close_registration", "close_api")
  /\ live' = live \ IF registration THEN {"registration"} ELSE {}
  /\ registration' = FALSE
  /\ UNCHANGED <<leaving, api, configuration, connVars, noteVars, disconnectVars>>

CloseApi ==
  /\ \/ ~leaving /\ Moves("close_api", "idle")
     \/ leaving /\ Moves("close_api", "destroyed")
  /\ live' = live \ IF api THEN {"api"} ELSE {}
  /\ api' = FALSE
  /\ connected' = FALSE /\ connect_done' = "none" /\ shutdown_complete' = FALSE
  /\ UNCHANGED <<leaving, registration, configuration, connection, conn, lost, noteVars,
                 disconnectVars>>

-----------------------------------------------------------------------------
(* Connection callbacks.                                                   *)

appVars == <<apc, paceVars, handleVars, expired, dead_call, last>>

OnConnected ==
  /\ worker = "free" /\ conn = "started"
  /\ conn' = "connected"
  /\ connected' = TRUE
  /\ connect_done' = "ok"
  /\ UNCHANGED <<worker, connection, lost, shutdown_complete, appVars, flagVars, streamVars,
                 peerVars>>

\* SHUTDOWN_INITIATED_BY_TRANSPORT or _BY_PEER.
OnShutdownInitiated ==
  /\ worker = "free" /\ conn \in {"started", "connected"}
  /\ conn' = "shutdown"
  /\ lost' = TRUE
  /\ connect_done' = IF connected THEN connect_done ELSE "fail"
  /\ UNCHANGED <<worker, connection, connected, shutdown_complete, appVars, flagVars, streamVars,
                 peerVars>>

\* Mutant: the handle is not closed in the callback.
HandleKept == "shutdown"

HandleClosed == "closed"

\* SHUTDOWN_COMPLETE, after that of every stream: close the handle, ...
OnShutdownComplete ==
  /\ worker = "free" /\ conn = "shutdown"
  /\ \A s \in Streams : strm[s] \in {"none", "closed"}
  /\ connected' = FALSE
  /\ conn' = HandleClosed
  /\ worker' = "conn_closed"
  /\ UNCHANGED <<connection, lost, connect_done, shutdown_complete, appVars, flagVars, streamVars,
                 peerVars>>

\* ... clear the member, ...
ClearConnection ==
  /\ worker = "conn_closed"
  /\ worker' = "conn_cleared"
  /\ connection' = FALSE
  /\ UNCHANGED <<conn, lost, connected, connect_done, shutdown_complete, appVars, flagVars,
                 streamVars, peerVars>>

\* Mutant: disconnect() is woken before the callback is over.
SaysNothing == shutdown_complete

SaysComplete == TRUE

\* ... wake disconnect().
NotifyShutdown ==
  /\ worker = "conn_cleared"
  /\ worker' = "free"
  /\ shutdown_complete' = SaysComplete
  /\ UNCHANGED <<connection, conn, lost, connected, connect_done, appVars, flagVars, streamVars,
                 peerVars>>

-----------------------------------------------------------------------------
(* Stream callbacks: which stream an event is for is not looked at.        *)

Hears(s) ==
  /\ worker = "free"
  /\ strm[s] \in {"started", "aborting"} /\ conn = "connected"
  /\ inbox[s] # <<>>

First(text, word) == IF text = "none" THEN word ELSE text

\* RECEIVE of one reply line.
OnReceive(s) ==
  /\ Hears(s) /\ Head(inbox[s]) # "FIN"
  /\ inbox' = [inbox EXCEPT ![s] = Tail(@)]
  /\ heard' = [heard EXCEPT ![s] = @ \cup {Head(inbox[s])}]
  /\ \/ /\ awaiting_decision
        /\ awaiting_decision' = FALSE
        /\ decision_buf' = First(decision_buf, Head(inbox[s]))
        /\ decision' = IF decision_buf' = "ACCEPT" THEN "accepted" ELSE "rejected"
        /\ UNCHANGED file_ack
     \/ /\ ~awaiting_decision
        /\ file_ack' = First(file_ack, Head(inbox[s]))
        /\ UNCHANGED <<awaiting_decision, decision_buf, decision>>
  /\ UNCHANGED <<appVars, connVars, worker, send_done, ack, rejected, streamVars, at_server>>

\* PEER_SEND_SHUTDOWN.
OnPeerSendShutdown(s) ==
  /\ Hears(s) /\ Head(inbox[s]) = "FIN"
  /\ inbox' = [inbox EXCEPT ![s] = Tail(@)]
  /\ heard' = [heard EXCEPT ![s] = @ \cup {"FIN"}]
  /\ \/ /\ awaiting_decision
        /\ awaiting_decision' = FALSE
        /\ decision' = IF decision_buf = "ACCEPT" THEN "accepted" ELSE "rejected"
        /\ UNCHANGED ack
     \/ /\ ~awaiting_decision
        /\ ack' = IF file_ack = "OK" THEN "ok" ELSE "fail"
        /\ UNCHANGED <<awaiting_decision, decision>>
  /\ UNCHANGED <<appVars, connVars, worker, send_done, decision_buf, file_ack, rejected,
                 streamVars, at_server>>

OnSendComplete(s) ==
  /\ worker = "free" /\ strm[s] # "closed" /\ queued[s] > 0
  /\ queued' = [queued EXCEPT ![s] = @ - 1]
  /\ send_done' = TRUE
  /\ UNCHANGED <<appVars, connVars, worker, awaiting_decision, decision, decision_buf, file_ack,
                 ack, rejected, stream, strm, handed, peerVars>>

\* What is still under way on a stream when it ends is lost.
StreamEnds(s, state) ==
  /\ strm' = [strm EXCEPT ![s] = state]
  /\ handed' = [handed EXCEPT ![s] = 0]
  /\ at_server' = [at_server EXCEPT ![s] = "unseen"]
  /\ inbox' = [inbox EXCEPT ![s] = <<>>]
  /\ UNCHANGED <<appVars, connVars, flagVars, stream, queued, heard>>

\* msquic gets to a StreamShutdown.
StreamAborts(s) ==
  /\ worker = "free" /\ strm[s] = "aborting"
  /\ StreamEnds(s, "aborted")
  /\ UNCHANGED worker

\* SHUTDOWN_COMPLETE: close the handle, ...
OnStreamShutdownComplete(s) ==
  /\ worker = "free" /\ queued[s] = 0
  /\ strm[s] \in {"started", "aborting", "aborted"}
  /\ \/ strm[s] = "aborted"
     \/ conn = "shutdown"
     \/ handed[s] = 2 /\ "FIN" \in heard[s]
  /\ StreamEnds(s, "closed")
  /\ worker' = "strm_closed"

\* ... and clear stream_, whichever stream it names.
ClearStream ==
  /\ worker = "strm_closed"
  /\ worker' = "free"
  /\ stream' = NoStream
  /\ UNCHANGED <<appVars, connVars, flagVars, strm, queued, handed, peerVars>>

-----------------------------------------------------------------------------
(* The server.                                                             *)

\* PeerBidiStreamCount is 1: a stream is let in once the earlier ones are over.
LetIn(s) ==
  \A t \in Streams :
    t < s => strm[t] \in {"none", "aborted", "closed"} \/ "FIN" \in heard[t]

ServerTalks(s) == conn = "connected" /\ strm[s] \in {"started", "aborting"}

ServerSays(s, state, words) ==
  /\ at_server' = [at_server EXCEPT ![s] = state]
  /\ inbox' = [inbox EXCEPT ![s] = @ \o words]
  /\ UNCHANGED <<appVars, connVars, worker, flagVars, streamVars, heard>>

Server(s) ==
  /\ ServerTalks(s)
  /\ \/ /\ at_server[s] = "unseen" /\ handed[s] > 0 /\ LetIn(s)
        /\ ServerSays(s, "offered", <<>>)
     \/ /\ at_server[s] = "offered"
        /\ \/ ServerSays(s, "accepted", <<"ACCEPT">>)
           \/ ServerSays(s, "answered", <<"REJECT", "FIN">>)
     \/ /\ at_server[s] = "accepted" /\ handed[s] = 2
        /\ \E word \in {"OK", "FAIL"} : ServerSays(s, "answered", <<word, "FIN">>)

-----------------------------------------------------------------------------
Thread ==
  \/ Connect \/ OpenRegistration \/ open_configuration \/ OpenConnection \/ StartConnection
  \/ ConnectReturns
  \/ SendRefused \/ SendFile \/ open_stream \/ SendHeader \/ SendBody \/ WaitEnds
  \/ DecisionRejected \/ WaitExpires \/ SendReturns
  \/ Disconnect \/ Destroy
  \/ TestConnection \/ ClearComplete \/ ConnectionShutdown \/ ShutdownWaitEnds
  \/ CloseConfiguration \/ CloseRegistration \/ CloseApi

Callback ==
  \/ OnConnected \/ OnShutdownInitiated \/ OnShutdownComplete
  \/ ClearConnection \/ NotifyShutdown
  \/ \E s \in Streams :
       \/ OnReceive(s) \/ OnPeerSendShutdown(s) \/ OnSendComplete(s)
       \/ StreamAborts(s) \/ OnStreamShutdownComplete(s)
  \/ ClearStream

Destroyed == apc = "destroyed" /\ UNCHANGED vars

Next == Thread \/ Callback \/ (\E s \in Streams : Server(s)) \/ Destroyed

Spec == Init /\ [][Next]_vars

\* A thread inside disconnect() goes on, and so does msquic's worker.  When the
\* application calls the next operation is up to it.
DisconnectStep ==
  \/ TestConnection \/ ClearComplete \/ ConnectionShutdown \/ ShutdownWaitEnds
  \/ CloseConfiguration \/ CloseRegistration \/ CloseApi

FairSpec == Spec /\ WF_vars(DisconnectStep) /\ WF_vars(Callback)

-----------------------------------------------------------------------------
(* Properties.                                                             *)

\* However connect() ends and whatever the callbacks do meanwhile, once it or
\* disconnect() has returned without a connection every handle the library gave
\* is closed again, the members are null, and no callback is still at work on
\* the object (which may be gone).
NothingLeft ==
  apc \in {"idle", "destroyed"} =>
    /\ live = {}
    /\ ~api /\ ~registration /\ ~configuration /\ ~connection /\ stream = NoStream
    /\ AllClosed
    /\ \A s \in Streams : strm[s] \in {"none", "closed"}

\* Every handle is closed before the one it was opened from, and api_, through
\* which the callbacks close theirs, outlives them.
ClosedInOrder ==
  /\ worker # "free" => api /\ registration
  /\ "configuration" \in live => "registration" \in live
  /\ "registration" \in live => "api" \in live
  /\ conn \notin {"none", "closed"} => "registration" \in live

\* disconnect() waits for a SHUTDOWN_COMPLETE that has already been reported and
\* handled, and will sit out kShutdownTimeoutMs.
MissedShutdown ==
  apc = "shutdown_wait" /\ ~shutdown_complete /\ worker = "free" /\ conn = "closed"

\* Only if the peer or the transport had ended the connection does disconnect() miss
\* SHUTDOWN_COMPLETE, or do disconnect() and the sends use a null or closed handle:
\* connection_ is tested first, shutdown_complete_ cleared next and connection_ used
\* last, while the callback closes the handle and clears the member (338-344).
RacesOnlyAfterLoss == dead_call \/ MissedShutdown => lost

\* send_file returns true only with an OK on its own stream (quic_client.h,
\* 41-43), unless a wait of an earlier send_file on the connection expired or one
\* before the last was rejected (its FIN can end the wait for the next answer,
\* which is then taken for an answer to the send after that); and the first
\* send_file on a connection reports a rejection only if the receiver rejected
\* it, whatever an earlier connection left behind (quic_client.h, 48).
AnswersAreOwn ==
  /\ last[2] = "ok" => \/ "OK" \in heard[last[1]]
                       \/ expired
                       \/ \E s \in Streams : s + 1 < last[1] /\ "REJECT" \in heard[s]
  /\ apc = "ready" /\ rejected /\ last = <<1, "failed">> => "REJECT" \in heard[1]

\* A first send_file that failed has told the peer so: its stream is aborted,
\* unless it came to an end by itself or the failure is a wait for OK or FAIL
\* that expired.
FailureIsSignalled ==
  apc = "ready" /\ last = <<1, "failed">> /\ strm[1] = "started" /\ conn = "connected"
    => handed[1] = 2

\* disconnect() returns: SHUTDOWN_COMPLETE closes the connection even if the
\* thread no longer waits for it, and RegistrationClose lets it go then.
DisconnectReturns == apc = "disconnect" ~> apc \in {"idle", "destroyed"}
=============================================================================
