------------------------------ MODULE ClientProofs ------------------------------
(***************************************************************************)
(* The life of a QuicClient, proved for any number of send_file calls on a *)
(* connection and any number of connections: which handles are open at     *)
(* each point of connect() and disconnect(), and which stream an answer    *)
(* that is still under way can belong to.                                  *)
(***************************************************************************)
EXTENDS ClientLifecycle, SequenceTheorems, TLAPS

\* The types: the flags, and the rest.
FlagTypes ==
  /\ leaving \in BOOLEAN /\ lost \in BOOLEAN /\ expired \in BOOLEAN /\ dead_call \in BOOLEAN
  /\ api \in BOOLEAN /\ registration \in BOOLEAN /\ configuration \in BOOLEAN
  /\ connection \in BOOLEAN /\ connected \in BOOLEAN /\ shutdown_complete \in BOOLEAN
  /\ send_done \in BOOLEAN /\ awaiting_decision \in BOOLEAN /\ rejected \in BOOLEAN

Types ==
  /\ apc \in ApcStates
  /\ sends \in 0..MaxSends
  /\ stream \in Streams \cup {NoStream}
  /\ conn \in {"none", "open", "started", "connected", "shutdown", "closed"}
  /\ strm \in [Streams -> {"none", "started", "aborting", "aborted", "closed"}]
  /\ worker \in {"free", "conn_closed", "conn_cleared", "strm_closed"}
  /\ connect_done \in {"none", "ok", "fail"}
  /\ decision \in {"none", "accepted", "rejected"} /\ ack \in {"none", "ok", "fail"}
  /\ decision_buf \in Replies \cup {"none"} /\ file_ack \in Replies \cup {"none"}
  /\ queued \in [Streams -> 0..2]
  /\ handed \in [Streams -> 0..2]
  /\ at_server \in [Streams -> {"unseen", "offered", "accepted", "answered"}]
  /\ inbox \in [Streams -> Seq(Replies)]
  /\ heard \in [Streams -> SUBSET Replies]
  /\ last \in (Streams \cup {NoStream}) \X {"none", "ok", "failed"}

\* Each handle member says whether the library's handle is open ...
LiveInv ==
  /\ \A handle \in live : handle \in {"api", "registration", "configuration"}
  /\ "api" \in live <=> api
  /\ "registration" \in live <=> registration
  /\ "configuration" \in live <=> configuration

\* ... and is set in the order of connect() and cleared in that of disconnect().
HandleInv ==
  /\ (configuration => registration) /\ (registration => api)
  /\ apc \in {"idle", "destroyed"} => ~api
  /\ apc \in ConnectStates \cup {"ready", "clear_complete", "shutdown"} \cup SendStates => api
  /\ apc \in (ConnectStates \ {"open_registration"}) \cup {"ready"} \cup SendStates => registration
  /\ apc = "open_registration" => ~registration
  /\ apc \in {"open_configuration", "close_registration"} => ~configuration
  /\ apc = "close_api" => ~registration
  /\ worker # "free" \/ conn \notin {"none", "closed"} => registration

\* connection_ is null before ConnectionOpen and from the callback on that closes
\* the handle, which the library does after its streams.
ConnectionInv ==
  /\ connection <=> conn # "none" /\ (conn = "closed" => worker = "conn_closed")
  /\ worker \in {"conn_closed", "conn_cleared"} => conn = "closed"
  /\ worker = "strm_closed" => conn \notin {"none", "closed"}
  /\ conn = "closed" => \A s \in Streams : strm[s] \in {"none", "closed"}
  /\ conn = "none" => \A s \in Streams : strm[s] = "none"
  /\ apc \in {"open_registration", "open_configuration", "open_connection"} => conn = "none"
  /\ apc = "start_connection" => conn = "open"
  /\ apc \in {"start_connection", "connecting", "ready", "clear_complete", "shutdown"}
              \cup SendStates => conn # "none"

\* stream_ names an open stream, or the one whose callback is about to clear it.
PointerInv ==
  stream # NoStream => /\ strm[stream] # "none"
                       /\ strm[stream] = "closed" => worker = "strm_closed"

\* The streams after the current send_file's have not been opened.
FreshInv ==
  \A s \in Streams : s > sends \/ (s = sends /\ apc = "open_stream") => strm[s] = "none"

\* The current send_file's stream, whichever way the library ends it.
SendInv ==
  /\ apc \in SendStates => sends # 0
  /\ apc \in SendStates \ {"open_stream"} => stream \in {NoStream, sends}
  /\ apc \in {"send_header", "header_wait", "decision_wait", "send_body"} =>
       strm[sends] \in {"started", "closed"} /\ handed[sends] \in {0, 1}
  /\ apc = "send_header" => handed[sends] = 0
  /\ apc \in {"body_wait", "ack_wait"} =>
       handed[sends] = 2 \/ strm[sends] \in {"aborted", "closed"}

\* No more than was handed to msquic is in its queue.
QueueInv ==
  \A s \in Streams : strm[s] \in {"none", "started"} => queued[s] <= handed[s]

StreamInv == PointerInv /\ FreshInv /\ SendInv /\ QueueInv

\* A file is sent on a connection that was established, and a stream that ends is
\* one of its own.
PaceInv ==
  /\ connected => conn \in {"connected", "shutdown", "closed"}
  /\ apc = "idle" => ~connected
  /\ sends # 0 => conn \notin {"none", "open", "started"}
  /\ worker = "strm_closed" => \E s \in Streams : s <= sends /\ strm[s] = "closed"

\* Without a loss only disconnect() ends the connection, and its streams go on
\* until they are done with.
LossInv ==
  /\ conn \in {"shutdown", "closed"} /\ api =>
       lost \/ apc \in {"shutdown_wait", "close_configuration", "close_registration", "close_api"}
  /\ dead_call \/ MissedShutdown => lost
  /\ /\ apc \in {"send_header", "header_wait", "decision_wait", "send_body"}
     /\ strm[sends] = "closed"
     => lost

\* What the server has said on a stream, and how much of it was heard.
PeerInv(s) ==
  /\ strm[s] = "none" => heard[s] = {}
  /\ strm[s] \in {"none", "aborted", "closed"} => handed[s] = 0 /\ at_server[s] = "unseen"
  /\ at_server[s] # "unseen" => handed[s] # 0
  /\ at_server[s] \in {"unseen", "offered"} => inbox[s] = <<>>
  /\ at_server[s] = "accepted" =>
       inbox[s] = <<"ACCEPT">> \/ (inbox[s] = <<>> /\ heard[s] # {})
  /\ at_server[s] = "answered" =>
       \/ inbox[s] = <<"REJECT", "FIN">>
       \/ inbox[s] \in {<<>>, <<"FIN">>} /\ heard[s] # {}
       \/ /\ handed[s] = 2
          /\ \E word \in {"OK", "FAIL"} : \/ inbox[s] = <<"ACCEPT", word, "FIN">>
                                          \/ inbox[s] = <<word, "FIN">> /\ heard[s] # {}

\* More can be heard on the stream.
Active(s) ==
  \/ inbox[s] # <<>>
  \/ at_server[s] \in {"unseen", "offered"} /\ handed[s] # 0
  \/ at_server[s] = "accepted" /\ handed[s] = 2

\* All has been heard: the whole answer, or all there will be before the body.
Done(s)   == inbox[s] = <<>> /\ (at_server[s] = "answered" \/ strm[s] \in {"aborted", "closed"})
Heeded(s) == inbox[s] = <<>> /\ (at_server[s] = "accepted" \/ strm[s] \in {"aborted", "closed"})

\* A send before the n-th was rejected, so that its FIN may come late.
RejectedBefore(n) == \E r \in Streams : r < n /\ "REJECT" \in heard[r]

\* A send_file that has returned leaves no answer behind, unless one was rejected.
LeftInv ==
  ~expired => \A s \in Streams :
    /\ s < sends \/ (s = sends /\ apc \notin SendStates)
    /\ Active(s)
    => RejectedBefore(s + 1) /\ (handed[s] = 2 => RejectedBefore(s))

\* What send_file has been told was said on its own stream, unless an earlier send
\* was rejected, ...
OwnAnswer ==
  apc \in SendStates /\ ~expired /\ ~RejectedBefore(sends) =>
    /\ awaiting_decision \/ apc \in {"open_stream", "send_header"} =>
         heard[sends] = {} /\ decision = "none" /\ decision_buf = "none" /\ ack = "none"
    /\ decision = "rejected" => "REJECT" \in heard[sends]
    /\ \/ apc = "send_body"
       \/ apc \in {"header_wait", "decision_wait"} /\ decision = "accepted"
       => Heeded(sends)
    /\ ack # "none" => Done(sends)

\* ... and an OK unless one before the last was.
OwnResult ==
  apc \in SendStates /\ ~expired /\ ~RejectedBefore(sends - 1) =>
    (file_ack = "OK" \/ ack = "ok" => "OK" \in heard[sends])

\* What the last send_file reported.
ReportInv ==
  /\ last[1] <= sends /\ (apc \in SendStates => last[1] < sends /\ ~rejected)
  /\ expired => sends # 0 /\ (sends = 1 => apc \notin SendStates)
  /\ last[2] = "ok" => /\ last[1] \in Streams
                       /\ "OK" \in heard[last[1]] \/ expired \/ RejectedBefore(last[1] - 1)
  /\ rejected /\ last = <<1, "failed">> => "REJECT" \in heard[1]
  /\ last = <<1, "failed">> /\ strm[1] = "started" /\ conn = "connected" => handed[1] = 2
  /\ sends = 1 /\ apc \in SendStates \ {"open_stream"} => stream = 1 \/ strm[1] = "closed"

\* The inductive invariant.
IInv ==
  /\ FlagTypes /\ Types /\ LiveInv /\ HandleInv /\ ConnectionInv /\ StreamInv /\ PaceInv /\ LossInv
  /\ \A s \in Streams : PeerInv(s)
  /\ LeftInv /\ OwnAnswer /\ OwnResult /\ ReportInv

-----------------------------------------------------------------------------
\* Between connect() and disconnect() there are no handles: what NothingLeft says.
LEMMA NothingLeftHolds == IInv => NothingLeft
<1> SUFFICES ASSUME IInv, apc \in {"idle", "destroyed"}
             PROVE  /\ live = {}
                    /\ ~api /\ ~registration /\ ~configuration /\ ~connection /\ stream = NoStream
                    /\ AllClosed
                    /\ \A s \in Streams : strm[s] \in {"none", "closed"}
  BY DEF NothingLeft
<1>1. ~api /\ ~registration /\ ~configuration
  BY DEF IInv, HandleInv
<1>2. live = {}
  <2>1. \A handle \in live : FALSE
    BY <1>1 DEF IInv, LiveInv
  <2> QED
    BY <2>1
<1>3. AllClosed /\ worker = "free"
  BY <1>1 DEF IInv, Types, HandleInv, AllClosed
<1>4. ~connection
  BY <1>3 DEF IInv, ConnectionInv, AllClosed
<1>5. \A s \in Streams : strm[s] \in {"none", "closed"}
  BY <1>3 DEF IInv, ConnectionInv, AllClosed
<1>6. stream = NoStream
  BY <1>3, <1>5 DEF IInv, Types, StreamInv, PointerInv
<1> QED
  BY <1>1, <1>2, <1>3, <1>4, <1>5, <1>6

\* abort_stream touches the stream in stream_ only, and that only if it is open.
LEMMA AbortEffect ==
  ASSUME Types, strm' = abort_stream
  PROVE  \A t \in Streams : \/ strm'[t] = strm[t] /\ ~(t = stream /\ strm[t] = "started")
                            \/ t = stream /\ strm[t] = "started" /\ strm'[t] = "aborting"
BY DEF Types, abort_stream

\* What open_stream changes, stream by stream.
LEMMA OpenEffect ==
  ASSUME Types, SendInv, open_stream
  PROVE  /\ sends \in Streams /\ apc = "open_stream"
         /\ \/ /\ apc' = "send_header" /\ stream' = sends /\ conn = "connected" /\ connection
               /\ strm'[sends] = "started" /\ UNCHANGED last
               /\ \A t \in Streams : t # sends => strm'[t] = strm[t]
            \/ /\ apc' = "ready" /\ stream' = NoStream /\ last' = <<sends, "failed">>
               /\ UNCHANGED strm
<1>1. sends \in Streams /\ apc = "open_stream"
  BY SendsAssumption DEF Types, SendInv, SendStates, open_stream, Streams
<1>2. CASE /\ connection /\ conn = "connected"
           /\ apc' = "send_header"
           /\ stream' = sends
           /\ strm' = [strm EXCEPT ![sends] = "started"]
           /\ UNCHANGED last
  BY <1>1, <1>2 DEF Types
<1>3. CASE Returns("failed") /\ stream' = NoStream /\ UNCHANGED strm
  BY <1>1, <1>3 DEF Returns
<1> QED
  BY <1>2, <1>3 DEF open_stream

\* What StreamSend changes, stream by stream.
LEMMA SendEffect ==
  ASSUME Types, SendInv, apc \in SendStates, apc # "open_stream",
         NEW n \in 1..2, NEW label, StreamSend(n, label)
  PROVE  /\ sends \in Streams /\ UNCHANGED <<sends, stream, worker>> /\ stream \in {NoStream, sends}
         /\ \/ /\ apc' = label /\ stream = sends /\ strm[sends] = "started" /\ conn = "connected"
               /\ queued'[sends] = queued[sends] + 1 /\ handed'[sends] = n
               /\ \A t \in Streams : t # sends => queued'[t] = queued[t] /\ handed'[t] = handed[t]
               /\ UNCHANGED <<strm, last>>
            \/ /\ apc' = "ready" /\ last' = <<sends, "failed">>
               /\ \A t \in Streams :
                    \/ strm'[t] = strm[t] /\ ~(t = stream /\ strm[t] = "started")
                    \/ t = stream /\ strm[t] = "started" /\ strm'[t] = "aborting"
               /\ UNCHANGED <<queued, handed>>
<1>1. /\ sends \in Streams /\ UNCHANGED <<sends, stream, worker>>
      /\ stream \in {NoStream, sends}
  BY SendsAssumption DEF Types, SendInv, SendStates, StreamSend, Streams, paceVars
<1>2. CASE /\ stream # NoStream
           /\ strm[stream] = "started" /\ conn = "connected"
           /\ apc' = label
           /\ queued' = BufferQueued(n)
           /\ handed' = [handed EXCEPT ![stream] = n]
           /\ UNCHANGED <<strm, last>>
  BY <1>1, <1>2 DEF Types, BufferQueued
<1>3. CASE Returns("failed") /\ strm' = abort_stream /\ UNCHANGED <<queued, handed>>
  BY <1>1, <1>3, AbortEffect DEF Returns
<1> QED
  BY <1>2, <1>3 DEF StreamSend

\* The same for a send_file that gives up.
LEMMA GivesUpEffect ==
  ASSUME Types, DecisionRejected \/ (WaitExpires /\ apc # "ack_wait")
  PROVE  \A t \in Streams : \/ strm'[t] = strm[t] /\ ~(t = stream /\ strm[t] = "started")
                            \/ t = stream /\ strm[t] = "started" /\ strm'[t] = "aborting"
<1>1. strm' = abort_stream
  BY DEF DecisionRejected, WaitExpires
<1> QED
  BY <1>1, AbortEffect

\* The same for the end of a stream.
LEMMA EndEffect ==
  ASSUME Types, NEW s \in Streams, NEW state, StreamEnds(s, state)
  PROVE  /\ strm'[s] = state /\ handed'[s] = 0 /\ at_server'[s] = "unseen" /\ inbox'[s] = <<>>
         /\ \A t \in Streams : t # s => /\ strm'[t] = strm[t] /\ handed'[t] = handed[t]
                                        /\ at_server'[t] = at_server[t] /\ inbox'[t] = inbox[t]
         /\ UNCHANGED <<apc, sends, stream, conn, queued, heard>>
<1>1. /\ strm' = [strm EXCEPT ![s] = state] /\ handed' = [handed EXCEPT ![s] = 0]
      /\ at_server' = [at_server EXCEPT ![s] = "unseen"]
      /\ inbox' = [inbox EXCEPT ![s] = <<>>]
      /\ UNCHANGED <<apc, sends, stream, conn, queued, heard>>
  BY DEF StreamEnds, appVars, connVars, paceVars
<1> QED
  BY <1>1 DEF Types

\* The same for a buffer that msquic is done with.
LEMMA CompleteEffect ==
  ASSUME Types, NEW s \in Streams, OnSendComplete(s)
  PROVE  /\ queued[s] \in 1..2 /\ queued'[s] = queued[s] - 1
         /\ \A t \in Streams : t # s => queued'[t] = queued[t]
         /\ UNCHANGED <<apc, sends, stream, strm, handed>>
<1>1. queued[s] \in 1..2
  BY DEF OnSendComplete, Types
<1>2. /\ queued' = [queued EXCEPT ![s] = @ - 1]
      /\ UNCHANGED <<apc, sends, stream, strm, handed>>
  BY DEF OnSendComplete, appVars, paceVars
<1> QED
  BY <1>1, <1>2 DEF Types

\* What is queued stays within what is handed over.
LEMMA SendQueue ==
  ASSUME Types, SendInv, QueueInv, apc \in SendStates, apc # "open_stream",
         NEW n \in 1..2, NEW label, StreamSend(n, label), handed[sends] \in 0..(n - 1)
  PROVE  QueueInv'
<1>1. \A t \in Streams : queued[t] \in 0..2 /\ handed[t] \in 0..2
  BY DEF Types
<1> QED
  BY <1>1, SendEffect DEF QueueInv

\* The flags are set to TRUE and FALSE only, ...
LEMMA FlagTypesStep == IInv /\ [Next]_vars => FlagTypes'
<1> SUFFICES ASSUME IInv, [Next]_vars PROVE FlagTypes'
  OBVIOUS
<1> USE DEF FlagTypes, handleVars, connVars, flagVars, streamVars, peerVars, paceVars, noteVars,
            disconnectVars, appVars, Each, Moves
<1>t. FlagTypes
  BY DEF IInv
<1>0. CASE UNCHANGED vars
  BY <1>0, <1>t DEF vars
<1>1. CASE Connect
  BY <1>1, <1>t DEF Connect
<1>2. CASE OpenRegistration
  <2>1. registration' \in BOOLEAN
    BY <1>2, <1>t, Zenon DEF OpenRegistration
  <2> QED
    BY <2>1, <1>2, <1>t DEF OpenRegistration
<1>3. CASE open_configuration
  <2>1. configuration' \in BOOLEAN
    BY <1>3, <1>t, Zenon DEF open_configuration, LoadCredential
  <2> QED
    BY <2>1, <1>3, <1>t DEF open_configuration, LoadCredential
<1>4. CASE OpenConnection
  <2>1. connection' \in BOOLEAN
    BY <1>4, <1>t, Zenon DEF OpenConnection
  <2> QED
    BY <2>1, <1>4, <1>t DEF OpenConnection
<1>5. CASE StartConnection
  BY <1>5, <1>t DEF StartConnection
<1>6. CASE ConnectReturns
  BY <1>6, <1>t DEF ConnectReturns
<1>7. CASE SendRefused
  BY <1>7, <1>t DEF SendRefused
<1>8. CASE SendFile
  BY <1>8, <1>t DEF SendFile, NoAck
<1>9. CASE open_stream
  BY <1>9, <1>t DEF open_stream, UsesConnection, Returns
<1>10. CASE SendHeader
  BY <1>10, <1>t DEF SendHeader, StreamSend, BufferQueued, abort_stream, Returns, StreamInv
<1>11. CASE SendBody
  BY <1>11, <1>t DEF SendBody, StreamSend, BufferQueued, abort_stream, Returns, StreamInv
<1>12. CASE WaitEnds
  BY <1>12, <1>t DEF WaitEnds
<1>13. CASE DecisionRejected
  BY <1>13, <1>t DEF DecisionRejected, Returns, abort_stream
<1>14. CASE WaitExpires
  BY <1>14, <1>t DEF WaitExpires, Returns, abort_stream
<1>15. CASE SendReturns
  BY <1>15, <1>t DEF SendReturns, Returns
<1>16. CASE Disconnect \/ Destroy \/ TestConnection \/ ShutdownWaitEnds
  <2>1. leaving' \in BOOLEAN
    BY <1>16, <1>t, Zenon DEF Disconnect, Destroy, TestConnection, ShutdownWaitEnds
  <2> QED
    BY <2>1, <1>16, <1>t DEF Disconnect, Destroy, TestConnection, ShutdownWaitEnds
<1>17. CASE ClearComplete \/ ConnectionShutdown
  <2>1. shutdown_complete' \in BOOLEAN
    BY <1>17, <1>t, Zenon DEF ClearComplete, ConnectionShutdown, UsesConnection
  <2>2. dead_call' \in BOOLEAN
    BY <1>17, <1>t, Zenon DEF ClearComplete, ConnectionShutdown, UsesConnection
  <2> QED
    BY <2>1, <2>2, <1>17, <1>t DEF ClearComplete, ConnectionShutdown, UsesConnection
<1>18. CASE CloseConfiguration \/ CloseRegistration
  <2>1. registration' \in BOOLEAN
    BY <1>18, <1>t, Zenon DEF CloseConfiguration, CloseRegistration
  <2>2. configuration' \in BOOLEAN
    BY <1>18, <1>t, Zenon DEF CloseConfiguration, CloseRegistration
  <2> QED
    BY <2>1, <2>2, <1>18, <1>t DEF CloseConfiguration, CloseRegistration
<1>19. CASE CloseApi
  BY <1>19, <1>t DEF CloseApi
<1>20. CASE OnConnected \/ OnShutdownInitiated
  <2>1. connected' \in BOOLEAN
    BY <1>20, <1>t, Zenon DEF OnConnected, OnShutdownInitiated
  <2>2. lost' \in BOOLEAN
    BY <1>20, <1>t, Zenon DEF OnConnected, OnShutdownInitiated
  <2> QED
    BY <2>1, <2>2, <1>20, <1>t DEF OnConnected, OnShutdownInitiated
<1>21. CASE OnShutdownComplete \/ ClearConnection \/ NotifyShutdown
  <2>1. connected' \in BOOLEAN
    BY <1>21, <1>t, Zenon DEF OnShutdownComplete, ClearConnection, NotifyShutdown, HandleClosed,
       SaysComplete
  <2>2. connection' \in BOOLEAN
    BY <1>21, <1>t, Zenon DEF OnShutdownComplete, ClearConnection, NotifyShutdown, HandleClosed,
       SaysComplete
  <2>3. shutdown_complete' \in BOOLEAN
    BY <1>21, <1>t, Zenon DEF OnShutdownComplete, ClearConnection, NotifyShutdown, HandleClosed,
       SaysComplete
  <2> QED
    BY <2>1, <2>2, <2>3, <1>21, <1>t DEF OnShutdownComplete, ClearConnection, NotifyShutdown,
       HandleClosed, SaysComplete
<1>22. ASSUME NEW s \in Streams, OnReceive(s) PROVE FlagTypes'
  <2>1. awaiting_decision' \in BOOLEAN
    BY <1>22, <1>t, Zenon DEF OnReceive, Hears, First
  <2> QED
    BY <2>1, <1>22, <1>t DEF OnReceive, Hears, First
<1>23. ASSUME NEW s \in Streams, OnPeerSendShutdown(s) PROVE FlagTypes'
  <2>1. awaiting_decision' \in BOOLEAN
    BY <1>23, <1>t, Zenon DEF OnPeerSendShutdown, Hears
  <2> QED
    BY <2>1, <1>23, <1>t DEF OnPeerSendShutdown, Hears
<1>24. ASSUME NEW s \in Streams, OnSendComplete(s) PROVE FlagTypes'
  BY <1>24, <1>t DEF OnSendComplete
<1>25. ASSUME NEW s \in Streams, StreamAborts(s) PROVE FlagTypes'
  BY <1>25, <1>t DEF StreamAborts, StreamEnds
<1>26. ASSUME NEW s \in Streams, OnStreamShutdownComplete(s) PROVE FlagTypes'
  BY <1>26, <1>t DEF OnStreamShutdownComplete, StreamEnds
<1>27. CASE ClearStream
  BY <1>27, <1>t DEF ClearStream
<1>28. ASSUME NEW s \in Streams, Server(s) PROVE FlagTypes'
  BY <1>28, <1>t DEF Server, ServerSays
<1>29. CASE Destroyed
  BY <1>29, <1>0 DEF Destroyed
<1> QED
  BY <1>0, <1>1, <1>2, <1>3, <1>4, <1>5, <1>6, <1>7, <1>8, <1>9, <1>10, <1>11, <1>12, <1>13,
     <1>14, <1>15, <1>16, <1>17, <1>18, <1>19, <1>20, <1>21, <1>22, <1>23, <1>24, <1>25, <1>26,
     <1>27, <1>28, <1>29 DEF Next, Thread, Callback

\* ... and the other members and the streams keep to their values too.
LEMMA TypesStep == IInv /\ [Next]_vars => Types'
<1> SUFFICES ASSUME IInv, [Next]_vars PROVE Types'
  OBVIOUS
<1>a. /\ "idle" \in ApcStates /\ "ready" \in ApcStates
      /\ "destroyed" \in ApcStates /\ "open_registration" \in ApcStates
      /\ "open_configuration" \in ApcStates /\ "open_connection" \in ApcStates
      /\ "start_connection" \in ApcStates /\ "connecting" \in ApcStates
      /\ "open_stream" \in ApcStates /\ "send_header" \in ApcStates
      /\ "header_wait" \in ApcStates /\ "decision_wait" \in ApcStates
      /\ "send_body" \in ApcStates /\ "body_wait" \in ApcStates
      /\ "ack_wait" \in ApcStates /\ "disconnect" \in ApcStates
      /\ "clear_complete" \in ApcStates /\ "shutdown" \in ApcStates
      /\ "shutdown_wait" \in ApcStates /\ "close_configuration" \in ApcStates
      /\ "close_registration" \in ApcStates /\ "close_api" \in ApcStates
  BY DEF ApcStates, ConnectStates, SendStates, DisconnectStates
<1> USE SendsAssumption
<1> USE DEF Types, Streams, NoStream, Replies, handleVars, connVars, flagVars, streamVars,
   peerVars, paceVars, noteVars, disconnectVars, appVars, Each, Moves
<1>t. Types /\ StreamInv
  BY DEF IInv
<1>0. CASE UNCHANGED vars
  BY <1>0, <1>t, <1>a DEF vars
<1>1. CASE Connect
  BY <1>1, <1>t, <1>a DEF Connect
<1>2. CASE OpenRegistration
  BY <1>2, <1>t, <1>a DEF OpenRegistration
<1>3. CASE open_configuration
  BY <1>3, <1>t, <1>a DEF open_configuration, LoadCredential
<1>4. CASE OpenConnection
  BY <1>4, <1>t, <1>a DEF OpenConnection
<1>5. CASE StartConnection
  BY <1>5, <1>t, <1>a DEF StartConnection
<1>6. CASE ConnectReturns
  BY <1>6, <1>t, <1>a DEF ConnectReturns
<1>7. CASE SendRefused
  BY <1>7, <1>t, <1>a DEF SendRefused
<1>8. CASE SendFile
  BY <1>8, <1>t, <1>a DEF SendFile, NoAck
<1>9. CASE open_stream
  <2>1. strm' \in [Streams -> {"none", "started", "aborting", "aborted", "closed"}]
    BY <1>9, <1>t DEF open_stream
  <2>2. last' \in (Streams \cup {NoStream}) \X {"none", "ok", "failed"}
    BY <1>9, <1>t DEF open_stream, Returns
  <2>3. apc' \in ApcStates /\ stream' \in Streams \cup {NoStream}
    BY <1>9, <1>t, <1>a, OpenEffect DEF StreamInv
  <2>4. UNCHANGED <<sends, conn, worker, connect_done, decision, ack, decision_buf, file_ack,
                    queued, handed, at_server, inbox, heard>>
    BY <1>9 DEF open_stream, UsesConnection
  <2> QED
    BY <1>t, <2>1, <2>2, <2>3, <2>4
<1>10. ASSUME NEW n \in {1, 2}, NEW label \in ApcStates, StreamSend(n, label),
              stream # NoStream /\ strm[stream] = "started" => queued[stream] \in 0..1,
              UNCHANGED awaiting_decision \/ awaiting_decision' = TRUE
       PROVE  Types'
  <2>1. queued' \in [Streams -> 0..2]
    <3>1. CASE UNCHANGED queued
      BY <3>1, <1>t
    <3>2. CASE stream # NoStream /\ strm[stream] = "started" /\ queued' = BufferQueued(n)
      BY <3>2, <1>10, <1>t DEF BufferQueued
    <3> QED
      BY <3>1, <3>2, <1>10 DEF StreamSend
  <2>a. abort_stream \in [Streams -> {"none", "started", "aborting", "aborted", "closed"}]
    BY <1>t DEF abort_stream
  <2>2. /\ handed' \in [Streams -> 0..2]
        /\ strm' \in [Streams -> {"none", "started", "aborting", "aborted", "closed"}]
    <3>1. \/ handed' = [handed EXCEPT ![stream] = n] /\ strm' = strm
          \/ handed' = handed /\ strm' = abort_stream
      BY <1>10 DEF StreamSend
    <3>2. /\ handed \in [Streams -> 0..2] /\ n \in 0..2
          /\ strm \in [Streams -> {"none", "started", "aborting", "aborted", "closed"}]
      BY <1>t
    <3> QED
      BY <2>a, <3>1, <3>2 DEF Streams
  <2>3. last' \in (Streams \cup {NoStream}) \X {"none", "ok", "failed"}
    BY <1>10, <1>t DEF StreamSend, Returns
  <2> QED
    BY <1>10, <1>t, <1>a, <2>1, <2>2, <2>3 DEF StreamSend, Returns
<1>11. CASE SendHeader \/ SendBody
  <2>1. stream # NoStream /\ strm[stream] = "started" => queued[stream] \in 0..1
    <3> SUFFICES ASSUME stream # NoStream, strm[stream] = "started"
                 PROVE  queued[stream] \in 0..1
      OBVIOUS
    <3>1. apc \in {"send_header", "send_body"}
      BY <1>11 DEF SendHeader, SendBody
    <3>2. stream = sends /\ handed[sends] \in {0, 1}
      BY <3>1, <1>t DEF StreamInv, SendInv, SendStates
    <3>3. queued[stream] <= handed[stream]
      BY <1>t DEF StreamInv, QueueInv
    <3> QED
      BY <3>2, <3>3, <1>t
  <2> QED
    BY <2>1, <1>10, <1>11, <1>a DEF SendHeader, SendBody
<1>12. CASE WaitEnds
  BY <1>12, <1>t, <1>a DEF WaitEnds
<1>13. CASE DecisionRejected
  <2>1. last' \in (Streams \cup {NoStream}) \X {"none", "ok", "failed"}
    BY <1>13, <1>t DEF DecisionRejected, Returns
  <2>2. strm' \in [Streams -> {"none", "started", "aborting", "aborted", "closed"}]
    BY <1>13, <1>t DEF DecisionRejected, abort_stream
  <2>3. /\ apc' \in ApcStates
        /\ UNCHANGED <<sends, stream, conn, worker, connect_done, decision, ack, decision_buf,
                       file_ack, queued, handed, at_server, inbox, heard>>
    BY <1>13, <1>a DEF DecisionRejected, Returns
  <2> QED
    BY <1>t, <2>1, <2>2, <2>3
<1>14. CASE WaitExpires
  <2>1. last' \in (Streams \cup {NoStream}) \X {"none", "ok", "failed"}
    BY <1>14, <1>t DEF WaitExpires, Returns
  <2>2. strm' \in [Streams -> {"none", "started", "aborting", "aborted", "closed"}]
    BY <1>14, <1>t DEF WaitExpires, abort_stream
  <2>3. /\ apc' \in ApcStates
        /\ UNCHANGED <<sends, stream, conn, worker, connect_done, decision, ack, decision_buf,
                       file_ack, queued, handed, at_server, inbox, heard>>
    BY <1>14, <1>a DEF WaitExpires, Returns
  <2> QED
    BY <1>t, <2>1, <2>2, <2>3
<1>15. CASE SendReturns
  BY <1>15, <1>t, <1>a DEF SendReturns, Returns
<1>16. CASE Disconnect \/ Destroy \/ TestConnection \/ ShutdownWaitEnds
  <2>1. apc' \in ApcStates
    BY <1>16, <1>a DEF Disconnect, Destroy, TestConnection, ShutdownWaitEnds
  <2>2. UNCHANGED <<sends, stream, conn, worker, connect_done, decision, ack, decision_buf,
                  file_ack, strm, queued, handed, at_server, inbox, heard, last>>
    BY <1>16 DEF Disconnect, Destroy, TestConnection, ShutdownWaitEnds
  <2> QED
    BY <1>t, <2>1, <2>2
<1>17. CASE ClearComplete \/ ConnectionShutdown
  <2>1. apc' \in ApcStates /\ conn' \in {conn, "shutdown"}
    BY <1>17, <1>a DEF ClearComplete, ConnectionShutdown, UsesConnection
  <2>2. UNCHANGED <<sends, stream, worker, connect_done, decision, ack, decision_buf,
                  file_ack, strm, queued, handed, at_server, inbox, heard, last>>
    BY <1>17 DEF ClearComplete, ConnectionShutdown, UsesConnection
  <2> QED
    BY <1>t, <2>1, <2>2
<1>18. CASE CloseConfiguration \/ CloseRegistration
  <2>1. apc' \in ApcStates
    BY <1>18, <1>a DEF CloseConfiguration, CloseRegistration
  <2>2. UNCHANGED <<sends, stream, conn, worker, connect_done, decision, ack, decision_buf,
                  file_ack, strm, queued, handed, at_server, inbox, heard, last>>
    BY <1>18 DEF CloseConfiguration, CloseRegistration
  <2> QED
    BY <1>t, <2>1, <2>2
<1>19. CASE CloseApi
  BY <1>19, <1>t, <1>a DEF CloseApi
<1>20. CASE OnConnected \/ OnShutdownInitiated
  BY <1>20, <1>t, <1>a DEF OnConnected, OnShutdownInitiated
<1>21. CASE OnShutdownComplete \/ ClearConnection \/ NotifyShutdown
  BY <1>21, <1>t, <1>a DEF OnShutdownComplete, ClearConnection, NotifyShutdown, HandleClosed,
                     SaysComplete
<1>22. ASSUME NEW s \in Streams, OnReceive(s) PROVE Types'
  BY <1>22, <1>t, <1>a DEF OnReceive, Hears, First
<1>23. ASSUME NEW s \in Streams, OnPeerSendShutdown(s) PROVE Types'
  BY <1>23, <1>t, <1>a DEF OnPeerSendShutdown, Hears
<1>24. ASSUME NEW s \in Streams, OnSendComplete(s) PROVE Types'
  BY <1>24, <1>t, <1>a DEF OnSendComplete
<1>25. ASSUME NEW s \in Streams, StreamAborts(s) PROVE Types'
  BY <1>25, <1>t, <1>a DEF StreamAborts, StreamEnds
<1>26. ASSUME NEW s \in Streams, OnStreamShutdownComplete(s) PROVE Types'
  BY <1>26, <1>t, <1>a DEF OnStreamShutdownComplete, StreamEnds
<1>27. CASE ClearStream
  BY <1>27, <1>t, <1>a DEF ClearStream
<1>28. ASSUME NEW s \in Streams, Server(s) PROVE Types'
  <2>1. ASSUME NEW state \in {"offered", "accepted", "answered"}, NEW words \in Seq(Replies),
               ServerSays(s, state, words)
        PROVE  Types'
    <3>1. inbox[s] \o words \in Seq(Replies)
      BY <1>t, <2>1
    <3>2. inbox' \in [Streams -> Seq(Replies)]
      BY <1>t, <2>1, <3>1 DEF ServerSays
    <3>3. at_server' \in [Streams -> {"unseen", "offered", "accepted", "answered"}]
      BY <1>t, <2>1 DEF ServerSays
    <3> QED
      BY <1>t, <2>1, <3>2, <3>3 DEF ServerSays
  <2>2. /\ <<>> \in Seq(Replies) /\ <<"ACCEPT">> \in Seq(Replies)
        /\ <<"REJECT", "FIN">> \in Seq(Replies)
        /\ \A word \in {"OK", "FAIL"} : <<word, "FIN">> \in Seq(Replies)
    OBVIOUS
  <2> QED
    BY <1>28, <2>1, <2>2 DEF Server
<1>29. CASE Destroyed
  BY <1>29, <1>0 DEF Destroyed
<1> QED
  BY <1>0, <1>1, <1>2, <1>3, <1>4, <1>5, <1>6, <1>7, <1>8, <1>9, <1>10, <1>11, <1>12, <1>13,
     <1>14, <1>15, <1>16, <1>17, <1>18, <1>19, <1>20, <1>21, <1>22, <1>23, <1>24, <1>25, <1>26,
     <1>27, <1>28, <1>29 DEF Next, Thread, Callback

\* The handles that are open are those the members name.
LEMMA LiveStep == IInv /\ [Next]_vars => LiveInv'
<1> SUFFICES ASSUME IInv, [Next]_vars PROVE LiveInv'
  OBVIOUS
<1> USE DEF handleVars, connVars, noteVars, disconnectVars, appVars, Moves
<1>t. FlagTypes /\ LiveInv /\ HandleInv
  BY DEF IInv
<1>0. CASE UNCHANGED handleVars
  BY <1>0, <1>t DEF LiveInv
<1>1. ASSUME NEW handle \in {"api", "registration", "configuration"}, live' = live \cup {handle},
             handle = "api" => api' /\ UNCHANGED <<registration, configuration>>,
             handle = "registration" => registration' /\ UNCHANGED <<api, configuration>>,
             handle = "configuration" => configuration' /\ UNCHANGED <<api, registration>>
      PROVE  LiveInv'
  BY <1>1, <1>t DEF LiveInv
<1>2. ASSUME NEW handle \in {"api", "registration", "configuration"},
             live' = live \ (IF handle \in live THEN {handle} ELSE {}),
             handle = "api" => ~api' /\ UNCHANGED <<registration, configuration>>,
             handle = "registration" => ~registration' /\ UNCHANGED <<api, configuration>>,
             handle = "configuration" => ~configuration' /\ UNCHANGED <<api, registration>>
      PROVE  LiveInv'
  BY <1>2, <1>t DEF LiveInv
<1>3. CASE Connect
  BY <1>0, <1>1, <1>3 DEF Connect
<1>4. CASE OpenRegistration
  BY <1>0, <1>1, <1>4 DEF OpenRegistration
<1>5. CASE open_configuration
  BY <1>0, <1>1, <1>5, <1>t DEF open_configuration, LoadCredential, LiveInv, HandleInv
<1>6. CASE CloseConfiguration
  BY <1>2, <1>6, <1>t DEF CloseConfiguration, LiveInv
<1>7. CASE CloseRegistration
  BY <1>2, <1>7, <1>t DEF CloseRegistration, LiveInv
<1>8. CASE CloseApi
  BY <1>2, <1>8, <1>t DEF CloseApi, LiveInv
<1>9. CASE UNCHANGED vars
  BY <1>9, <1>0 DEF vars
<1>10. CASE OpenConnection
  BY <1>0, <1>10 DEF OpenConnection
<1>11. CASE StartConnection
  BY <1>0, <1>11 DEF StartConnection
<1>12. CASE ConnectReturns
  BY <1>0, <1>12 DEF ConnectReturns
<1>13. CASE SendRefused
  BY <1>0, <1>13 DEF SendRefused
<1>14. CASE SendFile
  BY <1>0, <1>14 DEF SendFile, NoAck
<1>15. CASE open_stream
  BY <1>0, <1>15 DEF open_stream, UsesConnection, Returns
<1>16. CASE SendHeader
  BY <1>0, <1>16 DEF SendHeader, StreamSend, BufferQueued, abort_stream, Returns
<1>17. CASE SendBody
  BY <1>0, <1>17 DEF SendBody, StreamSend, BufferQueued, abort_stream, Returns
<1>18. CASE WaitEnds
  BY <1>0, <1>18 DEF WaitEnds
<1>19. CASE DecisionRejected
  BY <1>0, <1>19 DEF DecisionRejected, Returns, abort_stream
<1>20. CASE WaitExpires
  BY <1>0, <1>20 DEF WaitExpires, Returns, abort_stream
<1>21. CASE SendReturns
  BY <1>0, <1>21 DEF SendReturns, Returns
<1>22. CASE Disconnect
  BY <1>0, <1>22 DEF Disconnect
<1>23. CASE Destroy
  BY <1>0, <1>23 DEF Destroy
<1>24. CASE TestConnection
  BY <1>0, <1>24 DEF TestConnection, HasConnection
<1>25. CASE ClearComplete
  BY <1>0, <1>25 DEF ClearComplete
<1>26. CASE ConnectionShutdown
  BY <1>0, <1>26 DEF ConnectionShutdown, UsesConnection
<1>27. CASE ShutdownWaitEnds
  BY <1>0, <1>27 DEF ShutdownWaitEnds
<1>28. CASE OnConnected
  BY <1>0, <1>28 DEF OnConnected
<1>29. CASE OnShutdownInitiated
  BY <1>0, <1>29 DEF OnShutdownInitiated
<1>30. CASE OnShutdownComplete
  BY <1>0, <1>30 DEF OnShutdownComplete, HandleClosed
<1>31. CASE ClearConnection
  BY <1>0, <1>31 DEF ClearConnection
<1>32. CASE NotifyShutdown
  BY <1>0, <1>32 DEF NotifyShutdown, SaysComplete
<1>33. ASSUME NEW s \in Streams, OnReceive(s) PROVE LiveInv'
  BY <1>0, <1>33 DEF OnReceive, Hears, First
<1>34. ASSUME NEW s \in Streams, OnPeerSendShutdown(s) PROVE LiveInv'
  BY <1>0, <1>34 DEF OnPeerSendShutdown, Hears
<1>35. ASSUME NEW s \in Streams, OnSendComplete(s) PROVE LiveInv'
  BY <1>0, <1>35 DEF OnSendComplete
<1>36. ASSUME NEW s \in Streams, StreamAborts(s) PROVE LiveInv'
  BY <1>0, <1>36 DEF StreamAborts, StreamEnds
<1>37. ASSUME NEW s \in Streams, OnStreamShutdownComplete(s) PROVE LiveInv'
  BY <1>0, <1>37 DEF OnStreamShutdownComplete, StreamEnds
<1>38. CASE ClearStream
  BY <1>0, <1>38 DEF ClearStream
<1>39. ASSUME NEW s \in Streams, Server(s) PROVE LiveInv'
  BY <1>0, <1>39 DEF Server, ServerSays
<1>40. CASE Destroyed
  BY <1>40, <1>9 DEF Destroyed
<1> QED
  BY <1>3, <1>4, <1>5, <1>6, <1>7, <1>8, <1>9, <1>10, <1>11, <1>12, <1>13, <1>14, <1>15, <1>16,
     <1>17, <1>18, <1>19, <1>20, <1>21, <1>22, <1>23, <1>24, <1>25, <1>26, <1>27, <1>28, <1>29,
     <1>30, <1>31, <1>32, <1>33, <1>34, <1>35, <1>36, <1>37, <1>38, <1>39, <1>40 DEF Next,
     Thread, Callback

\* The members are set in the order of connect() and cleared in that of disconnect().
LEMMA HandleStep == IInv /\ [Next]_vars => HandleInv'
<1> SUFFICES ASSUME IInv, [Next]_vars PROVE HandleInv'
  OBVIOUS
<1> USE DEF HandleInv, ConnectStates, SendStates, handleVars, connVars, flagVars, streamVars,
               peerVars, paceVars, noteVars, disconnectVars, appVars, Each, Moves
<1>t. Types /\ HandleInv /\ ConnectionInv
  BY DEF IInv
<1>0. CASE UNCHANGED vars
  BY <1>0, <1>t DEF vars
<1>1. CASE Connect
  BY <1>1, <1>t DEF Connect
<1>2. CASE OpenRegistration
  BY <1>2, <1>t DEF OpenRegistration
<1>3. CASE open_configuration
  BY <1>3, <1>t DEF open_configuration, LoadCredential
<1>4. CASE OpenConnection
  BY <1>4, <1>t DEF OpenConnection
<1>5. CASE StartConnection
  BY <1>5, <1>t DEF StartConnection
<1>6. CASE ConnectReturns
  BY <1>6, <1>t DEF ConnectReturns
<1>7. CASE SendRefused
  BY <1>7, <1>t DEF SendRefused
<1>8. CASE SendFile
  BY <1>8, <1>t DEF SendFile, NoAck
<1>9. CASE open_stream
  BY <1>9, <1>t DEF open_stream, UsesConnection, Returns
<1>10. CASE SendHeader
  BY <1>10, <1>t DEF SendHeader, StreamSend, BufferQueued, abort_stream, Returns
<1>11. CASE SendBody
  BY <1>11, <1>t DEF SendBody, StreamSend, BufferQueued, abort_stream, Returns
<1>12. CASE WaitEnds
  BY <1>12, <1>t DEF WaitEnds
<1>13. CASE DecisionRejected
  BY <1>13, <1>t DEF DecisionRejected, Returns, abort_stream
<1>14. CASE WaitExpires
  BY <1>14, <1>t DEF WaitExpires, Returns, abort_stream
<1>15. CASE SendReturns
  BY <1>15, <1>t DEF SendReturns, Returns
<1>16. CASE Disconnect
  BY <1>16, <1>t DEF Disconnect
<1>17. CASE Destroy
  BY <1>17, <1>t DEF Destroy
<1>18. CASE TestConnection
  BY <1>18, <1>t DEF TestConnection, HasConnection
<1>19. CASE ClearComplete
  BY <1>19, <1>t DEF ClearComplete
<1>20. CASE ConnectionShutdown
  BY <1>20, <1>t DEF ConnectionShutdown, UsesConnection, ConnectionInv
<1>21. CASE ShutdownWaitEnds
  BY <1>21, <1>t DEF ShutdownWaitEnds
<1>22. CASE CloseConfiguration
  BY <1>22, <1>t DEF CloseConfiguration
<1>23. CASE CloseRegistration
  BY <1>23, <1>t DEF CloseRegistration, AllClosed
<1>24. CASE CloseApi
  BY <1>24, <1>t DEF CloseApi
<1>25. CASE OnConnected
  BY <1>25, <1>t DEF OnConnected
<1>26. CASE OnShutdownInitiated
  BY <1>26, <1>t DEF OnShutdownInitiated
<1>27. CASE OnShutdownComplete
  BY <1>27, <1>t DEF OnShutdownComplete, HandleClosed
<1>28. CASE ClearConnection
  BY <1>28, <1>t DEF ClearConnection
<1>29. CASE NotifyShutdown
  BY <1>29, <1>t DEF NotifyShutdown, SaysComplete
<1>30. ASSUME NEW s \in Streams, OnReceive(s) PROVE HandleInv'
  BY <1>30, <1>t DEF OnReceive, Hears, First
<1>31. ASSUME NEW s \in Streams, OnPeerSendShutdown(s) PROVE HandleInv'
  BY <1>31, <1>t DEF OnPeerSendShutdown, Hears
<1>32. ASSUME NEW s \in Streams, OnSendComplete(s) PROVE HandleInv'
  BY <1>32, <1>t DEF OnSendComplete
<1>33. ASSUME NEW s \in Streams, StreamAborts(s) PROVE HandleInv'
  BY <1>33, <1>t DEF StreamAborts, StreamEnds
<1>34. ASSUME NEW s \in Streams, OnStreamShutdownComplete(s) PROVE HandleInv'
  BY <1>34, <1>t DEF OnStreamShutdownComplete, StreamEnds, ConnectionInv
<1>35. CASE ClearStream
  BY <1>35, <1>t DEF ClearStream
<1>36. ASSUME NEW s \in Streams, Server(s) PROVE HandleInv'
  BY <1>36, <1>t DEF Server, ServerSays
<1>37. CASE Destroyed
  BY <1>37, <1>0 DEF Destroyed
<1> QED
  BY <1>0, <1>1, <1>2, <1>3, <1>4, <1>5, <1>6, <1>7, <1>8, <1>9, <1>10, <1>11, <1>12, <1>13,
     <1>14, <1>15, <1>16, <1>17, <1>18, <1>19, <1>20, <1>21, <1>22, <1>23, <1>24, <1>25, <1>26,
     <1>27, <1>28, <1>29, <1>30, <1>31, <1>32, <1>33, <1>34, <1>35, <1>36, <1>37 DEF Next,
     Thread, Callback

\* connection_ and what msquic knows of the connection agree.
LEMMA ConnectionStep == IInv /\ [Next]_vars => ConnectionInv'
<1> SUFFICES ASSUME IInv, [Next]_vars PROVE ConnectionInv'
  OBVIOUS
<1> USE DEF ConnectionInv, ConnectStates, SendStates, handleVars, connVars, flagVars,
               streamVars, peerVars, paceVars, noteVars, disconnectVars, appVars, Each, Moves
<1>t. Types /\ HandleInv /\ ConnectionInv
  BY DEF IInv
<1>0. CASE UNCHANGED vars
  BY <1>0, <1>t DEF vars
<1>1. CASE Connect
  BY <1>1, <1>t DEF Connect, HandleInv
<1>2. CASE OpenRegistration
  BY <1>2, <1>t DEF OpenRegistration
<1>3. CASE open_configuration
  BY <1>3, <1>t DEF open_configuration, LoadCredential
<1>4. CASE OpenConnection
  BY <1>4, <1>t DEF OpenConnection
<1>5. CASE StartConnection
  BY <1>5, <1>t DEF StartConnection
<1>6. CASE ConnectReturns
  BY <1>6, <1>t DEF ConnectReturns
<1>7. CASE SendRefused
  BY <1>7, <1>t DEF SendRefused
<1>8. CASE SendFile
  BY <1>8, <1>t DEF SendFile, NoAck
<1>9. CASE open_stream
  BY <1>9, <1>t DEF open_stream, UsesConnection, Returns
<1>10. CASE SendHeader
  BY <1>10, <1>t DEF SendHeader, StreamSend, BufferQueued, abort_stream, Returns
<1>11. CASE SendBody
  BY <1>11, <1>t DEF SendBody, StreamSend, BufferQueued, abort_stream, Returns
<1>12. CASE WaitEnds
  BY <1>12, <1>t DEF WaitEnds
<1>13. CASE DecisionRejected
  BY <1>13, <1>t DEF DecisionRejected, Returns, abort_stream
<1>14. CASE WaitExpires
  BY <1>14, <1>t DEF WaitExpires, Returns, abort_stream
<1>15. CASE SendReturns
  BY <1>15, <1>t DEF SendReturns, Returns
<1>16. CASE Disconnect
  BY <1>16, <1>t DEF Disconnect
<1>17. CASE Destroy
  BY <1>17, <1>t DEF Destroy
<1>18. CASE TestConnection
  BY <1>18, <1>t DEF TestConnection, HasConnection
<1>19. CASE ClearComplete
  BY <1>19, <1>t DEF ClearComplete
<1>20. CASE ConnectionShutdown
  BY <1>20, <1>t DEF ConnectionShutdown, UsesConnection
<1>21. CASE ShutdownWaitEnds
  BY <1>21, <1>t DEF ShutdownWaitEnds
<1>22. CASE CloseConfiguration
  BY <1>22, <1>t DEF CloseConfiguration
<1>23. CASE CloseRegistration
  BY <1>23, <1>t DEF CloseRegistration, AllClosed
<1>24. CASE CloseApi
  BY <1>24, <1>t DEF CloseApi
<1>25. CASE OnConnected
  BY <1>25, <1>t DEF OnConnected
<1>26. CASE OnShutdownInitiated
  BY <1>26, <1>t DEF OnShutdownInitiated
<1>27. CASE OnShutdownComplete
  BY <1>27, <1>t DEF OnShutdownComplete, HandleClosed
<1>28. CASE ClearConnection
  BY <1>28, <1>t DEF ClearConnection
<1>29. CASE NotifyShutdown
  BY <1>29, <1>t DEF NotifyShutdown, SaysComplete
<1>30. ASSUME NEW s \in Streams, OnReceive(s) PROVE ConnectionInv'
  BY <1>30, <1>t DEF OnReceive, Hears, First
<1>31. ASSUME NEW s \in Streams, OnPeerSendShutdown(s) PROVE ConnectionInv'
  BY <1>31, <1>t DEF OnPeerSendShutdown, Hears
<1>32. ASSUME NEW s \in Streams, OnSendComplete(s) PROVE ConnectionInv'
  BY <1>32, <1>t DEF OnSendComplete
<1>33. ASSUME NEW s \in Streams, StreamAborts(s) PROVE ConnectionInv'
  BY <1>33, <1>t DEF StreamAborts, StreamEnds
<1>34. ASSUME NEW s \in Streams, OnStreamShutdownComplete(s) PROVE ConnectionInv'
  BY <1>34, <1>t DEF OnStreamShutdownComplete, StreamEnds
<1>35. CASE ClearStream
  BY <1>35, <1>t DEF ClearStream
<1>36. ASSUME NEW s \in Streams, Server(s) PROVE ConnectionInv'
  BY <1>36, <1>t DEF Server, ServerSays
<1>37. CASE Destroyed
  BY <1>37, <1>0 DEF Destroyed
<1> QED
  BY <1>0, <1>1, <1>2, <1>3, <1>4, <1>5, <1>6, <1>7, <1>8, <1>9, <1>10, <1>11, <1>12, <1>13,
     <1>14, <1>15, <1>16, <1>17, <1>18, <1>19, <1>20, <1>21, <1>22, <1>23, <1>24, <1>25, <1>26,
     <1>27, <1>28, <1>29, <1>30, <1>31, <1>32, <1>33, <1>34, <1>35, <1>36, <1>37 DEF Next,
     Thread, Callback

\* stream_ names no stream that is gone.
LEMMA PointerStep == IInv /\ [Next]_vars => PointerInv'
<1> SUFFICES ASSUME IInv, [Next]_vars PROVE PointerInv'
  OBVIOUS
<1> USE DEF PointerInv, handleVars, connVars, flagVars, streamVars, peerVars, paceVars,
               noteVars, disconnectVars, appVars, Each, Moves, Streams, NoStream
<1>t. Types /\ SendInv /\ PointerInv
  BY DEF IInv, StreamInv
<1>0. CASE UNCHANGED vars
  BY <1>0, <1>t DEF vars
<1>1. CASE Connect
  BY <1>1, NothingLeftHolds DEF Connect, NothingLeft
<1>2. CASE OpenRegistration
  BY <1>2, <1>t DEF OpenRegistration
<1>3. CASE open_configuration
  BY <1>3, <1>t DEF open_configuration, LoadCredential
<1>4. CASE OpenConnection
  BY <1>4, <1>t DEF OpenConnection
<1>5. CASE StartConnection
  BY <1>5, <1>t DEF StartConnection
<1>6. CASE ConnectReturns
  BY <1>6, <1>t DEF ConnectReturns
<1>7. CASE SendRefused
  BY <1>7, <1>t DEF SendRefused
<1>8. CASE SendFile
  BY <1>8, <1>t DEF SendFile, NoAck
<1>9. CASE open_stream
  BY <1>9, <1>t, OpenEffect DEF open_stream
<1>10. CASE SendHeader
  <2>1. StreamSend(1, "header_wait") /\ apc = "send_header"
    BY <1>10 DEF SendHeader
  <2> QED
    BY <2>1, <1>t, SendEffect DEF SendStates
<1>11. CASE SendBody
  <2>1. StreamSend(2, "body_wait") /\ apc = "send_body"
    BY <1>11 DEF SendBody
  <2> QED
    BY <2>1, <1>t, SendEffect DEF SendStates
<1>12. CASE WaitEnds
  BY <1>12, <1>t DEF WaitEnds
<1>13. CASE DecisionRejected
  BY <1>13, <1>t, GivesUpEffect DEF DecisionRejected, Returns, Types
<1>14. CASE WaitExpires
  BY <1>14, <1>t, GivesUpEffect DEF WaitExpires, Returns, Types
<1>15. CASE SendReturns
  BY <1>15, <1>t DEF SendReturns, Returns
<1>16. CASE Disconnect
  BY <1>16, <1>t DEF Disconnect
<1>17. CASE Destroy
  BY <1>17, <1>t DEF Destroy
<1>18. CASE TestConnection
  BY <1>18, <1>t DEF TestConnection, HasConnection
<1>19. CASE ClearComplete
  BY <1>19, <1>t DEF ClearComplete
<1>20. CASE ConnectionShutdown
  BY <1>20, <1>t DEF ConnectionShutdown, UsesConnection
<1>21. CASE ShutdownWaitEnds
  BY <1>21, <1>t DEF ShutdownWaitEnds
<1>22. CASE CloseConfiguration
  BY <1>22, <1>t DEF CloseConfiguration
<1>23. CASE CloseRegistration
  BY <1>23, <1>t DEF CloseRegistration, AllClosed
<1>24. CASE CloseApi
  BY <1>24, <1>t DEF CloseApi
<1>25. CASE OnConnected
  BY <1>25, <1>t DEF OnConnected
<1>26. CASE OnShutdownInitiated
  BY <1>26, <1>t DEF OnShutdownInitiated
<1>27. CASE OnShutdownComplete
  BY <1>27, <1>t DEF OnShutdownComplete, HandleClosed
<1>28. CASE ClearConnection
  BY <1>28, <1>t DEF ClearConnection
<1>29. CASE NotifyShutdown
  BY <1>29, <1>t DEF NotifyShutdown, SaysComplete
<1>30. ASSUME NEW s \in Streams, OnReceive(s) PROVE PointerInv'
  BY <1>30, <1>t DEF OnReceive, Hears, First
<1>31. ASSUME NEW s \in Streams, OnPeerSendShutdown(s) PROVE PointerInv'
  BY <1>31, <1>t DEF OnPeerSendShutdown, Hears
<1>32. ASSUME NEW s \in Streams, OnSendComplete(s) PROVE PointerInv'
  BY <1>32, <1>t DEF OnSendComplete
<1>33. ASSUME NEW s \in Streams, StreamAborts(s) PROVE PointerInv'
  BY <1>33, <1>t DEF StreamAborts, StreamEnds
<1>34. ASSUME NEW s \in Streams, OnStreamShutdownComplete(s) PROVE PointerInv'
  BY <1>34, <1>t DEF OnStreamShutdownComplete, StreamEnds
<1>35. CASE ClearStream
  BY <1>35, <1>t DEF ClearStream
<1>36. ASSUME NEW s \in Streams, Server(s) PROVE PointerInv'
  BY <1>36, <1>t DEF Server, ServerSays
<1>37. CASE Destroyed
  BY <1>37, <1>0 DEF Destroyed
<1> QED
  BY <1>0, <1>1, <1>2, <1>3, <1>4, <1>5, <1>6, <1>7, <1>8, <1>9, <1>10, <1>11, <1>12, <1>13,
     <1>14, <1>15, <1>16, <1>17, <1>18, <1>19, <1>20, <1>21, <1>22, <1>23, <1>24, <1>25, <1>26,
     <1>27, <1>28, <1>29, <1>30, <1>31, <1>32, <1>33, <1>34, <1>35, <1>36, <1>37 DEF Next,
     Thread, Callback

\* A stream is opened by its own send_file only.
LEMMA FreshStep == IInv /\ [Next]_vars => FreshInv'
<1> SUFFICES ASSUME IInv, [Next]_vars PROVE FreshInv'
  OBVIOUS
<1> USE SendsAssumption
<1> USE DEF FreshInv, SendInv, SendStates, handleVars, connVars, flagVars, streamVars, peerVars,
               paceVars, noteVars, disconnectVars, appVars, Each, Moves, Streams, NoStream
<1>t. Types /\ FreshInv /\ SendInv
  BY DEF IInv, StreamInv
<1>0. CASE UNCHANGED vars
  BY <1>0, <1>t DEF vars
<1>1. CASE Connect
  BY <1>1, <1>t DEF Connect
<1>2. CASE OpenRegistration
  BY <1>2, <1>t DEF OpenRegistration
<1>3. CASE open_configuration
  BY <1>3, <1>t DEF open_configuration, LoadCredential
<1>4. CASE OpenConnection
  BY <1>4, <1>t DEF OpenConnection
<1>5. CASE StartConnection
  BY <1>5, <1>t DEF StartConnection
<1>6. CASE ConnectReturns
  BY <1>6, <1>t DEF ConnectReturns
<1>7. CASE SendRefused
  BY <1>7, <1>t DEF SendRefused
<1>8. CASE SendFile
  <2>1. sends' = sends + 1 /\ UNCHANGED strm
    BY <1>8 DEF SendFile
  <2> QED
    BY <2>1, <1>t DEF Types
<1>9. CASE open_stream
  BY <1>9, <1>t, OpenEffect DEF open_stream
<1>10. CASE SendHeader
  BY <1>10, <1>t DEF SendHeader, StreamSend, BufferQueued, abort_stream, Returns
<1>11. CASE SendBody
  BY <1>11, <1>t DEF SendBody, StreamSend, BufferQueued, abort_stream, Returns
<1>12. CASE WaitEnds
  BY <1>12, <1>t DEF WaitEnds
<1>13. CASE DecisionRejected
  BY <1>13, <1>t DEF DecisionRejected, Returns, abort_stream
<1>14. CASE WaitExpires
  BY <1>14, <1>t DEF WaitExpires, Returns, abort_stream
<1>15. CASE SendReturns
  BY <1>15, <1>t DEF SendReturns, Returns
<1>16. CASE Disconnect
  BY <1>16, <1>t DEF Disconnect
<1>17. CASE Destroy
  BY <1>17, <1>t DEF Destroy
<1>18. CASE TestConnection
  BY <1>18, <1>t DEF TestConnection, HasConnection
<1>19. CASE ClearComplete
  BY <1>19, <1>t DEF ClearComplete
<1>20. CASE ConnectionShutdown
  BY <1>20, <1>t DEF ConnectionShutdown, UsesConnection
<1>21. CASE ShutdownWaitEnds
  BY <1>21, <1>t DEF ShutdownWaitEnds
<1>22. CASE CloseConfiguration
  BY <1>22, <1>t DEF CloseConfiguration
<1>23. CASE CloseRegistration
  BY <1>23, <1>t DEF CloseRegistration, AllClosed
<1>24. CASE CloseApi
  BY <1>24, <1>t DEF CloseApi
<1>25. CASE OnConnected
  BY <1>25, <1>t DEF OnConnected
<1>26. CASE OnShutdownInitiated
  BY <1>26, <1>t DEF OnShutdownInitiated
<1>27. CASE OnShutdownComplete
  BY <1>27, <1>t DEF OnShutdownComplete, HandleClosed
<1>28. CASE ClearConnection
  BY <1>28, <1>t DEF ClearConnection
<1>29. CASE NotifyShutdown
  BY <1>29, <1>t DEF NotifyShutdown, SaysComplete
<1>30. ASSUME NEW s \in Streams, OnReceive(s) PROVE FreshInv'
  BY <1>30, <1>t DEF OnReceive, Hears, First
<1>31. ASSUME NEW s \in Streams, OnPeerSendShutdown(s) PROVE FreshInv'
  BY <1>31, <1>t DEF OnPeerSendShutdown, Hears
<1>32. ASSUME NEW s \in Streams, OnSendComplete(s) PROVE FreshInv'
  BY <1>32, <1>t DEF OnSendComplete
<1>33. ASSUME NEW s \in Streams, StreamAborts(s) PROVE FreshInv'
  BY <1>33, <1>t DEF StreamAborts, StreamEnds
<1>34. ASSUME NEW s \in Streams, OnStreamShutdownComplete(s) PROVE FreshInv'
  BY <1>34, <1>t DEF OnStreamShutdownComplete, StreamEnds
<1>35. CASE ClearStream
  BY <1>35, <1>t DEF ClearStream
<1>36. ASSUME NEW s \in Streams, Server(s) PROVE FreshInv'
  BY <1>36, <1>t DEF Server, ServerSays
<1>37. CASE Destroyed
  BY <1>37, <1>0 DEF Destroyed
<1> QED
  BY <1>0, <1>1, <1>2, <1>3, <1>4, <1>5, <1>6, <1>7, <1>8, <1>9, <1>10, <1>11, <1>12, <1>13,
     <1>14, <1>15, <1>16, <1>17, <1>18, <1>19, <1>20, <1>21, <1>22, <1>23, <1>24, <1>25, <1>26,
     <1>27, <1>28, <1>29, <1>30, <1>31, <1>32, <1>33, <1>34, <1>35, <1>36, <1>37 DEF Next,
     Thread, Callback

\* No more is queued on a stream than was handed over for it.
LEMMA QueueStep == IInv /\ [Next]_vars => QueueInv'
<1> SUFFICES ASSUME IInv, [Next]_vars PROVE QueueInv'
  OBVIOUS
<1> USE SendsAssumption
<1>p. \A s \in Streams : strm[s] \in {"none", "aborted", "closed"} => handed[s] = 0
  BY DEF IInv, PeerInv
<1>q. Types'
  BY TypesStep
<1> USE DEF QueueInv, handleVars, connVars, flagVars, streamVars, peerVars, paceVars, noteVars,
               disconnectVars, appVars, Each, Moves, Streams, NoStream
<1>t. Types /\ QueueInv /\ FreshInv /\ SendInv
  BY DEF IInv, StreamInv
<1>0. CASE UNCHANGED vars
  BY <1>0, <1>t DEF vars
<1>1. CASE Connect
  BY <1>1, <1>t DEF Connect
<1>2. CASE OpenRegistration
  BY <1>2, <1>t DEF OpenRegistration
<1>3. CASE open_configuration
  BY <1>3, <1>t DEF open_configuration, LoadCredential
<1>4. CASE OpenConnection
  BY <1>4, <1>t DEF OpenConnection
<1>5. CASE StartConnection
  BY <1>5, <1>t DEF StartConnection
<1>6. CASE ConnectReturns
  BY <1>6, <1>t DEF ConnectReturns
<1>7. CASE SendRefused
  BY <1>7, <1>t DEF SendRefused
<1>8. CASE SendFile
  BY <1>8, <1>t DEF SendFile, NoAck
<1>9. CASE open_stream
  BY <1>9, <1>t, OpenEffect DEF open_stream, FreshInv
<1>10. CASE SendHeader
  <2>1. StreamSend(1, "header_wait") /\ apc = "send_header"
    BY <1>10 DEF SendHeader
  <2>2. handed[sends] \in 0..(1 - 1)
    BY <2>1, <1>t DEF SendInv
  <2> QED
    BY <2>1, <2>2, <1>t, SendQueue DEF SendStates
<1>11. CASE SendBody
  <2>1. StreamSend(2, "body_wait") /\ apc = "send_body"
    BY <1>11 DEF SendBody
  <2>2. handed[sends] \in 0..(2 - 1)
    BY <2>1, <1>t DEF SendInv
  <2> QED
    BY <2>1, <2>2, <1>t, SendQueue DEF SendStates
<1>12. CASE WaitEnds
  BY <1>12, <1>t DEF WaitEnds
<1>13. CASE DecisionRejected
  BY <1>13, <1>t DEF DecisionRejected, Returns, abort_stream
<1>14. CASE WaitExpires
  BY <1>14, <1>t DEF WaitExpires, Returns, abort_stream
<1>15. CASE SendReturns
  BY <1>15, <1>t DEF SendReturns, Returns
<1>16. CASE Disconnect
  BY <1>16, <1>t DEF Disconnect
<1>17. CASE Destroy
  BY <1>17, <1>t DEF Destroy
<1>18. CASE TestConnection
  BY <1>18, <1>t DEF TestConnection, HasConnection
<1>19. CASE ClearComplete
  BY <1>19, <1>t DEF ClearComplete
<1>20. CASE ConnectionShutdown
  BY <1>20, <1>t DEF ConnectionShutdown, UsesConnection
<1>21. CASE ShutdownWaitEnds
  BY <1>21, <1>t DEF ShutdownWaitEnds
<1>22. CASE CloseConfiguration
  BY <1>22, <1>t DEF CloseConfiguration
<1>23. CASE CloseRegistration
  BY <1>23, <1>t DEF CloseRegistration, AllClosed
<1>24. CASE CloseApi
  BY <1>24, <1>t DEF CloseApi
<1>25. CASE OnConnected
  BY <1>25, <1>t DEF OnConnected
<1>26. CASE OnShutdownInitiated
  BY <1>26, <1>t DEF OnShutdownInitiated
<1>27. CASE OnShutdownComplete
  BY <1>27, <1>t DEF OnShutdownComplete, HandleClosed
<1>28. CASE ClearConnection
  BY <1>28, <1>t DEF ClearConnection
<1>29. CASE NotifyShutdown
  BY <1>29, <1>t DEF NotifyShutdown, SaysComplete
<1>30. ASSUME NEW s \in Streams, OnReceive(s) PROVE QueueInv'
  BY <1>30, <1>t DEF OnReceive, Hears, First
<1>31. ASSUME NEW s \in Streams, OnPeerSendShutdown(s) PROVE QueueInv'
  BY <1>31, <1>t DEF OnPeerSendShutdown, Hears
<1>32. ASSUME NEW s \in Streams, OnSendComplete(s) PROVE QueueInv'
  <2>1. \A t \in Streams : queued[t] \in 0..2 /\ handed[t] \in 0..2
    BY <1>t DEF Types
  <2>2. /\ queued[s] \in 1..2 /\ queued'[s] = queued[s] - 1
        /\ \A t \in Streams : t # s => queued'[t] = queued[t]
        /\ UNCHANGED <<strm, handed>>
    BY <1>32, <1>t, CompleteEffect
  <2> QED
    BY <2>1, <2>2, <1>t
<1>33. ASSUME NEW s \in Streams, StreamAborts(s) PROVE QueueInv'
  BY <1>33, <1>t DEF StreamAborts, StreamEnds
<1>34. ASSUME NEW s \in Streams, OnStreamShutdownComplete(s) PROVE QueueInv'
  BY <1>34, <1>t DEF OnStreamShutdownComplete, StreamEnds
<1>35. CASE ClearStream
  BY <1>35, <1>t DEF ClearStream
<1>36. ASSUME NEW s \in Streams, Server(s) PROVE QueueInv'
  BY <1>36, <1>t DEF Server, ServerSays
<1>37. CASE Destroyed
  BY <1>37, <1>0 DEF Destroyed
<1> QED
  BY <1>0, <1>1, <1>2, <1>3, <1>4, <1>5, <1>6, <1>7, <1>8, <1>9, <1>10, <1>11, <1>12, <1>13,
     <1>14, <1>15, <1>16, <1>17, <1>18, <1>19, <1>20, <1>21, <1>22, <1>23, <1>24, <1>25, <1>26,
     <1>27, <1>28, <1>29, <1>30, <1>31, <1>32, <1>33, <1>34, <1>35, <1>36, <1>37 DEF Next,
     Thread, Callback

\* The current stream goes through its states while send_file does.
LEMMA SendStep == IInv /\ [Next]_vars => SendInv'
<1> SUFFICES ASSUME IInv, [Next]_vars PROVE SendInv'
  OBVIOUS
<1> USE SendsAssumption
<1>p. \A s \in Streams : strm[s] \in {"none", "aborted", "closed"} => handed[s] = 0
  BY DEF IInv, PeerInv
<1> USE DEF SendInv, SendStates, handleVars, connVars, flagVars, streamVars, peerVars, paceVars,
               noteVars, disconnectVars, appVars, Each, Moves, Streams, NoStream
<1>t. Types /\ SendInv /\ FreshInv
  BY DEF IInv, StreamInv
<1>0. CASE UNCHANGED vars
  BY <1>0, <1>t DEF vars
<1>1. CASE Connect
  BY <1>1, <1>t DEF Connect
<1>2. CASE OpenRegistration
  BY <1>2, <1>t DEF OpenRegistration
<1>3. CASE open_configuration
  BY <1>3, <1>t DEF open_configuration, LoadCredential
<1>4. CASE OpenConnection
  BY <1>4, <1>t DEF OpenConnection
<1>5. CASE StartConnection
  BY <1>5, <1>t DEF StartConnection
<1>6. CASE ConnectReturns
  BY <1>6, <1>t DEF ConnectReturns
<1>7. CASE SendRefused
  BY <1>7, <1>t DEF SendRefused
<1>8. CASE SendFile
  BY <1>8, <1>t DEF SendFile, NoAck, Types
<1>9. CASE open_stream
  BY <1>9, <1>p, <1>t, OpenEffect DEF open_stream, FreshInv
<1>10. CASE SendHeader
  <2>1. StreamSend(1, "header_wait") /\ apc = "send_header"
    BY <1>10 DEF SendHeader
  <2> QED
    BY <2>1, <1>t, SendEffect DEF SendStates
<1>11. CASE SendBody
  <2>1. StreamSend(2, "body_wait") /\ apc = "send_body"
    BY <1>11 DEF SendBody
  <2> QED
    BY <2>1, <1>t, SendEffect DEF SendStates
<1>12. CASE WaitEnds
  BY <1>12, <1>t DEF WaitEnds
<1>13. CASE DecisionRejected
  BY <1>13, <1>t DEF DecisionRejected, Returns, abort_stream
<1>14. CASE WaitExpires
  BY <1>14, <1>t DEF WaitExpires, Returns, abort_stream
<1>15. CASE SendReturns
  BY <1>15, <1>t DEF SendReturns, Returns
<1>16. CASE Disconnect
  BY <1>16, <1>t DEF Disconnect
<1>17. CASE Destroy
  BY <1>17, <1>t DEF Destroy
<1>18. CASE TestConnection
  BY <1>18, <1>t DEF TestConnection, HasConnection
<1>19. CASE ClearComplete
  BY <1>19, <1>t DEF ClearComplete
<1>20. CASE ConnectionShutdown
  BY <1>20, <1>t DEF ConnectionShutdown, UsesConnection
<1>21. CASE ShutdownWaitEnds
  BY <1>21, <1>t DEF ShutdownWaitEnds
<1>22. CASE CloseConfiguration
  BY <1>22, <1>t DEF CloseConfiguration
<1>23. CASE CloseRegistration
  BY <1>23, <1>t DEF CloseRegistration, AllClosed
<1>24. CASE CloseApi
  BY <1>24, <1>t DEF CloseApi
<1>25. CASE OnConnected
  BY <1>25, <1>t DEF OnConnected
<1>26. CASE OnShutdownInitiated
  BY <1>26, <1>t DEF OnShutdownInitiated
<1>27. CASE OnShutdownComplete
  BY <1>27, <1>t DEF OnShutdownComplete, HandleClosed
<1>28. CASE ClearConnection
  BY <1>28, <1>t DEF ClearConnection
<1>29. CASE NotifyShutdown
  BY <1>29, <1>t DEF NotifyShutdown, SaysComplete
<1>30. ASSUME NEW s \in Streams, OnReceive(s) PROVE SendInv'
  BY <1>30, <1>t DEF OnReceive, Hears, First
<1>31. ASSUME NEW s \in Streams, OnPeerSendShutdown(s) PROVE SendInv'
  BY <1>31, <1>t DEF OnPeerSendShutdown, Hears
<1>32. ASSUME NEW s \in Streams, OnSendComplete(s) PROVE SendInv'
  BY <1>32, <1>t DEF OnSendComplete
<1>33. ASSUME NEW s \in Streams, StreamAborts(s) PROVE SendInv'
  <2>1. StreamEnds(s, "aborted") /\ strm[s] = "aborting"
    BY <1>33 DEF StreamAborts
  <2> QED
    BY <2>1, <1>t, EndEffect DEF Types
<1>34. ASSUME NEW s \in Streams, OnStreamShutdownComplete(s) PROVE SendInv'
  <2>1. StreamEnds(s, "closed") /\ strm[s] # "closed"
    BY <1>34 DEF OnStreamShutdownComplete
  <2> QED
    BY <2>1, <1>t, EndEffect DEF Types
<1>35. CASE ClearStream
  BY <1>35, <1>t DEF ClearStream
<1>36. ASSUME NEW s \in Streams, Server(s) PROVE SendInv'
  BY <1>36, <1>t DEF Server, ServerSays
<1>37. CASE Destroyed
  BY <1>37, <1>0 DEF Destroyed
<1> QED
  BY <1>0, <1>1, <1>2, <1>3, <1>4, <1>5, <1>6, <1>7, <1>8, <1>9, <1>10, <1>11, <1>12, <1>13,
     <1>14, <1>15, <1>16, <1>17, <1>18, <1>19, <1>20, <1>21, <1>22, <1>23, <1>24, <1>25, <1>26,
     <1>27, <1>28, <1>29, <1>30, <1>31, <1>32, <1>33, <1>34, <1>35, <1>36, <1>37 DEF Next,
     Thread, Callback

\* Only a loss makes disconnect() miss SHUTDOWN_COMPLETE or a call use a dead handle.
LEMMA LossStep == IInv /\ [Next]_vars => LossInv'
<1> SUFFICES ASSUME IInv, [Next]_vars PROVE LossInv'
  OBVIOUS
<1> USE DEF LossInv, MissedShutdown, SendStates, handleVars, connVars, flagVars, streamVars,
               peerVars, paceVars, noteVars, disconnectVars, appVars, Each, Moves, NoStream
<1>t. Types /\ SendInv /\ HandleInv /\ ConnectionInv /\ LossInv
  BY DEF IInv, StreamInv
<1>0. CASE UNCHANGED vars
  BY <1>0, <1>t DEF vars
<1>1. CASE Connect
  BY <1>1, <1>t DEF Connect
<1>2. CASE OpenRegistration
  BY <1>2, <1>t DEF OpenRegistration
<1>3. CASE open_configuration
  BY <1>3, <1>t DEF open_configuration, LoadCredential
<1>4. CASE OpenConnection
  BY <1>4, <1>t DEF OpenConnection
<1>5. CASE StartConnection
  BY <1>5, <1>t DEF StartConnection
<1>6. CASE ConnectReturns
  BY <1>6, <1>t DEF ConnectReturns
<1>7. CASE SendRefused
  BY <1>7, <1>t DEF SendRefused
<1>8. CASE SendFile
  BY <1>8, <1>t DEF SendFile, NoAck
<1>9. CASE open_stream
  <2>1. /\ apc' \in {"send_header", "ready"} /\ UNCHANGED <<conn, lost, api, sends>>
        /\ dead_call' = (dead_call \/ ~connection \/ conn = "closed")
        /\ ~connection \/ conn = "closed" => lost
    BY <1>9, <1>t DEF open_stream, UsesConnection, Returns, HandleInv, ConnectionInv
  <2> QED
    BY <1>9, <2>1, <1>t, OpenEffect
<1>10. CASE SendHeader
  <2>1. StreamSend(1, "header_wait") /\ apc = "send_header"
    BY <1>10 DEF SendHeader
  <2>2. /\ UNCHANGED <<conn, lost, api, sends>> /\ apc' \in {"header_wait", "ready"}
        /\ dead_call' = (dead_call \/ (stream # NoStream /\ strm[stream] = "closed"))
    BY <2>1 DEF StreamSend, Returns
  <2>3. /\ sends \in Streams /\ stream \in {NoStream, sends}
        /\ apc' # "ready" => UNCHANGED strm
    BY <2>1, <1>t, SendEffect DEF SendStates
  <2> QED
    BY <2>1, <2>2, <2>3, <1>t
<1>11. CASE SendBody
  <2>1. StreamSend(2, "body_wait") /\ apc = "send_body"
    BY <1>11 DEF SendBody
  <2>2. /\ UNCHANGED <<conn, lost, api, sends>> /\ apc' \in {"body_wait", "ready"}
        /\ dead_call' = (dead_call \/ (stream # NoStream /\ strm[stream] = "closed"))
    BY <2>1 DEF StreamSend, Returns
  <2>3. /\ sends \in Streams /\ stream \in {NoStream, sends}
        /\ apc' # "ready" => UNCHANGED strm
    BY <2>1, <1>t, SendEffect DEF SendStates
  <2> QED
    BY <2>1, <2>2, <2>3, <1>t
<1>12. CASE WaitEnds
  BY <1>12, <1>t DEF WaitEnds
<1>13. CASE DecisionRejected
  BY <1>13, <1>t DEF DecisionRejected, Returns, abort_stream
<1>14. CASE WaitExpires
  BY <1>14, <1>t DEF WaitExpires, Returns, abort_stream
<1>15. CASE SendReturns
  BY <1>15, <1>t DEF SendReturns, Returns
<1>16. CASE Disconnect
  BY <1>16, <1>t DEF Disconnect
<1>17. CASE Destroy
  BY <1>17, <1>t DEF Destroy
<1>18. CASE TestConnection
  BY <1>18, <1>t DEF TestConnection, HasConnection
<1>19. CASE ClearComplete
  BY <1>19, <1>t DEF ClearComplete
<1>20. CASE ConnectionShutdown
  BY <1>20, <1>t DEF ConnectionShutdown, UsesConnection, HandleInv, ConnectionInv
<1>21. CASE ShutdownWaitEnds
  BY <1>21, <1>t DEF ShutdownWaitEnds
<1>22. CASE CloseConfiguration
  BY <1>22, <1>t DEF CloseConfiguration
<1>23. CASE CloseRegistration
  BY <1>23, <1>t DEF CloseRegistration, AllClosed
<1>24. CASE CloseApi
  BY <1>24, <1>t DEF CloseApi
<1>25. CASE OnConnected
  BY <1>25, <1>t DEF OnConnected
<1>26. CASE OnShutdownInitiated
  BY <1>26, <1>t DEF OnShutdownInitiated
<1>27. CASE OnShutdownComplete
  BY <1>27, <1>t DEF OnShutdownComplete, HandleClosed
<1>28. CASE ClearConnection
  BY <1>28, <1>t DEF ClearConnection
<1>29. CASE NotifyShutdown
  BY <1>29, <1>t DEF NotifyShutdown, SaysComplete
<1>30. ASSUME NEW s \in Streams, OnReceive(s) PROVE LossInv'
  BY <1>30, <1>t DEF OnReceive, Hears, First
<1>31. ASSUME NEW s \in Streams, OnPeerSendShutdown(s) PROVE LossInv'
  BY <1>31, <1>t DEF OnPeerSendShutdown, Hears
<1>32. ASSUME NEW s \in Streams, OnSendComplete(s) PROVE LossInv'
  BY <1>32, <1>t DEF OnSendComplete
<1>33. ASSUME NEW s \in Streams, StreamAborts(s) PROVE LossInv'
  <2>1. StreamEnds(s, "aborted") /\ strm[s] = "aborting"
    BY <1>33 DEF StreamAborts
  <2> QED
    BY <1>33, <2>1, <1>t, EndEffect DEF StreamAborts, StreamEnds, Types
<1>34. ASSUME NEW s \in Streams, OnStreamShutdownComplete(s) PROVE LossInv'
  <2>1. StreamEnds(s, "closed") /\ strm[s] # "closed"
    BY <1>34 DEF OnStreamShutdownComplete
  <2> QED
    BY <1>34, <2>1, <1>t, EndEffect DEF OnStreamShutdownComplete, StreamEnds, SendInv, HandleInv
<1>35. CASE ClearStream
  BY <1>35, <1>t DEF ClearStream, ConnectionInv
<1>36. ASSUME NEW s \in Streams, Server(s) PROVE LossInv'
  BY <1>36, <1>t DEF Server, ServerSays
<1>37. CASE Destroyed
  BY <1>37, <1>0 DEF Destroyed
<1> QED
  BY <1>0, <1>1, <1>2, <1>3, <1>4, <1>5, <1>6, <1>7, <1>8, <1>9, <1>10, <1>11, <1>12, <1>13,
     <1>14, <1>15, <1>16, <1>17, <1>18, <1>19, <1>20, <1>21, <1>22, <1>23, <1>24, <1>25, <1>26,
     <1>27, <1>28, <1>29, <1>30, <1>31, <1>32, <1>33, <1>34, <1>35, <1>36, <1>37 DEF Next,
     Thread, Callback

\* A stream that is only opened, aborted, or handed more stands as it stood with its peer.
LEMMA PeerFrame ==
  ASSUME NEW t \in Streams, PeerInv(t), Types,
         heard'[t] = heard[t], at_server'[t] = at_server[t], inbox'[t] = inbox[t],
         strm'[t] = strm[t] \/ strm'[t] \in {"started", "aborting"},
         handed'[t] = handed[t] \/ (strm'[t] = "started" /\ handed[t] # 2 /\ handed'[t] # 0)
  PROVE  PeerInv(t)'
BY DEF PeerInv, Types

\* What the short sequences of replies are made of.
LEMMA ReplyTails ==
  /\ <<"ACCEPT">> # <<>> /\ Tail(<<"ACCEPT">>) = <<>> /\ Head(<<"ACCEPT">>) = "ACCEPT"
  /\ <<"FIN">> # <<>> /\ Tail(<<"FIN">>) = <<>> /\ Head(<<"FIN">>) = "FIN"
  /\ <<"REJECT", "FIN">> # <<>> /\ Tail(<<"REJECT", "FIN">>) = <<"FIN">>
  /\ Head(<<"REJECT", "FIN">>) = "REJECT"
  /\ \A word \in {"OK", "FAIL"} :
       /\ <<word, "FIN">> # <<>> /\ Tail(<<word, "FIN">>) = <<"FIN">>
       /\ Head(<<word, "FIN">>) = word
       /\ <<"ACCEPT", word, "FIN">> # <<>> /\ Head(<<"ACCEPT", word, "FIN">>) = "ACCEPT"
       /\ Tail(<<"ACCEPT", word, "FIN">>) = <<word, "FIN">>
       /\ <<"ACCEPT">> \o <<word, "FIN">> = <<"ACCEPT", word, "FIN">>
       /\ <<>> \o <<word, "FIN">> = <<word, "FIN">>
  /\ <<>> \o <<"ACCEPT">> = <<"ACCEPT">> /\ <<>> \o <<"REJECT", "FIN">> = <<"REJECT", "FIN">>
  /\ <<>> \o <<>> = <<>>
<1>1. /\ <<"ACCEPT">> # <<>> /\ Tail(<<"ACCEPT">>) = <<>> /\ Head(<<"ACCEPT">>) = "ACCEPT"
      /\ <<"FIN">> # <<>> /\ Tail(<<"FIN">>) = <<>> /\ Head(<<"FIN">>) = "FIN"
      /\ <<"REJECT", "FIN">> # <<>> /\ Tail(<<"REJECT", "FIN">>) = <<"FIN">>
      /\ Head(<<"REJECT", "FIN">>) = "REJECT"
  OBVIOUS
<1>2. ASSUME NEW word \in {"OK", "FAIL"}
      PROVE  /\ <<word, "FIN">> # <<>> /\ Tail(<<word, "FIN">>) = <<"FIN">>
             /\ Head(<<word, "FIN">>) = word
             /\ <<"ACCEPT", word, "FIN">> # <<>> /\ Head(<<"ACCEPT", word, "FIN">>) = "ACCEPT"
             /\ Tail(<<"ACCEPT", word, "FIN">>) = <<word, "FIN">>
  OBVIOUS
<1>3. ASSUME NEW word \in {"OK", "FAIL"}
      PROVE  /\ <<"ACCEPT">> \o <<word, "FIN">> = <<"ACCEPT", word, "FIN">>
             /\ <<>> \o <<word, "FIN">> = <<word, "FIN">>
  <2>1. /\ word \in Replies /\ "FIN" \in Replies /\ <<"ACCEPT">> \in Seq(Replies)
        /\ <<word>> \in Seq(Replies) /\ <<"FIN">> \in Seq(Replies)
        /\ <<"ACCEPT", word>> \in Seq(Replies)
    BY DEF Replies
  <2>2. /\ <<"ACCEPT", word>> = Append(<<"ACCEPT">>, word)
        /\ <<"ACCEPT", word, "FIN">> = Append(<<"ACCEPT", word>>, "FIN")
        /\ <<word, "FIN">> = Append(<<word>>, "FIN")
    OBVIOUS
  <2>3. /\ Append(<<"ACCEPT">>, word) = <<"ACCEPT">> \o <<word>>
        /\ Append(<<"ACCEPT", word>>, "FIN") = <<"ACCEPT", word>> \o <<"FIN">>
        /\ Append(<<word>>, "FIN") = <<word>> \o <<"FIN">>
    BY <2>1, AppendIsConcat, Zenon
  <2>4. (<<"ACCEPT">> \o <<word>>) \o <<"FIN">> = <<"ACCEPT">> \o (<<word>> \o <<"FIN">>)
    BY <2>1, ConcatAssociative
  <2>5. <<>> \o <<word, "FIN">> = <<word, "FIN">>
    OBVIOUS
  <2> QED
    BY <2>2, <2>3, <2>4, <2>5, Zenon
<1>4. /\ <<>> \o <<"ACCEPT">> = <<"ACCEPT">> /\ <<>> \o <<"REJECT", "FIN">> = <<"REJECT", "FIN">>
      /\ <<>> \o <<>> = <<>>
  OBVIOUS
<1> QED
  BY <1>1, <1>2, <1>3, <1>4

\* What hearing a reply changes, stream by stream.
LEMMA HearEffect ==
  ASSUME Types, NEW s \in Streams, OnReceive(s) \/ OnPeerSendShutdown(s)
  PROVE  /\ strm[s] \in {"started", "aborting"} /\ conn = "connected" /\ inbox[s] # <<>>
         /\ inbox'[s] = Tail(inbox[s]) /\ heard'[s] = heard[s] \cup {Head(inbox[s])}
         /\ \A t \in Streams : t # s => inbox'[t] = inbox[t] /\ heard'[t] = heard[t]
         /\ UNCHANGED <<apc, sends, expired, last, stream, strm, handed, at_server, conn>>
<1>1. /\ strm[s] \in {"started", "aborting"} /\ conn = "connected" /\ inbox[s] # <<>>
      /\ inbox' = [inbox EXCEPT ![s] = Tail(@)]
      /\ heard' = [heard EXCEPT ![s] = @ \cup {Head(inbox[s])}]
      /\ UNCHANGED <<apc, sends, expired, last, stream, strm, handed, at_server, conn>>
  <2>1. CASE OnReceive(s)
    BY <2>1 DEF OnReceive, Hears, appVars, paceVars, connVars, streamVars
  <2>2. CASE OnPeerSendShutdown(s)
    BY <2>2 DEF OnPeerSendShutdown, Hears, appVars, paceVars, connVars, streamVars
  <2> QED
    BY <2>1, <2>2
<1> QED
  BY <1>1 DEF Types

\* What the server's steps change, stream by stream.
LEMMA ServerEffect ==
  ASSUME Types, NEW s \in Streams, Server(s)
  PROVE  /\ strm[s] \in {"started", "aborting"} /\ conn = "connected"
         /\ \/ /\ at_server[s] = "unseen" /\ handed[s] # 0
               /\ at_server'[s] = "offered" /\ inbox'[s] = inbox[s] \o <<>>
            \/ /\ at_server[s] = "offered"
               /\ at_server'[s] = "accepted" /\ inbox'[s] = inbox[s] \o <<"ACCEPT">>
            \/ /\ at_server[s] = "offered"
               /\ at_server'[s] = "answered" /\ inbox'[s] = inbox[s] \o <<"REJECT", "FIN">>
            \/ /\ at_server[s] = "accepted" /\ handed[s] = 2 /\ at_server'[s] = "answered"
               /\ \E word \in {"OK", "FAIL"} : inbox'[s] = inbox[s] \o <<word, "FIN">>
         /\ \A t \in Streams : t # s => at_server'[t] = at_server[t] /\ inbox'[t] = inbox[t]
         /\ UNCHANGED <<apc, sends, expired, last, stream, strm, handed, heard, conn>>
<1>1. ASSUME NEW state, NEW words, ServerSays(s, state, words)
      PROVE  /\ at_server'[s] = state /\ inbox'[s] = inbox[s] \o words
             /\ \A t \in Streams : t # s => at_server'[t] = at_server[t] /\ inbox'[t] = inbox[t]
             /\ UNCHANGED <<apc, sends, expired, last, stream, strm, handed, heard, conn>>
  <2>1. /\ at_server' = [at_server EXCEPT ![s] = state]
        /\ inbox' = [inbox EXCEPT ![s] = @ \o words]
        /\ UNCHANGED <<apc, sends, expired, last, stream, strm, handed, heard, conn>>
    BY <1>1 DEF ServerSays, appVars, paceVars, connVars, streamVars
  <2> QED
    BY <2>1 DEF Types
<1>2. strm[s] \in {"started", "aborting"} /\ conn = "connected"
  BY DEF Server, ServerTalks
<1>3. CASE at_server[s] = "unseen" /\ handed[s] > 0 /\ ServerSays(s, "offered", <<>>)
  <2>1. handed[s] # 0
    BY <1>3
  <2> QED
    BY <1>1, <1>2, <1>3, <2>1
<1>4. CASE at_server[s] = "offered" /\ ServerSays(s, "accepted", <<"ACCEPT">>)
  BY <1>1, <1>2, <1>4
<1>5. CASE at_server[s] = "offered" /\ ServerSays(s, "answered", <<"REJECT", "FIN">>)
  BY <1>1, <1>2, <1>5
<1>6. ASSUME NEW word \in {"OK", "FAIL"}, at_server[s] = "accepted", handed[s] = 2,
             ServerSays(s, "answered", <<word, "FIN">>)
      PROVE  \E w \in {"OK", "FAIL"} : inbox'[s] = inbox[s] \o <<w, "FIN">>
  BY <1>1, <1>6
<1> QED
  BY <1>1, <1>2, <1>3, <1>4, <1>5, <1>6 DEF Server

\* A reply that is heard leaves the ones behind it.
LEMMA HearsPeer ==
  ASSUME Types, NEW s \in Streams, PeerInv(s), OnReceive(s) \/ OnPeerSendShutdown(s)
  PROVE  PeerInv(s)'
<1> DEFINE box == inbox[s]
<1>1. /\ strm[s] \in {"started", "aborting"} /\ strm'[s] = strm[s] /\ handed'[s] = handed[s]
      /\ at_server'[s] = at_server[s] /\ heard'[s] # {}
      /\ inbox'[s] = Tail(box) /\ box # <<>>
  BY HearEffect
<1> HIDE DEF box
<1>2. CASE at_server[s] = "accepted"
  <2>1. box = <<"ACCEPT">>
    BY <1>1, <1>2 DEF PeerInv, box
  <2>2. inbox'[s] = <<>>
    BY <1>1, <2>1, ReplyTails
  <2> QED
    BY <1>1, <1>2, <2>2 DEF PeerInv
<1>3. CASE at_server[s] = "answered"
  <2>1. CASE box \in {<<"REJECT", "FIN">>, <<"FIN">>}
    BY <1>1, <1>3, <2>1, ReplyTails DEF PeerInv
  <2>2. CASE handed[s] = 2 /\ \E word \in {"OK", "FAIL"} : box = <<"ACCEPT", word, "FIN">>
    <3>1. \E word \in {"OK", "FAIL"} : inbox'[s] = <<word, "FIN">>
      BY <1>1, <2>2, ReplyTails
    <3> QED
      BY <1>1, <1>3, <2>2, <3>1 DEF PeerInv
  <2>3. CASE handed[s] = 2 /\ \E word \in {"OK", "FAIL"} : box = <<word, "FIN">>
    <3>1. inbox'[s] = <<"FIN">>
      BY <1>1, <2>3, ReplyTails
    <3> QED
      BY <1>1, <1>3, <3>1 DEF PeerInv
  <2> QED
    BY <1>1, <1>3, <2>1, <2>2, <2>3 DEF PeerInv, box
<1>4. at_server[s] \in {"accepted", "answered"}
  BY <1>1 DEF PeerInv, Types, box
<1> QED
  BY <1>2, <1>3, <1>4

\* What the server says, it says in this order.
LEMMA ServerPeer ==
  ASSUME Types, NEW s \in Streams, PeerInv(s), Server(s)
  PROVE  PeerInv(s)'
<1> DEFINE box == inbox[s]
           box2 == inbox'[s]
<1>1. /\ strm[s] \in {"started", "aborting"} /\ strm'[s] = strm[s] /\ handed'[s] = handed[s]
      /\ heard'[s] = heard[s]
      /\ at_server[s] # "unseen" => handed[s] # 0
      /\ at_server[s] \in {"unseen", "offered"} => box = <<>>
      /\ at_server[s] = "accepted" => box = <<"ACCEPT">> \/ (box = <<>> /\ heard[s] # {})
  BY ServerEffect DEF PeerInv
<1>2. \/ at_server[s] = "unseen" /\ handed[s] # 0 /\ at_server'[s] = "offered" /\ box2 = box \o <<>>
      \/ at_server[s] = "offered" /\ at_server'[s] = "accepted" /\ box2 = box \o <<"ACCEPT">>
      \/ at_server[s] = "offered" /\ at_server'[s] = "answered" /\ box2 = box \o <<"REJECT", "FIN">>
      \/ /\ at_server[s] = "accepted" /\ handed[s] = 2 /\ at_server'[s] = "answered"
         /\ \E word \in {"OK", "FAIL"} : box2 = box \o <<word, "FIN">>
  BY ServerEffect
<1> HIDE DEF box, box2
<1>3. \/ at_server'[s] = "offered" /\ handed[s] # 0 /\ box2 = <<>>
      \/ at_server'[s] = "accepted" /\ handed[s] # 0 /\ box2 = <<"ACCEPT">>
      \/ at_server'[s] = "answered" /\ handed[s] # 0 /\ box2 = <<"REJECT", "FIN">>
      \/ /\ at_server'[s] = "answered" /\ handed[s] = 2
         /\ \E word \in {"OK", "FAIL"} : \/ box2 = <<"ACCEPT", word, "FIN">>
                                         \/ box2 = <<word, "FIN">> /\ heard[s] # {}
  <2>1. CASE /\ at_server[s] = "unseen" /\ handed[s] # 0 /\ at_server'[s] = "offered"
             /\ box2 = box \o <<>>
    BY <1>1, <2>1, ReplyTails
  <2>2. CASE at_server[s] = "offered" /\ at_server'[s] = "accepted" /\ box2 = box \o <<"ACCEPT">>
    BY <1>1, <2>2, ReplyTails
  <2>3. CASE /\ at_server[s] = "offered" /\ at_server'[s] = "answered"
             /\ box2 = box \o <<"REJECT", "FIN">>
    BY <1>1, <2>3, ReplyTails
  <2>4. ASSUME at_server[s] = "accepted", handed[s] = 2, at_server'[s] = "answered",
               NEW word \in {"OK", "FAIL"}, box2 = box \o <<word, "FIN">>
        PROVE  \/ box2 = <<"ACCEPT", word, "FIN">>
               \/ box2 = <<word, "FIN">> /\ heard[s] # {}
    <3>1. CASE box = <<"ACCEPT">>
      BY <2>4, <3>1, ReplyTails
    <3>2. CASE box = <<>> /\ heard[s] # {}
      BY <2>4, <3>2, ReplyTails
    <3> QED
      BY <1>1, <2>4, <3>1, <3>2
  <2> QED
    BY <1>1, <1>2, <2>1, <2>2, <2>3, <2>4
<1>4. inbox'[s] = box2
  BY DEF box2
<1>5. CASE at_server'[s] \in {"offered", "accepted"}
  BY <1>1, <1>3, <1>4, <1>5 DEF PeerInv
<1>6. CASE at_server'[s] = "answered"
  BY <1>1, <1>3, <1>4, <1>6 DEF PeerInv
<1> QED
  BY <1>3, <1>5, <1>6

\* What the peer has said on each stream, and how much of it was heard.
LEMMA PeerStep == IInv /\ [Next]_vars => \A t \in Streams : PeerInv(t)'
<1> SUFFICES ASSUME IInv, [Next]_vars, NEW t \in Streams PROVE PeerInv(t)'
  OBVIOUS
<1>t. Types /\ SendInv /\ PeerInv(t)
  BY DEF IInv, StreamInv
<1>0. CASE UNCHANGED <<strm, handed, at_server, inbox, heard>>
  BY <1>0, <1>t, PeerFrame
<1>1. CASE Connect
  <2>1. /\ strm'[t] = "none" /\ heard'[t] = {} /\ handed'[t] = 0 /\ at_server'[t] = "unseen"
        /\ inbox'[t] = <<>>
    BY <1>1 DEF Connect, Each
  <2> QED
    BY <2>1 DEF PeerInv
<1>2. CASE OpenRegistration
  BY <1>0, <1>2 DEF OpenRegistration, streamVars, peerVars, disconnectVars
<1>3. CASE open_configuration
  BY <1>0, <1>3 DEF open_configuration, streamVars, peerVars, disconnectVars
<1>4. CASE OpenConnection
  BY <1>0, <1>4 DEF OpenConnection, streamVars, peerVars, disconnectVars
<1>5. CASE StartConnection
  BY <1>0, <1>5 DEF StartConnection, streamVars, peerVars, disconnectVars
<1>6. CASE ConnectReturns
  BY <1>0, <1>6 DEF ConnectReturns, streamVars, peerVars, disconnectVars
<1>7. CASE SendRefused
  BY <1>0, <1>7 DEF SendRefused, streamVars, peerVars, disconnectVars
<1>8. CASE SendFile
  BY <1>0, <1>8 DEF SendFile, streamVars, peerVars, disconnectVars
<1>9. CASE open_stream
  <2>1. UNCHANGED <<handed, at_server, inbox, heard>>
    BY <1>9 DEF open_stream, peerVars
  <2>2. strm'[t] = strm[t] \/ strm'[t] = "started"
    BY <1>9, <1>t, OpenEffect
  <2> QED
    BY <2>1, <2>2, <1>t, PeerFrame
<1>10. CASE SendHeader
  <2>1. StreamSend(1, "header_wait") /\ apc = "send_header"
    BY <1>10 DEF SendHeader
  <2>2. UNCHANGED <<at_server, inbox, heard>>
    BY <2>1 DEF StreamSend, peerVars
  <2>3. handed[sends] # 2
    BY <2>1, <1>t DEF SendInv
  <2>4. \/ strm'[t] = strm[t] \/ strm'[t] = "aborting"
    BY <2>1, <1>t, SendEffect DEF SendStates
  <2>5. handed'[t] = handed[t] \/ (strm'[t] = "started" /\ handed[t] # 2 /\ handed'[t] # 0)
    BY <2>1, <2>3, <1>t, SendEffect DEF SendStates
  <2> QED
    BY <2>2, <2>4, <2>5, <1>t, PeerFrame
<1>11. CASE SendBody
  <2>1. StreamSend(2, "body_wait") /\ apc = "send_body"
    BY <1>11 DEF SendBody
  <2>2. UNCHANGED <<at_server, inbox, heard>>
    BY <2>1 DEF StreamSend, peerVars
  <2>3. handed[sends] # 2
    BY <2>1, <1>t DEF SendInv
  <2>4. \/ strm'[t] = strm[t] \/ strm'[t] = "aborting"
    BY <2>1, <1>t, SendEffect DEF SendStates
  <2>5. handed'[t] = handed[t] \/ (strm'[t] = "started" /\ handed[t] # 2 /\ handed'[t] # 0)
    BY <2>1, <2>3, <1>t, SendEffect DEF SendStates
  <2> QED
    BY <2>2, <2>4, <2>5, <1>t, PeerFrame
<1>12. CASE WaitEnds
  BY <1>0, <1>12 DEF WaitEnds, streamVars, peerVars, disconnectVars
<1>13. CASE DecisionRejected
  <2>1. UNCHANGED <<handed, at_server, inbox, heard>>
    BY <1>13 DEF DecisionRejected, peerVars
  <2>2. strm'[t] = strm[t] \/ strm'[t] = "aborting"
    BY <1>13, <1>t, GivesUpEffect
  <2> QED
    BY <2>1, <2>2, <1>t, PeerFrame
<1>14. CASE WaitExpires
  <2>1. UNCHANGED <<handed, at_server, inbox, heard>>
    BY <1>14 DEF WaitExpires, peerVars
  <2>2. strm'[t] = strm[t] \/ strm'[t] = "aborting"
    <3>1. CASE apc = "ack_wait"
      BY <1>14, <3>1 DEF WaitExpires
    <3>2. CASE apc # "ack_wait"
      BY <1>14, <3>2, <1>t, GivesUpEffect
    <3> QED
      BY <3>1, <3>2
  <2> QED
    BY <2>1, <2>2, <1>t, PeerFrame
<1>15. CASE SendReturns
  BY <1>0, <1>15 DEF SendReturns, streamVars, peerVars, disconnectVars
<1>16. CASE Disconnect
  BY <1>0, <1>16 DEF Disconnect, streamVars, peerVars, disconnectVars
<1>17. CASE Destroy
  BY <1>0, <1>17 DEF Destroy, streamVars, peerVars, disconnectVars
<1>18. CASE TestConnection
  BY <1>0, <1>18 DEF TestConnection, streamVars, peerVars, disconnectVars
<1>19. CASE ClearComplete
  BY <1>0, <1>19 DEF ClearComplete, streamVars, peerVars, disconnectVars
<1>20. CASE ConnectionShutdown
  BY <1>0, <1>20 DEF ConnectionShutdown, streamVars, peerVars, disconnectVars
<1>21. CASE ShutdownWaitEnds
  BY <1>0, <1>21 DEF ShutdownWaitEnds, streamVars, peerVars, disconnectVars
<1>22. CASE CloseConfiguration
  BY <1>0, <1>22 DEF CloseConfiguration, streamVars, peerVars, disconnectVars
<1>23. CASE CloseRegistration
  BY <1>0, <1>23 DEF CloseRegistration, streamVars, peerVars, disconnectVars
<1>24. CASE CloseApi
  BY <1>0, <1>24 DEF CloseApi, streamVars, peerVars, disconnectVars
<1>25. CASE OnConnected
  BY <1>0, <1>25 DEF OnConnected, streamVars, peerVars, disconnectVars
<1>26. CASE OnShutdownInitiated
  BY <1>0, <1>26 DEF OnShutdownInitiated, streamVars, peerVars, disconnectVars
<1>27. CASE OnShutdownComplete
  BY <1>0, <1>27 DEF OnShutdownComplete, streamVars, peerVars, disconnectVars
<1>28. CASE ClearConnection
  BY <1>0, <1>28 DEF ClearConnection, streamVars, peerVars, disconnectVars
<1>29. CASE NotifyShutdown
  BY <1>0, <1>29 DEF NotifyShutdown, streamVars, peerVars, disconnectVars
<1>30. ASSUME NEW s \in Streams, OnReceive(s) PROVE PeerInv(t)'
  <2>1. CASE t = s
    BY <1>30, <2>1, <1>t, HearsPeer
  <2>2. CASE t # s
    BY <1>30, <2>2, <1>t, HearEffect, PeerFrame
  <2> QED
    BY <2>1, <2>2
<1>31. ASSUME NEW s \in Streams, OnPeerSendShutdown(s) PROVE PeerInv(t)'
  <2>1. CASE t = s
    BY <1>31, <2>1, <1>t, HearsPeer
  <2>2. CASE t # s
    BY <1>31, <2>2, <1>t, HearEffect, PeerFrame
  <2> QED
    BY <2>1, <2>2
<1>32. ASSUME NEW s \in Streams, OnSendComplete(s) PROVE PeerInv(t)'
  BY <1>0, <1>32 DEF OnSendComplete, streamVars, peerVars, disconnectVars
<1>33. ASSUME NEW s \in Streams, StreamAborts(s) PROVE PeerInv(t)'
  <2>1. StreamEnds(s, "aborted")
    BY <1>33 DEF StreamAborts
  <2>2. CASE t = s
    BY <2>1, <2>2, <1>t, EndEffect DEF PeerInv
  <2>3. CASE t # s
    BY <2>1, <2>3, <1>t, EndEffect, PeerFrame
  <2> QED
    BY <2>2, <2>3
<1>34. ASSUME NEW s \in Streams, OnStreamShutdownComplete(s) PROVE PeerInv(t)'
  <2>1. StreamEnds(s, "closed")
    BY <1>34 DEF OnStreamShutdownComplete
  <2>2. CASE t = s
    BY <2>1, <2>2, <1>t, EndEffect DEF PeerInv
  <2>3. CASE t # s
    BY <2>1, <2>3, <1>t, EndEffect, PeerFrame
  <2> QED
    BY <2>2, <2>3
<1>35. CASE ClearStream
  BY <1>0, <1>35 DEF ClearStream, streamVars, peerVars, disconnectVars
<1>36. ASSUME NEW s \in Streams, Server(s) PROVE PeerInv(t)'
  <2>1. CASE t = s
    BY <1>36, <2>1, <1>t, ServerPeer
  <2>2. CASE t # s
    BY <1>36, <2>2, <1>t, ServerEffect, PeerFrame
  <2> QED
    BY <2>1, <2>2
<1>37. CASE Destroyed
  BY <1>37, <1>0 DEF Destroyed, vars, streamVars, peerVars
<1>38. CASE UNCHANGED vars
  BY <1>38, <1>0 DEF vars, streamVars, peerVars
<1> QED
  BY <1>1, <1>2, <1>3, <1>4, <1>5, <1>6, <1>7, <1>8, <1>9, <1>10, <1>11, <1>12, <1>13, <1>14,
     <1>15, <1>16, <1>17, <1>18, <1>19, <1>20, <1>21, <1>22, <1>23, <1>24, <1>25, <1>26, <1>27,
     <1>28, <1>29, <1>30, <1>31, <1>32, <1>33, <1>34, <1>35, <1>36, <1>37, <1>38 DEF Next,
     Thread, Callback

\* Files are sent on established connections only, and the stream that ends is theirs.
LEMMA PaceStep == IInv /\ [Next]_vars => PaceInv'
<1> SUFFICES ASSUME IInv, [Next]_vars PROVE PaceInv'
  OBVIOUS
<1> USE DEF PaceInv, handleVars, connVars, flagVars, streamVars, peerVars, paceVars, noteVars,
               disconnectVars, appVars, Each, Moves, NoStream
<1>t. Types /\ SendInv /\ FreshInv /\ HandleInv /\ ConnectionInv /\ PaceInv
  BY DEF IInv, StreamInv
<1>0. CASE UNCHANGED vars
  BY <1>0, <1>t DEF vars
<1>1. CASE Connect
  BY <1>1, <1>t, NothingLeftHolds DEF Connect, NothingLeft, AllClosed
<1>2. CASE OpenRegistration
  BY <1>2, <1>t DEF OpenRegistration
<1>3. CASE open_configuration
  BY <1>3, <1>t DEF open_configuration, LoadCredential
<1>4. CASE OpenConnection
  BY <1>4, <1>t DEF OpenConnection, ConnectionInv
<1>5. CASE StartConnection
  BY <1>5, <1>t DEF StartConnection, ConnectionInv
<1>6. CASE ConnectReturns
  BY <1>6, <1>t DEF ConnectReturns
<1>7. CASE SendRefused
  BY <1>7, <1>t DEF SendRefused
<1>8. CASE SendFile
  <2>1. /\ UNCHANGED <<conn, connected, strm, worker>> /\ apc' # "idle" /\ connected
        /\ sends' = sends + 1 /\ sends \in Nat
    BY <1>8, <1>t DEF SendFile, Types
  <2> QED
    BY <2>1, <1>t DEF Streams
<1>9. CASE open_stream
  <2>1. /\ UNCHANGED <<conn, connected, sends, worker>> /\ apc' # "idle"
        /\ \A t \in Streams : strm[t] = "closed" => strm'[t] = "closed"
    BY <1>9, <1>t, OpenEffect DEF open_stream, FreshInv, Returns
  <2> QED
    BY <2>1, <1>t
<1>10. CASE SendHeader
  <2>1. StreamSend(1, "header_wait") /\ apc = "send_header"
    BY <1>10 DEF SendHeader
  <2>2. \A t \in Streams : strm[t] = "closed" => strm'[t] = "closed"
    BY <2>1, <1>t, SendEffect DEF SendStates
  <2>3. UNCHANGED <<conn, connected, sends, worker>> /\ apc' # "idle"
    BY <2>1 DEF StreamSend, Returns
  <2> QED
    BY <2>2, <2>3, <1>t
<1>11. CASE SendBody
  <2>1. StreamSend(2, "body_wait") /\ apc = "send_body"
    BY <1>11 DEF SendBody
  <2>2. \A t \in Streams : strm[t] = "closed" => strm'[t] = "closed"
    BY <2>1, <1>t, SendEffect DEF SendStates
  <2>3. UNCHANGED <<conn, connected, sends, worker>> /\ apc' # "idle"
    BY <2>1 DEF StreamSend, Returns
  <2> QED
    BY <2>2, <2>3, <1>t
<1>12. CASE WaitEnds
  BY <1>12, <1>t DEF WaitEnds
<1>13. CASE DecisionRejected
  <2>1. \A t \in Streams : strm[t] = "closed" => strm'[t] = "closed"
    BY <1>13, <1>t, GivesUpEffect
  <2> QED
    BY <1>13, <2>1, <1>t DEF DecisionRejected, Returns
<1>14. CASE WaitExpires
  <2>1. \A t \in Streams : strm[t] = "closed" => strm'[t] = "closed"
    BY <1>14, <1>t, GivesUpEffect DEF WaitExpires
  <2> QED
    BY <1>14, <2>1, <1>t DEF WaitExpires, Returns
<1>15. CASE SendReturns
  BY <1>15, <1>t DEF SendReturns, Returns
<1>16. CASE Disconnect
  BY <1>16, <1>t DEF Disconnect
<1>17. CASE Destroy
  BY <1>17, <1>t DEF Destroy
<1>18. CASE TestConnection
  BY <1>18, <1>t DEF TestConnection, HasConnection
<1>19. CASE ClearComplete
  BY <1>19, <1>t DEF ClearComplete
<1>20. CASE ConnectionShutdown
  BY <1>20, <1>t DEF ConnectionShutdown, UsesConnection
<1>21. CASE ShutdownWaitEnds
  BY <1>21, <1>t DEF ShutdownWaitEnds
<1>22. CASE CloseConfiguration
  BY <1>22, <1>t DEF CloseConfiguration
<1>23. CASE CloseRegistration
  BY <1>23, <1>t DEF CloseRegistration, AllClosed
<1>24. CASE CloseApi
  BY <1>24, <1>t DEF CloseApi
<1>25. CASE OnConnected
  BY <1>25, <1>t DEF OnConnected, HandleInv
<1>26. CASE OnShutdownInitiated
  BY <1>26, <1>t DEF OnShutdownInitiated
<1>27. CASE OnShutdownComplete
  BY <1>27, <1>t DEF OnShutdownComplete, HandleClosed
<1>28. CASE ClearConnection
  BY <1>28, <1>t DEF ClearConnection
<1>29. CASE NotifyShutdown
  BY <1>29, <1>t DEF NotifyShutdown, SaysComplete
<1>30. ASSUME NEW s \in Streams, OnReceive(s) PROVE PaceInv'
  BY <1>30, <1>t DEF OnReceive, Hears, First
<1>31. ASSUME NEW s \in Streams, OnPeerSendShutdown(s) PROVE PaceInv'
  BY <1>31, <1>t DEF OnPeerSendShutdown, Hears
<1>32. ASSUME NEW s \in Streams, OnSendComplete(s) PROVE PaceInv'
  BY <1>32, <1>t DEF OnSendComplete
<1>33. ASSUME NEW s \in Streams, StreamAborts(s) PROVE PaceInv'
  <2>1. StreamEnds(s, "aborted") /\ worker' = "free"
    BY <1>33 DEF StreamAborts
  <2> QED
    BY <2>1, <1>t DEF StreamEnds
<1>34. ASSUME NEW s \in Streams, OnStreamShutdownComplete(s) PROVE PaceInv'
  <2>1. StreamEnds(s, "closed") /\ strm[s] # "none"
    BY <1>34 DEF OnStreamShutdownComplete
  <2>2. /\ UNCHANGED <<conn, connected, sends, apc>> /\ s <= sends /\ strm'[s] = "closed"
    BY <2>1, <1>t, EndEffect DEF StreamEnds, FreshInv, Types, Streams
  <2> QED
    BY <2>2, <1>t
<1>35. CASE ClearStream
  BY <1>35, <1>t DEF ClearStream
<1>36. ASSUME NEW s \in Streams, Server(s) PROVE PaceInv'
  BY <1>36, <1>t DEF Server, ServerSays
<1>37. CASE Destroyed
  BY <1>37, <1>0 DEF Destroyed
<1> QED
  BY <1>0, <1>1, <1>2, <1>3, <1>4, <1>5, <1>6, <1>7, <1>8, <1>9, <1>10, <1>11, <1>12, <1>13,
     <1>14, <1>15, <1>16, <1>17, <1>18, <1>19, <1>20, <1>21, <1>22, <1>23, <1>24, <1>25, <1>26,
     <1>27, <1>28, <1>29, <1>30, <1>31, <1>32, <1>33, <1>34, <1>35, <1>36, <1>37 DEF Next,
     Thread, Callback

\* Within a connection, what a step may do to the pace of the sends.
LEMMA PaceFacts ==
  ASSUME IInv, [Next]_vars, sends' # 0
  PROVE  /\ expired => expired'
         /\ UNCHANGED sends \/ SendFile
         /\ apc \in SendStates => \/ apc' \in SendStates
                                  \/ open_stream \/ SendHeader \/ SendBody
                                  \/ DecisionRejected \/ WaitExpires \/ SendReturns
         /\ apc' \in SendStates => apc \in SendStates \/ SendFile
<1> DEFINE Goal == /\ expired => expired'
                   /\ UNCHANGED sends \/ SendFile
                   /\ apc \in SendStates => \/ apc' \in SendStates
                                            \/ open_stream \/ SendHeader \/ SendBody
                                            \/ DecisionRejected \/ WaitExpires \/ SendReturns
                   /\ apc' \in SendStates => apc \in SendStates \/ SendFile
<1> SUFFICES Goal
  OBVIOUS
<1> USE DEF SendStates, Moves, vars, handleVars, connVars, flagVars, streamVars, peerVars,
            paceVars, noteVars, disconnectVars, appVars
<1>1. CASE Connect
  BY <1>1 DEF Connect
<1>2. CASE OpenRegistration
  BY <1>2 DEF OpenRegistration
<1>3. CASE open_configuration
  BY <1>3 DEF open_configuration, LoadCredential
<1>4. CASE OpenConnection
  BY <1>4 DEF OpenConnection
<1>5. CASE StartConnection
  BY <1>5 DEF StartConnection
<1>6. CASE ConnectReturns
  BY <1>6 DEF ConnectReturns
<1>7. CASE SendRefused
  BY <1>7 DEF SendRefused
<1>8. CASE SendFile
  BY <1>8 DEF SendFile, NoAck
<1>9. CASE open_stream
  BY <1>9 DEF open_stream, UsesConnection, Returns
<1>10. CASE SendHeader
  BY <1>10 DEF SendHeader, StreamSend, BufferQueued, abort_stream, Returns
<1>11. CASE SendBody
  BY <1>11 DEF SendBody, StreamSend, BufferQueued, abort_stream, Returns
<1>12. CASE WaitEnds
  BY <1>12 DEF WaitEnds
<1>13. CASE DecisionRejected
  BY <1>13 DEF DecisionRejected, Returns, abort_stream
<1>14. CASE WaitExpires
  BY <1>14 DEF WaitExpires, Returns, abort_stream
<1>15. CASE SendReturns
  BY <1>15 DEF SendReturns, Returns
<1>16. CASE Disconnect
  BY <1>16 DEF Disconnect
<1>17. CASE Destroy
  BY <1>17 DEF Destroy
<1>18. CASE TestConnection
  BY <1>18 DEF TestConnection, HasConnection
<1>19. CASE ClearComplete
  BY <1>19 DEF ClearComplete
<1>20. CASE ConnectionShutdown
  BY <1>20 DEF ConnectionShutdown, UsesConnection
<1>21. CASE ShutdownWaitEnds
  BY <1>21 DEF ShutdownWaitEnds
<1>22. CASE CloseConfiguration
  BY <1>22 DEF CloseConfiguration
<1>23. CASE CloseRegistration
  BY <1>23 DEF CloseRegistration, AllClosed
<1>24. CASE CloseApi
  BY <1>24 DEF CloseApi
<1>25. CASE OnConnected
  BY <1>25 DEF OnConnected
<1>26. CASE OnShutdownInitiated
  BY <1>26 DEF OnShutdownInitiated
<1>27. CASE OnShutdownComplete
  BY <1>27 DEF OnShutdownComplete, HandleClosed
<1>28. CASE ClearConnection
  BY <1>28 DEF ClearConnection
<1>29. CASE NotifyShutdown
  BY <1>29 DEF NotifyShutdown, SaysComplete
<1>30. ASSUME NEW s \in Streams, OnReceive(s) PROVE Goal
  BY <1>30 DEF OnReceive, Hears, First
<1>31. ASSUME NEW s \in Streams, OnPeerSendShutdown(s) PROVE Goal
  BY <1>31 DEF OnPeerSendShutdown, Hears
<1>32. ASSUME NEW s \in Streams, OnSendComplete(s) PROVE Goal
  BY <1>32 DEF OnSendComplete
<1>33. ASSUME NEW s \in Streams, StreamAborts(s) PROVE Goal
  BY <1>33 DEF StreamAborts, StreamEnds
<1>34. ASSUME NEW s \in Streams, OnStreamShutdownComplete(s) PROVE Goal
  BY <1>34 DEF OnStreamShutdownComplete, StreamEnds
<1>35. CASE ClearStream
  BY <1>35 DEF ClearStream
<1>36. ASSUME NEW s \in Streams, Server(s) PROVE Goal
  BY <1>36 DEF Server, ServerSays
<1>37. CASE Destroyed \/ UNCHANGED vars
  BY <1>37 DEF Destroyed
<1> QED
  BY <1>1, <1>2, <1>3, <1>4, <1>5, <1>6, <1>7, <1>8, <1>9, <1>10, <1>11, <1>12, <1>13, <1>14,
     <1>15, <1>16, <1>17, <1>18, <1>19, <1>20, <1>21, <1>22, <1>23, <1>24, <1>25, <1>26, <1>27,
     <1>28, <1>29, <1>30, <1>31, <1>32, <1>33, <1>34, <1>35, <1>36, <1>37 DEF Next, Thread,
     Callback

\* Nothing that was heard is forgotten.
LEMMA HeardFacts ==
  ASSUME IInv, [Next]_vars, sends' # 0, NEW t \in Streams
  PROVE  heard[t] \subseteq heard'[t]
<1>t. Types
  BY DEF IInv
<1>0. CASE UNCHANGED heard
  BY <1>0
<1> USE DEF vars, flagVars, peerVars, disconnectVars
<1>1. CASE Connect
  BY <1>0, <1>1 DEF Connect
<1>2. CASE OpenRegistration
  BY <1>0, <1>2 DEF OpenRegistration
<1>3. CASE open_configuration
  BY <1>0, <1>3 DEF open_configuration, LoadCredential
<1>4. CASE OpenConnection
  BY <1>0, <1>4 DEF OpenConnection
<1>5. CASE StartConnection
  BY <1>0, <1>5 DEF StartConnection
<1>6. CASE ConnectReturns
  BY <1>0, <1>6 DEF ConnectReturns
<1>7. CASE SendRefused
  BY <1>0, <1>7 DEF SendRefused
<1>8. CASE SendFile
  BY <1>0, <1>8 DEF SendFile, NoAck
<1>9. CASE open_stream
  BY <1>0, <1>9 DEF open_stream, UsesConnection, Returns
<1>10. CASE SendHeader
  BY <1>0, <1>10 DEF SendHeader, StreamSend, BufferQueued, abort_stream, Returns
<1>11. CASE SendBody
  BY <1>0, <1>11 DEF SendBody, StreamSend, BufferQueued, abort_stream, Returns
<1>12. CASE WaitEnds
  BY <1>0, <1>12 DEF WaitEnds
<1>13. CASE DecisionRejected
  BY <1>0, <1>13 DEF DecisionRejected, Returns, abort_stream
<1>14. CASE WaitExpires
  BY <1>0, <1>14 DEF WaitExpires, Returns, abort_stream
<1>15. CASE SendReturns
  BY <1>0, <1>15 DEF SendReturns, Returns
<1>16. CASE Disconnect
  BY <1>0, <1>16 DEF Disconnect
<1>17. CASE Destroy
  BY <1>0, <1>17 DEF Destroy
<1>18. CASE TestConnection
  BY <1>0, <1>18 DEF TestConnection, HasConnection
<1>19. CASE ClearComplete
  BY <1>0, <1>19 DEF ClearComplete
<1>20. CASE ConnectionShutdown
  BY <1>0, <1>20 DEF ConnectionShutdown, UsesConnection
<1>21. CASE ShutdownWaitEnds
  BY <1>0, <1>21 DEF ShutdownWaitEnds
<1>22. CASE CloseConfiguration
  BY <1>0, <1>22 DEF CloseConfiguration
<1>23. CASE CloseRegistration
  BY <1>0, <1>23 DEF CloseRegistration, AllClosed
<1>24. CASE CloseApi
  BY <1>0, <1>24 DEF CloseApi
<1>25. CASE OnConnected
  BY <1>0, <1>25 DEF OnConnected
<1>26. CASE OnShutdownInitiated
  BY <1>0, <1>26 DEF OnShutdownInitiated
<1>27. CASE OnShutdownComplete
  BY <1>0, <1>27 DEF OnShutdownComplete, HandleClosed
<1>28. CASE ClearConnection
  BY <1>0, <1>28 DEF ClearConnection
<1>29. CASE NotifyShutdown
  BY <1>0, <1>29 DEF NotifyShutdown, SaysComplete
<1>30. ASSUME NEW s \in Streams, OnReceive(s) PROVE heard[t] \subseteq heard'[t]
  <2>1. heard'[s] = heard[s] \cup {Head(inbox[s])} /\ (t # s => heard'[t] = heard[t])
    BY <1>30, <1>t, HearEffect
  <2> QED
    BY <2>1
<1>31. ASSUME NEW s \in Streams, OnPeerSendShutdown(s) PROVE heard[t] \subseteq heard'[t]
  <2>1. heard'[s] = heard[s] \cup {Head(inbox[s])} /\ (t # s => heard'[t] = heard[t])
    BY <1>31, <1>t, HearEffect
  <2> QED
    BY <2>1
<1>32. ASSUME NEW s \in Streams, OnSendComplete(s) PROVE heard[t] \subseteq heard'[t]
  BY <1>0, <1>32 DEF OnSendComplete
<1>33. ASSUME NEW s \in Streams, StreamAborts(s) PROVE heard[t] \subseteq heard'[t]
  BY <1>0, <1>33 DEF StreamAborts, StreamEnds
<1>34. ASSUME NEW s \in Streams, OnStreamShutdownComplete(s) PROVE heard[t] \subseteq heard'[t]
  BY <1>0, <1>34 DEF OnStreamShutdownComplete, StreamEnds
<1>35. CASE ClearStream
  BY <1>0, <1>35 DEF ClearStream
<1>36. ASSUME NEW s \in Streams, Server(s) PROVE heard[t] \subseteq heard'[t]
  BY <1>0, <1>36 DEF Server, ServerSays
<1>37. CASE Destroyed \/ UNCHANGED vars
  BY <1>0, <1>37 DEF Destroyed
<1> QED
  BY <1>1, <1>2, <1>3, <1>4, <1>5, <1>6, <1>7, <1>8, <1>9, <1>10, <1>11, <1>12, <1>13, <1>14,
     <1>15, <1>16, <1>17, <1>18, <1>19, <1>20, <1>21, <1>22, <1>23, <1>24, <1>25, <1>26, <1>27,
     <1>28, <1>29, <1>30, <1>31, <1>32, <1>33, <1>34, <1>35, <1>36, <1>37 DEF Next, Thread,
     Callback

\* Only the current send_file makes more come on a stream.
LEMMA ActiveFacts ==
  ASSUME IInv, [Next]_vars, sends' # 0, NEW t \in Streams,
         t # sends \/ apc' \notin SendStates, Active(t)'
  PROVE  Active(t) /\ handed'[t] = handed[t]
<1>t. Types /\ SendInv /\ PeerInv(t)
  BY DEF IInv, StreamInv
<1> DEFINE Goal == Active(t) /\ handed'[t] = handed[t]
<1>0. CASE handed'[t] = handed[t] /\ at_server'[t] = at_server[t] /\ inbox'[t] = inbox[t]
  BY <1>0 DEF Active
<1> SUFFICES Goal
  OBVIOUS
<1> HIDE DEF Goal
<1>g. UNCHANGED <<handed, at_server, inbox>> => Goal
  BY <1>0 DEF Goal
<1> USE DEF vars, streamVars, peerVars, disconnectVars
<1>1. CASE Connect
  BY <1>1 DEF Connect
<1>2. CASE OpenRegistration
  BY <1>g, <1>2 DEF OpenRegistration
<1>3. CASE open_configuration
  BY <1>g, <1>3 DEF open_configuration, LoadCredential
<1>4. CASE OpenConnection
  BY <1>g, <1>4 DEF OpenConnection
<1>5. CASE StartConnection
  BY <1>g, <1>5 DEF StartConnection
<1>6. CASE ConnectReturns
  BY <1>g, <1>6 DEF ConnectReturns
<1>7. CASE SendRefused
  BY <1>g, <1>7 DEF SendRefused
<1>8. CASE SendFile
  BY <1>g, <1>8 DEF SendFile, NoAck
<1>9. CASE open_stream
  BY <1>g, <1>9 DEF open_stream, UsesConnection, Returns
<1>10. CASE SendHeader
  <2>1. StreamSend(1, "header_wait") /\ apc = "send_header"
    BY <1>10 DEF SendHeader
  <2>2. UNCHANGED <<at_server, inbox>>
    BY <2>1 DEF StreamSend
  <2>3. handed'[t] = handed[t]
    BY <2>1, <1>t, SendEffect DEF SendStates
  <2> QED
    BY <2>2, <2>3, <1>0 DEF Goal
<1>11. CASE SendBody
  <2>1. StreamSend(2, "body_wait") /\ apc = "send_body"
    BY <1>11 DEF SendBody
  <2>2. UNCHANGED <<at_server, inbox>>
    BY <2>1 DEF StreamSend
  <2>3. handed'[t] = handed[t]
    BY <2>1, <1>t, SendEffect DEF SendStates
  <2> QED
    BY <2>2, <2>3, <1>0 DEF Goal
<1>12. CASE WaitEnds
  BY <1>g, <1>12 DEF WaitEnds
<1>13. CASE DecisionRejected
  BY <1>g, <1>13 DEF DecisionRejected, Returns, abort_stream
<1>14. CASE WaitExpires
  BY <1>g, <1>14 DEF WaitExpires, Returns, abort_stream
<1>15. CASE SendReturns
  BY <1>g, <1>15 DEF SendReturns, Returns
<1>16. CASE Disconnect
  BY <1>g, <1>16 DEF Disconnect
<1>17. CASE Destroy
  BY <1>g, <1>17 DEF Destroy
<1>18. CASE TestConnection
  BY <1>g, <1>18 DEF TestConnection, HasConnection
<1>19. CASE ClearComplete
  BY <1>g, <1>19 DEF ClearComplete
<1>20. CASE ConnectionShutdown
  BY <1>g, <1>20 DEF ConnectionShutdown, UsesConnection
<1>21. CASE ShutdownWaitEnds
  BY <1>g, <1>21 DEF ShutdownWaitEnds
<1>22. CASE CloseConfiguration
  BY <1>g, <1>22 DEF CloseConfiguration
<1>23. CASE CloseRegistration
  BY <1>g, <1>23 DEF CloseRegistration, AllClosed
<1>24. CASE CloseApi
  BY <1>g, <1>24 DEF CloseApi
<1>25. CASE OnConnected
  BY <1>g, <1>25 DEF OnConnected
<1>26. CASE OnShutdownInitiated
  BY <1>g, <1>26 DEF OnShutdownInitiated
<1>27. CASE OnShutdownComplete
  BY <1>g, <1>27 DEF OnShutdownComplete, HandleClosed
<1>28. CASE ClearConnection
  BY <1>g, <1>28 DEF ClearConnection
<1>29. CASE NotifyShutdown
  BY <1>g, <1>29 DEF NotifyShutdown, SaysComplete
<1>30. ASSUME NEW s \in Streams, OnReceive(s) PROVE Goal
  <2>1. CASE t = s
    BY <1>30, <2>1, <1>t, HearEffect DEF Active, Goal
  <2>2. CASE t # s
    BY <1>30, <2>2, <1>0, <1>t, HearEffect DEF Goal
  <2> QED
    BY <2>1, <2>2
<1>31. ASSUME NEW s \in Streams, OnPeerSendShutdown(s) PROVE Goal
  <2>1. CASE t = s
    BY <1>31, <2>1, <1>t, HearEffect DEF Active, Goal
  <2>2. CASE t # s
    BY <1>31, <2>2, <1>0, <1>t, HearEffect DEF Goal
  <2> QED
    BY <2>1, <2>2
<1>32. ASSUME NEW s \in Streams, OnSendComplete(s) PROVE Goal
  BY <1>g, <1>32 DEF OnSendComplete
<1>33. ASSUME NEW s \in Streams, StreamAborts(s) PROVE Goal
  <2>1. StreamEnds(s, "aborted")
    BY <1>33 DEF StreamAborts
  <2>2. CASE t = s
    BY <2>1, <2>2, <1>t, EndEffect DEF Active
  <2>3. CASE t # s
    BY <2>1, <2>3, <1>0, <1>t, EndEffect DEF Goal
  <2> QED
    BY <2>2, <2>3
<1>34. ASSUME NEW s \in Streams, OnStreamShutdownComplete(s) PROVE Goal
  <2>1. StreamEnds(s, "closed")
    BY <1>34 DEF OnStreamShutdownComplete
  <2>2. CASE t = s
    BY <2>1, <2>2, <1>t, EndEffect DEF Active
  <2>3. CASE t # s
    BY <2>1, <2>3, <1>0, <1>t, EndEffect DEF Goal
  <2> QED
    BY <2>2, <2>3
<1>35. CASE ClearStream
  BY <1>g, <1>35 DEF ClearStream
<1>36. ASSUME NEW s \in Streams, Server(s) PROVE Goal
  <2>1. CASE t = s
    BY <1>36, <2>1, <1>t, ServerEffect DEF Active, PeerInv, Goal
  <2>2. CASE t # s
    BY <1>36, <2>2, <1>0, <1>t, ServerEffect DEF Goal
  <2> QED
    BY <2>1, <2>2
<1>37. CASE Destroyed \/ UNCHANGED vars
  BY <1>g, <1>37 DEF Destroyed
<1> QED
  BY <1>1, <1>2, <1>3, <1>4, <1>5, <1>6, <1>7, <1>8, <1>9, <1>10, <1>11, <1>12, <1>13, <1>14,
     <1>15, <1>16, <1>17, <1>18, <1>19, <1>20, <1>21, <1>22, <1>23, <1>24, <1>25, <1>26, <1>27,
     <1>28, <1>29, <1>30, <1>31, <1>32, <1>33, <1>34, <1>35, <1>36, <1>37 DEF Next, Thread,
     Callback

\* A rejection that was heard stays one.
LEMMA RejectedKept ==
  ASSUME IInv, [Next]_vars, sends' # 0, NEW n, RejectedBefore(n)
  PROVE  RejectedBefore(n)'
BY HeardFacts DEF RejectedBefore

\* A send_file that returns without having waited in vain has heard all there is,
\* unless it or an earlier one was rejected.
LEMMA ReturnFacts ==
  ASSUME IInv, [Next]_vars, apc \in SendStates, apc' \notin SendStates, sends' = sends, ~expired',
         Active(sends)'
  PROVE  RejectedBefore(sends + 1) /\ (handed'[sends] = 2 => RejectedBefore(sends))
<1>t. Types /\ SendInv /\ FreshInv /\ OwnAnswer /\ (\A s \in Streams : PeerInv(s))
  BY DEF IInv, StreamInv
<1>1. sends \in Streams /\ sends # 0
  BY <1>t, SendsAssumption DEF Types, SendInv, Streams
<1>2. ~expired
  BY <1>1, PaceFacts
<1>3. Active(sends) /\ handed'[sends] = handed[sends]
  BY <1>1, ActiveFacts
<1>4. ASSUME RejectedBefore(sends)
      PROVE  RejectedBefore(sends + 1)
  BY <1>1, <1>4 DEF RejectedBefore, Streams
<1>5. CASE open_stream
  <2>1. strm[sends] = "none"
    BY <1>1, <1>5, <1>t DEF FreshInv, open_stream
  <2> QED
    BY <1>1, <1>3, <2>1, <1>t DEF PeerInv, Active
<1>6. CASE SendHeader
  <2>1. handed[sends] = 0
    BY <1>6, <1>t DEF SendHeader, SendInv
  <2> QED
    BY <1>1, <1>3, <2>1, <1>t DEF PeerInv, Active
<1>7. CASE SendBody
  <2>1. apc = "send_body"
    BY <1>7 DEF SendBody
  <2>2. handed[sends] \in {0, 1}
    BY <2>1, <1>t DEF SendInv
  <2>3. ~RejectedBefore(sends) => Heeded(sends)
    BY <1>2, <2>1, <1>t DEF OwnAnswer
  <2>4. Heeded(sends) => ~Active(sends)
    BY <1>1, <2>2, <1>t DEF Heeded, Active, PeerInv
  <2> QED
    BY <1>3, <1>4, <2>3, <2>4
<1>8. CASE DecisionRejected
  <2>1. apc = "decision_wait" /\ decision = "rejected"
    BY <1>8 DEF DecisionRejected
  <2>2. handed[sends] \in {0, 1}
    BY <2>1, <1>t DEF SendInv
  <2>3. ~RejectedBefore(sends) => "REJECT" \in heard[sends]
    BY <1>2, <2>1, <1>t DEF OwnAnswer
  <2>4. "REJECT" \in heard[sends] => RejectedBefore(sends + 1)
    BY <1>1 DEF RejectedBefore, Streams
  <2> QED
    BY <1>3, <1>4, <2>2, <2>3, <2>4
<1>9. CASE WaitExpires
  BY <1>9 DEF WaitExpires
<1>10. CASE SendReturns
  <2>1. apc = "ack_wait" /\ ack # "none"
    BY <1>10 DEF SendReturns
  <2>2. ~RejectedBefore(sends) => Done(sends)
    BY <1>2, <2>1, <1>t DEF OwnAnswer
  <2>3. Done(sends) => ~Active(sends)
    BY <1>1, <1>t DEF Done, Active, PeerInv
  <2> QED
    BY <1>3, <1>4, <2>2, <2>3
<1> QED
  BY <1>1, <1>5, <1>6, <1>7, <1>8, <1>9, <1>10, PaceFacts

\* No answer is left behind by a send_file, unless one was rejected.
LEMMA LeftStep == IInv /\ [Next]_vars => LeftInv'
<1> SUFFICES ASSUME IInv, [Next]_vars, ~expired', NEW s \in Streams,
                    s < sends' \/ (s = sends' /\ apc' \notin SendStates), Active(s)'
             PROVE  RejectedBefore(s + 1)' /\ (handed'[s] = 2 => RejectedBefore(s)')
  BY DEF LeftInv
<1>t. Types /\ Types' /\ LeftInv
  BY TypesStep DEF IInv
<1>1. sends \in Nat /\ sends' \in Nat /\ s \in Nat \ {0} /\ sends' # 0
  BY <1>t, SendsAssumption, SMTT(30) DEF Types, Streams
<1>2. ~expired
  BY <1>1, PaceFacts
<1>3. CASE s < sends \/ (s = sends /\ apc \notin SendStates)
  <2>1. Active(s) /\ handed'[s] = handed[s]
    <3>1. CASE SendFile
      BY <3>1 DEF SendFile, Active, streamVars, peerVars
    <3>2. CASE UNCHANGED sends
      BY <1>1, <3>2, ActiveFacts
    <3> QED
      BY <1>1, <3>1, <3>2, PaceFacts
  <2>2. RejectedBefore(s + 1) /\ (handed[s] = 2 => RejectedBefore(s))
    BY <1>2, <1>3, <1>t, <2>1 DEF LeftInv
  <2> QED
    BY <1>1, <2>1, <2>2, RejectedKept
<1>4. CASE s = sends /\ apc \in SendStates
  <2>1. sends' = sends /\ apc' \notin SendStates
    <3>1. ~SendFile
      BY <1>4 DEF SendFile, Moves, SendStates
    <3> QED
      BY <1>1, <1>4, <3>1, PaceFacts
  <2>2. RejectedBefore(sends + 1) /\ (handed'[sends] = 2 => RejectedBefore(sends))
    BY <1>1, <1>4, <2>1, ReturnFacts
  <2> QED
    BY <1>1, <1>4, <2>1, <2>2, RejectedKept
<1>5. s < sends \/ s = sends
  <2>1. CASE UNCHANGED sends
    BY <1>1, <2>1
  <2>2. CASE SendFile
    <3>1. sends' = sends + 1 /\ apc' = "open_stream"
      BY <2>2 DEF SendFile, Moves
    <3> QED
      BY <1>1, <3>1 DEF SendStates
  <2> QED
    BY <1>1, <2>1, <2>2, PaceFacts
<1> QED
  BY <1>3, <1>4, <1>5

-----------------------------------------------------------------------------
\* The next reply on a stream says how far the file on it has come.
LEMMA HeadFacts ==
  ASSUME Types, NEW s \in Streams, PeerInv(s), inbox[s] # <<>>
  PROVE  /\ strm[s] \in {"started", "aborting"} /\ handed[s] # 0
         /\ Head(inbox[s]) = "OK" => handed[s] = 2
         /\ Head(inbox[s]) = "FIN" =>
              at_server[s] = "answered" /\ inbox[s] = <<"FIN">> /\ heard[s] # {}
         /\ heard[s] = {} =>
              \/ at_server[s] = "accepted" /\ inbox[s] = <<"ACCEPT">>
              \/ at_server[s] = "answered" /\ Head(inbox[s]) = "REJECT"
              \/ handed[s] = 2 /\ Head(inbox[s]) = "ACCEPT"
<1>1. /\ strm[s] \in {"started", "aborting"} /\ handed[s] # 0
      /\ at_server[s] \in {"accepted", "answered"}
  BY DEF Types, PeerInv
<1>2. CASE at_server[s] = "accepted"
  BY <1>1, <1>2, ReplyTails DEF PeerInv
<1>3. CASE at_server[s] = "answered"
  <2>1. CASE inbox[s] = <<"REJECT", "FIN">>
    BY <1>1, <1>3, <2>1, ReplyTails
  <2>2. CASE inbox[s] \in {<<>>, <<"FIN">>} /\ heard[s] # {}
    BY <1>1, <1>3, <2>2, ReplyTails
  <2>3. CASE /\ handed[s] = 2
             /\ \E word \in {"OK", "FAIL"} : \/ inbox[s] = <<"ACCEPT", word, "FIN">>
                                             \/ inbox[s] = <<word, "FIN">> /\ heard[s] # {}
    BY <1>1, <1>3, <2>3, ReplyTails
  <2> QED
    BY <1>3, <2>1, <2>2, <2>3 DEF PeerInv
<1> QED
  BY <1>1, <1>2, <1>3

\* While no earlier send was rejected or waited in vain, the event that comes is for
\* the stream of the current one.
LEMMA OnlyOwnHeard ==
  ASSUME IInv, ~expired, apc \in SendStates, NEW s \in Streams,
         OnReceive(s) \/ OnPeerSendShutdown(s)
  PROVE  /\ s = sends \/ (s < sends /\ RejectedBefore(s + 1))
         /\ handed[s] = 2 => s = sends \/ (s < sends /\ RejectedBefore(s))
<1>1. Types /\ SendInv /\ FreshInv /\ LeftInv
  BY DEF IInv, StreamInv
<1>2. sends \in Streams /\ s \in Nat /\ sends \in Nat
  BY <1>1, SendsAssumption DEF Types, SendInv, Streams
<1>3. strm[s] \in {"started", "aborting"} /\ inbox[s] # <<>>
  BY <1>1, HearEffect
<1>4. ~(s > sends)
  BY <1>1, <1>3 DEF FreshInv
<1>5. CASE s < sends
  <2>1. Active(s)
    BY <1>3 DEF Active
  <2> QED
    BY <1>1, <1>5, <2>1 DEF LeftInv
<1> QED
  BY <1>2, <1>4, <1>5

\* A rejection that precedes an earlier send precedes a later one.
LEMMA RejectedBeforeMore ==
  ASSUME NEW m \in Nat, NEW n \in Nat, m <= n, RejectedBefore(m)
  PROVE  RejectedBefore(n)
BY SendsAssumption DEF RejectedBefore, Streams

\* send_file is told what was said on its own stream: an event of another stream can
\* only be one that a rejected send left behind.
LEMMA OwnAnswerStep == IInv /\ [Next]_vars => OwnAnswer'
<1> DEFINE A1 == awaiting_decision \/ apc \in {"open_stream", "send_header"} =>
                   /\ heard[sends] = {} /\ decision = "none" /\ decision_buf = "none"
                   /\ ack = "none"
           A2 == decision = "rejected" => "REJECT" \in heard[sends]
           A3 == \/ apc = "send_body"
                 \/ apc \in {"header_wait", "decision_wait"} /\ decision = "accepted"
                 => Heeded(sends)
           A4 == ack # "none" => Done(sends)
           Goal == A1' /\ A2' /\ A3' /\ A4'
<1> SUFFICES ASSUME IInv, [Next]_vars, apc' \in SendStates, ~expired', ~RejectedBefore(sends)'
             PROVE  Goal
  BY DEF OwnAnswer
<1>t. Types /\ SendInv /\ FreshInv /\ (\A s \in Streams : PeerInv(s)) /\ SendInv' /\ Types'
  BY SendStep, TypesStep DEF IInv, StreamInv
<1>p. sends' # 0 /\ sends' \in Streams
  BY <1>t, SendsAssumption DEF SendInv, Types, Streams
<1>e. ~expired
  BY <1>p, PaceFacts
<1>f. CASE SendFile
  <2>1. /\ sends' = sends + 1 /\ apc' = "open_stream" /\ UNCHANGED <<strm, heard>>
        /\ decision' = "none" /\ decision_buf' = "none" /\ ack' = "none"
    BY <1>f DEF SendFile, NoAck, Moves, streamVars, peerVars
  <2>2. strm[sends'] = "none"
    BY <1>t, <1>p, <2>1 DEF FreshInv, Types, Streams
  <2>3. heard[sends'] = {}
    BY <1>t, <1>p, <2>2 DEF PeerInv
  <2> QED
    BY <2>1, <2>3
<1>s. CASE ~SendFile
  <2>1. sends' = sends /\ apc \in SendStates
    BY <1>p, <1>s, PaceFacts
  <2>2. ~RejectedBefore(sends)
    <3> SUFFICES ASSUME RejectedBefore(sends) PROVE FALSE
      OBVIOUS
    <3>1. PICK r \in Streams : r < sends /\ "REJECT" \in heard[r]
      BY DEF RejectedBefore
    <3>2. "REJECT" \in heard'[r]
      BY <1>p, <3>1, HeardFacts
    <3> QED
      BY <2>1, <3>1, <3>2 DEF RejectedBefore
  <2>3. A1 /\ A2 /\ A3 /\ A4
    BY <1>e, <2>1, <2>2 DEF IInv, OwnAnswer
  <2>4. ASSUME NEW s \in Streams, OnReceive(s) \/ OnPeerSendShutdown(s) PROVE s = sends
    <3>1. s = sends \/ (s < sends /\ RejectedBefore(s + 1))
      BY <1>e, <2>1, <2>4, OnlyOwnHeard
    <3>2. s \in Nat /\ sends \in Nat
      BY <1>p, <2>1 DEF Streams
    <3>3. ASSUME s < sends, RejectedBefore(s + 1) PROVE FALSE
      BY <2>2, <3>2, <3>3 DEF RejectedBefore, Streams
    <3> QED
      BY <3>1, <3>3
  <2>h. PeerInv(sends) /\ sends \in Streams
    BY <1>t, <1>p, <2>1
  <2> HIDE DEF Goal, A1, A2, A3, A4
  <2>w. /\ awaiting_decision' = awaiting_decision /\ UNCHANGED <<apc, decision, decision_buf, ack>>
        /\ heard'[sends] = heard[sends] /\ strm'[sends] = strm[sends]
        /\ inbox'[sends] = inbox[sends] /\ at_server'[sends] = at_server[sends]
        => Goal
    BY <2>1, <2>3 DEF Goal, A1, A2, A3, A4, Heeded, Done
  <2>a1. CASE Connect
    BY <1>s, <2>1, <2>w, <2>a1 DEF SendStates, Moves, vars, handleVars, connVars, flagVars,
       streamVars, peerVars, paceVars, noteVars, disconnectVars, appVars, Connect
  <2>a2. CASE OpenRegistration
    BY <1>s, <2>1, <2>w, <2>a2 DEF SendStates, Moves, vars, handleVars, connVars, flagVars,
       streamVars, peerVars, paceVars, noteVars, disconnectVars, appVars, OpenRegistration
  <2>a3. CASE open_configuration
    BY <1>s, <2>1, <2>w, <2>a3 DEF SendStates, Moves, vars, handleVars, connVars, flagVars,
       streamVars, peerVars, paceVars, noteVars, disconnectVars, appVars, open_configuration,
       LoadCredential
  <2>a4. CASE OpenConnection
    BY <1>s, <2>1, <2>w, <2>a4 DEF SendStates, Moves, vars, handleVars, connVars, flagVars,
       streamVars, peerVars, paceVars, noteVars, disconnectVars, appVars, OpenConnection
  <2>a5. CASE StartConnection
    BY <1>s, <2>1, <2>w, <2>a5 DEF SendStates, Moves, vars, handleVars, connVars, flagVars,
       streamVars, peerVars, paceVars, noteVars, disconnectVars, appVars, StartConnection
  <2>a6. CASE ConnectReturns
    BY <1>s, <2>1, <2>w, <2>a6 DEF SendStates, Moves, vars, handleVars, connVars, flagVars,
       streamVars, peerVars, paceVars, noteVars, disconnectVars, appVars, ConnectReturns
  <2>a7. CASE SendRefused
    BY <1>s, <2>1, <2>w, <2>a7 DEF SendStates, Moves, vars, handleVars, connVars, flagVars,
       streamVars, peerVars, paceVars, noteVars, disconnectVars, appVars, SendRefused
  <2>a8. CASE SendFile
    BY <1>s, <2>a8
  <2>a9. CASE open_stream
    <3>1. /\ UNCHANGED <<awaiting_decision, decision, decision_buf, ack, heard>>
          /\ apc = "open_stream" /\ apc' = "send_header"
      BY <1>t, <2>a9, OpenEffect DEF open_stream, flagVars, peerVars, SendStates
    <3> QED
      BY <2>1, <2>3, <3>1 DEF Goal, A1, A2, A3, A4
  <2>a10. CASE SendHeader
    <3>1. StreamSend(1, "header_wait") /\ apc = "send_header"
      BY <2>a10 DEF SendHeader
    <3>2. /\ UNCHANGED <<decision, decision_buf, ack, at_server, inbox, heard>>
          /\ apc' = "header_wait" /\ UNCHANGED strm
      <4>1. UNCHANGED <<decision, decision_buf, ack, at_server, inbox, heard>>
        BY <3>1 DEF StreamSend, peerVars
      <4>2. apc # "open_stream" /\ apc' # "ready"
        BY <3>1 DEF SendStates
      <4>3. apc' = "header_wait" /\ UNCHANGED strm
        BY <1>t, <2>1, <3>1, <4>2, SendEffect
      <4> QED
        BY <4>1, <4>3
    <3> QED
      BY <2>a10, <2>1, <2>3, <3>1, <3>2 DEF SendHeader, Goal, A1, A2, A3, A4, Heeded, Done
  <2>a11. CASE SendBody
    <3>1. StreamSend(2, "body_wait") /\ apc = "send_body"
      BY <2>a11 DEF SendBody
    <3>2. /\ UNCHANGED <<decision, decision_buf, ack, at_server, inbox, heard>>
          /\ apc' = "body_wait" /\ UNCHANGED strm
      <4>1. UNCHANGED <<decision, decision_buf, ack, at_server, inbox, heard>>
        BY <3>1 DEF StreamSend, peerVars
      <4>2. apc # "open_stream" /\ apc' # "ready"
        BY <3>1 DEF SendStates
      <4>3. apc' = "body_wait" /\ UNCHANGED strm
        BY <1>t, <2>1, <3>1, <4>2, SendEffect
      <4> QED
        BY <4>1, <4>3
    <3> QED
      BY <2>a11, <2>1, <2>3, <3>1, <3>2 DEF SendBody, Goal, A1, A2, A3, A4, Heeded, Done
  <2>a12. CASE WaitEnds
    <3>1. UNCHANGED <<awaiting_decision, decision, decision_buf, ack, heard, strm, inbox,
                      at_server>>
      BY <2>a12 DEF WaitEnds, flagVars, peerVars, streamVars
    <3>2. \/ apc = "header_wait" /\ apc' = "decision_wait"
          \/ decision = "accepted" /\ apc = "decision_wait" /\ apc' = "send_body"
          \/ apc = "body_wait" /\ apc' = "ack_wait"
      BY <2>a12 DEF WaitEnds, Moves
    <3> QED
      BY <2>1, <2>3, <3>1, <3>2 DEF Goal, A1, A2, A3, A4, Heeded, Done
  <2>a13. CASE DecisionRejected
    BY <1>s, <2>1, <2>w, <2>a13 DEF SendStates, Moves, vars, handleVars, connVars, flagVars,
       streamVars, peerVars, paceVars, noteVars, disconnectVars, appVars, DecisionRejected,
       Returns, abort_stream
  <2>a14. CASE WaitExpires
    BY <1>s, <2>1, <2>w, <2>a14 DEF SendStates, Moves, vars, handleVars, connVars, flagVars,
       streamVars, peerVars, paceVars, noteVars, disconnectVars, appVars, WaitExpires, Returns,
       abort_stream
  <2>a15. CASE SendReturns
    BY <1>s, <2>1, <2>w, <2>a15 DEF SendStates, Moves, vars, handleVars, connVars, flagVars,
       streamVars, peerVars, paceVars, noteVars, disconnectVars, appVars, SendReturns, Returns
  <2>a16. CASE Disconnect
    BY <1>s, <2>1, <2>w, <2>a16 DEF SendStates, Moves, vars, handleVars, connVars, flagVars,
       streamVars, peerVars, paceVars, noteVars, disconnectVars, appVars, Disconnect
  <2>a17. CASE Destroy
    BY <1>s, <2>1, <2>w, <2>a17 DEF SendStates, Moves, vars, handleVars, connVars, flagVars,
       streamVars, peerVars, paceVars, noteVars, disconnectVars, appVars, Destroy
  <2>a18. CASE TestConnection
    BY <1>s, <2>1, <2>w, <2>a18 DEF SendStates, Moves, vars, handleVars, connVars, flagVars,
       streamVars, peerVars, paceVars, noteVars, disconnectVars, appVars, TestConnection,
       HasConnection
  <2>a19. CASE ClearComplete
    BY <1>s, <2>1, <2>w, <2>a19 DEF SendStates, Moves, vars, handleVars, connVars, flagVars,
       streamVars, peerVars, paceVars, noteVars, disconnectVars, appVars, ClearComplete
  <2>a20. CASE ConnectionShutdown
    BY <1>s, <2>1, <2>w, <2>a20 DEF SendStates, Moves, vars, handleVars, connVars, flagVars,
       streamVars, peerVars, paceVars, noteVars, disconnectVars, appVars, ConnectionShutdown,
       UsesConnection
  <2>a21. CASE ShutdownWaitEnds
    BY <1>s, <2>1, <2>w, <2>a21 DEF SendStates, Moves, vars, handleVars, connVars, flagVars,
       streamVars, peerVars, paceVars, noteVars, disconnectVars, appVars, ShutdownWaitEnds
  <2>a22. CASE CloseConfiguration
    BY <1>s, <2>1, <2>w, <2>a22 DEF SendStates, Moves, vars, handleVars, connVars, flagVars,
       streamVars, peerVars, paceVars, noteVars, disconnectVars, appVars, CloseConfiguration
  <2>a23. CASE CloseRegistration
    BY <1>s, <2>1, <2>w, <2>a23 DEF SendStates, Moves, vars, handleVars, connVars, flagVars,
       streamVars, peerVars, paceVars, noteVars, disconnectVars, appVars, CloseRegistration,
       AllClosed
  <2>a24. CASE CloseApi
    BY <1>s, <2>1, <2>w, <2>a24 DEF SendStates, Moves, vars, handleVars, connVars, flagVars,
       streamVars, peerVars, paceVars, noteVars, disconnectVars, appVars, CloseApi
  <2>a25. CASE OnConnected
    BY <1>s, <2>1, <2>w, <2>a25 DEF SendStates, Moves, vars, handleVars, connVars, flagVars,
       streamVars, peerVars, paceVars, noteVars, disconnectVars, appVars, OnConnected
  <2>a26. CASE OnShutdownInitiated
    BY <1>s, <2>1, <2>w, <2>a26 DEF SendStates, Moves, vars, handleVars, connVars, flagVars,
       streamVars, peerVars, paceVars, noteVars, disconnectVars, appVars, OnShutdownInitiated
  <2>a27. CASE OnShutdownComplete
    BY <1>s, <2>1, <2>w, <2>a27 DEF SendStates, Moves, vars, handleVars, connVars, flagVars,
       streamVars, peerVars, paceVars, noteVars, disconnectVars, appVars, OnShutdownComplete,
       HandleClosed
  <2>a28. CASE ClearConnection
    BY <1>s, <2>1, <2>w, <2>a28 DEF SendStates, Moves, vars, handleVars, connVars, flagVars,
       streamVars, peerVars, paceVars, noteVars, disconnectVars, appVars, ClearConnection
  <2>a29. CASE NotifyShutdown
    BY <1>s, <2>1, <2>w, <2>a29 DEF SendStates, Moves, vars, handleVars, connVars, flagVars,
       streamVars, peerVars, paceVars, noteVars, disconnectVars, appVars, NotifyShutdown,
       SaysComplete
  <2>a30. ASSUME NEW s \in Streams, OnReceive(s) PROVE Goal
    <3>1. s = sends
      BY <2>a30, <2>4
    <3>2. /\ strm[sends] \in {"started", "aborting"} /\ inbox[sends] # <<>>
          /\ inbox'[sends] = Tail(inbox[sends])
          /\ heard'[sends] = heard[sends] \cup {Head(inbox[sends])}
          /\ UNCHANGED <<apc, strm, handed, at_server>>
      BY <2>a30, <1>t, <3>1, HearEffect
    <3>3. apc \notin {"open_stream", "send_header"}
      <4>1. apc # "open_stream"
        BY <1>t, <2>h, <3>2 DEF FreshInv
      <4>2. apc # "send_header"
        BY <1>t, <2>h, <3>2, HeadFacts DEF SendInv
      <4> QED
        BY <4>1, <4>2
    <3>4. ~Heeded(sends) /\ ~Done(sends)
      BY <3>2 DEF Heeded, Done
    <3>5. ack = "none" /\ ack' = "none"
      BY <2>a30, <2>3, <3>4 DEF A4, OnReceive
    <3>6. CASE /\ awaiting_decision
               /\ awaiting_decision' = FALSE
               /\ decision_buf' = First(decision_buf, Head(inbox[s]))
               /\ decision' = IF decision_buf' = "ACCEPT" THEN "accepted" ELSE "rejected"
      <4>1. heard[sends] = {} /\ decision_buf = "none"
        BY <2>3, <3>6 DEF A1
      <4>2. decision_buf' = Head(inbox[sends])
        BY <3>1, <3>6, <4>1 DEF First
      <4>3. CASE at_server[sends] = "accepted" /\ inbox[sends] = <<"ACCEPT">>
        <5>1. inbox'[sends] = <<>> /\ decision' = "accepted"
          BY <3>2, <3>6, <4>2, <4>3, ReplyTails
        <5> QED
          BY <2>1, <3>2, <3>3, <3>5, <3>6, <4>3, <5>1 DEF Goal, A1, A2, A3, A4, Heeded
      <4>4. CASE Head(inbox[sends]) = "REJECT"
        <5>1. decision' = "rejected"
          BY <3>6, <4>2, <4>4
        <5>2. apc # "send_body"
          BY <2>3, <3>4 DEF A3
        <5> QED
          BY <2>1, <3>2, <3>3, <3>5, <3>6, <4>4, <5>1, <5>2 DEF Goal, A1, A2, A3, A4
      <4>5. CASE handed[sends] = 2 /\ Head(inbox[sends]) = "ACCEPT"
        <5>1. decision' = "accepted"
          BY <3>6, <4>2, <4>5
        <5>2. apc \notin {"header_wait", "decision_wait", "send_body"}
          BY <1>t, <4>5 DEF SendInv
        <5> QED
          BY <2>1, <3>2, <3>3, <3>5, <3>6, <5>1, <5>2 DEF Goal, A1, A2, A3, A4
      <4> QED
        BY <1>t, <2>h, <3>2, <4>1, <4>3, <4>4, <4>5, HeadFacts
    <3>7. CASE ~awaiting_decision /\ UNCHANGED <<awaiting_decision, decision_buf, decision>>
      BY <2>1, <2>3, <3>2, <3>3, <3>4, <3>5, <3>7 DEF Goal, A1, A2, A3, A4
    <3> QED
      BY <2>a30, <3>6, <3>7 DEF OnReceive
  <2>a31. ASSUME NEW s \in Streams, OnPeerSendShutdown(s) PROVE Goal
    <3>1. s = sends
      BY <2>a31, <2>4
    <3>2. /\ strm[sends] \in {"started", "aborting"} /\ inbox[sends] # <<>>
          /\ inbox'[sends] = Tail(inbox[sends])
          /\ heard'[sends] = heard[sends] \cup {Head(inbox[sends])}
          /\ UNCHANGED <<apc, strm, handed, at_server>>
      BY <2>a31, <1>t, <3>1, HearEffect
    <3>3. at_server[sends] = "answered" /\ inbox[sends] = <<"FIN">> /\ heard[sends] # {}
      BY <2>a31, <1>t, <2>h, <3>1, <3>2, HeadFacts DEF OnPeerSendShutdown
    <3>4. inbox'[sends] = <<>>
      BY <3>2, <3>3, ReplyTails
    <3>5. ~awaiting_decision /\ apc \notin {"open_stream", "send_header"}
      BY <2>3, <3>3 DEF A1
    <3>6. UNCHANGED <<awaiting_decision, decision>>
      BY <2>a31, <3>5 DEF OnPeerSendShutdown
    <3>7. ~Heeded(sends)
      BY <3>2 DEF Heeded
    <3> QED
      BY <2>1, <2>3, <3>2, <3>3, <3>4, <3>5, <3>6, <3>7 DEF Goal, A1, A2, A3, A4, Done
  <2>a32. ASSUME NEW s \in Streams, OnSendComplete(s) PROVE Goal
    BY <1>s, <2>1, <2>w, <2>a32 DEF SendStates, Moves, vars, handleVars, connVars, flagVars,
       streamVars, peerVars, paceVars, noteVars, disconnectVars, appVars, OnSendComplete
  <2>a33. ASSUME NEW s \in Streams, StreamAborts(s) PROVE Goal
    <3>1. StreamEnds(s, "aborted")
      BY <2>a33 DEF StreamAborts
    <3>2. UNCHANGED <<awaiting_decision, decision, decision_buf, ack, apc, heard>>
      BY <3>1 DEF StreamEnds, flagVars, appVars
    <3>3. CASE s = sends
      <4>1. inbox'[sends] = <<>> /\ strm'[sends] \in {"aborted", "closed"}
        BY <1>t, <2>h, <3>1, <3>3, EndEffect
      <4> QED
        BY <2>1, <2>3, <3>2, <4>1 DEF Goal, A1, A2, A3, A4, Heeded, Done
    <3>4. CASE s # sends
      BY <1>t, <2>h, <2>w, <3>1, <3>2, <3>4, EndEffect
    <3> QED
      BY <3>3, <3>4
  <2>a34. ASSUME NEW s \in Streams, OnStreamShutdownComplete(s) PROVE Goal
    <3>1. StreamEnds(s, "closed")
      BY <2>a34 DEF OnStreamShutdownComplete
    <3>2. UNCHANGED <<awaiting_decision, decision, decision_buf, ack, apc, heard>>
      BY <3>1 DEF StreamEnds, flagVars, appVars
    <3>3. CASE s = sends
      <4>1. inbox'[sends] = <<>> /\ strm'[sends] \in {"aborted", "closed"}
        BY <1>t, <2>h, <3>1, <3>3, EndEffect
      <4> QED
        BY <2>1, <2>3, <3>2, <4>1 DEF Goal, A1, A2, A3, A4, Heeded, Done
    <3>4. CASE s # sends
      BY <1>t, <2>h, <2>w, <3>1, <3>2, <3>4, EndEffect
    <3> QED
      BY <3>3, <3>4
  <2>a35. CASE ClearStream
    BY <1>s, <2>1, <2>w, <2>a35 DEF SendStates, Moves, vars, handleVars, connVars, flagVars,
       streamVars, peerVars, paceVars, noteVars, disconnectVars, appVars, ClearStream
  <2>a36. ASSUME NEW s \in Streams, Server(s) PROVE Goal
    <3>1. UNCHANGED <<awaiting_decision, decision, decision_buf, ack, apc, heard, strm, handed>>
      BY <2>a36 DEF Server, ServerSays, flagVars, appVars, streamVars
    <3>2. CASE s # sends
      BY <2>a36, <1>t, <2>h, <2>w, <3>1, <3>2, ServerEffect
    <3>3. CASE s = sends
      <4>1. /\ strm[sends] \in {"started", "aborting"}
            /\ at_server[sends] # "answered"
            /\ at_server[sends] = "accepted" => handed[sends] = 2
        BY <2>a36, <1>t, <3>3, ServerEffect
      <4>2. ~Done(sends)
        BY <4>1 DEF Done
      <4>3. Heeded(sends) => handed[sends] = 2
        BY <4>1 DEF Heeded
      <4>4. handed[sends] = 2 => apc \notin {"header_wait", "decision_wait", "send_body"}
        BY <1>t DEF SendInv
      <4> QED
        BY <2>1, <2>3, <3>1, <4>2, <4>3, <4>4 DEF Goal, A1, A2, A3, A4
    <3> QED
      BY <3>2, <3>3
  <2>a37. CASE Destroyed \/ UNCHANGED vars
    BY <1>s, <2>1, <2>w, <2>a37 DEF SendStates, Moves, vars, handleVars, connVars, flagVars,
       streamVars, peerVars, paceVars, noteVars, disconnectVars, appVars, Destroyed
  <2> QED
    BY <2>a1, <2>a2, <2>a3, <2>a4, <2>a5, <2>a6, <2>a7, <2>a8, <2>a9, <2>a10, <2>a11, <2>a12,
       <2>a13, <2>a14, <2>a15, <2>a16, <2>a17, <2>a18, <2>a19, <2>a20, <2>a21, <2>a22, <2>a23,
       <2>a24, <2>a25, <2>a26, <2>a27, <2>a28, <2>a29, <2>a30, <2>a31, <2>a32, <2>a33, <2>a34,
       <2>a35, <2>a36, <2>a37 DEF Next, Thread, Callback
<1> QED
  BY <1>f, <1>s

\* An OK that send_file is told of was said on its own stream: the answer of another
\* stream can only come late if two sends were rejected before.
LEMMA OwnResultStep == IInv /\ [Next]_vars => OwnResult'
<1> DEFINE Own == file_ack = "OK" \/ ack = "ok" => "OK" \in heard[sends]
<1> SUFFICES ASSUME IInv, [Next]_vars, apc' \in SendStates, ~expired', ~RejectedBefore(sends - 1)'
             PROVE  Own'
  BY DEF OwnResult
<1>t. Types /\ SendInv' /\ Types' /\ (\A s \in Streams : PeerInv(s))
  BY SendStep, TypesStep DEF IInv
<1>p. sends' # 0 /\ sends' \in Streams
  BY <1>t, SendsAssumption DEF SendInv, Types, Streams
<1>e. ~expired
  BY <1>p, PaceFacts
<1>f. CASE SendFile
  BY <1>f DEF SendFile, NoAck
<1>s. CASE ~SendFile
  <2>1. sends' = sends /\ apc \in SendStates /\ sends \in Streams
    BY <1>p, <1>s, PaceFacts
  <2>2. ~RejectedBefore(sends - 1)
    <3> SUFFICES ASSUME RejectedBefore(sends - 1) PROVE FALSE
      OBVIOUS
    <3>1. PICK r \in Streams : r < sends - 1 /\ "REJECT" \in heard[r]
      BY DEF RejectedBefore
    <3>2. "REJECT" \in heard'[r]
      BY <1>p, <3>1, HeardFacts
    <3> QED
      BY <2>1, <3>1, <3>2 DEF RejectedBefore
  <2>3. Own
    BY <1>e, <2>1, <2>2 DEF IInv, OwnResult
  <2>4. "OK" \in heard[sends] => "OK" \in heard'[sends]
    BY <1>p, <2>1, HeardFacts
  <2> HIDE DEF Own
  <2>w. UNCHANGED <<file_ack, ack>> => Own'
    BY <2>1, <2>3, <2>4 DEF Own
  <2>a1. CASE Connect
    BY <1>s, <2>1, <2>w, <2>a1 DEF SendStates, Moves, vars, handleVars, connVars, flagVars,
       streamVars, peerVars, paceVars, noteVars, disconnectVars, appVars, Connect
  <2>a2. CASE OpenRegistration
    BY <1>s, <2>1, <2>w, <2>a2 DEF SendStates, Moves, vars, handleVars, connVars, flagVars,
       streamVars, peerVars, paceVars, noteVars, disconnectVars, appVars, OpenRegistration
  <2>a3. CASE open_configuration
    BY <1>s, <2>1, <2>w, <2>a3 DEF SendStates, Moves, vars, handleVars, connVars, flagVars,
       streamVars, peerVars, paceVars, noteVars, disconnectVars, appVars, open_configuration,
       LoadCredential
  <2>a4. CASE OpenConnection
    BY <1>s, <2>1, <2>w, <2>a4 DEF SendStates, Moves, vars, handleVars, connVars, flagVars,
       streamVars, peerVars, paceVars, noteVars, disconnectVars, appVars, OpenConnection
  <2>a5. CASE StartConnection
    BY <1>s, <2>1, <2>w, <2>a5 DEF SendStates, Moves, vars, handleVars, connVars, flagVars,
       streamVars, peerVars, paceVars, noteVars, disconnectVars, appVars, StartConnection
  <2>a6. CASE ConnectReturns
    BY <1>s, <2>1, <2>w, <2>a6 DEF SendStates, Moves, vars, handleVars, connVars, flagVars,
       streamVars, peerVars, paceVars, noteVars, disconnectVars, appVars, ConnectReturns
  <2>a7. CASE SendRefused
    BY <1>s, <2>1, <2>w, <2>a7 DEF SendStates, Moves, vars, handleVars, connVars, flagVars,
       streamVars, peerVars, paceVars, noteVars, disconnectVars, appVars, SendRefused
  <2>a8. CASE SendFile
    BY <1>s, <2>a8
  <2>a9. CASE open_stream
    BY <2>w, <2>a9 DEF open_stream, flagVars
  <2>a10. CASE SendHeader
    BY <2>w, <2>a10 DEF SendHeader, StreamSend
  <2>a11. CASE SendBody
    BY <2>w, <2>a11 DEF SendBody, StreamSend
  <2>a12. CASE WaitEnds
    BY <1>s, <2>1, <2>w, <2>a12 DEF SendStates, Moves, vars, handleVars, connVars, flagVars,
       streamVars, peerVars, paceVars, noteVars, disconnectVars, appVars, WaitEnds
  <2>a13. CASE DecisionRejected
    BY <1>s, <2>1, <2>w, <2>a13 DEF SendStates, Moves, vars, handleVars, connVars, flagVars,
       streamVars, peerVars, paceVars, noteVars, disconnectVars, appVars, DecisionRejected,
       Returns, abort_stream
  <2>a14. CASE WaitExpires
    BY <1>s, <2>1, <2>w, <2>a14 DEF SendStates, Moves, vars, handleVars, connVars, flagVars,
       streamVars, peerVars, paceVars, noteVars, disconnectVars, appVars, WaitExpires, Returns,
       abort_stream
  <2>a15. CASE SendReturns
    BY <1>s, <2>1, <2>w, <2>a15 DEF SendStates, Moves, vars, handleVars, connVars, flagVars,
       streamVars, peerVars, paceVars, noteVars, disconnectVars, appVars, SendReturns, Returns
  <2>a16. CASE Disconnect
    BY <1>s, <2>1, <2>w, <2>a16 DEF SendStates, Moves, vars, handleVars, connVars, flagVars,
       streamVars, peerVars, paceVars, noteVars, disconnectVars, appVars, Disconnect
  <2>a17. CASE Destroy
    BY <1>s, <2>1, <2>w, <2>a17 DEF SendStates, Moves, vars, handleVars, connVars, flagVars,
       streamVars, peerVars, paceVars, noteVars, disconnectVars, appVars, Destroy
  <2>a18. CASE TestConnection
    BY <1>s, <2>1, <2>w, <2>a18 DEF SendStates, Moves, vars, handleVars, connVars, flagVars,
       streamVars, peerVars, paceVars, noteVars, disconnectVars, appVars, TestConnection,
       HasConnection
  <2>a19. CASE ClearComplete
    BY <1>s, <2>1, <2>w, <2>a19 DEF SendStates, Moves, vars, handleVars, connVars, flagVars,
       streamVars, peerVars, paceVars, noteVars, disconnectVars, appVars, ClearComplete
  <2>a20. CASE ConnectionShutdown
    BY <1>s, <2>1, <2>w, <2>a20 DEF SendStates, Moves, vars, handleVars, connVars, flagVars,
       streamVars, peerVars, paceVars, noteVars, disconnectVars, appVars, ConnectionShutdown,
       UsesConnection
  <2>a21. CASE ShutdownWaitEnds
    BY <1>s, <2>1, <2>w, <2>a21 DEF SendStates, Moves, vars, handleVars, connVars, flagVars,
       streamVars, peerVars, paceVars, noteVars, disconnectVars, appVars, ShutdownWaitEnds
  <2>a22. CASE CloseConfiguration
    BY <1>s, <2>1, <2>w, <2>a22 DEF SendStates, Moves, vars, handleVars, connVars, flagVars,
       streamVars, peerVars, paceVars, noteVars, disconnectVars, appVars, CloseConfiguration
  <2>a23. CASE CloseRegistration
    BY <1>s, <2>1, <2>w, <2>a23 DEF SendStates, Moves, vars, handleVars, connVars, flagVars,
       streamVars, peerVars, paceVars, noteVars, disconnectVars, appVars, CloseRegistration,
       AllClosed
  <2>a24. CASE CloseApi
    BY <1>s, <2>1, <2>w, <2>a24 DEF SendStates, Moves, vars, handleVars, connVars, flagVars,
       streamVars, peerVars, paceVars, noteVars, disconnectVars, appVars, CloseApi
  <2>a25. CASE OnConnected
    BY <1>s, <2>1, <2>w, <2>a25 DEF SendStates, Moves, vars, handleVars, connVars, flagVars,
       streamVars, peerVars, paceVars, noteVars, disconnectVars, appVars, OnConnected
  <2>a26. CASE OnShutdownInitiated
    BY <1>s, <2>1, <2>w, <2>a26 DEF SendStates, Moves, vars, handleVars, connVars, flagVars,
       streamVars, peerVars, paceVars, noteVars, disconnectVars, appVars, OnShutdownInitiated
  <2>a27. CASE OnShutdownComplete
    BY <1>s, <2>1, <2>w, <2>a27 DEF SendStates, Moves, vars, handleVars, connVars, flagVars,
       streamVars, peerVars, paceVars, noteVars, disconnectVars, appVars, OnShutdownComplete,
       HandleClosed
  <2>a28. CASE ClearConnection
    BY <1>s, <2>1, <2>w, <2>a28 DEF SendStates, Moves, vars, handleVars, connVars, flagVars,
       streamVars, peerVars, paceVars, noteVars, disconnectVars, appVars, ClearConnection
  <2>a29. CASE NotifyShutdown
    BY <1>s, <2>1, <2>w, <2>a29 DEF SendStates, Moves, vars, handleVars, connVars, flagVars,
       streamVars, peerVars, paceVars, noteVars, disconnectVars, appVars, NotifyShutdown,
       SaysComplete
  <2>a30. ASSUME NEW s \in Streams, OnReceive(s) PROVE Own'
    <3>1. UNCHANGED ack
      BY <2>a30 DEF OnReceive
    <3>2. CASE UNCHANGED file_ack
      BY <2>w, <3>1, <3>2
    <3>3. CASE file_ack' = First(file_ack, Head(inbox[s])) /\ file_ack' # file_ack
      <4>1. file_ack' = Head(inbox[s])
        BY <3>3 DEF First
      <4>2. inbox[s] # <<>> /\ heard'[s] = heard[s] \cup {Head(inbox[s])}
        BY <1>t, <2>a30, HearEffect
      <4>3. ASSUME Head(inbox[s]) = "OK" PROVE s = sends
        <5>1. handed[s] = 2
          BY <1>t, <4>2, <4>3, HeadFacts
        <5>2. s = sends \/ (s < sends /\ RejectedBefore(s))
          BY <1>e, <2>1, <2>a30, <5>1, OnlyOwnHeard
        <5>3. ASSUME s < sends, RejectedBefore(s) PROVE FALSE
          BY <2>1, <2>2, <5>3 DEF RejectedBefore, Streams
        <5> QED
          BY <5>2, <5>3
      <4>4. "OK" = Head(inbox[s]) => "OK" \in heard'[sends]
        BY <4>2, <4>3
      <4> QED
        BY <2>1, <2>3, <2>4, <3>1, <4>1, <4>4 DEF Own
    <3> QED
      BY <2>a30, <3>2, <3>3 DEF OnReceive
  <2>a31. ASSUME NEW s \in Streams, OnPeerSendShutdown(s) PROVE Own'
    <3>1. UNCHANGED file_ack /\ (ack' = "ok" => ack = "ok" \/ file_ack = "OK")
      BY <2>a31 DEF OnPeerSendShutdown
    <3> QED
      BY <2>1, <2>3, <2>4, <3>1 DEF Own
  <2>a32. ASSUME NEW s \in Streams, OnSendComplete(s) PROVE Own'
    BY <1>s, <2>1, <2>w, <2>a32 DEF SendStates, Moves, vars, handleVars, connVars, flagVars,
       streamVars, peerVars, paceVars, noteVars, disconnectVars, appVars, OnSendComplete
  <2>a33. ASSUME NEW s \in Streams, StreamAborts(s) PROVE Own'
    BY <2>w, <2>a33 DEF StreamAborts, StreamEnds, flagVars
  <2>a34. ASSUME NEW s \in Streams, OnStreamShutdownComplete(s) PROVE Own'
    BY <2>w, <2>a34 DEF OnStreamShutdownComplete, StreamEnds, flagVars
  <2>a35. CASE ClearStream
    BY <1>s, <2>1, <2>w, <2>a35 DEF SendStates, Moves, vars, handleVars, connVars, flagVars,
       streamVars, peerVars, paceVars, noteVars, disconnectVars, appVars, ClearStream
  <2>a36. ASSUME NEW s \in Streams, Server(s) PROVE Own'
    BY <1>s, <2>1, <2>w, <2>a36 DEF SendStates, Moves, vars, handleVars, connVars, flagVars,
       streamVars, peerVars, paceVars, noteVars, disconnectVars, appVars, Server, ServerSays
  <2>a37. CASE Destroyed \/ UNCHANGED vars
    BY <1>s, <2>1, <2>w, <2>a37 DEF SendStates, Moves, vars, handleVars, connVars, flagVars,
       streamVars, peerVars, paceVars, noteVars, disconnectVars, appVars, Destroyed
  <2> QED
    BY <2>a1, <2>a2, <2>a3, <2>a4, <2>a5, <2>a6, <2>a7, <2>a8, <2>a9, <2>a10, <2>a11, <2>a12,
       <2>a13, <2>a14, <2>a15, <2>a16, <2>a17, <2>a18, <2>a19, <2>a20, <2>a21, <2>a22, <2>a23,
       <2>a24, <2>a25, <2>a26, <2>a27, <2>a28, <2>a29, <2>a30, <2>a31, <2>a32, <2>a33, <2>a34,
       <2>a35, <2>a36, <2>a37 DEF Next, Thread, Callback
<1> QED
  BY <1>f, <1>s

-----------------------------------------------------------------------------
\* Who writes what a send_file reports.
LEMMA NoteFacts ==
  ASSUME IInv, [Next]_vars
  PROVE  /\ \/ Connect
            \/ UNCHANGED <<last, sends>> /\ (apc' \in SendStates => apc \in SendStates)
            \/ SendFile
            \/ last' = <<NoStream, "failed">> /\ apc' = "ready" /\ UNCHANGED sends
            \/ /\ apc \in SendStates /\ apc' = "ready" /\ UNCHANGED sends
               /\ last' = <<sends, "failed">>
            \/ SendReturns
         /\ UNCHANGED rejected \/ SendFile \/ DecisionRejected
         /\ UNCHANGED expired \/ Connect \/ WaitExpires
<1> DEFINE Last == \/ Connect
                   \/ UNCHANGED <<last, sends>> /\ (apc' \in SendStates => apc \in SendStates)
                   \/ SendFile
                   \/ last' = <<NoStream, "failed">> /\ apc' = "ready" /\ UNCHANGED sends
                   \/ /\ apc \in SendStates /\ apc' = "ready" /\ UNCHANGED sends
                      /\ last' = <<sends, "failed">>
                   \/ SendReturns
           Goal == /\ Last
                   /\ UNCHANGED rejected \/ SendFile \/ DecisionRejected
                   /\ UNCHANGED expired \/ Connect \/ WaitExpires
<1> SUFFICES Goal
  OBVIOUS
<1> USE DEF SendStates, Moves, vars, handleVars, connVars, flagVars, streamVars, peerVars,
            paceVars, noteVars, disconnectVars, appVars
<1>1. CASE Connect
  BY <1>1 DEF Connect
<1>2. CASE OpenRegistration
  BY <1>2 DEF OpenRegistration
<1>3. CASE open_configuration
  BY <1>3 DEF open_configuration, LoadCredential
<1>4. CASE OpenConnection
  BY <1>4 DEF OpenConnection
<1>5. CASE StartConnection
  BY <1>5 DEF StartConnection
<1>6. CASE ConnectReturns
  BY <1>6 DEF ConnectReturns
<1>7. CASE SendRefused
  BY <1>7 DEF SendRefused
<1>8. CASE SendFile
  BY <1>8 DEF SendFile, NoAck
<1>9. CASE open_stream
  BY <1>9 DEF open_stream, UsesConnection, Returns
<1>10. CASE SendHeader
  BY <1>10 DEF SendHeader, StreamSend, BufferQueued, abort_stream, Returns
<1>11. CASE SendBody
  BY <1>11 DEF SendBody, StreamSend, BufferQueued, abort_stream, Returns
<1>12. CASE WaitEnds
  BY <1>12 DEF WaitEnds
<1>13. CASE DecisionRejected
  BY <1>13 DEF DecisionRejected, Returns, abort_stream
<1>14. CASE WaitExpires
  BY <1>14 DEF WaitExpires, Returns, abort_stream
<1>15. CASE SendReturns
  BY <1>15 DEF SendReturns, Returns
<1>16. CASE Disconnect
  BY <1>16 DEF Disconnect
<1>17. CASE Destroy
  BY <1>17 DEF Destroy
<1>18. CASE TestConnection
  BY <1>18 DEF TestConnection, HasConnection
<1>19. CASE ClearComplete
  BY <1>19 DEF ClearComplete
<1>20. CASE ConnectionShutdown
  BY <1>20 DEF ConnectionShutdown, UsesConnection
<1>21. CASE ShutdownWaitEnds
  BY <1>21 DEF ShutdownWaitEnds
<1>22. CASE CloseConfiguration
  BY <1>22 DEF CloseConfiguration
<1>23. CASE CloseRegistration
  BY <1>23 DEF CloseRegistration, AllClosed
<1>24. CASE CloseApi
  BY <1>24 DEF CloseApi
<1>25. CASE OnConnected
  BY <1>25 DEF OnConnected
<1>26. CASE OnShutdownInitiated
  BY <1>26 DEF OnShutdownInitiated
<1>27. CASE OnShutdownComplete
  BY <1>27 DEF OnShutdownComplete, HandleClosed
<1>28. CASE ClearConnection
  BY <1>28 DEF ClearConnection
<1>29. CASE NotifyShutdown
  BY <1>29 DEF NotifyShutdown, SaysComplete
<1>30. ASSUME NEW s \in Streams, OnReceive(s) PROVE Goal
  BY <1>30 DEF OnReceive, Hears, First
<1>31. ASSUME NEW s \in Streams, OnPeerSendShutdown(s) PROVE Goal
  BY <1>31 DEF OnPeerSendShutdown, Hears
<1>32. ASSUME NEW s \in Streams, OnSendComplete(s) PROVE Goal
  BY <1>32 DEF OnSendComplete
<1>33. ASSUME NEW s \in Streams, StreamAborts(s) PROVE Goal
  BY <1>33 DEF StreamAborts, StreamEnds
<1>34. ASSUME NEW s \in Streams, OnStreamShutdownComplete(s) PROVE Goal
  BY <1>34 DEF OnStreamShutdownComplete, StreamEnds
<1>35. CASE ClearStream
  BY <1>35 DEF ClearStream
<1>36. ASSUME NEW s \in Streams, Server(s) PROVE Goal
  BY <1>36 DEF Server, ServerSays
<1>37. CASE Destroyed \/ UNCHANGED vars
  BY <1>37 DEF Destroyed
<1> QED
  BY <1>1, <1>2, <1>3, <1>4, <1>5, <1>6, <1>7, <1>8, <1>9, <1>10, <1>11, <1>12, <1>13, <1>14,
     <1>15, <1>16, <1>17, <1>18, <1>19, <1>20, <1>21, <1>22, <1>23, <1>24, <1>25, <1>26, <1>27,
     <1>28, <1>29, <1>30, <1>31, <1>32, <1>33, <1>34, <1>35, <1>36, <1>37 DEF Next, Thread,
     Callback

\* The first two parts of ReportInv: a report is on a send_file that has returned, and the
\* first on a connection is over when a wait has expired.
LEMMA ReportedStep ==
  IInv /\ [Next]_vars =>
    /\ last'[1] <= sends' /\ (apc' \in SendStates => last'[1] < sends' /\ ~rejected')
    /\ expired' => sends' # 0 /\ (sends' = 1 => apc' \notin SendStates)
<1> SUFFICES ASSUME IInv, [Next]_vars
             PROVE  /\ last'[1] <= sends'
                    /\ apc' \in SendStates => last'[1] < sends' /\ ~rejected'
                    /\ expired' => sends' # 0 /\ (sends' = 1 => apc' \notin SendStates)
  OBVIOUS
<1>t. Types /\ SendInv /\ ReportInv
  BY DEF IInv, StreamInv
<1>n. sends \in Nat /\ last[1] \in Nat
  BY <1>t, SendsAssumption DEF Types, Streams, NoStream
<1>r. /\ last[1] <= sends /\ (apc \in SendStates => last[1] < sends /\ ~rejected /\ sends # 0)
      /\ expired => sends # 0 /\ (sends = 1 => apc \notin SendStates)
  BY <1>t DEF ReportInv, SendInv
<1>1. ASSUME DecisionRejected \/ WaitExpires PROVE apc' = "ready" /\ apc \in SendStates
  BY <1>1 DEF DecisionRejected, WaitExpires, Returns, SendStates
<1>2. CASE Connect
  <2>1. sends' = 0 /\ last' = <<0, "none">> /\ ~expired' /\ apc' \notin SendStates
    BY <1>2 DEF Connect, Moves, SendStates, NoStream
  <2> QED
    BY <2>1
<1>3. CASE SendFile
  <2>1. /\ sends' = sends + 1 /\ UNCHANGED <<last, expired>> /\ rejected' = FALSE
        /\ apc = "ready"
    BY <1>3 DEF SendFile, noteVars, Moves
  <2> QED
    BY <1>n, <1>r, <2>1
<1>4. CASE /\ UNCHANGED <<last, sends>> /\ (apc' \in SendStates => apc \in SendStates)
           /\ ~Connect /\ ~SendFile
  <2>1. (DecisionRejected \/ WaitExpires) => apc' \notin SendStates /\ apc \in SendStates
    BY <1>1 DEF SendStates
  <2>2. UNCHANGED rejected \/ DecisionRejected
    BY <1>4, NoteFacts
  <2>3. UNCHANGED expired \/ WaitExpires
    BY <1>4, NoteFacts
  <2>4. last'[1] <= sends' /\ (apc' \in SendStates => last'[1] < sends')
    BY <1>r, <1>4
  <2>5. apc' \in SendStates => ~rejected'
    BY <1>r, <1>4, <2>1, <2>2
  <2>6. expired' => sends' # 0 /\ (sends' = 1 => apc' \notin SendStates)
    BY <1>r, <1>4, <2>1, <2>3
  <2> QED
    BY <2>4, <2>5, <2>6
<1>5. CASE /\ apc' = "ready" /\ UNCHANGED sends /\ ~Connect
           /\ last'[1] = NoStream \/ (apc \in SendStates /\ last'[1] = sends)
  <2>1. apc' \notin SendStates
    BY <1>5 DEF SendStates
  <2>2. last'[1] <= sends
    BY <1>n, <1>5 DEF NoStream
  <2>3. expired' => sends # 0
    BY <1>r, <1>1, <1>5, NoteFacts
  <2> QED
    BY <1>5, <2>1, <2>2, <2>3
<1>6. CASE SendReturns
  <2>1. apc' = "ready" /\ UNCHANGED sends /\ apc \in SendStates /\ last'[1] = sends /\ ~Connect
    BY <1>6 DEF SendReturns, Returns, SendStates, paceVars, Connect, Moves
  <2> QED
    BY <1>5, <2>1
<1> QED
  BY <1>2, <1>3, <1>4, <1>5, <1>6, NoteFacts

\* The next part: an OK that is reported was on the send_file's own stream.
LEMMA OkReportedStep ==
  IInv /\ [Next]_vars =>
    (last'[2] = "ok" => /\ last'[1] \in Streams
                        /\ "OK" \in heard'[last'[1]] \/ expired' \/ RejectedBefore(last[1] - 1)')
<1> SUFFICES ASSUME IInv, [Next]_vars, last'[2] = "ok"
             PROVE  /\ last'[1] \in Streams
                    /\ "OK" \in heard'[last'[1]] \/ expired' \/ RejectedBefore(last[1] - 1)'
  OBVIOUS
<1>t. Types /\ SendInv /\ ReportInv /\ OwnResult
  BY DEF IInv, StreamInv
<1>n. sends \in Nat /\ last[1] \in Nat
  BY <1>t, SendsAssumption DEF Types, Streams, NoStream
<1>1. CASE UNCHANGED last /\ (UNCHANGED sends \/ SendFile)
  <2>1. /\ last[1] \in Streams
        /\ "OK" \in heard[last[1]] \/ expired \/ RejectedBefore(last[1] - 1)
    BY <1>t, <1>1 DEF ReportInv
  <2>2. sends # 0 /\ sends' # 0
    BY <1>t, <1>n, <1>1, <2>1 DEF ReportInv, Streams, SendFile
  <2>3. PICK n \in Streams : n = last[1] /\ n = last'[1]
    BY <1>1, <2>1
  <2>4. "OK" \in heard[n] => "OK" \in heard'[n]
    BY <2>2, HeardFacts
  <2>5. RejectedBefore(n - 1) => RejectedBefore(n - 1)'
    BY <2>2, RejectedKept
  <2> QED
    BY <2>1, <2>2, <2>3, <2>4, <2>5, PaceFacts
<1>2. CASE SendReturns
  <2>1. /\ ack = "ok" /\ apc \in SendStates /\ last' = <<sends, "ok">>
        /\ UNCHANGED <<sends, heard, expired>>
    BY <1>2 DEF SendReturns, Returns, SendStates, paceVars, peerVars
  <2>2. sends \in Streams
    BY <1>t, <2>1, SendsAssumption DEF SendInv, Types, Streams
  <2>3. "OK" \in heard[sends] \/ expired \/ RejectedBefore(sends - 1)
    BY <1>t, <2>1 DEF OwnResult
  <2>4. RejectedBefore(sends - 1) => RejectedBefore(last[1] - 1)'
    BY <2>1 DEF RejectedBefore
  <2> QED
    BY <2>1, <2>2, <2>3, <2>4
<1>3. ASSUME Connect PROVE FALSE
  BY <1>3 DEF Connect
<1>4. SendFile => UNCHANGED last
  BY DEF SendFile, noteVars
<1> QED
  BY <1>1, <1>2, <1>3, <1>4, NoteFacts

\* The next part: a rejection that the first send_file reports was on its own stream.
LEMMA RejectionReportedStep ==
  IInv /\ [Next]_vars => (rejected' /\ last' = <<1, "failed">> => "REJECT" \in heard'[1])
<1> SUFFICES ASSUME IInv, [Next]_vars, rejected', last' = <<1, "failed">>
             PROVE  "REJECT" \in heard'[1]
  OBVIOUS
<1>t. Types /\ SendInv /\ ReportInv /\ OwnAnswer
  BY DEF IInv, StreamInv
<1>n. sends \in Nat /\ 1 \in Streams /\ rejected' = TRUE
  BY <1>t, SendsAssumption, FlagTypesStep DEF Types, Streams, FlagTypes
<1>1. ~Connect /\ ~SendFile
  BY <1>n DEF Connect, SendFile, NoStream
<1>2. CASE UNCHANGED last /\ rejected
  <2>1. "REJECT" \in heard[1] /\ sends # 0
    BY <1>t, <1>n, <1>2 DEF ReportInv
  <2>2. sends' # 0
    <3>1. UNCHANGED sends \/ (apc' = "ready" /\ UNCHANGED sends) \/ SendReturns
      BY <1>1, NoteFacts
    <3> QED
      BY <2>1, <3>1 DEF SendReturns, paceVars
  <2> QED
    BY <1>n, <2>1, <2>2, HeardFacts
<1>3. CASE DecisionRejected
  <2>1. sends = 1 /\ apc \in SendStates /\ decision = "rejected" /\ UNCHANGED heard
    BY <1>3 DEF DecisionRejected, Returns, SendStates, peerVars
  <2>2. ~expired
    BY <1>t, <2>1 DEF ReportInv
  <2>3. ~RejectedBefore(sends)
    BY <2>1 DEF RejectedBefore, Streams
  <2> QED
    BY <1>t, <2>1, <2>2, <2>3 DEF OwnAnswer
<1>4. CASE apc \in SendStates /\ UNCHANGED rejected
  BY <1>t, <1>n, <1>4 DEF ReportInv
<1>5. SendReturns => apc \in SendStates
  BY DEF SendReturns, SendStates
<1>6. last' # <<NoStream, "failed">>
  BY DEF NoStream
<1> QED
  BY <1>1, <1>2, <1>3, <1>4, <1>5, <1>6, NoteFacts

\* The first stream is opened and used by the first send_file only; a later step can
\* only end it.
LEMMA FirstFacts ==
  ASSUME IInv, [Next]_vars, last[1] = 1, sends # 0, ~Connect, strm'[1] = "started",
         conn' = "connected"
  PROVE  strm[1] = "started" /\ conn = "connected" /\ handed'[1] = handed[1]
<1> DEFINE Goal == strm[1] = "started" /\ conn = "connected" /\ handed'[1] = handed[1]
<1>t. /\ Types /\ SendInv /\ conn \notin {"none", "open", "started"}
      /\ apc \in SendStates => sends # 1
  BY DEF IInv, StreamInv, PaceInv, ReportInv
<1>o. 1 \in Streams
  BY SendsAssumption DEF Streams
<1> HIDE DEF Goal
<1>0. conn' = conn /\ handed'[1] = handed[1] /\ strm'[1] = strm[1] => Goal
  BY DEF Goal
<1> SUFFICES Goal
  BY DEF Goal
<1> USE DEF vars, connVars, streamVars, disconnectVars
<1>1. CASE Connect
  BY <1>1
<1>2. CASE OpenRegistration
  BY <1>0, <1>2 DEF OpenRegistration
<1>3. CASE open_configuration
  BY <1>0, <1>3 DEF open_configuration, LoadCredential
<1>4. CASE OpenConnection
  BY <1>0, <1>4 DEF OpenConnection
<1>5. CASE StartConnection
  BY <1>0, <1>5 DEF StartConnection
<1>6. CASE ConnectReturns
  BY <1>0, <1>6 DEF ConnectReturns
<1>7. CASE SendRefused
  BY <1>0, <1>7 DEF SendRefused
<1>8. CASE SendFile
  BY <1>0, <1>8 DEF SendFile, NoAck
<1>9. CASE open_stream
  <2>1. UNCHANGED <<conn, handed>>
    BY <1>9 DEF open_stream
  <2>2. strm'[1] = strm[1]
    BY <1>t, <1>o, <1>9, OpenEffect DEF SendStates
  <2> QED
    BY <1>0, <2>1, <2>2
<1>10. CASE SendHeader
  <2>1. StreamSend(1, "header_wait") /\ apc = "send_header"
    BY <1>10 DEF SendHeader
  <2>2. UNCHANGED conn
    BY <2>1 DEF StreamSend
  <2>3. /\ handed'[1] = handed[1]
        /\ strm'[1] = strm[1] \/ strm'[1] = "aborting"
    BY <1>t, <1>o, <2>1, SendEffect DEF SendStates
  <2> QED
    BY <1>0, <2>2, <2>3
<1>11. CASE SendBody
  <2>1. StreamSend(2, "body_wait") /\ apc = "send_body"
    BY <1>11 DEF SendBody
  <2>2. UNCHANGED conn
    BY <2>1 DEF StreamSend
  <2>3. /\ handed'[1] = handed[1]
        /\ strm'[1] = strm[1] \/ strm'[1] = "aborting"
    BY <1>t, <1>o, <2>1, SendEffect DEF SendStates
  <2> QED
    BY <1>0, <2>2, <2>3
<1>12. CASE WaitEnds
  BY <1>0, <1>12 DEF WaitEnds
<1>13. CASE DecisionRejected
  <2>1. UNCHANGED <<conn, handed>>
    BY <1>13 DEF DecisionRejected
  <2>2. strm'[1] = strm[1] \/ strm'[1] = "aborting"
    BY <1>t, <1>o, <1>13, GivesUpEffect DEF WaitExpires
  <2> QED
    BY <1>0, <2>1, <2>2
<1>14. CASE WaitExpires
  <2>1. UNCHANGED <<conn, handed>>
    BY <1>14 DEF WaitExpires
  <2>2. strm'[1] = strm[1] \/ strm'[1] = "aborting"
    BY <1>t, <1>o, <1>14, GivesUpEffect DEF WaitExpires
  <2> QED
    BY <1>0, <2>1, <2>2
<1>15. CASE SendReturns
  BY <1>0, <1>15 DEF SendReturns, Returns
<1>16. CASE Disconnect
  BY <1>0, <1>16 DEF Disconnect
<1>17. CASE Destroy
  BY <1>0, <1>17 DEF Destroy
<1>18. CASE TestConnection
  BY <1>0, <1>18 DEF TestConnection, HasConnection
<1>19. CASE ClearComplete
  BY <1>0, <1>19 DEF ClearComplete
<1>20. CASE ConnectionShutdown
  BY <1>0, <1>20 DEF ConnectionShutdown, UsesConnection
<1>21. CASE ShutdownWaitEnds
  BY <1>0, <1>21 DEF ShutdownWaitEnds
<1>22. CASE CloseConfiguration
  BY <1>0, <1>22 DEF CloseConfiguration
<1>23. CASE CloseRegistration
  BY <1>0, <1>23 DEF CloseRegistration, AllClosed
<1>24. CASE CloseApi
  BY <1>0, <1>24 DEF CloseApi
<1>25. CASE OnConnected
  BY <1>t, <1>25 DEF OnConnected
<1>26. CASE OnShutdownInitiated
  BY <1>0, <1>26 DEF OnShutdownInitiated
<1>27. CASE OnShutdownComplete
  BY <1>0, <1>27 DEF OnShutdownComplete, HandleClosed
<1>28. CASE ClearConnection
  BY <1>0, <1>28 DEF ClearConnection
<1>29. CASE NotifyShutdown
  BY <1>0, <1>29 DEF NotifyShutdown, SaysComplete
<1>30. ASSUME NEW s \in Streams, OnReceive(s) PROVE Goal
  BY <1>0, <1>30 DEF OnReceive
<1>31. ASSUME NEW s \in Streams, OnPeerSendShutdown(s) PROVE Goal
  BY <1>0, <1>31 DEF OnPeerSendShutdown
<1>32. ASSUME NEW s \in Streams, OnSendComplete(s) PROVE Goal
  BY <1>0, <1>32 DEF OnSendComplete
<1>33. ASSUME NEW s \in Streams, StreamAborts(s) PROVE Goal
  <2>1. StreamEnds(s, "aborted")
    BY <1>33 DEF StreamAborts
  <2> QED
    BY <1>t, <1>o, <1>0, <2>1, EndEffect
<1>34. ASSUME NEW s \in Streams, OnStreamShutdownComplete(s) PROVE Goal
  <2>1. StreamEnds(s, "closed")
    BY <1>34 DEF OnStreamShutdownComplete
  <2> QED
    BY <1>t, <1>o, <1>0, <2>1, EndEffect
<1>35. CASE ClearStream
  BY <1>0, <1>35 DEF ClearStream
<1>36. ASSUME NEW s \in Streams, Server(s) PROVE Goal
  BY <1>0, <1>36 DEF Server, ServerSays
<1>37. CASE Destroyed \/ UNCHANGED vars
  BY <1>0, <1>37 DEF Destroyed
<1> QED
  BY <1>1, <1>2, <1>3, <1>4, <1>5, <1>6, <1>7, <1>8, <1>9, <1>10, <1>11, <1>12, <1>13, <1>14,
     <1>15, <1>16, <1>17, <1>18, <1>19, <1>20, <1>21, <1>22, <1>23, <1>24, <1>25, <1>26, <1>27,
     <1>28, <1>29, <1>30, <1>31, <1>32, <1>33, <1>34, <1>35, <1>36, <1>37 DEF Next, Thread,
     Callback

\* The first send_file's stream is in stream_ until it has ended: a callback that clears
\* stream_ was for this stream, there being no earlier one.
LEMMA FirstStreamStep ==
  IInv /\ [Next]_vars =>
    (sends' = 1 /\ apc' \in SendStates \ {"open_stream"} => stream' = 1 \/ strm'[1] = "closed")
<1> DEFINE Goal == stream' = 1 \/ strm'[1] = "closed"
<1> SUFFICES ASSUME IInv, [Next]_vars, sends' = 1, apc' \in SendStates \ {"open_stream"}
             PROVE  Goal
  OBVIOUS
<1>t. Types /\ SendInv /\ PaceInv /\ ReportInv
  BY DEF IInv, StreamInv
<1>o. 1 \in Streams
  BY SendsAssumption DEF Streams
<1>s. ~SendFile
  BY DEF SendFile, Moves
<1>i. sends = 1 /\ apc \in SendStates
  BY <1>s, PaceFacts
<1>f. apc # "open_stream" => stream = 1 \/ strm[1] = "closed"
  BY <1>t, <1>i DEF ReportInv
<1>0. UNCHANGED stream /\ apc # "open_stream" /\ (strm[1] = "closed" => strm'[1] = "closed") => Goal
  BY <1>f
<1> HIDE DEF Goal
<1>m. UNCHANGED <<stream, strm, apc>> => Goal
  BY <1>0
<1> USE DEF vars, streamVars, disconnectVars, appVars
<1>1. CASE Connect
  BY <1>1 DEF Connect, Moves, SendStates
<1>2. CASE OpenRegistration
  BY <1>m, <1>i, <1>2 DEF Moves, SendStates, OpenRegistration
<1>3. CASE open_configuration
  BY <1>m, <1>i, <1>3 DEF Moves, SendStates, open_configuration, LoadCredential
<1>4. CASE OpenConnection
  BY <1>m, <1>i, <1>4 DEF Moves, SendStates, OpenConnection
<1>5. CASE StartConnection
  BY <1>m, <1>i, <1>5 DEF Moves, SendStates, StartConnection
<1>6. CASE ConnectReturns
  BY <1>m, <1>i, <1>6 DEF Moves, SendStates, ConnectReturns
<1>7. CASE SendRefused
  BY <1>m, <1>i, <1>7 DEF Moves, SendStates, SendRefused
<1>8. CASE SendFile
  BY <1>s, <1>8
<1>9. CASE open_stream
  <2>1. apc' # "ready"
    BY DEF SendStates
  <2>2. stream' = sends
    BY <1>t, <1>9, <2>1, OpenEffect
  <2> QED
    BY <1>i, <2>2 DEF Goal
<1>10. CASE SendHeader
  <2>1. StreamSend(1, "header_wait") /\ apc = "send_header"
    BY <1>10 DEF SendHeader
  <2>2. UNCHANGED stream /\ (strm[1] = "closed" => strm'[1] = "closed")
    BY <1>t, <1>o, <2>1, SendEffect DEF SendStates
  <2> QED
    BY <1>0, <2>1, <2>2
<1>11. CASE SendBody
  <2>1. StreamSend(2, "body_wait") /\ apc = "send_body"
    BY <1>11 DEF SendBody
  <2>2. UNCHANGED stream /\ (strm[1] = "closed" => strm'[1] = "closed")
    BY <1>t, <1>o, <2>1, SendEffect DEF SendStates
  <2> QED
    BY <1>0, <2>1, <2>2
<1>12. CASE WaitEnds
  BY <1>0, <1>12 DEF WaitEnds, Moves
<1>13. CASE DecisionRejected
  BY <1>13 DEF DecisionRejected, Returns, SendStates
<1>14. CASE WaitExpires
  BY <1>14 DEF WaitExpires, Returns, SendStates
<1>15. CASE SendReturns
  BY <1>15 DEF SendReturns, Returns, SendStates
<1>16. CASE Disconnect
  BY <1>m, <1>i, <1>16 DEF Moves, SendStates, Disconnect
<1>17. CASE Destroy
  BY <1>m, <1>i, <1>17 DEF Moves, SendStates, Destroy
<1>18. CASE TestConnection
  BY <1>m, <1>i, <1>18 DEF Moves, SendStates, TestConnection, HasConnection
<1>19. CASE ClearComplete
  BY <1>m, <1>i, <1>19 DEF Moves, SendStates, ClearComplete
<1>20. CASE ConnectionShutdown
  BY <1>m, <1>i, <1>20 DEF Moves, SendStates, ConnectionShutdown, UsesConnection
<1>21. CASE ShutdownWaitEnds
  BY <1>m, <1>i, <1>21 DEF Moves, SendStates, ShutdownWaitEnds
<1>22. CASE CloseConfiguration
  BY <1>m, <1>i, <1>22 DEF Moves, SendStates, CloseConfiguration
<1>23. CASE CloseRegistration
  BY <1>m, <1>i, <1>23 DEF Moves, SendStates, CloseRegistration, AllClosed
<1>24. CASE CloseApi
  BY <1>m, <1>i, <1>24 DEF Moves, SendStates, CloseApi
<1>25. CASE OnConnected
  BY <1>m, <1>i, <1>25 DEF Moves, SendStates, OnConnected
<1>26. CASE OnShutdownInitiated
  BY <1>m, <1>i, <1>26 DEF Moves, SendStates, OnShutdownInitiated
<1>27. CASE OnShutdownComplete
  BY <1>m, <1>i, <1>27 DEF Moves, SendStates, OnShutdownComplete, HandleClosed
<1>28. CASE ClearConnection
  BY <1>m, <1>i, <1>28 DEF Moves, SendStates, ClearConnection
<1>29. CASE NotifyShutdown
  BY <1>m, <1>i, <1>29 DEF Moves, SendStates, NotifyShutdown, SaysComplete
<1>30. ASSUME NEW s \in Streams, OnReceive(s) PROVE Goal
  BY <1>m, <1>30 DEF OnReceive
<1>31. ASSUME NEW s \in Streams, OnPeerSendShutdown(s) PROVE Goal
  BY <1>m, <1>31 DEF OnPeerSendShutdown
<1>32. ASSUME NEW s \in Streams, OnSendComplete(s) PROVE Goal
  BY <1>m, <1>i, <1>32 DEF Moves, SendStates, OnSendComplete
<1>33. ASSUME NEW s \in Streams, StreamAborts(s) PROVE Goal
  <2>1. StreamEnds(s, "aborted") /\ strm[s] # "closed"
    BY <1>33 DEF StreamAborts
  <2>2. UNCHANGED <<stream, apc>> /\ (strm[1] = "closed" => strm'[1] = "closed")
    BY <1>t, <1>o, <2>1, EndEffect
  <2>3. apc # "open_stream"
    BY <2>2
  <2> QED
    BY <1>0, <2>2, <2>3
<1>34. ASSUME NEW s \in Streams, OnStreamShutdownComplete(s) PROVE Goal
  <2>1. StreamEnds(s, "closed")
    BY <1>34 DEF OnStreamShutdownComplete
  <2>2. UNCHANGED <<stream, apc>> /\ (strm[1] = "closed" => strm'[1] = "closed")
    BY <1>t, <1>o, <2>1, EndEffect
  <2>3. apc # "open_stream"
    BY <2>2
  <2> QED
    BY <1>0, <2>2, <2>3
<1>35. CASE ClearStream
  <2>1. worker = "strm_closed" /\ UNCHANGED strm
    BY <1>35 DEF ClearStream
  <2>2. PICK s \in Streams : s <= sends /\ strm[s] = "closed"
    BY <1>t, <2>1 DEF PaceInv
  <2>3. s = 1
    BY <1>i, <2>2, SendsAssumption DEF Streams
  <2> QED
    BY <2>1, <2>2, <2>3 DEF Goal
<1>36. ASSUME NEW s \in Streams, Server(s) PROVE Goal
  BY <1>m, <1>36 DEF Server, ServerSays
<1>37. CASE Destroyed \/ UNCHANGED vars
  BY <1>m, <1>i, <1>37 DEF Moves, SendStates, Destroyed
<1> QED
  BY <1>1, <1>2, <1>3, <1>4, <1>5, <1>6, <1>7, <1>8, <1>9, <1>10, <1>11, <1>12, <1>13, <1>14,
     <1>15, <1>16, <1>17, <1>18, <1>19, <1>20, <1>21, <1>22, <1>23, <1>24, <1>25, <1>26, <1>27,
     <1>28, <1>29, <1>30, <1>31, <1>32, <1>33, <1>34, <1>35, <1>36, <1>37 DEF Next, Thread,
     Callback

\* The last part: a first send_file that fails aborts its stream, if that is still open,
\* except after the body has been handed over.
LEMMA FailureReportedStep ==
  ASSUME IInv, [Next]_vars, last' = <<1, "failed">>, strm'[1] = "started", conn' = "connected"
  PROVE  handed'[1] = 2
<1>t. Types /\ SendInv /\ FreshInv /\ ReportInv
  BY DEF IInv, StreamInv
<1>o. 1 \in Streams
  BY SendsAssumption DEF Streams
<1>1. ~Connect
  BY DEF Connect, NoStream
<1>2. CASE SendFile
  <2>1. UNCHANGED <<strm, conn, handed, last>>
    BY <1>2 DEF SendFile, connVars, streamVars, noteVars
  <2> QED
    BY <1>t, <2>1 DEF ReportInv
<1>3. CASE UNCHANGED last
  <2>1. sends # 0
    BY <1>t, <1>3 DEF ReportInv, Types
  <2>2. strm[1] = "started" /\ conn = "connected" /\ handed'[1] = handed[1]
    BY <1>1, <1>3, <2>1, FirstFacts
  <2> QED
    BY <1>t, <1>3, <2>2 DEF ReportInv
<1>4. CASE apc \in SendStates /\ apc' = "ready" /\ last' = <<sends, "failed">>
  <2>1. sends = 1 /\ (apc # "open_stream" => stream = 1 \/ strm[1] = "closed")
    BY <1>t, <1>4 DEF ReportInv
  <2>2. ASSUME open_stream PROVE FALSE
    <3>1. strm'[1] = strm[1] /\ apc = "open_stream"
      BY <1>t, <1>4, <2>2, OpenEffect
    <3> QED
      BY <1>t, <1>o, <2>1, <3>1 DEF FreshInv
  <2>3. ASSUME strm'[1] = strm[1] \/ strm'[1] = "aborting",
               strm'[1] = strm[1] => ~(stream = 1 /\ strm[1] = "started"), apc # "open_stream"
        PROVE  FALSE
    BY <2>1, <2>3
  <2>4. ASSUME SendHeader PROVE FALSE
    <3>1. StreamSend(1, "header_wait") /\ apc = "send_header"
      BY <2>4 DEF SendHeader
    <3> QED
      BY <1>t, <1>o, <1>4, <2>3, <3>1, SendEffect
  <2>5. ASSUME SendBody PROVE FALSE
    <3>1. StreamSend(2, "body_wait") /\ apc = "send_body"
      BY <2>5 DEF SendBody
    <3> QED
      BY <1>t, <1>o, <1>4, <2>3, <3>1, SendEffect
  <2>6. ASSUME DecisionRejected \/ (WaitExpires /\ apc # "ack_wait") PROVE FALSE
    <3>1. apc # "open_stream"
      BY <2>6 DEF DecisionRejected, WaitExpires
    <3> QED
      BY <1>t, <1>o, <2>3, <2>6, <3>1, GivesUpEffect
  <2>7. CASE (WaitExpires \/ SendReturns) /\ apc = "ack_wait"
    <3>1. UNCHANGED <<strm, handed>>
      BY <2>7 DEF WaitExpires, SendReturns, streamVars
    <3> QED
      BY <1>t, <2>1, <2>7, <3>1 DEF SendInv
  <2>8. apc' \notin SendStates /\ sends' = sends
    <3>1. ~SendFile
      BY <1>4 DEF SendFile, Moves, SendStates
    <3>2. SendReturns => UNCHANGED sends
      BY DEF SendReturns, paceVars
    <3>3. sends' = sends
      BY <1>1, <3>1, <3>2, NoteFacts
    <3> QED
      BY <1>4, <3>3 DEF SendStates
  <2>9. SendReturns => apc = "ack_wait"
    BY DEF SendReturns
  <2> QED
    BY <1>4, <2>1, <2>2, <2>4, <2>5, <2>6, <2>7, <2>8, <2>9, PaceFacts
<1>5. SendReturns => apc \in SendStates /\ apc' = "ready" /\ last'[1] = sends
  BY DEF SendReturns, Returns, SendStates
<1>6. last' # <<NoStream, "failed">>
  BY DEF NoStream
<1> QED
  BY <1>1, <1>2, <1>3, <1>4, <1>5, <1>6, NoteFacts

\* What send_file reports is right.
LEMMA ReportStep == IInv /\ [Next]_vars => ReportInv'
<1> SUFFICES ASSUME IInv, [Next]_vars PROVE ReportInv'
  OBVIOUS
<1>1. last'[1] <= sends' /\ (apc' \in SendStates => last'[1] < sends' /\ ~rejected')
  BY ReportedStep
<1>2. expired' => sends' # 0 /\ (sends' = 1 => apc' \notin SendStates)
  BY ReportedStep
<1>3. last'[2] = "ok" =>
        /\ last'[1] \in Streams
        /\ "OK" \in heard'[last'[1]] \/ expired' \/ RejectedBefore(last[1] - 1)'
  BY OkReportedStep
<1>4. rejected' /\ last' = <<1, "failed">> => "REJECT" \in heard'[1]
  BY RejectionReportedStep
<1>5. last' = <<1, "failed">> /\ strm'[1] = "started" /\ conn' = "connected" => handed'[1] = 2
  BY FailureReportedStep
<1>6. sends' = 1 /\ apc' \in SendStates \ {"open_stream"} => stream' = 1 \/ strm'[1] = "closed"
  BY FirstStreamStep
<1> QED
  BY <1>1, <1>2, <1>3, <1>4, <1>5, <1>6 DEF ReportInv

-----------------------------------------------------------------------------
\* A QuicClient that has just been constructed holds nothing and has heard nothing.
LEMMA InitIInv == Init => IInv
<1> SUFFICES ASSUME Init PROVE IInv
  OBVIOUS
<1>s. \A s \in Streams : s \in Nat \ {0}
  BY SendsAssumption DEF Streams
<1>e. /\ <<>> \in Seq(Replies) /\ {} \in SUBSET Replies
      /\ <<NoStream, "none">> \in (Streams \cup {NoStream}) \X {"none", "ok", "failed"}
      /\ last[1] = 0 /\ last[2] = "none"
  BY DEF Init, NoStream
<1>v. \A s \in Streams : /\ strm[s] = "none" /\ queued[s] = 0 /\ handed[s] = 0
                         /\ at_server[s] = "unseen" /\ inbox[s] = <<>> /\ heard[s] = {}
  BY DEF Init, Each
<1>a. apc = "idle" /\ apc \notin SendStates /\ apc \notin ConnectStates
  BY DEF Init, SendStates, ConnectStates
<1>1. FlagTypes
  BY DEF Init, FlagTypes
<1>2. Types
  BY <1>a, <1>e, SendsAssumption DEF Init, Types, Each, ApcStates, NoStream
<1>3. LiveInv
  BY DEF Init, LiveInv
<1>4. HandleInv
  BY <1>a DEF Init, HandleInv
<1>5. ConnectionInv
  BY <1>a, <1>v DEF Init, ConnectionInv
<1>6. StreamInv
  BY <1>a, <1>v DEF Init, StreamInv, PointerInv, FreshInv, SendInv, QueueInv
<1>7. PaceInv /\ LossInv
  BY <1>a DEF Init, PaceInv, LossInv, MissedShutdown
<1>8. \A s \in Streams : PeerInv(s)
  BY <1>v DEF PeerInv
<1>9. LeftInv
  BY <1>v DEF LeftInv, Active
<1>10. OwnAnswer /\ OwnResult
  BY <1>a DEF OwnAnswer, OwnResult
<1>11. ReportInv
  BY <1>a, <1>e DEF Init, ReportInv
<1> QED
  BY <1>1, <1>2, <1>3, <1>4, <1>5, <1>6, <1>7, <1>8, <1>9, <1>10, <1>11 DEF IInv

\* The invariant holds in every state of every run.
LEMMA IInvHolds == Spec => []IInv
<1>1. IInv /\ [Next]_vars => IInv'
  BY FlagTypesStep, TypesStep, LiveStep, HandleStep, ConnectionStep, PointerStep, FreshStep,
     SendStep, QueueStep, PaceStep, LossStep, PeerStep, LeftStep, OwnAnswerStep, OwnResultStep,
     ReportStep DEF IInv, StreamInv
<1> QED
  BY InitIInv, <1>1, PTL DEF Spec

-----------------------------------------------------------------------------
\* Every member and every message keeps its type, for any number of sends.
THEOREM TypeCorrect == Spec => []TypeOK
<1>1. IInv => TypeOK
  <2> SUFFICES ASSUME IInv PROVE TypeOK
    OBVIOUS
  <2>1. FlagTypes /\ Types /\ LiveInv
    BY DEF IInv
  <2>2. {api, registration, configuration, connection} \subseteq BOOLEAN
    BY <2>1 DEF FlagTypes
  <2>3. {lost, expired, dead_call} \subseteq BOOLEAN
    BY <2>1 DEF FlagTypes
  <2>4. live \subseteq {"api", "registration", "configuration"}
    BY <2>1 DEF LiveInv
  <2>5. {decision_buf, file_ack} \subseteq Replies \cup {"none"}
    BY <2>1 DEF Types
  <2> QED
    BY <2>1, <2>2, <2>3, <2>4, <2>5 DEF TypeOK, FlagTypes, Types
<1> QED
  BY <1>1, IInvHolds, PTL

\* connect() and disconnect() give back what they took: when the thread is outside a
\* connection every library handle is closed, the members are null and no callback is
\* at work on the object, however the two threads took turns.
THEOREM NothingIsLeft == Spec => []NothingLeft
BY IInvHolds, NothingLeftHolds, PTL

\* The handles are closed before those they were opened from, and api_ last: also while
\* the callbacks close theirs.
THEOREM HandlesClosedInOrder == Spec => []ClosedInOrder
<1>1. IInv => ClosedInOrder
  BY DEF IInv, LiveInv, HandleInv, ClosedInOrder
<1> QED
  BY <1>1, IInvHolds, PTL

\* disconnect() and the sends use a null or closed handle, or wait for an event that
\* has been handled, only if the peer or the transport ended the connection: the test,
\* the reset and the use of connection_ race with that callback alone.
THEOREM NoRaceWithoutLoss == Spec => []RacesOnlyAfterLoss
<1>1. IInv => RacesOnlyAfterLoss
  BY DEF IInv, LossInv, RacesOnlyAfterLoss
<1> QED
  BY <1>1, IInvHolds, PTL

\* send_file returns true only with an OK heard on its own stream, but for the answers
\* that an expired wait or two earlier rejections let come late; and the first send_file
\* on a connection reports a rejection only if its own stream heard one.
THEOREM AnswersBelongToTheirSend == Spec => []AnswersAreOwn
<1>1. IInv => AnswersAreOwn
  <2> SUFFICES ASSUME IInv PROVE AnswersAreOwn
    OBVIOUS
  <2>1. ReportInv /\ Types
    BY DEF IInv
  <2>2. ASSUME last[1] \in Streams, RejectedBefore(last[1] - 1)
        PROVE  \E s \in Streams : s + 1 < last[1] /\ "REJECT" \in heard[s]
    <3>1. PICK r \in Streams : r < last[1] - 1 /\ "REJECT" \in heard[r]
      BY <2>2 DEF RejectedBefore
    <3>2. r + 1 < last[1]
      BY <2>2, <3>1, SendsAssumption DEF Streams
    <3> QED
      BY <3>1, <3>2
  <2> QED
    BY <2>1, <2>2 DEF ReportInv, AnswersAreOwn
<1> QED
  BY <1>1, IInvHolds, PTL

\* A first send_file that fails leaves no open stream behind on a live connection, unless
\* the whole file has been handed over.
THEOREM FailureReachesThePeer == Spec => []FailureIsSignalled
<1>1. IInv => FailureIsSignalled
  BY DEF IInv, ReportInv, FailureIsSignalled
<1> QED
  BY <1>1, IInvHolds, PTL
=============================================================================
