----------------------------- MODULE QuicServer -----------------------------
(***************************************************************************)
(* QuicServer, the receiving side (src/transfer/quic_server.cpp): the      *)
(* thread that calls receive_file() and then stop(), and the msquic        *)
(* callbacks that run beside it, one worker per connection.                *)
(*                                                                         *)
(* A callback is one step, unless it needs file_mutex_ while the           *)
(* receiving thread holds it: then the worker stops inside the callback    *)
(* (see blocked), and with it every further event of that connection.      *)
(* The receiving thread is split where it waits, where it releases a lock, *)
(* and where it publishes state that a callback reads without a lock.      *)
(***************************************************************************)
EXTENDS Quic

CONSTANTS
  Prompt,          \* receive_file was given an on_offer callback
  OutputPath,      \* the explicit output file, None for a directory target
  MaxHeaderUnits   \* kMaxHeaderBytes, in units

ASSUME ServerAssumption ==
  /\ Prompt \in BOOLEAN
  /\ OutputPath \in Names \cup {None}
  /\ MaxHeaderUnits \in Nat /\ MaxHeaderUnits >= HeaderUnits

VARIABLES
  rpc,                \* where the receiving thread is
  receiving_file,     \* receiving_file_
  client_connection,  \* client_connection_, the connection stop() knows of
  file_stream,        \* file_stream_, the stream ACCEPT and REJECT go to
  file_header,        \* file_header_
  rx,                 \* the state of the incoming file, see RxState
  offer_ready,        \* offer_ready_
  file_done,          \* file_done_
  file_ok,            \* file_ok_
  file_result,        \* file_result_; of error, whether it is non-empty
  blocked,            \* what a connection's worker waits for file_mutex_ to do
  offered,            \* the header receive_file passed to on_offer
  answer,             \* what on_offer returned
  recv_result,        \* what receive_file returned
  disk                \* the files at the receiver

flowVars   == <<rpc, receiving_file, offered, answer, recv_result>>
waitVars   == <<offer_ready, file_done, file_ok, blocked>>
serverVars == <<flowVars, waitVars, client_connection, file_stream, file_header,
                rx, file_result, disk>>

RpcStates ==
  {"started",        \* start() returned, receive_file() not called yet
   "arm_path", "arm_offer", "arm_reset",  \* inside the arming block, 571-588
   "offer_wait",     \* waiting for a header
   "prompt",         \* on_offer is running
   "accept_flag",    \* output open, file_accepted_ not set yet
   "accept_send",    \* accepted, ACCEPT not sent yet
   "reject_drain",   \* REJECT sent, waiting for the sender to close
   "reject_locked",  \* the same after a failed open, holding file_mutex_
   "final_wait",     \* waiting for the end of the transfer
   "ok_drain",       \* transfer done, waiting for the sender to close
   "returned",       \* receive_file() has returned
   "stopping",       \* inside RegistrationClose
   "stopped"}

NoHeader == [name |-> None, size |-> 0, sha256_hex |-> None]

HeaderOrNone == FileTransferHeader \cup {NoHeader}

RxState ==
  [buffer : Seq(Units), header_parsed : BOOLEAN, io_error : BOOLEAN,
   overflow : BOOLEAN, bytes_written : Nat, out : {"null", "open", "closed"},
   out_path : Names \cup {None}, path : Names \cup {None},
   accepted : BOOLEAN, sending_final_ack : BOOLEAN]

\* No file under way; path is file_output_path_.
FreshRx(path) ==
  [buffer |-> <<>>, header_parsed |-> FALSE, io_error |-> FALSE,
   overflow |-> FALSE, bytes_written |-> 0, out |-> "null", out_path |-> None,
   path |-> path, accepted |-> FALSE, sending_final_ack |-> FALSE]

NoResult == [success |-> FALSE, rejected |-> FALSE, error |-> FALSE]

ServerTypeOK ==
  /\ rpc \in RpcStates
  /\ receiving_file \in BOOLEAN
  /\ client_connection \in Clients \cup {None}
  /\ file_stream \in Clients \cup {None}
  /\ file_header \in HeaderOrNone
  /\ rx \in RxState
  /\ offer_ready \in BOOLEAN
  /\ file_done \in BOOLEAN
  /\ file_ok \in BOOLEAN
  /\ file_result \in [success : BOOLEAN, rejected : BOOLEAN, error : BOOLEAN]
  /\ blocked \in [Clients -> {"no", "offer", "notify_true", "notify_false"}]
  /\ offered \in HeaderOrNone
  /\ answer \in {"none", "accept", "reject"}
  /\ recv_result \in {"none", "true", "false"}
  /\ disk \in [Names -> Seq(Units) \cup {None}]

ServerInit ==
  /\ rpc = "started"
  /\ receiving_file = FALSE
  /\ client_connection = None
  /\ file_stream = None
  /\ file_header = NoHeader
  /\ rx = FreshRx(None)
  /\ offer_ready = FALSE
  /\ file_done = FALSE
  /\ file_ok = FALSE
  /\ file_result = NoResult
  /\ blocked = [c \in Clients |-> "no"]
  /\ offered = NoHeader
  /\ answer = "none"
  /\ recv_result = "none"
  /\ disk = [n \in Names |-> None]

-----------------------------------------------------------------------------
(* file_mutex_ and the condition variable under it.                        *)

\* The receiving thread holds file_mutex_ across one of its steps.
MutexHeld == rpc \in {"arm_path", "arm_offer", "arm_reset", "reject_locked"}

\* It also holds the mutex from the open of the output to the flag.  A callback that
\* needs the mutex there starts after the flag is set: what it does before it locks
\* neither writes file_accepted_ nor comes out differently for it.
MutexBusy == rpc = "accept_flag"

\* c's worker is free to run a callback.
WorkerFree(c) == blocked[c] = "no"

\* notify_file_waiter(success), called by c's worker when file_result_ is r.
notify_file_waiter(c, success, r) ==
  /\ ~MutexBusy
  /\ UNCHANGED offer_ready
  /\ \/ /\ MutexHeld
        /\ blocked' = [blocked EXCEPT ![c] = IF success THEN "notify_true"
                                                        ELSE "notify_false"]
        /\ file_result' = r
        /\ UNCHANGED <<file_done, file_ok>>
     \/ /\ ~MutexHeld
        /\ file_done' = TRUE
        /\ file_ok' = success
        /\ file_result' = [r EXCEPT !.success = success]
        /\ UNCHANGED blocked

\* The rest of a callback that had to wait for file_mutex_.
EnterFileMutex(c) ==
  /\ blocked[c] # "no" /\ ~MutexHeld /\ ~MutexBusy
  /\ blocked' = [blocked EXCEPT ![c] = "no"]
  /\ \/ /\ blocked[c] = "offer"
        /\ offer_ready' = TRUE
        /\ rx' = [rx EXCEPT !.buffer = <<>>]
        /\ UNCHANGED <<file_done, file_ok, file_result>>
     \/ /\ blocked[c] # "offer"
        /\ file_done' = TRUE
        /\ file_ok' = (blocked[c] = "notify_true")
        /\ file_result' = [file_result EXCEPT !.success = (blocked[c] = "notify_true")]
        /\ UNCHANGED <<offer_ready, rx>>
  /\ UNCHANGED <<flowVars, client_connection, file_stream, file_header, disk, quicVars>>

-----------------------------------------------------------------------------
(* The output file.                                                        *)

OpenOutcomes(path) == IF path = None THEN {FALSE} ELSE Outcomes("open")

\* open_output_file() on the receive state r; opened is what ofstream says.
\* The file is truncated.
OpenedRx(r, opened) ==
  IF opened THEN [r EXCEPT !.out = "open", !.out_path = r.path]
            ELSE [r EXCEPT !.io_error = TRUE, !.out = "null", !.out_path = None]

OpenedDisk(r, opened) == IF opened THEN [disk EXCEPT ![r.path] = <<>>] ELSE disk

OpenedResult(opened) ==
  IF opened THEN file_result ELSE [file_result EXCEPT !.error = TRUE]

CloseFile(r) == IF r.out = "open" THEN [r EXCEPT !.out = "closed"] ELSE r

\* Mutant: append_file_bytes writes whatever arrives.
RoomUnbounded(r, header, len) == len

\* How many of len further units the declared size leaves room for.  The
\* subtraction is unsigned in the code; NoSizeUnderflow says it never wraps.
Room(r, header, len) ==
  IF len <= header.size - r.bytes_written THEN len ELSE header.size - r.bytes_written

\* The tail of append_file_bytes: write what fits, note an overflow.
WrittenRx(r, header, data, good) ==
  LET n == Room(r, header, Len(data))
  IN IF good
     THEN [r EXCEPT !.bytes_written = @ + n, !.overflow = @ \/ n < Len(data)]
     ELSE [r EXCEPT !.overflow = @ \/ n < Len(data), !.io_error = TRUE]

WrittenDisk(d, r, header, data, good) ==
  IF good
  THEN [d EXCEPT ![r.out_path] = @ \o SubSeq(data, 1, Room(r, header, Len(data)))]
  ELSE d

\* Writing can fail only if there is something to write.
WriteOutcomes(r, header, data) ==
  IF Room(r, header, Len(data)) > 0 THEN Outcomes("write") ELSE {TRUE}

-----------------------------------------------------------------------------
(* Callbacks: the listener and the connections.                            *)

\* QUIC_LISTENER_EVENT_NEW_CONNECTION.
on_new_connection(c) ==
  /\ listening /\ c \notin lost
  /\ cConn[c] = "handshake" /\ sConn[c] = "none"
  /\ sConn' = [sConn EXCEPT ![c] = "handshake"]
  /\ UNCHANGED <<serverVars, listening, lost, cConn, c2sVars, s2cVars, streamVars, sendVars>>

\* QUIC_CONNECTION_EVENT_CONNECTED: the client's last handshake flight is in.
on_connected(c) ==
  /\ WorkerFree(c)
  /\ sConn[c] = "handshake" /\ cConn[c] # "handshake" /\ c \notin lost
  /\ sConn' = [sConn EXCEPT ![c] = "connected"]
  /\ client_connection' = c
  /\ UNCHANGED <<flowVars, waitVars, file_stream, file_header, rx, file_result, disk,
                 listening, lost, cConn, c2sVars, s2cVars, streamVars, sendVars>>

\* Mutant: the handle is closed but stays registered as the current client.
ConnectionKept(c) ==
  /\ WorkerFree(c)
  /\ sConn[c] = "shutdown" /\ sStream[c] # "open"
  /\ sConn' = [sConn EXCEPT ![c] = "closed"]
  /\ UNCHANGED <<flowVars, waitVars, client_connection, file_stream, file_header, rx,
                 file_result, disk,
                 listening, lost, cConn, c2sVars, s2cVars, streamVars, sendVars>>

\* QUIC_CONNECTION_EVENT_SHUTDOWN_COMPLETE, after the stream's.
on_connection_shutdown_complete(c) ==
  /\ WorkerFree(c)
  /\ sConn[c] = "shutdown" /\ sStream[c] # "open"
  /\ sConn' = [sConn EXCEPT ![c] = "closed"]
  /\ client_connection' = IF client_connection = c THEN None ELSE client_connection
  /\ UNCHANGED <<flowVars, waitVars, file_stream, file_header, rx, file_result, disk,
                 listening, lost, cConn, c2sVars, s2cVars, streamVars, sendVars>>

\* QUIC_CONNECTION_EVENT_PEER_STREAM_STARTED: whatever file was under way is
\* forgotten, and replies go to the new stream from now on.
on_peer_stream_started(c) ==
  /\ WorkerFree(c)
  /\ sConn[c] = "connected" /\ c \notin lost
  /\ cStream[c] # "none" /\ sStream[c] = "none"
  /\ sStream' = [sStream EXCEPT ![c] = "open"]
  /\ rx' = FreshRx(rx.path)
  /\ file_stream' = c
  /\ UNCHANGED <<flowVars, waitVars, client_connection, file_header, file_result, disk,
                 connVars, c2sVars, s2cVars, cStream, sendVars>>

-----------------------------------------------------------------------------
(* QUIC_STREAM_EVENT_RECEIVE.                                              *)

\* Mutant: the prompt is never consulted.
OfferIgnored == FALSE

\* file_offer_ is set: after line 575, if there is a prompt at all.
OfferRegistered == Prompt /\ rpc \notin {"started", "arm_path", "arm_offer"}

\* file_output_is_dir_, set at line 572.
OutputIsDir == OutputPath = None /\ rpc \notin {"started", "arm_path"}

\* try_parse_file_header when the buffer holds no whole header.
HeaderIncomplete(c, buffer) ==
  /\ ~DecodesHeader(buffer)
  /\ \/ /\ Len(buffer) <= MaxHeaderUnits
        /\ rx' = [rx EXCEPT !.buffer = buffer]
        /\ UNCHANGED <<waitVars, file_result>>
     \/ /\ Len(buffer) > MaxHeaderUnits
        /\ rx' = [rx EXCEPT !.buffer = <<>>, !.io_error = TRUE, !.header_parsed = TRUE]
        /\ notify_file_waiter(c, FALSE, [file_result EXCEPT !.error = TRUE])
  /\ UNCHANGED <<file_header, disk, s2cVars, sSends>>

\* rx once the header at the front of buffer has been read.
ParsedRx(buffer) ==
  [rx EXCEPT !.buffer = buffer, !.header_parsed = TRUE,
             !.path = IF OutputIsDir THEN DecodedHeader(buffer).name ELSE @]

\* try_parse_file_header with a prompt: leave the decision to receive_file.
HeaderOffered(c, buffer) ==
  /\ DecodesHeader(buffer) /\ OfferRegistered /\ ~MutexBusy
  /\ file_header' = DecodedHeader(buffer)
  /\ \/ /\ MutexHeld
        /\ rx' = ParsedRx(buffer)
        /\ blocked' = [blocked EXCEPT ![c] = "offer"]
        /\ UNCHANGED offer_ready
     \/ /\ ~MutexHeld
        /\ rx' = [ParsedRx(buffer) EXCEPT !.buffer = <<>>]
        /\ offer_ready' = TRUE
        /\ UNCHANGED blocked
  /\ UNCHANGED <<file_done, file_ok, file_result, disk, s2cVars, sSends>>

\* try_parse_file_header without a prompt: open the output and accept here, on
\* the callback's thread.  If the open fails, nobody answers the sender.
HeaderAutoAccepted(c, buffer) ==
  /\ DecodesHeader(buffer) /\ ~OfferRegistered
  /\ file_header' = DecodedHeader(buffer)
  /\ \E opened \in OpenOutcomes(ParsedRx(buffer).path) :
       LET header == DecodedHeader(buffer)
           body   == SubSeq(buffer, HeaderUnits + 1, Len(buffer))
           r      == [OpenedRx(ParsedRx(buffer), opened)
                        EXCEPT !.buffer = <<>>, !.accepted = opened \/ @]
           d      == OpenedDisk(ParsedRx(buffer), opened)
       IN IF opened
          THEN /\ \E good \in WriteOutcomes(r, header, body) :
                    /\ rx' = WrittenRx(r, header, body, good)
                    /\ disk' = WrittenDisk(d, r, header, body, good)
                    /\ file_result' = [file_result EXCEPT !.error = @ \/ ~good]
               /\ \E ok \in SendOutcomes(ServerCanSend(file_stream)) :
                    IF ok THEN ServerSends(file_stream, "ACCEPT", FALSE)
                          ELSE UNCHANGED <<s2cVars, sSends>>
          ELSE /\ rx' = r
               /\ disk' = d
               /\ file_result' = OpenedResult(opened)
               /\ UNCHANGED <<s2cVars, sSends>>
  /\ UNCHANGED waitVars

\* append_file_bytes once the header is known: body bytes before acceptance, or
\* after an output error, are dropped.
BodyBytes(data) ==
  /\ IF rx.accepted /\ ~rx.io_error /\ rx.out = "open"
     THEN \E good \in WriteOutcomes(rx, file_header, data) :
            /\ rx' = WrittenRx(rx, file_header, data, good)
            /\ disk' = WrittenDisk(disk, rx, file_header, data, good)
            /\ file_result' = [file_result EXCEPT !.error = @ \/ ~good]
     ELSE UNCHANGED <<rx, disk, file_result>>
  /\ UNCHANGED <<waitVars, file_header, s2cVars, sSends>>

append_file_bytes(c, data) ==
  IF rx.header_parsed
  THEN BodyBytes(data)
  ELSE \/ HeaderIncomplete(c, rx.buffer \o data)
       \/ HeaderOffered(c, rx.buffer \o data)
       \/ HeaderAutoAccepted(c, rx.buffer \o data)

\* A receive event.  Bytes that arrive while no receive_file() is under way are
\* consumed and lost.
on_receive(c) ==
  /\ WorkerFree(c) /\ ServerHears(c)
  /\ \E n \in 1..Len(c2s[c]) :
       /\ c2s' = [c2s EXCEPT ![c] = SubSeq(@, n + 1, Len(@))]
       /\ IF receiving_file
          THEN append_file_bytes(c, SubSeq(c2s[c], 1, n))
          ELSE UNCHANGED <<waitVars, file_header, rx, file_result, disk, s2cVars, sSends>>
  /\ UNCHANGED <<flowVars, client_connection, file_stream, connVars, cFin, reset,
                 streamVars, cSends>>

-----------------------------------------------------------------------------
(* The other stream callbacks.                                             *)

\* Mutant: the hash of the received file is not compared.
VerifiedWithoutHash(readable) ==
  /\ ~rx.io_error /\ rx.header_parsed /\ rx.out # "null"
  /\ ~rx.overflow /\ rx.bytes_written = file_header.size
  /\ readable /\ rx.path # None

\* The checks of finish_file_receive; readable is whether sha256_file could
\* read the file.
Verified(readable) ==
  /\ ~rx.io_error /\ rx.header_parsed /\ rx.out # "null"
  /\ ~rx.overflow /\ rx.bytes_written = file_header.size
  /\ readable /\ rx.path # None
  /\ sha256(disk[rx.path]) = file_header.sha256_hex

\* finish_file_receive: verify, then answer OK or FAIL with a FIN.  receive_file
\* is woken by the SEND_COMPLETE of that answer, or here if it cannot be sent.
finish_file_receive(c) ==
  \E readable \in Outcomes("open"), ok \in SendOutcomes(ServerCanSend(c)) :
    LET verify_ok == Verified(readable)
        result    == [file_result EXCEPT !.success = verify_ok,
                                         !.error = @ \/ ~verify_ok]
    IN /\ rx' = [CloseFile(rx) EXCEPT !.sending_final_ack = ok]
       /\ IF ok
          THEN /\ ServerSends(c, IF verify_ok THEN "OK" ELSE "FAIL", TRUE)
               /\ file_result' = result
               /\ UNCHANGED waitVars
          ELSE /\ notify_file_waiter(c, FALSE, result)
               /\ UNCHANGED <<s2cVars, sSends>>

\* QUIC_STREAM_EVENT_PEER_SEND_SHUTDOWN: the client's FIN, after its bytes.
on_peer_send_shutdown(c) ==
  /\ WorkerFree(c) /\ ServerHears(c)
  /\ c2s[c] = <<>> /\ cFin[c] = "sent"
  /\ cFin' = [cFin EXCEPT ![c] = "seen"]
  /\ IF receiving_file /\ (rx.accepted \/ rx.io_error)
     THEN finish_file_receive(c)
     ELSE UNCHANGED <<waitVars, rx, file_result, s2cVars, sSends>>
  /\ UNCHANGED <<flowVars, client_connection, file_stream, file_header, disk, connVars,
                 c2s, reset, streamVars, cSends>>

\* Mutant: SEND_COMPLETE of the final answer wakes nobody.
SendCompleteSilent(c) ==
  /\ WorkerFree(c)
  /\ sStream[c] = "open" /\ sSends[c] > 0
  /\ sSends' = [sSends EXCEPT ![c] = Completed(@)]
  /\ UNCHANGED <<flowVars, waitVars, client_connection, file_stream, file_header, rx,
                 file_result, disk, connVars, c2sVars, s2cVars, streamVars, cSends>>

\* QUIC_STREAM_EVENT_SEND_COMPLETE, of a send that was delivered or cancelled.
on_send_complete(c) ==
  /\ WorkerFree(c)
  /\ sStream[c] = "open" /\ sSends[c] > 0
  /\ sSends' = [sSends EXCEPT ![c] = Completed(@)]
  /\ IF receiving_file /\ rx.sending_final_ack
     THEN notify_file_waiter(c, file_result.success, file_result)
     ELSE UNCHANGED <<waitVars, file_result>>
  /\ UNCHANGED <<flowVars, client_connection, file_stream, file_header, rx, disk, connVars,
                 c2sVars, s2cVars, streamVars, cSends>>

\* QUIC_STREAM_EVENT_PEER_SEND_ABORTED and PEER_RECEIVE_ABORTED, which an abort
\* by the client raises back to back; bytes still under way are dropped.
on_peer_aborted(c) ==
  /\ WorkerFree(c) /\ ServerHears(c)
  /\ reset[c] = "sent"
  /\ reset' = [reset EXCEPT ![c] = "seen"]
  /\ c2s' = [c2s EXCEPT ![c] = <<>>]
  /\ IF receiving_file
     THEN /\ rx' = CloseFile(rx)
          /\ notify_file_waiter(c, FALSE, [file_result EXCEPT !.error = TRUE])
     ELSE UNCHANGED <<waitVars, rx, file_result>>
  /\ UNCHANGED <<flowVars, client_connection, file_stream, file_header, disk, connVars,
                 cFin, s2cVars, streamVars, sendVars>>

\* QUIC_STREAM_EVENT_SHUTDOWN_COMPLETE closes the handle.  file_stream keeps it.
on_stream_shutdown_complete(c) ==
  /\ WorkerFree(c) /\ ServerStreamOver(c)
  /\ sStream' = [sStream EXCEPT ![c] = "closed"]
  /\ UNCHANGED <<serverVars, connVars, c2sVars, s2cVars, cStream, sendVars>>

-----------------------------------------------------------------------------
(* receive_file, on the receiving thread.                                  *)

callbackVars == <<client_connection, file_stream>>

\* Line 571: callbacks handle stream data from here on.
ArmReceiving ==
  /\ rpc = "started"
  /\ rpc' = "arm_path"
  /\ receiving_file' = TRUE
  /\ UNCHANGED <<offered, answer, recv_result, waitVars, callbackVars, file_header, rx,
                 file_result, disk, quicVars>>

\* Lines 572-574: where the file goes.
ArmPath ==
  /\ rpc = "arm_path"
  /\ rpc' = "arm_offer"
  /\ rx' = [rx EXCEPT !.path = OutputPath]
  /\ UNCHANGED <<receiving_file, offered, answer, recv_result, waitVars, callbackVars,
                 file_header, file_result, disk, quicVars>>

\* Line 575: the prompt is registered (OfferRegistered).
ArmOffer ==
  /\ rpc = "arm_offer"
  /\ rpc' = "arm_reset"
  /\ UNCHANGED <<receiving_file, offered, answer, recv_result, waitVars, callbackVars,
                 file_header, rx, file_result, disk, quicVars>>

\* Lines 576-589: forget any earlier transfer, release file_mutex_.
ArmReset ==
  /\ rpc = "arm_reset"
  /\ rpc' = IF Prompt THEN "offer_wait" ELSE "final_wait"
  /\ rx' = FreshRx(rx.path)
  /\ offer_ready' = FALSE
  /\ file_done' = FALSE
  /\ file_ok' = FALSE
  /\ file_result' = NoResult
  /\ UNCHANGED <<receiving_file, offered, answer, recv_result, blocked, callbackVars,
                 file_header, disk, quicVars>>

\* receive_file returns; result is "true" or "false".
Return(result) ==
  /\ rpc' = "returned"
  /\ receiving_file' = FALSE
  /\ recv_result' = result

\* The wait of line 612 ends with a header: call on_offer, without the lock.
OfferArrived ==
  /\ rpc = "offer_wait" /\ offer_ready /\ ~file_done
  /\ rpc' = "prompt"
  /\ offered' = file_header
  /\ UNCHANGED <<receiving_file, answer, recv_result, waitVars, callbackVars, file_header,
                 rx, file_result, disk, quicVars>>

\* The wait ends because a callback reported failure.
OfferFailed ==
  /\ rpc = "offer_wait" /\ file_done
  /\ Return("false")
  /\ UNCHANGED <<offered, answer, waitVars, callbackVars, file_header, rx, file_result, disk,
                 quicVars>>

\* Mutant: the wait for a sender has no timeout.
OfferNeverExpires == FALSE

OfferTimeout ==
  /\ "recv_timeout" \in Faults
  /\ rpc = "offer_wait" /\ ~offer_ready /\ ~file_done
  /\ Return("false")
  /\ UNCHANGED <<offered, answer, waitVars, callbackVars, file_header, rx, file_result, disk,
                 quicVars>>

\* REJECT with a FIN on file_stream_; its status is not looked at.
SendReject ==
  \E ok \in SendOutcomes(ServerCanSend(file_stream)) :
    IF ok THEN ServerSends(file_stream, "REJECT", TRUE) ELSE UNCHANGED <<s2cVars, sSends>>

\* on_offer returns false.
PromptReject ==
  /\ rpc = "prompt"
  /\ rpc' = "reject_drain"
  /\ answer' = "reject"
  /\ SendReject
  /\ file_result' = [file_result EXCEPT !.rejected = TRUE, !.error = TRUE]
  /\ UNCHANGED <<receiving_file, offered, recv_result, waitVars, callbackVars, file_header, rx,
                 disk, connVars, c2sVars, streamVars, cSends>>

\* on_offer returns true: open the output under file_mutex_, which stays locked up
\* to the acceptance flag.  A failed open is answered with REJECT, and drained,
\* without releasing it.
PromptAccept ==
  /\ rpc = "prompt"
  /\ answer' = "accept"
  /\ \E opened \in OpenOutcomes(rx.path) :
       /\ rpc' = IF opened THEN "accept_flag" ELSE "reject_locked"
       /\ rx' = OpenedRx(rx, opened)
       /\ disk' = OpenedDisk(rx, opened)
       /\ file_result' = OpenedResult(opened)
       /\ IF opened THEN UNCHANGED <<s2cVars, sSends>> ELSE SendReject
  /\ UNCHANGED <<receiving_file, offered, recv_result, waitVars, callbackVars, file_header,
                 connVars, c2sVars, streamVars, cSends>>

\* Line 651: the flag is set, whatever a new stream has reset since the open.
MarkAccepted ==
  /\ rpc = "accept_flag"
  /\ rpc' = "accept_send"
  /\ rx' = [rx EXCEPT !.accepted = TRUE]
  /\ UNCHANGED <<receiving_file, offered, answer, recv_result, waitVars, callbackVars,
                 file_header, file_result, disk, quicVars>>

\* Line 654: ACCEPT on file_stream_; its status is not looked at either.
SendAccept ==
  /\ rpc = "accept_send"
  /\ rpc' = "final_wait"
  /\ \E ok \in SendOutcomes(ServerCanSend(file_stream)) :
       IF ok THEN ServerSends(file_stream, "ACCEPT", FALSE) ELSE UNCHANGED <<s2cVars, sSends>>
  /\ UNCHANGED <<receiving_file, offered, answer, recv_result, waitVars, callbackVars,
                 file_header, rx, file_result, disk, connVars, c2sVars, streamVars, cSends>>

\* Mutant: receive_file looks at file_done_ only.
DoneIsOk == file_done

TransferOk == file_done /\ file_ok

\* The wait of line 659 ends well.
TransferFinished ==
  /\ rpc = "final_wait" /\ TransferOk
  /\ rpc' = "ok_drain"
  /\ UNCHANGED <<receiving_file, offered, answer, recv_result, waitVars, callbackVars,
                 file_header, rx, file_result, disk, quicVars>>

\* It ends with a failure, or expires.
TransferFailed ==
  /\ rpc = "final_wait"
  /\ \/ file_done /\ ~file_ok
     \/ ~file_done /\ "recv_timeout" \in Faults
  /\ Return("false")
  /\ rx' = CloseFile(rx)
  /\ UNCHANGED <<offered, answer, waitVars, callbackVars, file_header, file_result, disk,
                 quicVars>>

\* Mutant: drain_connection does not wait.
NotDrained == TRUE

\* drain_connection: the client closed its connection, or 2 s are over.
Drained == client_connection = None \/ "drain_timeout" \in Faults

DrainAfterReject ==
  /\ rpc \in {"reject_drain", "reject_locked"} /\ Drained
  /\ Return("false")
  /\ UNCHANGED <<offered, answer, waitVars, callbackVars, file_header, rx, file_result, disk,
                 quicVars>>

DrainAfterTransfer ==
  /\ rpc = "ok_drain" /\ Drained
  /\ Return("true")
  /\ UNCHANGED <<offered, answer, waitVars, callbackVars, file_header, rx, file_result, disk,
                 quicVars>>

-----------------------------------------------------------------------------
\* stop(), which every caller runs after receive_file: shut down the connection
\* it knows of and close the listener.
Stop ==
  /\ rpc = "returned"
  /\ rpc' = "stopping"
  /\ listening' = FALSE
  /\ sConn' = [c \in Clients |->
                 IF c = client_connection /\ sConn[c] = "connected"
                 THEN "shutdown" ELSE sConn[c]]
  /\ UNCHANGED <<receiving_file, offered, answer, recv_result, waitVars, callbackVars,
                 file_header, rx, file_result, disk, lost, cConn, c2sVars, s2cVars,
                 streamVars, sendVars>>

\* RegistrationClose returns once every connection has been closed.
StopReturns ==
  /\ rpc = "stopping"
  /\ \A c \in Clients : sConn[c] \in {"none", "closed"}
  /\ rpc' = "stopped"
  /\ UNCHANGED <<receiving_file, offered, answer, recv_result, waitVars, callbackVars,
                 file_header, rx, file_result, disk, quicVars>>

-----------------------------------------------------------------------------
ServerCallback(c) ==
  \/ on_new_connection(c)
  \/ on_connected(c)
  \/ on_connection_shutdown_complete(c)
  \/ on_peer_stream_started(c)
  \/ on_receive(c)
  \/ on_peer_send_shutdown(c)
  \/ on_send_complete(c)
  \/ on_peer_aborted(c)
  \/ on_stream_shutdown_complete(c)
  \/ EnterFileMutex(c)

ServerThread ==
  \/ ArmReceiving \/ ArmPath \/ ArmOffer \/ ArmReset
  \/ OfferArrived \/ OfferFailed \/ OfferTimeout
  \/ PromptReject \/ PromptAccept \/ MarkAccepted \/ SendAccept
  \/ TransferFinished \/ TransferFailed
  \/ DrainAfterReject \/ DrainAfterTransfer
  \/ Stop \/ StopReturns
=============================================================================
