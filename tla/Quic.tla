-------------------------------- MODULE Quic --------------------------------
(***************************************************************************)
(* The part of msquic that QuicServer and QuicClient rely on, modelled     *)
(* from how src/transfer uses it: for every client one connection and one  *)
(* bidirectional stream, seen from both ends.  Each end learns of the      *)
(* other's steps later, through the callbacks the endpoint modules define. *)
(*                                                                         *)
(* Bytes of one direction arrive in order and exactly once; a receive      *)
(* event delivers any non-empty prefix of what is under way.  A reset or a *)
(* connection close overtakes bytes that are still under way, and a        *)
(* connection whose link is lost, or that nobody uses for the 30 s of      *)
(* IdleTimeoutMs, is shut down by the transport at both ends.              *)
(***************************************************************************)
EXTENDS Protocol

CONSTANTS
  Clients,    \* the senders; each makes one connection with one stream
  Faults      \* what may go wrong: see FaultKinds

FaultKinds ==
  {"link",           \* a connection is lost
   "recv_timeout",   \* a wait of receive_file expires
   "drain_timeout",  \* the 2 s of drain_connection are over
   "send_timeout",   \* a wait of connect or send_file expires
   "open", "write",  \* the output file cannot be opened, read back, written
   "send",           \* StreamSend fails
   "edit"}           \* the file changes after it was hashed

ASSUME FaultsAssumption == Faults \subseteq FaultKinds

ASSUME ClientsAssumption == None \notin Clients

VARIABLES
  listening,  \* the server's listener is open
  lost,       \* clients whose link is down or timed out for inactivity
  cConn,      \* the client's end of the connection
  sConn,      \* the server's end
  cStream,    \* the client's stream handle
  sStream,    \* the server's stream handle
  c2s,        \* units under way to the server
  s2c,        \* reply fragments under way to the client
  cFin,       \* has the client's FIN been sent, seen by the server
  sFin,       \* has the server's FIN been sent, seen by the client
  reset,      \* has the client's stream abort been sent, seen by the server
  cSends,     \* StreamSend calls of the client without SEND_COMPLETE yet
  sSends      \* StreamSend calls of the server without SEND_COMPLETE yet

connVars   == <<listening, lost, cConn, sConn>>
c2sVars    == <<c2s, cFin, reset>>
s2cVars    == <<s2c, sFin>>
streamVars == <<cStream, sStream>>
sendVars   == <<cSends, sSends>>
quicVars   == <<connVars, c2sVars, s2cVars, streamVars, sendVars>>

ConnStates   == {"none", "handshake", "connected", "shutdown", "closed"}
StreamStates == {"none", "open", "closed"}
Signals      == {"no", "sent", "seen"}

QuicTypeOK ==
  /\ listening \in BOOLEAN
  /\ lost \subseteq Clients
  /\ cConn \in [Clients -> ConnStates]
  /\ sConn \in [Clients -> ConnStates]
  /\ cStream \in [Clients -> StreamStates]
  /\ sStream \in [Clients -> StreamStates]
  /\ c2s \in [Clients -> Seq(Units)]
  /\ s2c \in [Clients -> Seq(Fragments)]
  /\ cFin \in [Clients -> Signals]
  /\ sFin \in [Clients -> Signals]
  /\ reset \in [Clients -> Signals]
  /\ cSends \in [Clients -> Nat]
  /\ sSends \in [Clients -> Nat]

QuicInit ==
  /\ listening = TRUE
  /\ lost = {}
  /\ cConn = [c \in Clients |-> "none"]
  /\ sConn = [c \in Clients |-> "none"]
  /\ cStream = [c \in Clients |-> "none"]
  /\ sStream = [c \in Clients |-> "none"]
  /\ c2s = [c \in Clients |-> <<>>]
  /\ s2c = [c \in Clients |-> <<>>]
  /\ cFin = [c \in Clients |-> "no"]
  /\ sFin = [c \in Clients |-> "no"]
  /\ reset = [c \in Clients |-> "no"]
  /\ cSends = [c \in Clients |-> 0]
  /\ sSends = [c \in Clients |-> 0]

-----------------------------------------------------------------------------
\* Is the server's (the client's) end of the stream able to take a StreamSend?
\* On a closed handle, after a FIN or after the peer aborted it is not.
ServerCanSend(c) ==
  /\ sStream[c] = "open" /\ sConn[c] = "connected"
  /\ sFin[c] = "no" /\ reset[c] # "seen"

ClientCanSend(c) ==
  /\ cStream[c] = "open" /\ cConn[c] = "connected"
  /\ cFin[c] = "no" /\ reset[c] = "no"

\* A receive-side event of the stream can be delivered.
ServerHears(c) ==
  /\ sStream[c] = "open" /\ sConn[c] = "connected"
  /\ c \notin lost /\ reset[c] # "seen"

ClientHears(c) ==
  /\ cStream[c] = "open" /\ cConn[c] = "connected"
  /\ c \notin lost /\ reset[c] = "no"

\* A stream is finished (SHUTDOWN_COMPLETE) once every send of this end is
\* completed and both directions ended: by a FIN each, by the client's abort,
\* or because the connection goes away.
ServerStreamOver(c) ==
  /\ sStream[c] = "open" /\ sSends[c] = 0
  /\ \/ sConn[c] = "shutdown"
     \/ reset[c] = "seen"
     \/ cFin[c] = "seen" /\ sFin[c] = "seen"

ClientStreamOver(c) ==
  /\ cStream[c] = "open" /\ cSends[c] = 0
  /\ \/ cConn[c] = "shutdown"
     \/ reset[c] # "no"
     \/ cFin[c] # "no" /\ sFin[c] = "seen"

\* One successful StreamSend of the server, of the client.
ServerSends(c, word, fin) ==
  /\ s2c' = [s2c EXCEPT ![c] = @ \o ReplyText(word)]
  /\ sFin' = [sFin EXCEPT ![c] = IF fin THEN "sent" ELSE @]
  /\ sSends' = [sSends EXCEPT ![c] = @ + 1]

ClientSends(c, units, fin) ==
  /\ c2s' = [c2s EXCEPT ![c] = @ \o units]
  /\ cFin' = [cFin EXCEPT ![c] = IF fin THEN "sent" ELSE @]
  /\ cSends' = [cSends EXCEPT ![c] = @ + 1]

\* Mutant: a completed send is accounted for (and its buffer freed) twice.
CompletedTwice(sends) == sends - 2

\* SEND_COMPLETE ends one StreamSend and gives its buffer back.
Completed(sends) == sends - 1

\* Which of the outcomes success (TRUE) and failure (FALSE) a step can have.
\* An operation that may fail does so when its fault is among Faults.
Outcomes(fault) == IF fault \in Faults THEN BOOLEAN ELSE {TRUE}

SendOutcomes(can) == IF can THEN Outcomes("send") ELSE {FALSE}

-----------------------------------------------------------------------------
\* The link of c fails for good, or stays unused until the idle timeout.
LinkDown(c) ==
  /\ "link" \in Faults
  /\ cConn[c] \in {"handshake", "connected"}
  /\ c \notin lost
  /\ lost' = lost \cup {c}
  /\ UNCHANGED <<listening, cConn, sConn, c2sVars, s2cVars, streamVars, sendVars>>

\* The server's transport learns that the client closed or is unreachable.
\* QuicServer handles no event for it; what is under way is dropped.
ServerLearnsClose(c) ==
  /\ sConn[c] \in {"handshake", "connected"}
  /\ c \in lost \/ cConn[c] \in {"shutdown", "closed"}
  /\ sConn' = [sConn EXCEPT ![c] = "shutdown"]
  /\ UNCHANGED <<listening, lost, cConn, c2sVars, s2cVars, streamVars, sendVars>>
=============================================================================
