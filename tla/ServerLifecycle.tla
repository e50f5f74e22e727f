--------------------------- MODULE ServerLifecycle ---------------------------
(***************************************************************************)
(* The life of a QuicServer object (src/transfer/quic_server.cpp): one     *)
(* thread starts and stops it, again and again, while msquic's workers run *)
(* the callbacks of the listener and of every connection.  QuicServer      *)
(* models receive_file, which comes between the two; here it is about the  *)
(* handles: which are open, and which connection client_connection_ names. *)
(*                                                                         *)
(* A start() that fails goes on with stop(), at the point the code calls   *)
(* it; stop() is split where callbacks can come between.                   *)
(***************************************************************************)
EXTENDS Naturals, FiniteSets

CONSTANTS
  Clients,    \* the peers that connect
  NoClient    \* the null connection handle

ASSUME ClientsAssumption == NoClient \notin Clients

VARIABLES
  spc,                                      \* where start() or stop() is
  api, registration, configuration, listener,   \* is the handle member set?
  live,                                     \* library handles that are open
  server_running,                           \* running_
  client_connection,
  held,                                     \* stop()'s copy of client_connection_
  conn,                                     \* msquic's connections
  newest,                                   \* the one that was established last
  worker                                    \* how far a connection's callback is

memberVars == <<api, registration, configuration, listener, server_running>>
clientVars == <<client_connection, conn, newest, worker>>
serverVars == <<spc, memberVars, live, held, clientVars>>

StartStates == {"open_registration", "open_configuration", "open_listener"}
StopStates == {"read_client", "shutdown_client", "close_listener", "close_configuration",
               "close_registration", "close_api"}

ServerTypeOK ==
  /\ spc \in {"stopped", "running"} \cup StartStates \cup StopStates
  /\ {api, registration, configuration, listener, server_running} \subseteq BOOLEAN
  /\ live \subseteq {"api", "registration", "configuration", "listener"}
  /\ {client_connection, held, newest} \subseteq Clients \cup {NoClient}
  /\ conn \in [Clients -> {"none", "handshake", "connected", "shutdown", "closed"}]
  /\ worker \in [Clients -> {"free", "closed"}]

ServerInit ==
  /\ spc = "stopped"
  /\ api = FALSE /\ registration = FALSE /\ configuration = FALSE /\ listener = FALSE
  /\ live = {}
  /\ server_running = FALSE
  /\ client_connection = NoClient /\ held = NoClient /\ newest = NoClient
  /\ conn = [c \in Clients |-> "none"]
  /\ worker = [c \in Clients |-> "free"]

Goes(from, to) == spc = from /\ spc' = to

-----------------------------------------------------------------------------
(* start.                                                                  *)

start ==
  /\ \/ /\ Goes("stopped", "open_registration")
        /\ api' = TRUE
        /\ live' = live \cup {"api"}
     \/ /\ Goes("stopped", "stopped")
        /\ UNCHANGED <<api, live>>
  /\ UNCHANGED <<registration, configuration, listener, server_running, held,
                 clientVars>>

OpenRegistration ==
  /\ \/ /\ Goes("open_registration", "open_configuration")
        /\ registration' = TRUE
        /\ live' = live \cup {"registration"}
     \/ /\ Goes("open_registration", "read_client")
        /\ UNCHANGED <<registration, live>>
  /\ UNCHANGED <<api, configuration, listener, server_running, held, clientVars>>

\* open_configuration: no certificate, no configuration, or credentials that
\* cannot be loaded (the configuration is closed again).
open_configuration ==
  /\ \/ /\ Goes("open_configuration", "open_listener")
        /\ configuration' = TRUE
        /\ live' = live \cup {"configuration"}
     \/ /\ Goes("open_configuration", "read_client")
        /\ UNCHANGED <<configuration, live>>
  /\ UNCHANGED <<api, registration, listener, server_running, held, clientVars>>

\* Mutant: a listener that cannot be started is not closed again.
ListenerDropped(started) ==
  /\ listener' = started
  /\ live' = live \cup {"listener"}

\* A bad bind address and a failed ListenerStart close the listener again.
ListenerStart(started) ==
  /\ listener' = started
  /\ live' = IF started THEN live \cup {"listener"} ELSE live

open_listener ==
  /\ \/ Goes("open_listener", "running") /\ ListenerStart(TRUE) /\ server_running' = TRUE
     \/ /\ Goes("open_listener", "read_client")
        /\ ListenerStart(FALSE)
        /\ UNCHANGED server_running
     \/ /\ Goes("open_listener", "read_client")
        /\ UNCHANGED <<listener, live, server_running>>
  /\ UNCHANGED <<api, registration, configuration, held, clientVars>>

-----------------------------------------------------------------------------
(* stop, also called by the destructor (which then finds nothing to do).   *)

stop ==
  /\ Goes("running", "read_client")
  /\ UNCHANGED <<memberVars, live, held, clientVars>>

\* Lines 504-508, under conn_mutex_.
ReadClient ==
  /\ \/ client_connection # NoClient /\ Goes("read_client", "shutdown_client")
     \/ client_connection = NoClient /\ Goes("read_client", "close_listener")
  /\ held' = client_connection
  /\ UNCHANGED <<memberVars, live, clientVars>>

\* Line 510, after the lock has been given back: SHUTDOWN_COMPLETE may have closed
\* the handle in the meantime.
ShutdownClient ==
  /\ Goes("shutdown_client", "close_listener")
  /\ conn' = [conn EXCEPT ![held] = IF @ = "closed" THEN @ ELSE "shutdown"]
  /\ held' = NoClient
  /\ UNCHANGED <<memberVars, live, client_connection, newest, worker>>

\* ListenerStop and ListenerClose.
CloseListener ==
  /\ Goes("close_listener", "close_configuration")
  /\ live' = live \ IF listener THEN {"listener"} ELSE {}
  /\ listener' = FALSE
  /\ UNCHANGED <<api, registration, configuration, server_running, held, clientVars>>

CloseConfiguration ==
  /\ Goes("close_configuration", "close_registration")
  /\ live' = live \ IF configuration THEN {"configuration"} ELSE {}
  /\ configuration' = FALSE
  /\ UNCHANGED <<api, registration, listener, server_running, held, clientVars>>

AllClosed ==
  \A c \in Clients : worker[c] = "free" /\ conn[c] \in {"none", "closed"}

\* Mutant: RegistrationClose does not wait.
ClosesAtOnce == TRUE

\* It returns when every connection has been closed and its last callback is over.
RegistrationCloses == registration => AllClosed

CloseRegistration ==
  /\ RegistrationCloses
  /\ Goes("close_registration", "close_api")
  /\ live' = live \ IF registration THEN {"registration"} ELSE {}
  /\ registration' = FALSE
  /\ UNCHANGED <<api, configuration, listener, server_running, held, clientVars>>

\* A new object starts afresh: what happened to this one is forgotten.
CloseApi ==
  /\ Goes("close_api", "stopped")
  /\ live' = live \ {"api"}
  /\ api' = FALSE /\ server_running' = FALSE
  /\ newest' = NoClient
  /\ conn' = [c \in Clients |-> "none"]
  /\ UNCHANGED <<registration, configuration, listener, held, client_connection, worker>>

-----------------------------------------------------------------------------
(* Callbacks of the listener and the connections, and what the peers do.   *)

threadVars == <<spc, memberVars, live, held>>

\* NEW_CONNECTION: the handshake goes on with the server's configuration.  The
\* handle of a closed connection is not given out again while stop() holds it.
OnNewConnection(c) ==
  /\ "listener" \in live
  /\ conn[c] \in {"none", "closed"} /\ worker[c] = "free" /\ held # c
  /\ conn' = [conn EXCEPT ![c] = "handshake"]
  /\ UNCHANGED <<threadVars, client_connection, newest, worker>>

\* CONNECTED.
OnConnected(c) ==
  /\ conn[c] = "handshake"
  /\ conn' = [conn EXCEPT ![c] = "connected"]
  /\ client_connection' = c
  /\ newest' = c
  /\ UNCHANGED <<threadVars, worker>>

\* The client disconnects or falls silent, or the handshake fails.
ClientLeaves(c) ==
  /\ conn[c] \in {"handshake", "connected"}
  /\ conn' = [conn EXCEPT ![c] = "shutdown"]
  /\ UNCHANGED <<threadVars, client_connection, newest, worker>>

\* SHUTDOWN_COMPLETE: close the handle, ...
OnShutdownComplete(c) ==
  /\ conn[c] = "shutdown" /\ worker[c] = "free"
  /\ conn' = [conn EXCEPT ![c] = "closed"]
  /\ worker' = [worker EXCEPT ![c] = "closed"]
  /\ UNCHANGED <<threadVars, client_connection, newest>>

\* Mutant: client_connection_ is cleared whichever connection it names.
ForgetsAny(c) == NoClient

Forgets(c) == IF client_connection = c THEN NoClient ELSE client_connection

\* ... and forget the connection, under conn_mutex_.
ForgetConnection(c) ==
  /\ worker[c] = "closed"
  /\ worker' = [worker EXCEPT ![c] = "free"]
  /\ client_connection' = Forgets(c)
  /\ UNCHANGED <<threadVars, conn, newest>>

-----------------------------------------------------------------------------
StopStep ==
  \/ ReadClient \/ ShutdownClient \/ CloseListener \/ CloseConfiguration
  \/ CloseRegistration \/ CloseApi

StartStep == OpenRegistration \/ open_configuration \/ open_listener

ConnectionCallback(c) == OnConnected(c) \/ OnShutdownComplete(c) \/ ForgetConnection(c)

-----------------------------------------------------------------------------
(* Properties.                                                             *)

\* Whichever acquisition of start() failed, and whatever the callbacks did while
\* stop() went on, afterwards every handle the library gave has been closed, the
\* members are null, and no callback is still at work on the object.
ServerLeavesNothing ==
  spc = "stopped" =>
    /\ live = {} /\ AllClosed
    /\ ~api /\ ~registration /\ ~configuration /\ ~listener /\ ~server_running
    /\ client_connection = NoClient

\* Every handle is closed before the one it was opened from, a handshake finds
\* the configuration open as long as the listener is, and api_ outlives the
\* callbacks that close connections through it.
ServerClosedInOrder ==
  /\ "listener" \in live => "configuration" \in live
  /\ "configuration" \in live => "registration" \in live
  /\ "registration" \in live => "api" \in live
  /\ ~AllClosed => api /\ registration

\* client_connection_ names a connection that is open, or one whose
\* SHUTDOWN_COMPLETE is not over; and while the connection established last is
\* up, it is the one client_connection_ names (stop() and the drain of
\* receive_file rely on both).
ClientIsKnown ==
  /\ client_connection # NoClient =>
       conn[client_connection] # "closed" \/ worker[client_connection] # "free"
  /\ newest # NoClient /\ conn[newest] = "connected" => client_connection = newest
=============================================================================
