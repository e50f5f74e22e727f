--------------------------- MODULE ReceiverProofs ---------------------------
(***************************************************************************)
(* Theorems about Receiver, for any set of clients and of service names.   *)
(***************************************************************************)
EXTENDS Receiver, SequenceTheorems, FunctionTheorems, FiniteSetTheorems, TLAPS

-----------------------------------------------------------------------------
(* The handles of the server.                                              *)

HandleTypes ==
  /\ spc \in {"stopped", "running"} \cup StartStates \cup StopStates
  /\ api \in BOOLEAN /\ registration \in BOOLEAN /\ configuration \in BOOLEAN
  /\ listener \in BOOLEAN /\ server_running \in BOOLEAN
  /\ live \subseteq {"api", "registration", "configuration", "listener"}

\* A member is set exactly when the library holds the handle open.
MembersAreLive ==
  /\ "api" \in live <=> api
  /\ "registration" \in live <=> registration
  /\ "configuration" \in live <=> configuration
  /\ "listener" \in live <=> listener

\* What start() has opened, and stop() closed, when.
Stages ==
  /\ api <=> spc # "stopped"
  /\ configuration => registration
  /\ listener => configuration
  /\ spc \in {"stopped", "open_registration", "close_api"} => ~registration
  /\ spc \in {"open_configuration", "open_listener", "running"} => registration
  /\ spc \in {"stopped", "close_registration", "close_api", "open_registration",
              "open_configuration"} => ~configuration
  /\ spc \in {"open_listener", "running"} => configuration
  /\ spc \in {"stopped", "close_configuration", "close_registration", "close_api"}
             \cup StartStates => ~listener
  /\ spc = "running" => listener
  /\ spc \in {"stopped"} \cup StartStates => ~server_running

HandleInv == HandleTypes /\ MembersAreLive /\ Stages

\* The connections: none without a registration, and client_connection_ names one
\* that has been connected and not forgotten.
ConnectionInv ==
  /\ client_connection \in Clients \cup {NoClient}
  /\ newest \in Clients \cup {NoClient}
  /\ held \in Clients \cup {NoClient}
  /\ conn \in [Clients -> {"none", "handshake", "connected", "shutdown", "closed"}]
  /\ worker \in [Clients -> {"free", "closed"}]
  /\ held # NoClient <=> spc = "shutdown_client"
  /\ spc = "shutdown_client" => registration
  /\ ~registration => AllClosed
  /\ \A c \in Clients : worker[c] = "closed" => conn[c] = "closed"
  /\ client_connection # NoClient =>
       /\ conn[client_connection] \in {"connected", "shutdown", "closed"}
       /\ conn[client_connection] = "closed" => worker[client_connection] = "closed"
  /\ newest # NoClient /\ conn[newest] = "connected" => client_connection = newest

ServerInv == HandleInv /\ ConnectionInv

\* Nothing names a connection once all are closed.
LEMMA NothingNamed ==
  ASSUME ConnectionInv, AllClosed
  PROVE  client_connection = NoClient
BY ClientsAssumption DEF ConnectionInv, AllClosed

\* start() keeps the invariant.
LEMMA StartKeepsServerInv ==
  ASSUME ServerInv, start \/ StartStep
  PROVE  ServerInv'
<1> USE DEF ServerInv
<1>1. UNCHANGED <<held, clientVars>>
  BY DEF StartStep, start, OpenRegistration, open_configuration, open_listener
<1>2. HandleInv'
  <2> USE DEF HandleInv, HandleTypes, MembersAreLive, Stages, Goes, StartStates, StopStates
  <2>1. CASE start
    <3>1. HandleTypes'
      BY <2>1 DEF start
    <3>2. MembersAreLive'
      BY <2>1 DEF start
    <3>3. Stages'
      BY <2>1 DEF start
    <3> QED
      BY <3>1, <3>2, <3>3
  <2>2. CASE OpenRegistration
    <3>1. HandleTypes'
      BY <2>2 DEF OpenRegistration
    <3>2. MembersAreLive'
      BY <2>2 DEF OpenRegistration
    <3>3. Stages'
      BY <2>2 DEF OpenRegistration
    <3> QED
      BY <3>1, <3>2, <3>3
  <2>3. CASE open_configuration
    <3>1. HandleTypes'
      BY <2>3 DEF open_configuration
    <3>2. MembersAreLive'
      BY <2>3 DEF open_configuration
    <3>3. Stages'
      BY <2>3 DEF open_configuration
    <3> QED
      BY <3>1, <3>2, <3>3
  <2>4. CASE open_listener
    <3>1. HandleTypes'
      BY <2>4 DEF open_listener, ListenerStart
    <3>2. MembersAreLive'
      BY <2>4 DEF open_listener, ListenerStart
    <3>3. Stages'
      BY <2>4 DEF open_listener, ListenerStart
    <3> QED
      BY <3>1, <3>2, <3>3
  <2> QED
    BY <2>1, <2>2, <2>3, <2>4 DEF StartStep
<1>3. /\ registration => registration'
      /\ spc # "shutdown_client" /\ spc' # "shutdown_client"
  BY DEF StartStep, start, OpenRegistration, open_configuration, open_listener, Goes,
         HandleInv, HandleTypes, StartStates
<1>4. ConnectionInv'
  BY <1>1, <1>3 DEF ConnectionInv, AllClosed, clientVars
<1> QED
  BY <1>2, <1>4

\* So does stop(), whose RegistrationClose waits for the connections.
LEMMA StopKeepsServerInv ==
  ASSUME ServerInv, stop \/ StopStep
  PROVE  ServerInv'
<1> USE DEF ServerInv
<1>1. HandleInv'
  <2> USE DEF HandleInv, HandleTypes, MembersAreLive, Stages, Goes, StartStates, StopStates
  <2>1. CASE stop
    BY <2>1 DEF stop, memberVars
  <2>2. CASE ReadClient
    BY <2>2 DEF ReadClient, memberVars
  <2>3. CASE ShutdownClient
    BY <2>3 DEF ShutdownClient, memberVars
  <2>4. CASE CloseListener
    BY <2>4 DEF CloseListener
  <2>5. CASE CloseConfiguration
    BY <2>5 DEF CloseConfiguration
  <2>6. CASE CloseRegistration
    BY <2>6 DEF CloseRegistration
  <2>7. CASE CloseApi
    BY <2>7 DEF CloseApi
  <2> QED
    BY <2>1, <2>2, <2>3, <2>4, <2>5, <2>6, <2>7 DEF StopStep
<1>2. ConnectionInv'
  <2>1. CASE stop
    BY <2>1 DEF stop, Goes, ConnectionInv, AllClosed, memberVars, clientVars
  <2>2. CASE ReadClient
    <3>1. client_connection # NoClient => registration
      BY NothingNamed DEF ConnectionInv
    <3> QED
      BY <2>2, <3>1 DEF ReadClient, Goes, ConnectionInv, AllClosed, memberVars, clientVars
  <2>3. CASE ShutdownClient
    <3>1. held \in Clients /\ registration
      BY <2>3 DEF ShutdownClient, Goes, ConnectionInv
    <3> QED
      BY <2>3, <3>1, ClientsAssumption
         DEF ShutdownClient, Goes, ConnectionInv, AllClosed, memberVars
  <2>4. CASE CloseListener
    BY <2>4 DEF CloseListener, Goes, ConnectionInv, AllClosed, clientVars
  <2>5. CASE CloseConfiguration
    BY <2>5 DEF CloseConfiguration, Goes, ConnectionInv, AllClosed, clientVars
  <2>6. CASE CloseRegistration
    BY <2>6 DEF CloseRegistration, RegistrationCloses, Goes, ConnectionInv, AllClosed,
                clientVars
  <2>7. CASE CloseApi
    <3>1. AllClosed /\ ~registration
      BY <2>7 DEF CloseApi, Goes, HandleInv, Stages, ConnectionInv
    <3>2. client_connection = NoClient
      BY <3>1, NothingNamed
    <3> QED
      BY <2>7, <3>1, <3>2 DEF CloseApi, Goes, ConnectionInv, AllClosed
  <2> QED
    BY <2>1, <2>2, <2>3, <2>4, <2>5, <2>6, <2>7 DEF StopStep
<1> QED
  BY <1>1, <1>2

\* And so do the callbacks and the clients, at any point of start() and stop().
LEMMA CallbacksKeepServerInv ==
  ASSUME ServerInv, NEW c \in Clients,
         OnNewConnection(c) \/ ClientLeaves(c) \/ ConnectionCallback(c)
  PROVE  ServerInv'
<1> USE DEF ServerInv
<1>1. UNCHANGED threadVars
  BY DEF OnNewConnection, ClientLeaves, ConnectionCallback, OnConnected,
         OnShutdownComplete, ForgetConnection
<1>2. HandleInv'
  BY <1>1 DEF HandleInv, HandleTypes, MembersAreLive, Stages, threadVars, memberVars
<1>3. registration
  <2>1. CASE OnNewConnection(c)
    BY <2>1 DEF OnNewConnection, HandleInv, MembersAreLive, Stages
  <2>2. CASE ClientLeaves(c) \/ ConnectionCallback(c)
    <3>1. ~AllClosed
      BY <2>2 DEF ClientLeaves, ConnectionCallback, OnConnected, OnShutdownComplete,
                  ForgetConnection, AllClosed, ConnectionInv
    <3> QED
      BY <3>1 DEF ConnectionInv
  <2> QED
    BY <2>1, <2>2
<1>4. spc' = spc /\ held' = held /\ registration'
  BY <1>1, <1>3 DEF threadVars, memberVars
<1>5. ConnectionInv'
  <2> USE <1>4, ClientsAssumption DEF ConnectionInv
  <2>1. CASE OnNewConnection(c)
    BY <2>1 DEF OnNewConnection
  <2>2. CASE OnConnected(c)
    BY <2>2 DEF OnConnected
  <2>3. CASE ClientLeaves(c)
    BY <2>3 DEF ClientLeaves
  <2>4. CASE OnShutdownComplete(c)
    BY <2>4 DEF OnShutdownComplete
  <2>5. CASE ForgetConnection(c)
    BY <2>5 DEF ForgetConnection, Forgets
  <2> QED
    BY <2>1, <2>2, <2>3, <2>4, <2>5 DEF ConnectionCallback
<1> QED
  BY <1>2, <1>5

\* A server that was not started has nothing open.
LEMMA ServerInvInit == ServerInit => ServerInv
BY ClientsAssumption
   DEF ServerInit, ServerInv, HandleInv, HandleTypes, MembersAreLive, Stages, StartStates,
       StopStates, ConnectionInv, AllClosed

\* What happens outside the server does not disturb it.
LEMMA ServerInvStutter == ServerInv /\ UNCHANGED serverVars => ServerInv'
BY DEF serverVars, memberVars, clientVars, ServerInv, HandleInv, HandleTypes,
       MembersAreLive, Stages, ConnectionInv, AllClosed

-----------------------------------------------------------------------------
(* The advertiser and its thread.                                          *)

AdvertiserInv ==
  /\ adv_running \in BOOLEAN /\ ref \in BOOLEAN /\ responder_lost \in BOOLEAN
  /\ thread \in {"none", "waiting", "ended"}
  /\ pending \in {"nothing", "reply", "error"}
  /\ registered \in {MyName, NoName}
  /\ registered # NoName => ref
  /\ pending = "error" => responder_lost
  /\ adv_running => thread = "waiting" \/ responder_lost

\* Where run_recv is, and what has been started by then.
Phases ==
  /\ at \in {"off", "starting", "advertise", "receiving", "stopping", "leaving", "join",
             "deregister"}
  /\ at \in {"off", "leaving", "join", "deregister"} => spc = "stopped"
  /\ at \in {"advertise", "receiving"} => spc = "running"
  /\ at \in {"off", "starting", "advertise"} =>
       ~ref /\ ~adv_running /\ thread = "none" /\ registered = NoName
  /\ at \in {"join", "deregister"} => ~adv_running
  /\ at = "deregister" => thread = "none"

IInv == ServerInv /\ AdvertiserInv /\ Phases

\* Before run_recv starts there is no server, no thread and no registration.
LEMMA InitIInv == Init => IInv
BY ServerInvInit DEF Init, ServerInit, DiscoveryInit, IInv, AdvertiserInv, Phases

\* Every step keeps the invariant: the thread's, the callbacks', the LAN's.
LEMMA StepIInv == IInv /\ [Next]_vars => IInv'
<1> SUFFICES ASSUME IInv, [Next]_vars
             PROVE  IInv'
  OBVIOUS
<1> USE DEF IInv
<1>1. CASE StartServer
  <2>1. ServerInv'
    BY <1>1, StartKeepsServerInv DEF StartServer
  <2>2. AdvertiserInv' /\ Phases'
    BY <1>1 DEF StartServer, Proceeds, AdvertiserInv, Phases, discoveryVars, advertiserVars
  <2> QED
    BY <2>1, <2>2
<1>2. CASE ServerStarted
  <2>1. ServerInv'
    BY <1>2, ServerInvStutter DEF ServerStarted
  <2>2. AdvertiserInv' /\ Phases'
    BY <1>2 DEF ServerStarted, StartSucceeded, Proceeds, AdvertiserInv, Phases, serverVars,
                discoveryVars, advertiserVars
  <2> QED
    BY <2>1, <2>2
<1>3. CASE Advertise
  <2>1. ServerInv'
    BY <1>3, ServerInvStutter DEF Advertise
  <2>2. spc' = spc
    BY <1>3 DEF Advertise, serverVars
  <2>3. AdvertiserInv'
    <3>1. UNCHANGED <<pending, registered>> /\ ~adv_running /\ ~ref /\ registered = NoName
      BY <1>3 DEF Advertise, AdvertiserStart, Proceeds, Phases
    <3>2. \/ ref' /\ adv_running' /\ thread' = "waiting" /\ responder_lost' = responder_lost
          \/ ref' /\ adv_running' /\ thread' = "ended" /\ responder_lost'
          \/ UNCHANGED <<ref, adv_running, thread, responder_lost>>
      BY <1>3 DEF Advertise, AdvertiserStart
    <3>3. ref' \in BOOLEAN /\ adv_running' \in BOOLEAN /\ responder_lost' \in BOOLEAN
      BY <1>3 DEF Advertise, AdvertiserStart, AdvertiserInv
    <3> QED
      BY <3>1, <3>2, <3>3 DEF AdvertiserInv
  <2>4. Phases'
    BY <1>3, <2>2 DEF Advertise, Proceeds, Phases
  <2> QED
    BY <2>1, <2>3, <2>4
<1>4. CASE StopServer
  <2>1. ServerInv'
    BY <1>4, StopKeepsServerInv DEF StopServer
  <2>2. AdvertiserInv' /\ Phases'
    BY <1>4 DEF StopServer, Proceeds, AdvertiserInv, Phases, discoveryVars, advertiserVars
  <2> QED
    BY <2>1, <2>2
<1>5. CASE ServerStopped
  <2>1. ServerInv'
    BY <1>5, ServerInvStutter DEF ServerStopped
  <2>2. AdvertiserInv' /\ Phases'
    BY <1>5 DEF ServerStopped, Proceeds, AdvertiserInv, Phases, serverVars, discoveryVars,
                advertiserVars
  <2> QED
    BY <2>1, <2>2
<1>6. CASE LeaveLan
  <2>1. ServerInv'
    BY <1>6, ServerInvStutter DEF LeaveLan
  <2>2. spc' = spc
    BY <1>6 DEF LeaveLan, serverVars
  <2>3. CASE Proceeds("leaving", "join") /\ ClearRunning
    BY <2>1, <2>2, <2>3 DEF ClearRunning, Proceeds, AdvertiserInv, Phases
  <2>4. CASE Proceeds("join", "deregister") /\ JoinThread
    BY <2>1, <2>2, <2>4 DEF JoinThread, Proceeds, AdvertiserInv, Phases
  <2>5. CASE Proceeds("deregister", "off") /\ Deregister
    BY <2>1, <2>2, <2>5 DEF Deregister, Proceeds, AdvertiserInv, Phases
  <2> QED
    BY <1>6, <2>3, <2>4, <2>5 DEF LeaveLan
<1>7. CASE ServerStep
  <2>1. ServerInv'
    BY <1>7, StartKeepsServerInv, StopKeepsServerInv DEF ServerStep
  <2>2. spc \notin {"stopped", "running"}
    BY <1>7 DEF ServerStep, StartStep, StopStep, OpenRegistration, open_configuration,
                open_listener, ReadClient, ShutdownClient, CloseListener,
                CloseConfiguration, CloseRegistration, CloseApi, Goes
  <2>3. AdvertiserInv' /\ Phases'
    BY <1>7, <2>2 DEF ServerStep, AdvertiserInv, Phases, discoveryVars, advertiserVars
  <2> QED
    BY <2>1, <2>3
<1>8. ASSUME NEW c \in Clients, ClientStep(c) \/ CallbackStep(c)
      PROVE  IInv'
  <2>1. ServerInv'
    BY <1>8, CallbacksKeepServerInv DEF ClientStep, CallbackStep
  <2>2. spc' = spc
    BY <1>8 DEF ClientStep, CallbackStep, OnNewConnection, ClientLeaves,
                ConnectionCallback, OnConnected, OnShutdownComplete, ForgetConnection,
                threadVars
  <2>3. AdvertiserInv' /\ Phases'
    BY <1>8, <2>2 DEF ClientStep, CallbackStep, AdvertiserInv, Phases, discoveryVars,
                      advertiserVars
  <2> QED
    BY <2>1, <2>3
<1>9. CASE AdvertiserThread
  <2>1. ServerInv'
    BY <1>9, ServerInvStutter DEF AdvertiserThread
  <2>2. AdvertiserInv' /\ Phases'
    BY <1>9 DEF AdvertiserThread, AdvertiserLoop, LoopEnds, AdvertiserInv, Phases, serverVars
  <2> QED
    BY <2>1, <2>2
<1>10. CASE LanStep
  <2>1. ServerInv'
    BY <1>10, ServerInvStutter DEF LanStep
  <2>2. spc' = spc /\ at' = at
    BY <1>10 DEF LanStep, serverVars
  <2>3. CASE Registers
    BY <2>1, <2>2, <2>3 DEF Registers, AdvertiserInv, Phases
  <2>4. CASE ResponderRestarts
    BY <2>1, <2>2, <2>4 DEF ResponderRestarts, AdvertiserInv, Phases
  <2>5. CASE CacheFollows
    BY <2>1, <2>2, <2>5 DEF CacheFollows, advertiserVars, AdvertiserInv, Phases
  <2> QED
    BY <1>10, <2>3, <2>4, <2>5 DEF LanStep, Lan
<1>11. CASE SenderStep
  <2>1. ServerInv'
    BY <1>11, ServerInvStutter DEF SenderStep
  <2>2. AdvertiserInv' /\ Phases'
    BY <1>11 DEF SenderStep, Browser, BrowserStep, StartSearch, OnBrowse, BrowseEnds,
                 resolve_service, SearchReturns, advertiserVars, AdvertiserInv, Phases,
                 serverVars
  <2> QED
    BY <2>1, <2>2
<1>12. CASE UNCHANGED vars
  BY <1>12, ServerInvStutter
     DEF vars, AdvertiserInv, Phases, serverVars, discoveryVars, advertiserVars
<1> QED
  BY <1>1, <1>2, <1>3, <1>4, <1>5, <1>6, <1>7, <1>8, <1>9, <1>10, <1>11, <1>12
     DEF Next, Thread

\* The invariant holds in every state of every run.
LEMMA SpecIInv == Spec => []IInv
BY InitIInv, StepIInv, PTL DEF Spec

\* Every handle that start() opened is closed by stop(), whichever acquisition
\* failed and whatever the callbacks did in between (quic_server.cpp, 459-537).
THEOREM LeavesNothing == Spec => []ServerLeavesNothing
<1>1. IInv => ServerLeavesNothing
  <2> SUFFICES ASSUME IInv, spc = "stopped"
               PROVE  /\ live = {} /\ AllClosed
                      /\ ~api /\ ~registration /\ ~configuration /\ ~listener
                      /\ ~server_running
                      /\ client_connection = NoClient
    BY DEF ServerLeavesNothing
  <2>1. /\ ~api /\ ~registration /\ ~configuration /\ ~listener /\ ~server_running
    BY DEF IInv, ServerInv, HandleInv, Stages
  <2>2. live = {}
    BY <2>1 DEF IInv, ServerInv, HandleInv, HandleTypes, MembersAreLive
  <2>3. AllClosed
    BY <2>1 DEF IInv, ServerInv, ConnectionInv
  <2> QED
    BY <2>1, <2>2, <2>3, NothingNamed DEF IInv, ServerInv
<1> QED
  BY <1>1, SpecIInv, PTL

\* A handle outlives those opened from it, and the callbacks that use it.
THEOREM ClosedInOrder == Spec => []ServerClosedInOrder
<1>1. IInv => ServerClosedInOrder
  BY DEF IInv, ServerInv, HandleInv, HandleTypes, MembersAreLive, Stages, StartStates,
         StopStates, ConnectionInv, ServerClosedInOrder
<1> QED
  BY <1>1, SpecIInv, PTL

\* client_connection_ never names a connection that is gone, and names the newest
\* one while that is up (quic_server.cpp, 114-117, 128-133).
THEOREM KnownClient == Spec => []ClientIsKnown
<1>1. IInv => ClientIsKnown
  BY DEF IInv, ServerInv, ConnectionInv, ClientIsKnown
<1> QED
  BY <1>1, SpecIInv, PTL

\* An announced receiver that waits for a file listens (main.cpp, run_recv).
THEOREM Listening == Spec => []AdvertisedWhileListening
<1>1. IInv => AdvertisedWhileListening
  BY DEF IInv, ServerInv, HandleInv, MembersAreLive, Stages, Phases, AdvertisedWhileListening
<1> QED
  BY <1>1, SpecIInv, PTL

\* The advertiser's thread ends early only for want of a responder (mdns.cpp, 214-235).
THEOREM Serviced == Spec => []ServicedWhileRunning
<1>1. IInv => ServicedWhileRunning
  BY DEF IInv, AdvertiserInv, ServicedWhileRunning
<1> QED
  BY <1>1, SpecIInv, PTL

\* A receiver that is done has closed its handles, joined its threads and left the
\* LAN (main.cpp, run_recv; the destructors of QuicServer and MdnsAdvertiser).
THEOREM GoneWithoutTrace == Spec => []ReceiverLeavesNothing
<1>1. IInv /\ ServerLeavesNothing => ReceiverLeavesNothing
  BY DEF IInv, Phases, ServerLeavesNothing, ReceiverLeavesNothing
<1> QED
  BY <1>1, SpecIInv, LeavesNothing, PTL

-----------------------------------------------------------------------------
(* The searches of a sender.                                               *)

Distinct(s) == \A i, j \in DOMAIN s : s[i] = s[j] => i = j

\* What a search records, resolves and returns: no name twice, and none but the
\* wanted one.
SearchInv ==
  /\ items \in Seq(Names) /\ unresolved \in Seq(Names) /\ peers \in Seq(Names)
  /\ Distinct(items) /\ Distinct(unresolved) /\ Distinct(peers)
  /\ Elements(unresolved) \cap Elements(peers) = {}
  /\ wanted # NoName => Elements(unresolved) \cup Elements(peers) \subseteq {wanted}
  /\ search \in {"idle", "browsing"} => unresolved = <<>> /\ peers = <<>>

\* An empty list repeats nothing.
LEMMA EmptyDistinct ==
  /\ <<>> \in Seq(Names) /\ Distinct(<<>>) /\ Elements(<<>>) = {}
  /\ DOMAIN <<>> = {}
<1>1. <<>> \in Seq(Names) /\ Len(<<>>) = 0
  BY EmptySeq
<1>2. DOMAIN <<>> = 1..0
  BY <1>1, LenProperties
<1> QED
  BY <1>1, <1>2 DEF Distinct, Elements

\* Nor does a list of one device.
LEMMA SingletonDistinct ==
  ASSUME NEW n \in Names
  PROVE  <<n>> \in Seq(Names) /\ Distinct(<<n>>) /\ Elements(<<n>>) = {n}
BY DEF Distinct, Elements

\* Nor does one that is extended by a device it has not.
LEMMA AppendDistinct ==
  ASSUME NEW s \in Seq(Names), Distinct(s), NEW n \in Names, n \notin Elements(s)
  PROVE  /\ Append(s, n) \in Seq(Names) /\ Distinct(Append(s, n))
         /\ Elements(Append(s, n)) = Elements(s) \cup {n}
<1>1. Len(s) \in Nat /\ DOMAIN s = 1..Len(s)
  BY LenProperties
<1>2. /\ Append(s, n) \in Seq(Names)
      /\ Len(Append(s, n)) = Len(s) + 1
      /\ \A i \in 1..Len(s) : Append(s, n)[i] = s[i]
      /\ Append(s, n)[Len(s) + 1] = n
  BY AppendProperties
<1>3. DOMAIN Append(s, n) = 1..(Len(s) + 1)
  BY <1>2, LenProperties
<1>4. \A i \in 1..(Len(s) + 1) : i \in 1..Len(s) \/ i = Len(s) + 1
  BY <1>1
<1>5. Distinct(Append(s, n))
  BY <1>1, <1>2, <1>3, <1>4 DEF Distinct, Elements
<1>6. Elements(Append(s, n)) = Elements(s) \cup {n}
  <2>1. Elements(Append(s, n)) \subseteq Elements(s) \cup {n}
    BY <1>1, <1>2, <1>3, <1>4 DEF Elements
  <2>2. Elements(s) \subseteq Elements(Append(s, n))
    <3>1. \A i \in 1..Len(s) : i \in 1..(Len(s) + 1) /\ s[i] = Append(s, n)[i]
      BY <1>1, <1>2
    <3> QED
      BY <1>1, <1>3, <3>1 DEF Elements
  <2>3. n \in Elements(Append(s, n))
    <3>1. Len(s) + 1 \in 1..(Len(s) + 1)
      BY <1>1
    <3> QED
      BY <1>2, <1>3, <3>1 DEF Elements
  <2> QED
    BY <2>1, <2>2, <2>3
<1> QED
  BY <1>2, <1>5, <1>6

\* Taking the first device off a list takes it out of the list.
LEMMA TailDistinct ==
  ASSUME NEW s \in Seq(Names), Distinct(s), s # <<>>
  PROVE  /\ Head(s) \in Elements(s) /\ Head(s) \in Names
         /\ Tail(s) \in Seq(Names) /\ Distinct(Tail(s))
         /\ Elements(Tail(s)) \subseteq Elements(s) \ {Head(s)}
<1>1. Len(s) \in Nat \ {0} /\ DOMAIN s = 1..Len(s)
  BY LenProperties, EmptySeq
<1>2. /\ Head(s) \in Names /\ Tail(s) \in Seq(Names)
      /\ Len(Tail(s)) = Len(s) - 1
      /\ \A i \in 1..Len(Tail(s)) : Tail(s)[i] = s[i + 1]
  BY HeadTailProperties
<1>3. DOMAIN Tail(s) = 1..(Len(s) - 1)
  BY <1>2, LenProperties
<1>4. Head(s) = s[1] /\ 1 \in 1..Len(s)
  BY <1>1
<1>5. \A i \in 1..(Len(s) - 1) : Tail(s)[i] = s[i + 1] /\ i + 1 \in 1..Len(s) /\ i + 1 # 1
  BY <1>1, <1>2
<1>6. Distinct(Tail(s))
  <2> SUFFICES ASSUME NEW i \in 1..(Len(s) - 1), NEW j \in 1..(Len(s) - 1),
                      Tail(s)[i] = Tail(s)[j]
               PROVE  i = j
    BY <1>3 DEF Distinct
  <2>1. i + 1 = j + 1
    BY <1>1, <1>5 DEF Distinct
  <2> QED
    BY <1>1, <2>1
<1>7. Elements(Tail(s)) \subseteq Elements(s) \ {Head(s)}
  BY <1>1, <1>3, <1>4, <1>5 DEF Elements, Distinct
<1>8. Head(s) \in Elements(s)
  BY <1>1, <1>4 DEF Elements
<1> QED
  BY <1>2, <1>6, <1>7, <1>8

\* What on_browse records stays free of repetitions.
LEMMA RecordedDistinct ==
  ASSUME items \in Seq(Names), Distinct(items), NEW n \in Names
  PROVE  Recorded(n) \in Seq(Names) /\ Distinct(Recorded(n))
BY AppendDistinct DEF Recorded

\* No step of a search repeats a device: on_browse skips what it knows, and
\* resolve_service moves a device from one list to the other.
LEMMA SearchStep ==
  ASSUME SearchInv, Browser
  PROVE  SearchInv'
<1> USE DEF SearchInv
<1>1. ASSUME NEW n \in Names \cup {NoName}, StartSearch(n)
      PROVE  SearchInv'
  BY <1>1, EmptyDistinct DEF StartSearch
<1>2. ASSUME NEW n \in Names, OnBrowse(n)
      PROVE  SearchInv'
  <2>1. /\ search = "browsing" /\ unresolved = <<>> /\ peers = <<>>
        /\ peers' = peers /\ wanted' = wanted
    BY <1>2 DEF OnBrowse
  <2>2. CASE items' = Recorded(n) /\ UNCHANGED <<search, unresolved>>
    BY <2>1, <2>2, RecordedDistinct, EmptyDistinct
  <2>3. CASE /\ search' = "resolving" /\ items' = <<>>
             /\ \E name \in Match(Recorded(n)) : wanted # NoName /\ unresolved' = <<name>>
    <3>1. PICK name \in Match(Recorded(n)) : unresolved' = <<name>>
      BY <2>3
    <3>2. name = wanted
      BY DEF Match
    <3>3. name \in Names
      <4>1. name \in Elements(Recorded(n)) /\ Recorded(n) \in Seq(Names)
        BY RecordedDistinct DEF Match
      <4>2. PICK i \in DOMAIN Recorded(n) : name = Recorded(n)[i]
        BY <4>1 DEF Elements
      <4> QED
        BY <4>1, <4>2, LenProperties, ElementOfSeq
    <3>4. /\ unresolved' \in Seq(Names) /\ Distinct(unresolved')
          /\ Elements(unresolved') = {wanted}
      BY <3>1, <3>2, <3>3, SingletonDistinct
    <3> QED
      BY <2>1, <2>3, <3>4, EmptyDistinct
  <2> QED
    BY <1>2, <2>2, <2>3 DEF OnBrowse
<1>3. CASE BrowseEnds
  BY <1>3, EmptyDistinct DEF BrowseEnds
<1>4. CASE resolve_service
  <2>1. /\ unresolved # <<>> /\ search = "resolving"
        /\ unresolved' = Tail(unresolved)
        /\ UNCHANGED <<search, wanted, items>>
        /\ peers' = Append(peers, Head(unresolved)) \/ peers' = peers
    BY <1>4 DEF resolve_service
  <2>2. /\ Head(unresolved) \in Elements(unresolved) /\ Head(unresolved) \in Names
        /\ unresolved' \in Seq(Names) /\ Distinct(unresolved')
        /\ Elements(unresolved') \subseteq Elements(unresolved) \ {Head(unresolved)}
    BY <2>1, TailDistinct
  <2>3. /\ peers' \in Seq(Names) /\ Distinct(peers')
        /\ Elements(peers') \subseteq Elements(peers) \cup {Head(unresolved)}
    BY <2>1, <2>2, AppendDistinct, ZenonT(60)
  <2>4. Elements(unresolved') \cap Elements(peers') = {}
    BY <2>2, <2>3
  <2>5. wanted' # NoName =>
          Elements(unresolved') \cup Elements(peers') \subseteq {wanted'}
    BY <2>1, <2>2, <2>3
  <2> QED
    BY <2>1, <2>2, <2>3, <2>4, <2>5 DEF Distinct, Elements
<1>5. CASE SearchReturns
  BY <1>5, EmptyDistinct DEF SearchReturns
<1> QED
  BY <1>1, <1>2, <1>3, <1>4, <1>5 DEF Browser, BrowserStep

\* What a search records, resolves and returns stays free of repetitions.
LEMMA SearchInvHolds == Spec => []SearchInv
<1>1. Init => SearchInv
  BY EmptyDistinct DEF Init, DiscoveryInit, SearchInv
<1>2. SearchInv /\ [Next]_vars => SearchInv'
  <2>1. ASSUME SearchInv, SenderStep
        PROVE  SearchInv'
    BY <2>1, SearchStep DEF SenderStep
  <2>2. ASSUME SearchInv, UNCHANGED browserVars
        PROVE  SearchInv'
    <3>1. /\ search' = search /\ wanted' = wanted
          /\ items' = items /\ unresolved' = unresolved /\ peers' = peers
      BY <2>2 DEF browserVars
    <3>2. Distinct(items') /\ Distinct(unresolved') /\ Distinct(peers')
      BY <2>2, <3>1 DEF SearchInv
    <3> QED
      BY <2>2, <3>1, <3>2 DEF SearchInv, Elements
  <2>3. ASSUME [Next]_vars, ~SenderStep
        PROVE  UNCHANGED browserVars
    BY <2>3 DEF Next, vars, Thread, StartServer, ServerStarted, Advertise, StopServer,
                ServerStopped, LeaveLan, ServerStep, ClientStep, CallbackStep,
                AdvertiserThread, LanStep, AdvertiserStart, ClearRunning, JoinThread,
                Deregister, AdvertiserLoop, Lan, Registers, ResponderRestarts,
                CacheFollows, discoveryVars
  <2> QED
    BY <2>1, <2>2, <2>3
<1> QED
  BY <1>1, <1>2, PTL DEF Spec

\* A search returns a device once, and find_by_name only the one it was asked for
\* (mdns.cpp, 93-116, 248-310).
THEOREM SearchIsExact == Spec => []SearchResults
<1>1. SearchInv => SearchResults
  BY DEF SearchInv, SearchResults, Distinct
<1> QED
  BY <1>1, SearchInvHolds, PTL

-----------------------------------------------------------------------------
(* Types.                                                                  *)

\* A list of different devices is no longer than the LAN has devices.
LEMMA DistinctIsShort ==
  ASSUME IsFiniteSet(Names), NEW s \in Seq(Names), Distinct(s)
  PROVE  s \in UNION {[1..k -> Names] : k \in 0..Cardinality(Names)}
<1>1. Len(s) \in Nat /\ s \in [1..Len(s) -> Names] /\ DOMAIN s = 1..Len(s)
  BY LenProperties
<1>2. s \in Injection(1..Len(s), Names)
  BY <1>1, Fun_IsInj DEF Distinct
<1>3. Cardinality(1..Len(s)) <= Cardinality(Names) /\ Cardinality(Names) \in Nat
  BY <1>2, FS_Injection, FS_CardinalityType
<1>4. Cardinality(1..Len(s)) = Len(s)
  BY <1>1, FS_Interval, SMTT(30)
<1> QED
  BY <1>1, <1>3, <1>4

\* What the search and the responder of a sender are made of.
BrowserTypes ==
  /\ cached \in BOOLEAN
  /\ search \in {"idle", "browsing", "resolving"}
  /\ wanted \in Names \cup {NoName}

\* They keep their types in every run.
LEMMA BrowserTypesHold == Spec => []BrowserTypes
<1>1. Init => BrowserTypes
  BY DEF Init, DiscoveryInit, BrowserTypes
<1>2. BrowserTypes /\ [Next]_vars => BrowserTypes'
  <2> SUFFICES ASSUME BrowserTypes, [Next]_vars PROVE BrowserTypes'
    OBVIOUS
  <2> USE DEF BrowserTypes
  <2>1. CASE SenderStep
    BY <2>1 DEF SenderStep, Browser, BrowserStep, StartSearch, OnBrowse, BrowseEnds,
                resolve_service, SearchReturns
  <2>2. CASE LanStep
    BY <2>2 DEF LanStep, Lan, Registers, ResponderRestarts, CacheFollows, browserVars
  <2>3. ASSUME ~SenderStep, ~LanStep PROVE UNCHANGED <<cached, search, wanted>>
    BY <2>3 DEF Next, vars, Thread, StartServer, ServerStarted, Advertise, StopServer,
                ServerStopped, LeaveLan, ServerStep, ClientStep, CallbackStep,
                AdvertiserThread, AdvertiserStart, ClearRunning, JoinThread,
                Deregister, AdvertiserLoop, discoveryVars, browserVars
  <2> QED
    BY <2>1, <2>2, <2>3
<1> QED
  BY <1>1, <1>2, PTL DEF Spec

\* Every member of the server, the advertiser and the browser keeps its type; the
\* browser's lists are as short as the LAN's list of devices.
THEOREM ReceiverTypeCorrect ==
  ASSUME IsFiniteSet(Names)
  PROVE  Spec => []TypeOK
<1>1. IInv /\ SearchInv /\ BrowserTypes => TypeOK
  <2> SUFFICES ASSUME IInv, SearchInv, BrowserTypes PROVE TypeOK
    OBVIOUS
  <2>1. ServerTypeOK
    <3>1. HandleTypes /\ ConnectionInv
      BY DEF IInv, ServerInv, HandleInv
    <3>2. {api, registration, configuration, listener, server_running} \subseteq BOOLEAN
      BY <3>1 DEF HandleTypes
    <3>3. {client_connection, held, newest} \subseteq Clients \cup {NoClient}
      BY <3>1 DEF ConnectionInv
    <3> QED
      BY <3>1, <3>2, <3>3 DEF HandleTypes, ConnectionInv, ServerTypeOK
  <2>2. DiscoveryTypeOK
    <3>1. {adv_running, ref, responder_lost, cached} \subseteq BOOLEAN
      BY DEF IInv, AdvertiserInv, BrowserTypes
    <3>2. {items, unresolved, peers} \subseteq UNION {[1..k -> Names] : k \in 0..Cardinality(Names)}
      BY DistinctIsShort DEF SearchInv
    <3> QED
      BY <3>1, <3>2 DEF IInv, AdvertiserInv, BrowserTypes, DiscoveryTypeOK
  <2>3. at \in {"off", "starting", "advertise", "receiving", "stopping", "leaving", "join",
                "deregister"}
    BY DEF IInv, Phases
  <2> QED
    BY <2>1, <2>2, <2>3 DEF TypeOK
<1> QED
  BY <1>1, SpecIInv, SearchInvHolds, BrowserTypesHold, PTL
=============================================================================
