------------------------------ MODULE Receiver ------------------------------
(***************************************************************************)
(* A receiving process: run_recv of src/main.cpp, and RecvWorker::run of   *)
(* the desktop application.  Its thread starts a QuicServer, advertises    *)
(* it, receives one file, stops the server, and leaves the advertiser to   *)
(* its destructor.  Composes ServerLifecycle and Discovery; Transfer is    *)
(* about what happens in receive_file.                                     *)
(***************************************************************************)
EXTENDS ServerLifecycle, Discovery

VARIABLE
  at    \* where run_recv is

vars == <<at, serverVars, discoveryVars>>

TypeOK ==
  /\ at \in {"off", "starting", "advertise", "receiving", "stopping", "leaving", "join",
             "deregister"}
  /\ ServerTypeOK /\ DiscoveryTypeOK

Init == at = "off" /\ ServerInit /\ DiscoveryInit

Proceeds(from, to) == at = from /\ at' = to

StartServer ==
  /\ Proceeds("off", "starting")
  /\ start
  /\ UNCHANGED discoveryVars

\* Mutant: the result of server.start() is not looked at.
StartReturned == spc \in {"running", "stopped"}

StartSucceeded == spc = "running"

ServerStarted ==
  /\ \/ StartSucceeded /\ Proceeds("starting", "advertise")
     \/ ~StartSucceeded /\ spc = "stopped" /\ Proceeds("starting", "off")
  /\ UNCHANGED <<serverVars, discoveryVars>>

\* Discovery is best effort: without it the receiver goes on.
Advertise ==
  /\ Proceeds("advertise", "receiving")
  /\ AdvertiserStart
  /\ UNCHANGED serverVars

\* receive_file has returned.
StopServer ==
  /\ Proceeds("receiving", "stopping")
  /\ stop
  /\ UNCHANGED discoveryVars

ServerStopped ==
  /\ spc = "stopped" /\ Proceeds("stopping", "leaving")
  /\ UNCHANGED <<serverVars, discoveryVars>>

\* ~MdnsAdvertiser.
LeaveLan ==
  /\ \/ Proceeds("leaving", "join") /\ ClearRunning
     \/ Proceeds("join", "deregister") /\ JoinThread
     \/ Proceeds("deregister", "off") /\ Deregister
  /\ UNCHANGED serverVars

ServerStep == (StartStep \/ StopStep) /\ UNCHANGED <<at, discoveryVars>>

ClientStep(c) ==
  /\ OnNewConnection(c) \/ ClientLeaves(c)
  /\ UNCHANGED <<at, discoveryVars>>

CallbackStep(c) == ConnectionCallback(c) /\ UNCHANGED <<at, discoveryVars>>

AdvertiserThread == AdvertiserLoop /\ UNCHANGED <<at, serverVars>>

LanStep == Lan /\ UNCHANGED <<at, serverVars>>

SenderStep == Browser /\ UNCHANGED <<at, serverVars>>

Thread ==
  \/ StartServer \/ ServerStarted \/ Advertise \/ StopServer \/ ServerStopped \/ LeaveLan
  \/ ServerStep

Next ==
  \/ Thread
  \/ \E c \in Clients : ClientStep(c) \/ CallbackStep(c)
  \/ AdvertiserThread \/ LanStep \/ SenderStep

Spec == Init /\ [][Next]_vars

\* Threads and callbacks are scheduled; a client that is connected leaves in the
\* end (all its waits are timed, and IdleTimeoutMs is set); a search has a deadline.
FairSpec ==
  /\ Spec
  /\ WF_vars(ServerStarted \/ ServerStopped \/ LeaveLan \/ ServerStep)
  /\ WF_vars(AdvertiserThread)
  /\ WF_vars(BrowserStep /\ UNCHANGED <<at, serverVars>>)
  /\ \A c \in Clients :
       /\ WF_vars(CallbackStep(c))
       /\ WF_vars(ClientLeaves(c) /\ UNCHANGED <<at, discoveryVars>>)

-----------------------------------------------------------------------------
(* Properties.                                                             *)

\* While the receiver waits for a file and is announced on the LAN, there is a
\* listener behind the announcement.
AdvertisedWhileListening ==
  at = "receiving" /\ (ref \/ registered # NoName) => "listener" \in live

\* A server that has stopped has given everything back, and a receiver that is done
\* has stopped its server, left the LAN and joined its thread.
ReceiverLeavesNothing ==
  /\ ServerLeavesNothing
  /\ at = "off" => /\ spc = "stopped"
                   /\ registered = NoName /\ ~ref /\ ~adv_running /\ thread = "none"

\* Once receive_file has returned the process ends: stop() does not hang on a
\* connection, nor the advertiser's destructor on its thread.
ReceiverEnds == at = "stopping" ~> at = "off"
=============================================================================
