------------------------------ MODULE Discovery ------------------------------
(***************************************************************************)
(* Service discovery (src/net/mdns.cpp): the receiver's MdnsAdvertiser     *)
(* with its background thread, the responders of the LAN, and the search   *)
(* of a sender's MdnsBrowser.  A service is its name; host and port go     *)
(* with it.  Device names on the LAN are taken to be different.            *)
(***************************************************************************)
EXTENDS Naturals, Sequences, FiniteSets

CONSTANTS
  Names,     \* service names
  MyName,    \* the one the receiver of Receiver registers
  NoName

ASSUME NamesAssumption == MyName \in Names /\ NoName \notin Names

VARIABLES
  adv_running,      \* running_
  ref,              \* ref_ is set
  thread,           \* the background thread
  pending,          \* what its DNS-SD socket has to say
  responder_lost,   \* the responder has dropped this advertiser
  registered,       \* the name under which the responder announces it
  cached,           \* the sender's responder knows of MyName
  search,           \* where the browser is
  wanted,           \* the name find_by_name looks for; NoName for browse
  items,            \* the services on_browse has recorded
  unresolved,       \* those still to be resolved
  peers             \* the result so far

advertiserVars == <<adv_running, ref, thread, pending, responder_lost, registered>>
browserVars    == <<search, wanted, items, unresolved, peers>>
discoveryVars  == <<advertiserVars, cached, browserVars>>

DiscoveryTypeOK ==
  /\ {adv_running, ref, responder_lost, cached} \subseteq BOOLEAN
  /\ thread \in {"none", "waiting", "ended"}
  /\ pending \in {"nothing", "reply", "error"}
  /\ registered \in {MyName, NoName}
  /\ search \in {"idle", "browsing", "resolving"}
  /\ wanted \in Names \cup {NoName}
  /\ {items, unresolved, peers} \subseteq UNION {[1..k -> Names] : k \in 0..Cardinality(Names)}

DiscoveryInit ==
  /\ adv_running = FALSE /\ ref = FALSE /\ thread = "none"
  /\ pending = "nothing" /\ responder_lost = FALSE /\ registered = NoName
  /\ cached = FALSE
  /\ search = "idle" /\ wanted = NoName
  /\ items = <<>> /\ unresolved = <<>> /\ peers = <<>>

-----------------------------------------------------------------------------
(* The advertiser.                                                         *)

\* MdnsAdvertiser::start.  The thread ends at once without a valid socket.
AdvertiserStart ==
  /\ ~adv_running
  /\ \/ /\ ref' = TRUE /\ adv_running' = TRUE
        /\ \/ thread' = "waiting" /\ UNCHANGED responder_lost
           \/ thread' = "ended" /\ responder_lost' = TRUE
     \/ UNCHANGED <<ref, adv_running, thread, responder_lost>>
  /\ UNCHANGED <<pending, registered, cached, browserVars>>

\* Mutant: select() without its timeout of one second.
WakesOnData == pending # "nothing"

Wakes == TRUE

\* Mutant: a select() that timed out ends the loop too.
EndsOnTimeout == ~adv_running \/ pending # "reply"

LoopEnds == ~adv_running \/ pending = "error"

\* One turn of MdnsAdvertiser::run: select, DNSServiceProcessResult, and the
\* test of running_.
AdvertiserLoop ==
  /\ thread = "waiting"
  /\ Wakes
  /\ pending # "nothing" \/ LoopEnds
  /\ thread' = IF LoopEnds THEN "ended" ELSE "waiting"
  /\ pending' = "nothing"
  /\ UNCHANGED <<adv_running, ref, responder_lost, registered, cached, browserVars>>

\* stop(): running_ is cleared, ...
ClearRunning ==
  /\ adv_running' = FALSE
  /\ UNCHANGED <<ref, thread, pending, responder_lost, registered, cached, browserVars>>

\* ... the thread is joined, ...
JoinThread ==
  /\ thread # "waiting"
  /\ thread' = "none"
  /\ UNCHANGED <<adv_running, ref, pending, responder_lost, registered, cached, browserVars>>

\* ... and the service is deregistered.
Deregister ==
  /\ ref' = FALSE
  /\ registered' = NoName
  /\ pending' = "nothing" /\ responder_lost' = FALSE
  /\ UNCHANGED <<adv_running, thread, cached, browserVars>>

-----------------------------------------------------------------------------
(* The responders (external).                                              *)

Registers ==
  /\ ref /\ registered = NoName /\ ~responder_lost
  /\ registered' = MyName
  /\ pending' = "reply"
  /\ UNCHANGED <<adv_running, ref, thread, responder_lost, cached, browserVars>>

\* The responder is restarted: the registration and the socket are gone.
ResponderRestarts ==
  /\ ref /\ ~responder_lost
  /\ responder_lost' = TRUE
  /\ registered' = NoName
  /\ pending' = "error"
  /\ UNCHANGED <<adv_running, ref, thread, cached, browserVars>>

\* Announcements and goodbyes arrive late.  The other receivers of the LAN come
\* and go unseen.
CacheFollows ==
  /\ cached # (registered = MyName)
  /\ cached' = ~cached
  /\ UNCHANGED <<advertiserVars, browserVars>>

Known(n) == n = MyName => cached

-----------------------------------------------------------------------------
(* The browser: browse (no name is wanted) and find_by_name.               *)

StartSearch(name) ==
  /\ search = "idle"
  /\ search' = "browsing"
  /\ wanted' = name
  /\ UNCHANGED <<advertiserVars, cached, items, unresolved, peers>>

Elements(s) == {s[i] : i \in DOMAIN s}

\* Mutant: a service that is seen on two interfaces is recorded twice.
EveryAdd(n) == Append(items, n)

Recorded(n) == IF n \in Elements(items) THEN items ELSE Append(items, n)

\* Mutant: the first service recorded is taken for the one that is wanted.
FirstItem(services) == IF services = <<>> THEN {} ELSE {Head(services)}

Match(services) == Elements(services) \cap {wanted}

\* pump() dispatches an addition to on_browse; find_by_name then looks through
\* what has been recorded.  The responder reports a service once per interface.
OnBrowse(n) ==
  /\ search = "browsing" /\ Known(n)
  /\ LET found == IF wanted = NoName THEN {} ELSE Match(Recorded(n)) IN
     \/ /\ found = {}
        /\ items' = Recorded(n)
        /\ UNCHANGED <<search, unresolved>>
     \/ /\ search' = "resolving"
        /\ items' = <<>>
        /\ \E name \in found : unresolved' = <<name>>
  /\ UNCHANGED <<advertiserVars, cached, wanted, peers>>

\* Mutant: find_by_name has no deadline.
ListOnly == wanted = NoName

HasDeadline == TRUE

\* The deadline has passed, or pump() failed: browse resolves what it has seen.
BrowseEnds ==
  /\ search = "browsing" /\ HasDeadline
  /\ search' = "resolving"
  /\ unresolved' = IF wanted = NoName THEN items ELSE <<>>
  /\ items' = <<>>
  /\ UNCHANGED <<advertiserVars, cached, wanted, peers>>

\* resolve_service: the answer, an error, or kResolveTimeoutMs.
resolve_service ==
  /\ search = "resolving" /\ unresolved # <<>>
  /\ \/ /\ Known(Head(unresolved))
        /\ peers' = Append(peers, Head(unresolved))
     \/ UNCHANGED peers
  /\ unresolved' = Tail(unresolved)
  /\ UNCHANGED <<advertiserVars, cached, search, wanted, items>>

SearchReturns ==
  /\ search = "resolving" /\ unresolved = <<>>
  /\ search' = "idle"
  /\ wanted' = NoName /\ peers' = <<>>
  /\ UNCHANGED <<advertiserVars, cached, items, unresolved>>

-----------------------------------------------------------------------------
Lan == Registers \/ ResponderRestarts \/ CacheFollows

BrowserStep == BrowseEnds \/ resolve_service \/ SearchReturns

Browser ==
  \/ \E n \in Names \cup {NoName} : StartSearch(n)
  \/ \E n \in Names : OnBrowse(n)
  \/ BrowserStep

-----------------------------------------------------------------------------
(* Properties.                                                             *)

\* find_by_name returns the device that was asked for, and browse lists a device
\* once, however many services and interfaces the responder reported.
SearchResults ==
  /\ \A i, j \in DOMAIN peers : peers[i] = peers[j] => i = j
  /\ wanted # NoName => Elements(peers) \subseteq {wanted}

\* "A background thread services the DNS-SD socket so registration stays live"
\* (mdns.h, 33): it does so until stop(), unless the responder is lost, which
\* ends the thread while is_running() goes on to say true.
ServicedWhileRunning ==
  adv_running => thread = "waiting" \/ responder_lost

\* browse and find_by_name return.
SearchEnds == search # "idle" ~> search = "idle"
=============================================================================
