------------------------------- MODULE GuiProofs -------------------------------
(***************************************************************************)
(* The application's threads and pages, proved for any length of the event *)
(* queue: which events may still be posted is tied to how far each worker  *)
(* is, and what a slot finds behind the event it handles to the order the  *)
(* worker posted them in.                                                  *)
(***************************************************************************)
EXTENDS Gui, SequenceTheorems, TLAPS

Results == {"declined", "failed", "saved"}

\* What is posted and not yet handled.
Pending == {events[i] : i \in DOMAIN events}

\* May f be posted behind e?  Only the progress of a send comes twice, a thread's
\* end is its last event, and nothing is told about a receive after its result.
MayFollow(e, f) ==
  /\ e = f => e = Event("send", "progress")
  /\ e.kind = f.kind => e.what # "gone"
  /\ ~ /\ e.kind = "recv" /\ e.what \in Results
       /\ f.kind = "recv" /\ f.what \in Results \cup {"progress"}

Orderly(queue) ==
  \A i, j \in DOMAIN queue : i < j => MayFollow(queue[i], queue[j])

PlainTypes ==
  /\ page \in {"home", "recv", "send"}
  /\ boxes \in {<<>>} \cup {<<box>> : box \in Boxes}
  /\ gui \in {"running", "exited"} \cup Kinds
  /\ thread \in [Kinds -> BOOLEAN] /\ quit \in [Kinds -> BOOLEAN]
  /\ worker \in [Kinds -> {"none", "running", "asking", "receiving", "stopping", "idle"}]
  /\ late_progress \in BOOLEAN
  /\ events \in Seq(Events)
  /\ recv_enabled \in BOOLEAN /\ send_enabled \in BOOLEAN /\ refresh_enabled \in BOOLEAN
  /\ recv_label \in {"ready", "receiving", "result"}
  /\ send_label \in {"searching", "found", "sending", "result"}

\* An event that is still posted says how far its worker is, and that the page
\* cannot be left before a result is handled.
EventInv(e) ==
  /\ thread[e.kind]
  /\ e.what \in Results \cup {"finished", "quit"} => worker[e.kind] \in {"idle", "none"}
  /\ e.what = "gone" => worker[e.kind] = "none"
  /\ e.what = "offer" => e.kind = "recv" /\ worker["recv"] = "asking"
  /\ e.kind = "recv" /\ e.what \in Results => page = "recv" /\ ~recv_enabled
  /\ e.kind = "send" /\ e.what = "finished" => page = "send" /\ ~send_enabled

WorkerInv ==
  /\ \A k \in Kinds : ~thread[k] => worker[k] = "none"
  /\ worker["recv"] \notin {"none", "idle"} => page = "recv" /\ ~recv_enabled
  /\ worker["send"] = "running" => page = "send" /\ ~send_enabled
  /\ recv_label = "result" => /\ worker["recv"] \in {"none", "idle"}
                              /\ Event("recv", "progress") \notin Pending

\* A box belongs to the page on show, and what it is about has been handled.
BoxInv ==
  /\ gui # "running" => boxes = <<>> /\ events = <<>>
  /\ boxes = <<"offer">> => /\ page = "recv" /\ worker["recv"] = "asking"
                            /\ Event("recv", "offer") \notin Pending
  /\ boxes \in {<<"failed">>, <<"saved">>} =>
       /\ page = "recv" /\ worker["recv"] \in {"none", "idle"}
       /\ \A result \in Results : Event("recv", result) \notin Pending
  /\ boxes = <<"sent">> => /\ page = "send" /\ worker["send"] # "running"
                           /\ Event("send", "finished") \notin Pending

IInv ==
  /\ PlainTypes /\ Orderly(events)
  /\ \A e \in Pending : EventInv(e)
  /\ WorkerInv /\ BoxInv /\ NoSearchDuringSend

-----------------------------------------------------------------------------
(* The queue.                                                              *)

\* A slot takes the first event; what is behind it was posted later.
LEMMA HandlesFacts ==
  ASSUME NEW k, NEW what, events \in Seq(Events), Orderly(events), Handles(k, what)
  PROVE  /\ events' \in Seq(Events) /\ Orderly(events')
         /\ Event(k, what) \in Pending /\ Pending' \subseteq Pending
         /\ \A e \in Pending' : MayFollow(Event(k, what), e)
<1>1. /\ events # <<>> /\ events[1] = Event(k, what) /\ events' = Tail(events)
      /\ 1 \in DOMAIN events
  BY HeadTailProperties DEF Handles
<1>2. /\ Tail(events) \in Seq(Events) /\ Len(Tail(events)) = Len(events) - 1
      /\ \A i \in 1..Len(Tail(events)) : Tail(events)[i] = events[i + 1]
  BY <1>1, HeadTailProperties
<1>3. \A i \in DOMAIN Tail(events) : /\ i + 1 \in DOMAIN events /\ 1 < i + 1
                                     /\ Tail(events)[i] = events[i + 1]
  BY <1>1, <1>2
<1>4. Orderly(Tail(events))
  <2>1. SUFFICES ASSUME NEW i \in DOMAIN Tail(events), NEW j \in DOMAIN Tail(events), i < j
                 PROVE  MayFollow(Tail(events)[i], Tail(events)[j])
    BY DEF Orderly
  <2>2. i + 1 < j + 1
    BY <1>2, <2>1
  <2> QED
    BY <1>3, <2>1, <2>2 DEF Orderly
<1>5. Pending' \subseteq Pending
  BY <1>1, <1>3 DEF Pending
<1>6. \A e \in Pending' : MayFollow(Event(k, what), e)
  BY <1>1, <1>3 DEF Pending, Orderly
<1> QED
  BY <1>1, <1>2, <1>4, <1>5, <1>6 DEF Pending

\* An event that may follow all that are queued leaves the queue orderly.
LEMMA AppendFacts ==
  ASSUME NEW queue \in Seq(Events), Orderly(queue), NEW e \in Events,
         \A i \in DOMAIN queue : MayFollow(queue[i], e)
  PROVE  /\ queue \o <<e>> \in Seq(Events) /\ Orderly(queue \o <<e>>)
         /\ \A i \in DOMAIN (queue \o <<e>>) :
              (queue \o <<e>>)[i] = e \/ \E j \in DOMAIN queue : (queue \o <<e>>)[i] = queue[j]
<1> DEFINE longer == queue \o <<e>>
<1>1. /\ longer \in Seq(Events) /\ Len(longer) = Len(queue) + 1
      /\ Len(queue) \in Nat
      /\ \A i \in 1..Len(queue) : longer[i] = queue[i]
      /\ longer[Len(queue) + 1] = e
  OBVIOUS
<1>2. DOMAIN longer = 1..(Len(queue) + 1) /\ DOMAIN queue = 1..Len(queue)
  BY <1>1
<1> HIDE DEF longer
<1>3. Orderly(longer)
  <2>1. SUFFICES ASSUME NEW i \in 1..(Len(queue) + 1), NEW j \in 1..(Len(queue) + 1), i < j
                 PROVE  MayFollow(longer[i], longer[j])
    BY <1>2 DEF Orderly
  <2>2. i \in 1..Len(queue) /\ (j \in 1..Len(queue) \/ j = Len(queue) + 1)
    BY <1>1, <2>1
  <2>3. CASE j \in 1..Len(queue)
    BY <1>1, <1>2, <2>1, <2>2, <2>3 DEF Orderly
  <2>4. CASE j = Len(queue) + 1
    BY <1>1, <1>2, <2>2, <2>4
  <2> QED
    BY <2>2, <2>3, <2>4
<1>4. \A i \in DOMAIN longer : longer[i] = e \/ \E j \in DOMAIN queue : longer[i] = queue[j]
  BY <1>1, <1>2
<1> QED
  BY <1>1, <1>3, <1>4 DEF longer

\* The same for what wxQueueEvent does, which is nothing once the GUI has ended.
LEMMA PostFacts ==
  ASSUME events \in Seq(Events), Orderly(events), NEW e \in Events,
         \A f \in Pending : MayFollow(f, e), Post(<<e>>)
  PROVE  /\ events' \in Seq(Events) /\ Orderly(events')
         /\ Pending' \subseteq Pending \cup {e}
         /\ gui # "running" => events' = events
<1>1. \A i \in DOMAIN events : MayFollow(events[i], e)
  BY DEF Pending
<1>2. CASE gui = "running"
  <2>1. events' = events \o <<e>>
    BY <1>2 DEF Post
  <2> QED
    BY <1>1, <1>2, <2>1, AppendFacts DEF Pending
<1>3. CASE gui # "running"
  BY <1>3 DEF Post, Pending
<1> QED
  BY <1>2, <1>3

\* Two events that are posted together are posted one after the other.
LEMMA TwoByOne ==
  ASSUME NEW queue \in Seq(Events), NEW e \in Events, NEW f \in Events
  PROVE  queue \o <<e, f>> = (queue \o <<e>>) \o <<f>>
<1>1. <<e>> \in Seq(Events) /\ <<f>> \in Seq(Events)
  OBVIOUS
<1>2. <<e, f>> = <<e>> \o <<f>>
  <2>1. Append(<<e>>, f) = <<e>> \o <<f>>
    BY <1>1, AppendIsConcat, Zenon
  <2>2. <<e, f>> = Append(<<e>>, f)
    OBVIOUS
  <2> QED
    BY <2>1, <2>2
<1> QED
  BY <1>1, <1>2, ConcatAssociative

\* The result of a worker, and the end of its thread behind it.
LEMMA ReportsFacts ==
  ASSUME events \in Seq(Events), Orderly(events),
         NEW k \in Kinds, NEW what \in Results \cup {"finished"},
         \A f \in Pending : /\ MayFollow(f, Event(k, what)) /\ MayFollow(f, Event(k, "quit")),
         Reports(k, what)
  PROVE  /\ events' \in Seq(Events) /\ Orderly(events')
         /\ Pending' \subseteq Pending \cup {Event(k, what), Event(k, "quit")}
         /\ gui # "running" => events' = events
<1> DEFINE e == Event(k, what)
           f == Event(k, "quit")
<1>1. e \in Events /\ f \in Events /\ MayFollow(e, f)
  BY DEF Events, Event, MayFollow, Results
<1>2. \A i \in DOMAIN events : MayFollow(events[i], e) /\ MayFollow(events[i], f)
  BY DEF Pending
<1>3. events' = IF gui = "running" THEN events \o <<e, f>> ELSE events
  BY DEF Reports, Post
<1> HIDE DEF e, f
<1>4. CASE gui = "running"
  <2> DEFINE middle == events \o <<e>>
  <2>1. /\ middle \in Seq(Events) /\ Orderly(middle)
        /\ \A i \in DOMAIN middle : middle[i] = e \/ \E j \in DOMAIN events : middle[i] = events[j]
    BY <1>1, <1>2, AppendFacts
  <2>2. events' = middle \o <<f>>
    <3>1. events' = events \o <<e, f>>
      BY <1>3, <1>4
    <3>2. events \o <<e, f>> = (events \o <<e>>) \o <<f>>
      BY <1>1, TwoByOne
    <3> QED
      BY <3>1, <3>2
  <2> HIDE DEF middle
  <2>3. \A i \in DOMAIN middle : MayFollow(middle[i], f)
    BY <1>1, <1>2, <2>1
  <2>4. /\ events' \in Seq(Events) /\ Orderly(events')
        /\ \A i \in DOMAIN events' :
             events'[i] = f \/ \E j \in DOMAIN middle : events'[i] = middle[j]
    BY <1>1, <2>1, <2>2, <2>3, AppendFacts
  <2>5. Pending' \subseteq Pending \cup {e, f}
    BY <2>1, <2>4 DEF Pending
  <2> QED
    BY <1>4, <2>4, <2>5 DEF e, f
<1>5. CASE gui # "running"
  BY <1>3, <1>5 DEF Pending
<1> QED
  BY <1>4, <1>5

\* Uniqueness, as the type invariant says it.
LEMMA OrderlyUnique ==
  ASSUME events \in Seq(Events), Orderly(events)
  PROVE  \A i, j \in DOMAIN events :
           events[i] = events[j] => i = j \/ events[i] = [kind |-> "send", what |-> "progress"]
<1>1. SUFFICES ASSUME NEW i \in DOMAIN events, NEW j \in DOMAIN events,
                      events[i] = events[j], i # j
               PROVE  events[i] = [kind |-> "send", what |-> "progress"]
  OBVIOUS
<1>2. i < j \/ j < i
  BY <1>1
<1> QED
  BY <1>1, <1>2 DEF Orderly, MayFollow, Event

\* An orderly queue is of the type TypeOK gives it: only progress is in it twice.
LEMMA IInvTypeOK == IInv => TypeOK
BY OrderlyUnique DEF IInv, PlainTypes, TypeOK

-----------------------------------------------------------------------------
(* Every step keeps the invariant.                                         *)

\* At the start no worker exists and nothing is queued.
LEMMA InitIInv == Init => IInv
<1> SUFFICES ASSUME Init PROVE IInv
  OBVIOUS
<1>1. PlainTypes
  <2>1. events \in Seq(Events)
    BY DEF Init
  <2> QED
    BY <2>1 DEF Init, PlainTypes, Kinds
<1>2. Pending = {} /\ Orderly(events)
  BY DEF Init, Pending, Orderly
<1>3. WorkerInv /\ BoxInv /\ NoSearchDuringSend
  BY <1>2 DEF Init, WorkerInv, BoxInv, NoSearchDuringSend, Kinds
<1> QED
  BY <1>1, <1>2, <1>3 DEF IInv

\* A step that leaves the queue alone leaves what is in it alone.
LEMMA SameQueue ==
  ASSUME Orderly(events), UNCHANGED events
  PROVE  Pending' = Pending /\ Orderly(events)'
BY DEF Pending, Orderly

\* What is in the queue is an event of one of the known kinds.
LEMMA PendingKinds ==
  ASSUME events \in Seq(Events)
  PROVE  \A e \in Pending : e \in Events /\ e.kind \in Kinds
<1>1. \A i \in DOMAIN events : events[i] \in Events
  OBVIOUS
<1>2. \A e \in Events : e.kind \in Kinds
  BY DEF Events
<1> QED
  BY <1>1, <1>2 DEF Pending

\* Nothing posted outlives the event loop.
LEMMA DestroysKeeps ==
  ASSUME IInv, boxes = <<>>, NEW from, NEW to, to # "running",
         to \in {"running", "exited"} \cup Kinds, Destroys(from, to)
  PROVE  IInv'
<1>1. Pending' = {} /\ Orderly(events)' /\ events' \in Seq(Events) /\ events' = <<>>
  BY DEF Destroys, Pending, Orderly
<1>2. quit' \in [Kinds -> BOOLEAN]
  BY DEF IInv, PlainTypes, Destroys, Quit
<1> QED
  BY <1>1, <1>2 DEF IInv, PlainTypes, WorkerInv, BoxInv, NoSearchDuringSend, Destroys, widgetVars

\* What the user does on a page, and what he leaves behind.
LEMMA UserKeeps ==
  ASSUME IInv, User PROVE IInv'
<1>q. UNCHANGED events => Pending' = Pending /\ Orderly(events)'
  BY SameQueue DEF IInv
<1>k. \A e \in Pending : e.kind \in Kinds
  BY PendingKinds DEF IInv, PlainTypes
<1> USE DEF IInv, PlainTypes, EventInv, WorkerInv, BoxInv, NoSearchDuringSend, Results, Kinds,
            pageVars, threadVars, widgetVars, UserAtPage, StartThread
<1>1. CASE ShowReceive
  BY <1>q, <1>k, <1>1 DEF ShowReceive, ResetRecv
<1>2. CASE ShowSend
  <2>1. /\ \A e \in Pending : ~(e.kind = "send" /\ e.what = "finished")
        /\ worker["send"] # "running" /\ worker["recv"] \in {"none", "idle"}
    BY <1>2 DEF ShowSend
  <2>2. CASE refreshPeers
    BY <1>q, <1>k, <1>2, <2>1, <2>2 DEF ShowSend, ResetSend, refreshPeers, Occupied
  <2>3. CASE UNCHANGED threadVars /\ refresh_enabled' = FALSE /\ send_label' = "searching"
    BY <1>q, <1>k, <1>2, <2>1, <2>3 DEF ShowSend, ResetSend
  <2> QED
    BY <1>2, <2>2, <2>3 DEF ShowSend, ResetSend, startDiscovery
<1>3. CASE Refresh
  BY <1>q, <1>k, <1>3 DEF Refresh, refreshPeers, Occupied
<1>4. CASE startReceive
  BY <1>q, <1>k, <1>4 DEF startReceive, ReceiverFree
<1>5. CASE sendFile
  BY <1>q, <1>k, <1>5 DEF sendFile
<1>6. CASE Back
  BY <1>q, <1>k, <1>6 DEF Back, BackEnabled
<1>7. CASE CloseWindow
  <2>1. "recv" \in {"running", "exited"} \cup Kinds
    OBVIOUS
  <2> QED
    BY <1>7, <2>1, DestroysKeeps DEF CloseWindow
<1> QED
  BY <1>1, <1>2, <1>3, <1>4, <1>5, <1>6, <1>7 DEF User

\* A box is closed, and the destructors of the pages take their turns.
LEMMA GuiKeeps ==
  ASSUME IInv, CloseBox \/ Destroy PROVE IInv'
<1>q. UNCHANGED events => Pending' = Pending /\ Orderly(events)'
  BY SameQueue DEF IInv
<1>k. \A e \in Pending : e.kind \in Kinds
  BY PendingKinds DEF IInv, PlainTypes
<1>1. CASE CloseBox
  <2>1. PICK box \in Boxes : boxes = <<box>>
    BY <1>1 DEF CloseBox, IInv, PlainTypes
  <2>2. boxes' = <<>>
    BY <1>1, <2>1 DEF CloseBox, Front
  <2>3. boxes[Len(boxes)] = box
    BY <2>1
  <2> USE DEF IInv, PlainTypes, EventInv, WorkerInv, BoxInv, NoSearchDuringSend, Results, Kinds,
              widgetVars
  <2>4. CASE box = "offer" /\ worker' = [worker EXCEPT !["recv"] = "receiving"] /\ UNCHANGED page
    <3>1. /\ page = "recv" /\ worker["recv"] = "asking"
          /\ Event("recv", "offer") \notin Pending
      BY <2>1, <2>4
    <3>2. \A e \in Pending : e.what # "offer"
      <4>1. \A e \in Events : e.kind = "recv" /\ e.what = "offer" => e = Event("recv", "offer")
        BY DEF Events, Event
      <4> QED
        BY <3>1, <4>1, PendingKinds
    <3> QED
      BY <1>1, <1>q, <1>k, <2>2, <2>4, <3>1, <3>2 DEF CloseBox
  <2>5. CASE UNCHANGED <<page, worker>>
    BY <1>1, <1>q, <1>k, <2>2, <2>5 DEF CloseBox
  <2>6. CASE box \in {"saved", "sent"} /\ page' = "home" /\ UNCHANGED worker
    <3>1. /\ worker["recv"] \in {"none", "idle"} /\ worker["send"] # "running"
      BY <2>1, <2>6
    <3>2. \A e \in Pending : /\ ~(e.kind = "recv" /\ e.what \in Results)
                             /\ ~(e.kind = "send" /\ e.what = "finished")
      <4>1. \A e \in Events : e = Event(e.kind, e.what)
        BY DEF Events, Event
      <4> QED
        BY <2>1, <2>6, <4>1, PendingKinds
    <3> QED
      BY <1>1, <1>q, <1>k, <2>2, <2>6, <3>1, <3>2 DEF CloseBox
  <2> QED
    BY <1>1, <2>3, <2>4, <2>5, <2>6 DEF CloseBox
<1>2. CASE Destroy
  <2>1. gui # "running" /\ boxes = <<>>
    BY <1>2 DEF Destroy, Destroys, IInv, BoxInv
  <2>2. {"browse", "send", "exited"} \subseteq {"running", "exited"} \cup Kinds
    BY DEF Kinds
  <2> QED
    BY <1>2, <2>1, <2>2, DestroysKeeps DEF Destroy
<1> QED
  BY <1>1, <1>2

\* The workers post what they have to say, and move on.
LEMMA WorkerKeeps ==
  ASSUME IInv, NEW k \in Kinds, Worker(k) PROVE IInv'
<1>q. UNCHANGED events => Pending' = Pending /\ Orderly(events)'
  BY SameQueue DEF IInv
<1>k. \A e \in Pending : e \in Events /\ e.kind \in Kinds
  BY PendingKinds DEF IInv, PlainTypes
<1>e. \A a \in Kinds : \A what : Event(a, what).kind = a /\ Event(a, what).what = what
  BY DEF Event
<1>v. \A a \in Kinds : /\ Event(a, "offer") \in Events /\ Event(a, "progress") \in Events
                       /\ Event(a, "gone") \in Events
  BY DEF Event, Events
\* Where one more event may be posted.
<1>p. ASSUME NEW e \in Events, Post(<<e>>), \A f \in Pending : MayFollow(f, e)
      PROVE  /\ events' \in Seq(Events) /\ Orderly(events')
             /\ Pending' \subseteq Pending \cup {e} /\ (gui # "running" => events' = events)
  BY <1>p, PostFacts DEF IInv, PlainTypes
<1> USE DEF IInv, PlainTypes, EventInv, WorkerInv, BoxInv, NoSearchDuringSend, Kinds,
            pageVars, threadVars, widgetVars, workerFrame, Moves
<1>1. CASE AskOffer
  <2>1. \A f \in Pending : MayFollow(f, Event("recv", "offer"))
    BY <1>1, <1>e DEF AskOffer, MayFollow, Results
  <2>2. /\ events' \in Seq(Events) /\ Orderly(events')
        /\ Pending' \subseteq Pending \cup {Event("recv", "offer")}
        /\ (gui # "running" => events' = events)
    BY <1>1, <1>p, <1>v, <2>1 DEF AskOffer
  <2> QED
    BY <1>1, <1>k, <1>e, <2>2 DEF AskOffer, Results
<1>2. CASE ReceiveReturns
  BY <1>2, <1>q, <1>k DEF ReceiveReturns, Results
<1>3. CASE RecvReports
  <2>1. PICK result \in Results : Reports("recv", result)
    BY <1>3 DEF RecvReports, Results
  <2>2. \A f \in Pending : /\ MayFollow(f, Event("recv", result))
                           /\ MayFollow(f, Event("recv", "quit"))
    BY <1>3, <1>e DEF RecvReports, MayFollow, Results
  <2>3. /\ events' \in Seq(Events) /\ Orderly(events')
        /\ Pending' \subseteq Pending \cup {Event("recv", result), Event("recv", "quit")}
        /\ (gui # "running" => events' = events)
    BY <2>1, <2>2, ReportsFacts
  <2> QED
    BY <1>3, <1>k, <1>e, <2>3 DEF RecvReports, Results
<1>4. CASE BrowseReports
  <2>1. \A f \in Pending : /\ MayFollow(f, Event("browse", "finished"))
                           /\ MayFollow(f, Event("browse", "quit"))
    BY <1>4, <1>e DEF BrowseReports, MayFollow, Results
  <2>2. /\ events' \in Seq(Events) /\ Orderly(events')
        /\ Pending' \subseteq Pending \cup {Event("browse", "finished"), Event("browse", "quit")}
        /\ (gui # "running" => events' = events)
    BY <1>4, <2>1, ReportsFacts DEF BrowseReports
  <2> QED
    BY <1>4, <1>k, <1>e, <2>2 DEF BrowseReports, Results
<1>5. CASE SendReports
  <2>1. \A f \in Pending : /\ MayFollow(f, Event("send", "finished"))
                           /\ MayFollow(f, Event("send", "quit"))
    BY <1>5, <1>e DEF SendReports, MayFollow, Results
  <2>2. /\ events' \in Seq(Events) /\ Orderly(events')
        /\ Pending' \subseteq Pending \cup {Event("send", "finished"), Event("send", "quit")}
        /\ (gui # "running" => events' = events)
    BY <1>5, <2>1, ReportsFacts DEF SendReports
  <2> QED
    BY <1>5, <1>k, <1>e, <2>2, SMTT(30) DEF SendReports, Results
<1>6. CASE SendProgress
  BY <1>6, <1>q, <1>k DEF SendProgress, Results
<1>7. CASE LateProgress
  <2>1. \A f \in Pending : MayFollow(f, Event("send", "progress"))
    BY <1>7, <1>e DEF LateProgress, MayFollow, Results
  <2>2. /\ events' \in Seq(Events) /\ Orderly(events')
        /\ Pending' \subseteq Pending \cup {Event("send", "progress")}
        /\ (gui # "running" => events' = events)
    BY <1>7, <1>p, <1>v, <2>1 DEF LateProgress
  <2>3. \A e \in Pending' : EventInv(e)'
    BY <1>7, <1>k, <1>e, <2>2 DEF LateProgress, Results
  <2>4. WorkerInv' /\ BoxInv'
    BY <1>7, <1>e, <2>2 DEF LateProgress, Results
  <2>5. PlainTypes' /\ NoSearchDuringSend'
    BY <1>7, <2>2, ZenonT(60) DEF LateProgress
  <2> QED
    BY <2>2, <2>3, <2>4, <2>5
<1>8. CASE Tells(k)
  <2>1. \A f \in Pending : MayFollow(f, Event(k, "progress"))
    <3>1. Event(k, "progress") \notin Pending
      BY <1>8 DEF Tells, Posted, Pending
    <3> QED
      BY <1>8, <1>e, <3>1 DEF Tells, CallbacksRun, MayFollow, Results
  <2>2. /\ events' \in Seq(Events) /\ Orderly(events')
        /\ Pending' \subseteq Pending \cup {Event(k, "progress")}
        /\ (gui # "running" => events' = events)
    BY <1>8, <1>p, <1>v, <2>1 DEF Tells
  <2> QED
    BY <1>8, <1>k, <1>e, <2>2 DEF Tells, CallbacksRun, Results
<1>9. CASE ThreadEnds(k)
  <2>1. \A f \in Pending : MayFollow(f, Event(k, "gone"))
    BY <1>9, <1>e DEF ThreadEnds, MayFollow, Results
  <2>2. /\ events' \in Seq(Events) /\ Orderly(events')
        /\ Pending' \subseteq Pending \cup {Event(k, "gone")}
        /\ (gui # "running" => events' = events)
    BY <1>9, <1>p, <1>v, <2>1 DEF ThreadEnds
  <2>3. worker' \in [Kinds -> {"none", "running", "asking", "receiving", "stopping", "idle"}]
    BY <1>9 DEF ThreadEnds
  <2>4. \A e \in Pending' : EventInv(e)'
    BY <1>9, <1>k, <1>e, <2>2 DEF ThreadEnds, Results
  <2>5. WorkerInv' /\ BoxInv'
    BY <1>9, <1>e, <2>2, SMTT(30) DEF ThreadEnds, Results
  <2> QED
    BY <1>9, <2>2, <2>3, <2>4, <2>5 DEF ThreadEnds
<1> QED
  BY <1>1, <1>2, <1>3, <1>4, <1>5, <1>6, <1>7, <1>8, <1>9 DEF Worker

\* The slots handle what was posted, one event at a time.
LEMMA SlotsKeep ==
  ASSUME IInv, Slots PROVE IInv'
<1>k. \A e \in Pending : e \in Events /\ e.kind \in Kinds /\ e = Event(e.kind, e.what)
  <2>1. \A e \in Events : e = Event(e.kind, e.what)
    BY DEF Events, Event
  <2> QED
    BY <2>1, PendingKinds DEF IInv, PlainTypes
<1>e. \A a \in Kinds : \A what : Event(a, what).kind = a /\ Event(a, what).what = what
  BY DEF Event
<1>h. ASSUME NEW k \in Kinds, NEW what, Handles(k, what)
      PROVE  /\ events' \in Seq(Events) /\ Orderly(events')
             /\ Event(k, what) \in Pending /\ Pending' \subseteq Pending
             /\ \A e \in Pending' : MayFollow(Event(k, what), e)
             /\ gui = "running"
  BY <1>h, HandlesFacts DEF IInv, PlainTypes, Handles
<1>s. {"recv", "browse", "send"} \subseteq Kinds
  BY DEF Kinds
<1> USE DEF IInv, PlainTypes, EventInv, WorkerInv, BoxInv, NoSearchDuringSend, Kinds,
            pageVars, threadVars, widgetVars, Boxes
<1>1. CASE askAcceptOffer
  <2>1. /\ events' \in Seq(Events) /\ Orderly(events')
        /\ Event("recv", "offer") \in Pending /\ Pending' \subseteq Pending
        /\ \A e \in Pending' : MayFollow(Event("recv", "offer"), e)
        /\ gui = "running"
    BY <1>1, <1>h DEF askAcceptOffer
  <2>2. worker["recv"] = "asking" /\ page = "recv"
    BY <1>e, <2>1
  <2>3. Event("recv", "offer") \notin Pending'
    BY <1>e, <2>1 DEF MayFollow
  <2>4. boxes = <<>>
    BY <2>1, <2>2
  <2>5. boxes' = <<"offer">>
    BY <1>1, <2>4 DEF askAcceptOffer, Opens
  <2> QED
    BY <1>1, <1>k, <2>1, <2>2, <2>3, <2>5 DEF askAcceptOffer
<1>2. CASE RecvFinished
  <2>1. PICK result \in Results :
          /\ Handles("recv", result)
          /\ boxes' = boxes \/ boxes' \in {Append(boxes, "failed"), Append(boxes, "saved")}
    BY <1>2 DEF RecvFinished, Results, Opens
  <2>2. /\ events' \in Seq(Events) /\ Orderly(events')
        /\ Event("recv", result) \in Pending /\ Pending' \subseteq Pending
        /\ \A e \in Pending' : MayFollow(Event("recv", result), e)
        /\ gui = "running"
    BY <1>h, <2>1
  <2>3. worker["recv"] \in {"idle", "none"} /\ page = "recv"
    BY <1>e, <2>2 DEF Results
  <2>4. /\ \A e \in Pending' : ~(e.kind = "recv" /\ e.what \in Results)
        /\ Event("recv", "progress") \notin Pending'
        /\ \A other \in Results : Event("recv", other) \notin Pending'
    BY <1>e, <2>2 DEF MayFollow, Results
  <2>5. boxes = <<>>
    BY <2>1, <2>2, <2>3
  <2>6. boxes' \in {<<>>, <<"failed">>, <<"saved">>}
    BY <2>1, <2>5
  <2> QED
    BY <1>2, <1>k, <2>2, <2>3, <2>4, <2>6 DEF RecvFinished
<1>3. CASE onBrowseFinished
  <2>1. /\ events' \in Seq(Events) /\ Orderly(events') /\ Pending' \subseteq Pending
        /\ gui = "running"
    BY <1>3, <1>h DEF onBrowseFinished
  <2> QED
    BY <1>3, <1>k, <2>1 DEF onBrowseFinished
<1>4. CASE onSendFinished
  <2>1. /\ events' \in Seq(Events) /\ Orderly(events')
        /\ Event("send", "finished") \in Pending /\ Pending' \subseteq Pending
        /\ \A e \in Pending' : MayFollow(Event("send", "finished"), e)
        /\ gui = "running"
    BY <1>4, <1>h DEF onSendFinished
  <2>2. page = "send" /\ worker["send"] # "running"
    BY <1>e, <2>1 DEF Results
  <2>3. Event("send", "finished") \notin Pending'
    BY <1>e, <2>1 DEF MayFollow
  <2>4. boxes = <<>>
    BY <2>1, <2>2
  <2>5. boxes' = <<"sent">>
    BY <1>4, <2>4 DEF onSendFinished, Opens
  <2> QED
    BY <1>4, <1>k, <2>1, <2>2, <2>3, <2>5 DEF onSendFinished
<1>5. CASE OnProgress
  <2>1. PICK k \in Kinds : Handles(k, "progress")
    BY <1>5 DEF OnProgress
  <2>2. /\ events' \in Seq(Events) /\ Orderly(events') /\ Pending' \subseteq Pending
        /\ gui = "running"
    BY <1>h, <2>1
  <2> QED
    BY <1>5, <1>k, <2>2 DEF OnProgress
<1>6. ASSUME NEW k \in Kinds, OnQuit(k) PROVE IInv'
  <2>1. /\ events' \in Seq(Events) /\ Orderly(events') /\ Pending' \subseteq Pending
        /\ gui = "running"
    BY <1>6, <1>h DEF OnQuit
  <2> QED
    BY <1>6, <1>k, <2>1 DEF OnQuit
<1>7. ASSUME NEW k \in Kinds, OnThreadGone(k) PROVE IInv'
  <2>1. /\ events' \in Seq(Events) /\ Orderly(events')
        /\ Event(k, "gone") \in Pending /\ Pending' \subseteq Pending
        /\ \A e \in Pending' : MayFollow(Event(k, "gone"), e)
        /\ gui = "running"
    BY <1>7, <1>h DEF OnThreadGone
  <2>2. worker[k] = "none"
    BY <1>e, <2>1
  <2>3. \A e \in Pending' : e.kind # k
    BY <1>e, <2>1 DEF MayFollow
  <2>4. PlainTypes'
    BY <1>7, <2>1, ZenonT(60) DEF OnThreadGone, NotSending
  <2>5. \A e \in Pending' : EventInv(e)'
    BY <1>7, <1>k, <2>1, <2>3 DEF OnThreadGone
  <2>6. WorkerInv'
    BY <1>7, <2>1, <2>2 DEF OnThreadGone
  <2>7. BoxInv' /\ NoSearchDuringSend'
    BY <1>7, <2>1, <2>2 DEF OnThreadGone, NotSending
  <2> QED
    BY <2>1, <2>4, <2>5, <2>6, <2>7
<1> QED
  BY <1>1, <1>2, <1>3, <1>4, <1>5, <1>6, <1>7 DEF Slots

\* Every step keeps the invariant: the user's, the GUI thread's and the workers'.
LEMMA StepIInv == IInv /\ [Next]_vars => IInv'
<1> SUFFICES ASSUME IInv, [Next]_vars PROVE IInv'
  OBVIOUS
<1>1. CASE UNCHANGED vars
  <2>1. Pending' = Pending /\ Orderly(events)'
    BY <1>1, SameQueue DEF IInv, vars
  <2> QED
    BY <1>1, <2>1 DEF IInv, vars, pageVars, threadVars, widgetVars, PlainTypes, EventInv,
       WorkerInv, BoxInv, NoSearchDuringSend
<1> QED
  BY <1>1, UserKeeps, GuiKeeps, WorkerKeeps, SlotsKeep DEF Next

\* The invariant holds in every state of every run.
LEMMA IInvHolds == Spec => []IInv
BY InitIInv, StepIInv, PTL DEF Spec

-----------------------------------------------------------------------------
(* The theorems.                                                           *)

\* Every variable keeps its type: at most one box is open, and nothing but the
\* progress of a send is ever posted twice.
THEOREM GuiTypeCorrect == Spec => []TypeOK
BY IInvTypeOK, IInvHolds, PTL

\* The slot on QThread::finished never meets a thread pointer that is null or
\* names a later thread (recv_page.cpp, 95-97 and 117-120).
THEOREM PointersAreRight == Spec => []PointerNamesItsThread
<1>1. ASSUME IInv, NEW k \in Kinds
      PROVE  /\ ~thread[k] => worker[k] = "none" /\ ~\E i \in DOMAIN events : events[i].kind = k
             /\ Posted(k, "gone") => worker[k] = "none"
  BY <1>1 DEF IInv, WorkerInv, EventInv, Pending, Posted, Event
<1>2. IInv => PointerNamesItsThread
  BY <1>1 DEF PointerNamesItsThread
<1> QED
  BY <1>2, IInvHolds, PTL

\* The page of a transfer stays on show while the worker runs, while its result is
\* posted and while a box of that page is open: nobody walks away from it.
THEOREM PagesAreKept == Spec => []TransferKeepsItsPage
<1>1. ASSUME IInv
      PROVE  /\ worker["recv"] \notin {"none", "idle"} => page = "recv"
             /\ worker["send"] = "running" => page = "send"
  BY <1>1 DEF IInv, WorkerInv
<1>2. ASSUME IInv
      PROVE  /\ \A result \in Results : Posted("recv", result) => page = "recv"
             /\ Posted("send", "finished") => page = "send"
  BY <1>2 DEF IInv, EventInv, Pending, Posted, Event
<1>3. ASSUME IInv, NEW i \in DOMAIN boxes
      PROVE  /\ boxes[i] # "sent" => page = "recv"
             /\ boxes[i] = "sent" => page = "send"
  <2>1. /\ boxes = <<boxes[i]>>
        /\ boxes[i] \in {"offer", "failed", "saved", "sent"}
    BY <1>3 DEF IInv, PlainTypes, Boxes
  <2> QED
    BY <1>3, <2>1 DEF IInv, BoxInv
<1>4. IInv => TransferKeepsItsPage
  BY <1>1, <1>2, <1>3 DEF TransferKeepsItsPage, Results
<1> QED
  BY <1>4, IInvHolds, PTL

\* A search cannot be asked for while a file is being sent (send_page.cpp, 117 and
\* 230): the end of an earlier search does not enable refresh_btn_ then.
THEOREM SearchWaits == Spec => []NoSearchDuringSend
<1>1. IInv => NoSearchDuringSend
  BY DEF IInv
<1> QED
  BY <1>1, IInvHolds, PTL

\* No progress is shown on the receive page after the result: msquic's callbacks
\* report the one and the worker the other, but stop() has waited for them by then.
THEOREM ResultIsLast == Spec => []ResultStays
<1>1. IInv => ResultStays
  BY DEF IInv, WorkerInv, Pending, Posted, ResultStays
<1> QED
  BY <1>1, IInvHolds, PTL
=============================================================================
