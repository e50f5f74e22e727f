--------------------------------- MODULE Gui ---------------------------------
(***************************************************************************)
(* The desktop application (src/gui): the GUI thread with its queue of     *)
(* posted events, and the worker threads of the receive page and the send  *)
(* page.  What a worker does inside is Receiver, Discovery and QuicClient; *)
(* here it runs, reports and returns.                                      *)
(*                                                                         *)
(* Signals of a worker are posted to the GUI thread and handled in order.  *)
(* A message box runs an event loop of its own: it delivers events, but    *)
(* the user can reach nothing else until it is closed.                     *)
(***************************************************************************)
EXTENDS Naturals, Sequences

Kinds == {"recv", "browse", "send"}

VARIABLES
  page,             \* the page on show
  boxes,            \* the message boxes that are open, the last one on top
  gui,              \* exec() is running, or which destructor is
  thread,           \* [Kinds -> BOOLEAN]: is worker_thread_, browse_thread_,
                    \* send_thread_ set?
  worker,           \* how far each worker is
  quit,             \* the worker's event loop has been told to quit
  late_progress,    \* a reportProgress waits in the send worker's own queue
  events,           \* posted to the GUI thread
  recv_enabled,     \* the buttons of the receive page
  send_enabled,     \* those of the send page, ...
  refresh_enabled,  \* ... except refresh_btn_
  recv_label, send_label   \* status_label_

pageVars   == <<page, boxes, gui>>
threadVars == <<thread, worker, quit, late_progress>>
widgetVars == <<recv_enabled, send_enabled, refresh_enabled, recv_label, send_label>>
vars == <<pageVars, threadVars, events, widgetVars>>

Boxes == {"offer", "failed", "saved", "sent"}
Events == [kind : Kinds,
           what : {"declined", "failed", "saved", "finished", "quit", "gone", "progress", "offer"}]

TypeOK ==
  /\ page \in {"home", "recv", "send"}
  /\ boxes \in {<<>>} \cup {<<box>> : box \in Boxes}
  /\ gui \in {"running", "exited"} \cup Kinds
  /\ thread \in [Kinds -> BOOLEAN] /\ quit \in [Kinds -> BOOLEAN]
  /\ worker \in [Kinds -> {"none", "running", "asking", "receiving", "stopping", "idle"}]
  /\ late_progress \in BOOLEAN
  /\ events \in Seq(Events)
  /\ \A i, j \in DOMAIN events :
       events[i] = events[j] => i = j \/ events[i] = [kind |-> "send", what |-> "progress"]
  /\ {recv_enabled, send_enabled, refresh_enabled} \subseteq BOOLEAN
  /\ recv_label \in {"ready", "receiving", "result"}
  /\ send_label \in {"searching", "found", "sending", "result"}

Init ==
  /\ page = "home" /\ boxes = <<>> /\ gui = "running"
  /\ thread = [k \in Kinds |-> FALSE]
  /\ worker = [k \in Kinds |-> "none"]
  /\ quit = [k \in Kinds |-> FALSE]
  /\ late_progress = FALSE
  /\ events = <<>>
  /\ recv_enabled = TRUE /\ send_enabled = TRUE /\ refresh_enabled = TRUE
  /\ recv_label = "ready" /\ send_label = "searching"

Event(k, what) == [kind |-> k, what |-> what]

\* Once exec() has returned nothing that is posted is delivered.
Post(more) == events' = IF gui = "running" THEN events \o more ELSE events

Posted(k, what) == \E i \in DOMAIN events : events[i] = Event(k, what)

-----------------------------------------------------------------------------
(* The user.                                                               *)

UserAtPage(p) == gui = "running" /\ boxes = <<>> /\ page = p

StartThread(k) ==
  /\ thread' = [thread EXCEPT ![k] = TRUE]
  /\ worker' = [worker EXCEPT ![k] = "running"]
  /\ quit' = [quit EXCEPT ![k] = FALSE]

\* RecvPage::reset.
ResetRecv == recv_enabled' = TRUE /\ recv_label' = "ready"

\* MainWindow::showReceive.
ShowReceive ==
  /\ UserAtPage("home")
  /\ page' = "recv"
  /\ ResetRecv
  /\ UNCHANGED <<boxes, gui, threadVars, events, send_enabled, refresh_enabled, send_label>>

Occupied == thread["browse"] \/ thread["send"]

\* SendPage::refreshPeers past its early return.
refreshPeers ==
  /\ ~Occupied
  /\ StartThread("browse")
  /\ send_label' = "searching" /\ refresh_enabled' = FALSE
  /\ UNCHANGED late_progress

\* SendPage::reset, which disables refresh_btn_ too.
ResetSend ==
  /\ send_enabled' = TRUE
  /\ send_label' = "searching" /\ refresh_enabled' = FALSE

\* SendPage::startDiscovery does nothing while a thread of the page is there.
startDiscovery == refreshPeers \/ (Occupied /\ UNCHANGED threadVars)

\* MainWindow::showSend.
ShowSend ==
  /\ UserAtPage("home")
  /\ page' = "send"
  /\ ResetSend /\ startDiscovery
  /\ UNCHANGED <<boxes, gui, events, recv_enabled, recv_label>>

Refresh ==
  /\ UserAtPage("send") /\ refresh_enabled
  /\ refreshPeers
  /\ UNCHANGED <<pageVars, events, recv_enabled, recv_label, send_enabled>>

\* Mutant: a second receiver may be started while the first is being put away.
AlwaysFree == TRUE

ReceiverFree == ~thread["recv"]

\* RecvPage::startReceive.
startReceive ==
  /\ UserAtPage("recv") /\ recv_enabled
  /\ ReceiverFree
  /\ StartThread("recv")
  /\ recv_enabled' = FALSE /\ recv_label' = "receiving"
  /\ UNCHANGED <<pageVars, late_progress, events, send_enabled, refresh_enabled, send_label>>

\* SendPage::sendFile; a search may still be under way.
sendFile ==
  /\ UserAtPage("send") /\ send_enabled
  /\ ~thread["send"]
  /\ StartThread("send")
  /\ late_progress' = FALSE
  /\ send_enabled' = FALSE /\ refresh_enabled' = FALSE
  /\ UNCHANGED <<pageVars, events, recv_enabled, recv_label, send_label>>

\* Mutant: Back stays enabled during a transfer.
BackAlways(p) == p # "home"

BackEnabled(p) == (p = "recv" /\ recv_enabled) \/ (p = "send" /\ send_enabled)

Back ==
  /\ gui = "running" /\ boxes = <<>> /\ BackEnabled(page)
  /\ page' = "home"
  /\ UNCHANGED <<boxes, gui, threadVars, events, widgetVars>>

Front(s) == SubSeq(s, 1, Len(s) - 1)

\* The box on top is closed; the handler that opened it goes on.
CloseBox ==
  /\ gui = "running" /\ boxes # <<>>
  /\ boxes' = Front(boxes)
  /\ LET box == boxes[Len(boxes)] IN
     \/ /\ box = "offer"
        /\ worker' = [worker EXCEPT !["recv"] = "receiving"]
        /\ UNCHANGED page
     \/ /\ box = "failed"
        /\ UNCHANGED <<page, worker>>
     \/ /\ box \in {"saved", "sent"}
        /\ page' = "home"
        /\ UNCHANGED worker
  /\ UNCHANGED <<gui, thread, quit, late_progress, events, widgetVars>>

-----------------------------------------------------------------------------
(* The workers.                                                            *)

workerFrame == <<pageVars, thread, widgetVars>>

Moves(k, from, to) == worker[k] = from /\ worker' = [worker EXCEPT ![k] = to]

\* RecvWorker::run asks the page and blocks (BlockingQueuedConnection).
AskOffer ==
  /\ Moves("recv", "running", "asking")
  /\ Post(<<Event("recv", "offer")>>)
  /\ UNCHANGED <<workerFrame, quit, late_progress>>

\* receive_file has returned; server->stop() is next.
ReceiveReturns ==
  /\ Moves("recv", "running", "stopping") \/ Moves("recv", "receiving", "stopping")
  /\ UNCHANGED <<workerFrame, quit, late_progress, events>>

\* Mutant: stop() does not wait for the callbacks.
CallbacksGoOn == {"receiving", "stopping", "idle"}

CallbacksRun == {"receiving", "stopping"}

\* status, and the progress of the receiving side, which msquic's callbacks post to
\* the page until stop() has waited for them; one such event stands for several.
Tells(k) ==
  /\ worker[k] = "running" \/ (k = "recv" /\ worker[k] \in CallbacksRun)
  /\ ~Posted(k, "progress")
  /\ Post(<<Event(k, "progress")>>)
  /\ UNCHANGED <<workerFrame, worker, quit, late_progress>>

\* That of the sending side is posted to the worker, whose thread is in run().
SendProgress ==
  /\ worker["send"] = "running"
  /\ late_progress' = TRUE
  /\ UNCHANGED <<workerFrame, worker, quit, events>>

\* Mutants: QThread::quit is not connected, or a result is reported twice.
ReportsOnly(k, what) == Post(<<Event(k, what)>>)
ReportsTwice(k, what) == Post(<<Event(k, what), Event(k, what), Event(k, "quit")>>)

\* finished goes to the page's slot and to QThread::quit, in this order.
Reports(k, what) == Post(<<Event(k, what), Event(k, "quit")>>)

RecvReports ==
  /\ \E result \in {"declined", "failed", "saved"} : Reports("recv", result)
  /\ Moves("recv", "stopping", "idle")
  /\ UNCHANGED <<workerFrame, quit, late_progress>>

BrowseReports ==
  /\ Moves("browse", "running", "idle")
  /\ Reports("browse", "finished")
  /\ UNCHANGED <<workerFrame, quit, late_progress>>

SendReports ==
  /\ Moves("send", "running", "idle")
  /\ Reports("send", "finished")
  /\ UNCHANGED <<workerFrame, quit, late_progress>>

\* The send worker's event loop gets to the reportProgress calls only now.
LateProgress ==
  /\ worker["send"] = "idle" /\ late_progress
  /\ late_progress' = FALSE
  /\ Post(<<Event("send", "progress")>>)
  /\ UNCHANGED <<workerFrame, worker, quit>>

\* The event loop quits and the thread reports its end.
ThreadEnds(k) ==
  /\ quit[k] /\ Moves(k, "idle", "none")
  /\ Post(<<Event(k, "gone")>>)
  /\ UNCHANGED <<workerFrame, quit, late_progress>>

-----------------------------------------------------------------------------
(* The slots, run by the GUI thread's event loop or that of a box.         *)

Handles(k, what) ==
  /\ gui = "running" /\ events # <<>> /\ Head(events) = Event(k, what)
  /\ events' = Tail(events)

\* RecvPage::askAcceptOffer, RecvPage::onFinished and SendPage::onSendFinished
\* up to their boxes.
Opens(box) == boxes' = Append(boxes, box)

askAcceptOffer ==
  /\ Handles("recv", "offer")
  /\ Opens("offer")
  /\ UNCHANGED <<page, gui, threadVars, widgetVars>>

RecvFinished ==
  /\ \/ Handles("recv", "declined") /\ UNCHANGED boxes
     \/ Handles("recv", "failed") /\ Opens("failed")
     \/ Handles("recv", "saved") /\ Opens("saved")
  /\ recv_label' = "result" /\ recv_enabled' = TRUE
  /\ UNCHANGED <<page, gui, threadVars, send_enabled, refresh_enabled, send_label>>

onBrowseFinished ==
  /\ Handles("browse", "finished")
  /\ send_label' = "found"
  /\ UNCHANGED <<pageVars, threadVars, recv_enabled, send_enabled, refresh_enabled, recv_label>>

onSendFinished ==
  /\ Handles("send", "finished")
  /\ Opens("sent")
  /\ send_label' = "result"
  /\ UNCHANGED <<page, gui, threadVars, recv_enabled, send_enabled, refresh_enabled, recv_label>>

\* onStatus and onProgress, onBrowseStatus, onSendStatus and onSendProgress.
OnProgress ==
  /\ \/ /\ Handles("recv", "progress")
        /\ recv_label' = "receiving"
        /\ UNCHANGED send_label
     \/ /\ Handles("browse", "progress")
        /\ send_label' = "searching"
        /\ UNCHANGED recv_label
     \/ /\ Handles("send", "progress")
        /\ send_label' = "sending"
        /\ UNCHANGED recv_label
  /\ UNCHANGED <<pageVars, threadVars, recv_enabled, send_enabled, refresh_enabled>>

OnQuit(k) ==
  /\ Handles(k, "quit")
  /\ quit' = [quit EXCEPT ![k] = TRUE]
  /\ UNCHANGED <<pageVars, thread, worker, late_progress, widgetVars>>

\* Mutants: the end of a search enables refresh_btn_ in any case, or leaves it.
RefreshAllowed == TRUE
RefreshLeft == refresh_enabled

NotSending == ~thread["send"]

\* The lambdas on QThread::finished.
OnThreadGone(k) ==
  /\ Handles(k, "gone")
  /\ thread' = [thread EXCEPT ![k] = FALSE]
  /\ \/ k = "recv" /\ UNCHANGED <<send_enabled, refresh_enabled>>
     \/ k = "browse" /\ refresh_enabled' = NotSending /\ UNCHANGED send_enabled
     \/ k = "send" /\ send_enabled' = TRUE /\ refresh_enabled' = TRUE
  /\ UNCHANGED <<pageVars, worker, quit, late_progress, recv_enabled, recv_label, send_label>>

-----------------------------------------------------------------------------
(* The user closes the window: exec() returns and the pages are destroyed, *)
(* each waiting for its threads.                                           *)

\* Mutant: a destructor waits without telling the event loop to quit.
QuitUntold(k) == quit

Quit(k) == [quit EXCEPT ![k] = TRUE]

Destroys(from, to) ==
  /\ gui = from
  /\ gui' = to
  /\ quit' = IF to \in Kinds /\ thread[to] THEN Quit(to) ELSE quit
  /\ events' = <<>>
  /\ UNCHANGED <<page, boxes, thread, worker, late_progress, widgetVars>>

CloseWindow == boxes = <<>> /\ Destroys("running", "recv")

Waited(k) == thread[k] => worker[k] = "none"

Destroy ==
  \/ Waited("recv") /\ Destroys("recv", "browse")
  \/ Waited("browse") /\ Destroys("browse", "send")
  \/ Waited("send") /\ Destroys("send", "exited")

-----------------------------------------------------------------------------
User ==
  \/ ShowReceive \/ ShowSend \/ Refresh \/ startReceive \/ sendFile \/ Back
  \/ CloseWindow

Worker(k) ==
  \/ k = "recv" /\ (AskOffer \/ ReceiveReturns \/ RecvReports)
  \/ k = "browse" /\ BrowseReports
  \/ k = "send" /\ (SendProgress \/ SendReports \/ LateProgress)
  \/ Tells(k) \/ ThreadEnds(k)

Slots ==
  \/ askAcceptOffer \/ RecvFinished \/ onBrowseFinished \/ onSendFinished \/ OnProgress
  \/ \E k \in Kinds : OnQuit(k) \/ OnThreadGone(k)

Next == User \/ CloseBox \/ (\E k \in Kinds : Worker(k)) \/ Slots \/ Destroy

Spec == Init /\ [][Next]_vars

\* Workers have timed waits only, so run() returns and the thread ends; the event
\* loop delivers what is posted, destructors go on, and the user closes a box
\* that is open.  What else the user does is up to him.
FairSpec ==
  /\ Spec
  /\ WF_vars(Slots) /\ WF_vars(CloseBox) /\ WF_vars(Destroy)
  /\ WF_vars(RecvReports) /\ WF_vars(ReceiveReturns)
  /\ WF_vars(BrowseReports) /\ WF_vars(SendReports)
  /\ \A k \in Kinds : WF_vars(ThreadEnds(k))

-----------------------------------------------------------------------------
(* Properties.                                                             *)

\* The slot on QThread::finished never meets a thread pointer that is null or
\* names a later thread: while the pointer is null no worker of that kind lives
\* and none of its events is still to come, and while the end of a thread is
\* posted no new one runs (recv_page.cpp, 95-97 and 117-120).
PointerNamesItsThread ==
  \A k \in Kinds :
    /\ ~thread[k] => worker[k] = "none" /\ ~\E i \in DOMAIN events : events[i].kind = k
    /\ Posted(k, "gone") => worker[k] = "none"

\* Nobody walks away from a transfer: its page stays on show while the worker runs,
\* while its result is posted but not handled, and while a box of that page is open
\* (recv_page.cpp, 144-181; send_page.cpp, 215-226).
TransferKeepsItsPage ==
  /\ \/ worker["recv"] \notin {"none", "idle"}
     \/ \E result \in {"declined", "failed", "saved"} : Posted("recv", result)
     \/ \E i \in DOMAIN boxes : boxes[i] # "sent"
     => page = "recv"
  /\ \/ worker["send"] = "running" \/ Posted("send", "finished")
     \/ \E i \in DOMAIN boxes : boxes[i] = "sent"
     => page = "send"

\* A search cannot be asked for while a file is being sent.
NoSearchDuringSend == refresh_enabled => ~thread["send"]

\* What the receive page shows at the end is the result: no progress comes after.
ResultStays ==
  recv_label = "result" => ~Posted("recv", "progress") /\ worker["recv"] \in {"none", "idle"}

\* A page gets over its threads: whatever was started is put away, and the next
\* search, send or receive is possible again, if the window stays open.
ThreadsEnd ==
  \A k \in Kinds : thread[k] ~> ~thread[k] \/ gui # "running"

\* The send page does not search for ever: even if the user came back before the
\* thread of an earlier search was gone, so that none is started although the
\* label says so, refresh_btn_ becomes usable (send_page.cpp, 97-118).
SearchingEnds ==
  page = "send" /\ send_label = "searching"
    ~> send_label # "searching" \/ refresh_enabled \/ page # "send" \/ gui # "running"

\* Closing the window ends the application, unless the receive worker has asked
\* the GUI thread for an answer it will not give any more (recv_worker.cpp, 61-71).
ExitReturns == gui = "recv" ~> gui = "exited" \/ worker["recv"] = "asking"
=============================================================================
