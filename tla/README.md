# LFT: a TLA+ model of the file transfer

LFT sends one file at a time between two machines of a local network over QUIC.
The receiver listens, shows the user the name and size of what is offered, and
answers ACCEPT or REJECT; an accepted sender streams the file, the receiver
checks size and SHA-256 and answers OK or FAIL.  The difficulty is not the
happy path but the threads: `receive_file()` runs on one thread, msquic
delivers the events of every connection on worker threads beside it, most of the
receive state is read and written without a lock, and the sending side has the
same structure.  This directory models both ends, the transport between them, the
text of the header, the life of the two endpoint objects, service discovery and the
desktop application, checks them with TLC and proves the central safety
properties with TLAPS.

## 1. Inventory

| Part | State | Operations | Interacts with |
|---|---|---|---|
| `QuicServer` (`src/transfer/quic_server.cpp`) | handles, `client_connection_`, `file_stream_`, the incoming file (`file_*`, `stream_receive_buffer_`), `offer_ready_`, `file_done_`, `file_ok_`, `file_result_` | `start`, `receive_file`, `stop`; callbacks of listener, connections, streams | msquic callbacks, the caller's `on_offer`, the disk |
| `QuicClient` (`src/transfer/quic_client.cpp`) | handles, one flag and condition variable per wait, `decision_buf_`, `file_ack_`, `rejected_` | `connect`, `send_file`, `disconnect`, destructor; callbacks; `send_file_internal` and `send_raw_stream` for tests | msquic callbacks, the file being sent |
| TLS (`open_configuration` of both) | the configuration handle | part of `start` and `connect` | certificate files, msquic |
| Wire protocol (`quic_transfer.cpp`) | none | `sanitize_file_name`, `encode_file_header`, `decode_file_header` | both endpoints |
| `stream_send_copy` (`quic_send_buffer.h`) | one heap buffer per outstanding send | one `StreamSend` | both endpoints |
| `sha256_file` | none | digest of a file | both endpoints |
| msquic (external) | connections, streams, outstanding sends | events and calls | both endpoints |
| Service discovery (`net/mdns.cpp`) | advertiser: `ref_`, `running_`, a thread; browser: the items of one search | `start`, `stop`, the event thread; `browse`, `find_by_name`, `resolve_service` | DNS-SD responder |
| Command line (`main.cpp`) | none of its own | `recv`, `send`, `list` | start, advertise, receive_file, stop; find, connect, send_file, disconnect; browse |
| GUI (`src/gui`) | three pages, up to three worker threads, buttons and labels | slots, queued signals, message boxes, destructors; a worker blocks for the answer to an offer | the same sequences, run by workers |
| Formatting (`format.cpp`) | none | byte counts as text | none |

What is hard to get right, and for which part:

* **Approval** (`QuicServer`, `QuicClient`): no file byte leaves the sender and
  none reaches the receiver's disk before the user said yes, and yes to *that*
  file.  Threatened by a second sender, by a header that arrives while
  `receive_file` is still setting its fields, and by stale handles.
* **Agreement on the outcome**: `send_file` reports success, and `receive_file`
  reports success, only if the announced bytes are on disk; `was_rejected()`
  only if the receiver refused.  Threatened by truncated or edited files, split
  messages, failed writes, late acks and expiring waits.
* **Reading the header**: it may be cut anywhere, what follows it is the body,
  and the name it carries must not leave the output directory.
* **Arithmetic**: `header.size - bytes_written` is unsigned.
* **Coming home**: every wait ends.  Threatened by lost links, aborts that are
  overtaken by a close, and callbacks that need a mutex the waiter holds.
* **Delivery of the last message**: `receive_file` may not return (and `stop()`
  destroy the connection) before the sender has read the answer.
* **Handles** (`start`, `stop`, `connect`, `disconnect`): each is closed once,
  in order, whatever failed before, while callbacks close some of them.
* **Credit**: an answer belongs to the `send_file` it was sent for, although
  the flags are members that outlive a call.
* **Discovery**: what is announced listens, what is found is what was asked
  for, and the background thread is served and joined.
* **GUI**: a slot meets the thread it was connected for; a result is shown on the
  page it belongs to; the application can be closed.

`PROJECT.json` lists each of these hazards at the line where it bites.

## 2. Modules

| Module | Models |
|---|---|
| `Protocol` | header and reply texts as fragments, `sanitize_file_name`, the digest |
| `Quic` | msquic as the two endpoints use it in a transfer: per client one connection and one stream, seen from both ends |
| `QuicServer` | the receiving thread, the server's callbacks, the disk |
| `QuicClient` | the sending thread, the client's callbacks, the file being sent |
| `Transfer` | one receiver and any number of senders; the properties |
| `FileTransfer` | the abstract specification: what a transfer promises, without streams, callbacks or threads |
| `TransferRefinement` | `Transfer` implements `FileTransfer` |
| `HeaderCodec` | the header text, its encoder and decoder, and how the server reads it off a stream |
| `ClientLifecycle` | a `QuicClient` object through several connections and sends |
| `ServerLifecycle` | a `QuicServer` object through `start` and `stop`, with its connections |
| `Discovery` | the advertiser with its thread, the responders, a sender's search |
| `Receiver` | a receiving process: `run_recv`, or `RecvWorker::run` |
| `Gui` | the GUI thread with its event queue, and the pages' workers |
| `TransferProofs` | proofs for any number of senders: type correctness, the size invariant, approval, the bytes behind an OK |
| `SessionProofs` | lemmas about one sender: the order of a session, what is on the wire |
| `OutcomeProofs` | proofs: the stored bytes behind both sides' reports, the delivered reply |
| `RefinementProofs` | proofs: the refinement of `FileTransfer`, step by step |
| `HeaderCodecProofs` | proofs: the header text, its decoder and grammar, stored names |
| `ReceiverProofs` | proofs: the handles of the server, the advertiser, the search |
| `ClientProofs` | proofs: the handles, answers and failures of `ClientLifecycle` |
| `GuiProofs` | proofs: workers, pages and labels of `Gui` |
| `MCTransfer`, `MCHeaderCodec` | values of the constants for TLC |

`Quic` extends `Protocol`; `QuicServer` and `QuicClient` extend `Quic`;
`Transfer` composes the two.  `TransferRefinement` extends `Transfer` and
instantiates `FileTransfer`.  `Receiver` composes `ServerLifecycle` and
`Discovery`.  Of the proofs, `OutcomeProofs` extends `SessionProofs`, which extends
`TransferProofs`; `RefinementProofs` extends `TransferRefinement` and `OutcomeProofs`.  An action has the name of its method or event handler; variables have
the names of the fields they stand for, without the trailing underscore.

The endpoints appear at two levels.  `QuicServer` and `QuicClient` follow one
transfer closely: one connection and one stream per sender, the setup done.
`ServerLifecycle` and `ClientLifecycle` follow the object from construction
to destruction, and keep of a transfer only which handle is used and which stream
an event belongs to.

### Processes and atomicity

* **Receiving thread** (`rpc`): `started`, the arming block of `receive_file`
  (lines 569-589), the wait for a header, the prompt, the open, the flag
  `file_accepted_` (651), ACCEPT, the final wait, the drain, `stop()`.  It is split wherever it waits, releases a
  lock, or publishes a field that callbacks read without the lock.  Hence the
  arming block is four steps: `receiving_file_` (571), path (572-574),
  `file_offer_` (575), and the resets.
* **Server callbacks**, per connection.  One callback is one step, as msquic
  serialises the events of a connection.  If a callback needs `file_mutex_` while
  the receiving thread holds it across steps (`MutexHeld`), the worker stops in
  the middle (`blocked`) and no further event of that connection is handled
  until `EnterFileMutex`.  Between the open and the flag (`MutexBusy`) the thread
  holds the mutex as well, but the next step gives it back; a callback that needs it
  there is taken to start after the flag.  Nothing is lost by that: what such a callback
  does before it locks neither writes `file_accepted_` nor depends on it.
* **Sending thread** (`cpc`): `connect`, `send_file`, `disconnect` in the order
  of `run_send` and of the GUI's worker, split at each wait.
* **Client callbacks**: one step each; they never wait.
* **Environment**: a link is lost for good (also the 30 s idle timeout, which
  looks the same to both ends), or somebody edits the file being sent.
* **`ClientLifecycle`, `ServerLifecycle`**: the thread (`apc`, `spc`) has one step
  per handle it acquires or gives back, and one per access to a member the
  callbacks also write, so that `disconnect()` tests `connection_`, clears
  `shutdown_complete_` and uses `connection_` in three steps, and `stop()`
  copies `client_connection_` in one step and uses the copy in the next.
  A SHUTDOWN_COMPLETE callback closes the handle, clears the member and notifies
  in steps of their own.  `RegistrationClose` waits for msquic's connections.
* **`Discovery`**: the advertiser thread waits in `select` and wakes on a reply,
  an error or the one-second tick; the responder may restart and drop the
  advertiser; responders report a service as often and in any order they like.
* **`Gui`**: the GUI thread handles one posted event at a time, one slot per
  step; a message box runs an event loop of its own, so events go on while it
  is open.  Workers post, and run until their event loop is told to quit.

### Data

In `Transfer` a header travels as two fragments, and so does a reply, so that a
receive event may end inside either; a file byte is a model value.  A receive
event delivers any non-empty prefix of what is under way.  `decode_file_header`
succeeds exactly on a buffer that begins with both fragments; `encode_file_header`
and `decode_file_header` sanitise the name.  `sha256` is collision free.  Of
`file_result_.error` only emptiness is kept.

`HeaderCodec` has the text itself: a sequence of characters, in which each of the
format's words and the default name count as one.  Radix, hash length, size of
`uint64_t` and the header cap are constants.  It justifies what `Protocol`
assumes: cut anywhere, the header is read back and the body begins behind it
(`ReadsWhatWasSent`).

`ClientLifecycle` keeps of a file the header and one chunk, of a reply its word,
which is `"none"` for the empty string.
`Discovery` keeps of a service its name, `Gui` of a label which message it shows.

### Faults

The constant `Faults` says what may go wrong in a run of `Transfer`: `link`, the
timeouts of `receive_file` (`recv_timeout`), of `drain_connection`
(`drain_timeout`) and of the sending side (`send_timeout`), a failing `open` or
`write` of the output, a failing `StreamSend` (`send`), and `edit` of the source.
A wait whose timeout is not among `Faults` waits until its condition holds.  With
it the wait may expire at any moment, so no relation between the different
time-outs is assumed.  `EarlySenders` says whether senders may call `send_file`
before `receive_file` is armed; the code does not prevent it, since the listener is
open and advertised before `receive_file` is called (`main.cpp` 221-267,
`recv_worker.cpp` 47-86).

In the other modules every fault may always happen: each acquisition may fail,
each timed wait may expire, peers leave and connections break, the responder
restarts, a search finds nothing, and the user clicks what is enabled.

### Simplifications

* Steps that fail before the header is sent (file missing, hashing fails) end in
  `Transfer` as `SendWithoutConnection` does: the call returns false with nothing
  on the wire.  `StreamOpen` and `StreamStart` fail in `ClientLifecycle`.  A source
  that can no longer be opened ends as `FileShrank` does.
* The resets at the end of the arming block (576-588) are one step.  A callback
  that runs between two of them can see half of the reset state; that finer
  race is not modelled.  It needs bytes to arrive while `receive_file` is being
  armed, which `~EarlySenders` excludes; where early senders are allowed, and in
  `SizeNeverUnderflows`, the results are about a block that resets at once.
* A rejection's `StreamSend` and its assignments to `file_result_` are one step;
  no callback reads `rejected`.
* Two callbacks of different connections may also race on unlocked fields
  inside a callback.  The model interleaves whole callbacks; finer races of two
  workers are not modelled.
* One `receive_file` per server, one `send_file` per client in `Transfer`: both
  front ends do exactly that.
* `ServerLifecycle` has no streams; they are `QuicServer`'s.
* Device names on the LAN are different; DNS-SD would otherwise rename one.

## 3. Runs

| Run | Checks | Instance |
|---|---|---|
| `single_sender` | `TypeOK`, `NothingWrittenUnapproved`, `ReceivedMeansStored`, `NoSizeUnderflow`, `Implements` | one sender, honest or with a wrong size, hash or length, or junk; link loss, edits, failing opens and writes, every wait may expire |
| `two_senders` | `BodyOnlyAfterApproval`, `OkBytesAreStored` | two senders whose files differ in name, content, both or neither, symmetric; nothing fails |
| `auto_accept` | `SenderOkMeansStored` | no prompt, explicit output file, early senders |
| `clean_network` | `ReplyDelivered`, `ApprovedTransferCompletes`, `EverybodyReturns` | nothing fails and no wait may expire |
| `termination` | `EverybodyReturns` | link loss, failing opens, early senders; waits may expire |
| `header_codec` | `ReadsWhatWasSent`, `NameIsSafe`, `MalformedStaysMalformed`, `AgreesWithGrammar` | every header and text of `MCHeaderCodec`, cut in every way |
| `client_lifecycle` | `TypeOK`, `NothingLeft`, `ClosedInOrder`, `RacesOnlyAfterLoss`, `AnswersAreOwn`, `FailureIsSignalled`, `DisconnectReturns` | any number of connections, two sends on each |
| `receiver` | `TypeOK`, `ServerClosedInOrder`, `ClientIsKnown`, `SearchResults`, `ServicedWhileRunning`, `AdvertisedWhileListening`, `ReceiverLeavesNothing`, `ReceiverEnds`, `SearchEnds` | two clients, two services on the LAN, any number of receives and searches |
| `gui` | `TypeOK`, `PointerNamesItsThread`, `TransferKeepsItsPage`, `NoSearchDuringSend`, `ResultStays`, `ThreadsEnd`, `SearchingEnds`, `ExitReturns` | any number of user actions |

**Bounds of the transfer.**  Files are at most two bytes long over two byte
values.  The empty file and a file of two bytes occur in `single_sender`,
`auto_accept` and `clean_network`; files of equal length that differ in one byte in
`two_senders` (of one byte, under one name or two) and `clean_network`; wrong hashes and edited files in `single_sender`.
The chunk size is 1 except in `auto_accept`, so a two-byte file takes two turns of the
send loop.  One junk message exceeds
`MaxHeaderUnits` and triggers the header cap.  One sender shows everything
that needs one connection; interference needs a second one, and the state the
senders share (`rx`, `file_stream`, `client_connection`, `file_header`) holds
one sender's values at a time.

**Bounds of the codec.**  Numbers are binary and at most 5, so that leading
zeros, the largest value and overflow (`110`) occur; hashes have one digit; raw
names have up to three of eight characters, which covers every separator, `.`
and `..`, and control and white-space characters at either end or in the middle;
texts have up to four lines, in which a field may be missing, repeated,
malformed or unknown.  The cap of 16 lies above most of the headers that are encoded
and below some, alone or with their bodies.

**Bounds of the lifecycles.**  Two sends on a connection are enough for an event
of the earlier one to meet the flags and the handle of the later one; connections
are not bounded, so state left behind by one is seen by the next.  Two clients make
`client_connection_` change hands while the first one is up.  Two names make one of
the services a wrong answer to `find_by_name`.

**The refinement.**  `FileTransfer` says: a sender announces a file, the user is shown
an announced file once and decides, a sender streams only if its own file was shown
and accepted, the file becomes stored only after that, a sender reports OK
only when it is stored, a rejection only after a refusal or a file that could not be
created, and the receiver reports true only when it is stored.  So with one sender
`Implements` contains `SentWasApproved`, `SenderOkMeansStored` and that a rejection is
a refusal.  Under
`TransferRefinement`'s mapping "stored" is computed from the bytes on disk, and
the answers from what the two calls return.  `Implements` checks it in
`single_sender` with every fault; with two senders it is false for the reason
`swapped_sender` shows.

**Deadlock** is checked except in `two_senders`, in the counterexamples, and
in `gui`.  In `two_senders` no wait may expire, and a
sender that lost the race for `file_stream_` waits for its own.  In `gui` the
application may exit, or hang in `~RecvPage` as described below.

**Fairness.**  In `Transfer`, `FairSpec` is weak fairness of the receiving thread, of
each sending thread, of each connection's callbacks at both ends and of the
server noticing that its peer is gone.  The operating system schedules threads,
msquic delivers the events it has, and the user eventually answers the prompt.
Expiring waits are part of the threads' steps: they are fair only where their
timeout is in `Faults`.  Lost links and edits are never fair.  That `clean_network`
allows no timeout makes its liveness results the strong ones: the protocol ends
by itself.

In `ClientLifecycle` a thread inside `disconnect()` and msquic's worker go on;
what the application calls next is up to it.  In `Receiver` threads and
callbacks go on, a connected client leaves in the end (its waits are timed and
`IdleTimeoutMs` is set), and a search meets its deadline; receiving and restarts
are not fair.  In `Gui` the event loop delivers, workers return (all their
waits are timed), destructors go on, and the user closes a box that is
open; any other click is up to the user.

### Where the code departs from what the repository says

Each of these runs checks one statement of the documentation or of a comment
and ends with a counterexample.

| Run | Statement | What happens |
|---|---|---|
| `swapped_sender` | the receiver approves a transfer before its data is sent (`README.md` 109) | a second stream replaces `file_stream_` while the first header is at the prompt; ACCEPT goes to a sender nobody was shown |
| `early_sender` | the same | a header handled between lines 571 and 575 finds no prompt registered and is accepted on the callback's thread |
| `locked_drain` | the drain ends when the client closes (`quic_server.cpp` 595-598) | the drain holds `file_mutex_`, the sender's abort callback needs it, and the close is queued behind that callback; only the 2 s bound helps |

`swapped_sender` is also why `two_senders` checks the weaker
`BodyOnlyAfterApproval` and `OkBytesAreStored`; with one sender the file that is
streamed is the one that was shown, which `ApprovedIsSent` proves and `Implements`
contains.

Weaker departures have no run of their own.  They are steps of the models, and
where a property would be stronger without them, it allows for them:

* With two senders, an OK does not say under which name the bytes are stored.  If both
  files have the same contents and different names and the target is a directory,
  the sender that got the other's ACCEPT is told OK, and its bytes are in the
  other's file.  So `SenderOkMeansStored` is false there, and `OkBytesAreStored` asks
  for the bytes in some file.
* With two senders of which one gives up, not even that holds.  Let the file that was
  shown be a proper prefix of the other sender's, which has replaced `file_stream_`
  and was accepted.  The sender that was shown stops waiting and aborts; the
  callback closes the output of the transfer (188-191) although it is not that
  stream's; the remaining bytes are dropped, the prefix verifies
  against the header, and the other sender is told OK.  `two_senders` therefore has
  no `send_timeout`, and `OrderlySenders` below excludes it.
* A sender that leaves during the prompt has its stream closed while
  `file_stream_` keeps the handle, and ACCEPT is sent on it (654).  No property
  forbids that; `ReceivedMeansStored` and `EverybodyReturns` say that it makes neither a
  success nor an endless wait.
* Success is stored in `file_result_` when the ack is queued; if the wait expires
  before it completes, `receive_file` returns false and `last_file_result()` says
  success.  `ReceivedMeansStored` shows that the file is stored all the same.  The
  other way round, success is taken back after `receive_file` has returned or will
  return true, only by a sender that aborts during the drain (186-197); that is
  `ReceivedMeansStored`'s third part.
* Without a prompt two senders can open the same output one after the other, and the
  second truncates what the first was told is stored (271).  With a prompt and
  no early sender one call opens its output once; no run has two
  senders without a prompt.
* A failed open of an approved file is answered with REJECT, so `was_rejected()`
  does not tell a refusal from the receiver's I/O error ("unwritable" in `FileTransfer`).
* A sender that aborts and disconnects at once may have its abort overtaken by the
  close, so that only the receiver's timeout ends its wait (`termination`).
* `stop()` shuts down only the client that connected last; it ends because
  the other clients leave by themselves (`ReceiverEnds` needs their fairness).
  And it uses its copy of `client_connection_` after giving `conn_mutex_` back, when the
  callback may have closed that handle (510); no property forbids that.
* After a wait of a `send_file` expired, a late OK on its stream counts for the
  next `send_file` on the same connection (`expired` in `AnswersAreOwn`).
  After a rejection it takes three: the FIN of a rejected send may end the wait of
  the second, which then fails, and the OK that the second earned is still to come
  and is taken for the third.  Hence "one before the last was rejected" in
  `AnswersAreOwn`; `client_lifecycle` has two sends, and three (`MaxSends = 3`) show
  this.  The proof is for any number.  And
  `was_rejected()` keeps its value when `send_file` returns before it resets
  `rejected_` (436); what `AnswersAreOwn` says of rejections is about the
  first send for that reason.
  The front ends send once per connection.
* SHUTDOWN_COMPLETE of one stream clears `stream_` even if it names the next
  stream, whose failure is then not signalled; `FailureIsSignalled` is about the first
  send on a connection for that reason.
* `disconnect()` may use a null or closed handle, or sit out
  `kShutdownTimeoutMs`, if the peer ends the connection meanwhile.
  `RacesOnlyAfterLoss` does not exclude this: it says that nothing else leads to it.
* The advertiser's thread ends when the responder drops it while `running_`
  stays true, and nothing restarts it (`ServicedWhileRunning` exempts a lost responder).
* After the receive, `stop()` closes the listener before the advertiser is destroyed, so
  for a moment the announcement has no listener (`AdvertisedWhileListening` is about the
  time in which the receiver waits for a file).
* If the window is closed while the receive worker asks for an answer, the
  worker waits for the GUI thread and the GUI thread for the worker, for ever.  The
  model reaches this state and `ExitReturns` exempts it.
* Progress of a send is delivered after its result and overwrites the label
  (`LateProgress`); `ResultStays` is about the receive page.

## 4. Proofs

TLAPS proves the following for every value of the constants, from the assumptions
named in the modules.  For the transfer these are `NamesAssumption`,
`ContentsAssumption`, `NoneAssumption` (the null value is neither a name nor a
header), `FaultsAssumption`, `ClientsAssumption`, `ServerAssumption`,
`ClientAssumption` and `EarlySendersAssumption`; for the receiver
`ClientsAssumption` (the null handle is no client) and `NamesAssumption` (the
receiver's name is a name, the null name is not); for the client
`SendsAssumption`; for the header text `CodecAssumption` (a radix of at most ten, and
that the enumerated headers, bodies and texts are such).  `Gui` needs none.
Hypotheses of single theorems are `Clients = {c}`, `~EarlySenders`, `Undisturbed`
and `OrderlySenders`, explained with the proofs.

| Theorem | Property | For |
|---|---|---|
| `TypeCorrect`, `SizeNeverUnderflows` | `TypeOK`, `NoSizeUnderflow` | any senders |
| `ApprovalBeforeBody`, `ApprovalBeforeWrite` | `BodyOnlyAfterApproval`, `NothingWrittenUnapproved` | any senders that start after arming |
| `OkMeansBytesStored` | `OkBytesAreStored` | any senders that keep to `OrderlySenders` |
| `ReceivedIsStored`, `OkMeansStored` | `ReceivedMeansStored`, `SenderOkMeansStored` | one sender that starts after arming |
| `RepliesAreDelivered` | `ReplyDelivered` | the same, `Undisturbed` |
| `TransferImplementsFileTransfer` | `Implements` | the same as `OkMeansStored`, with a prompt |
| `ApprovedIsSent` | `SentWasApproved` | the same as `OkMeansStored` |
| `LeavesNothing`, `ClosedInOrder`, `KnownClient` | `ServerLeavesNothing`, `ServerClosedInOrder`, `ClientIsKnown` | any clients |
| `Listening`, `GoneWithoutTrace`, `Serviced` | `AdvertisedWhileListening`, `ReceiverLeavesNothing`, `ServicedWhileRunning` | any clients and names |
| `SearchIsExact`, `ReceiverTypeCorrect` | `SearchResults`, `TypeOK` | any names; finitely many for the types |
| `HeadersAreReadBack`, `DecodingAgreesWithGrammar`, `ReadNamesAreSafe`, `MalformedIsFinal` | `ReadsWhatWasSent`, `AgreesWithGrammar`, `NameIsSafe`, `MalformedStaysMalformed` | any radix, hash length, cap, headers, bodies and texts |
| `DecodeInvertsEncode`, `SanitizedOnceIsEnough` | about the operators | any header, any name |
| the six of `ClientProofs` | all invariants of `client_lifecycle` | any number of connections and sends |
| the five of `GuiProofs` | all invariants of `gui` | any user actions |

**`TransferProofs`.**  `IInv` is `TypeOK` and `RxInv`.  `NoSizeUnderflow` is not
inductive by itself: a new header replaces `file_header_` while `bytes_written`
stays, so one needs that nothing has been written before a header is parsed,
and writing needs that an open output exists on disk for the written sequence to
be one.  `RxInv` says these three things.  There is one lemma per action, or per group
of actions with the same footprint (`FlowStepType`, `ClientFlowType`), and one
per shared helper (`stream_send_copy`, `notify_file_waiter`, the output file).
Results: `TypeCorrect` and `SizeNeverUnderflows`.

**`TransferProofs`, approval.**  `ApprovalBeforeBody` (`BodyOnlyAfterApproval`) and
`ApprovalBeforeWrite` (`NothingWrittenUnapproved`), for any number of senders
and any faults, assuming `~EarlySenders`; `early_sender` shows that the
assumption is needed.  The argument: a sender is in its body only if it read
ACCEPT; ACCEPT is put on the wire by line 654, which follows the approval, or by
`try_parse_file_header` while no prompt is registered, which needs bytes on a
stream during arming.  `ApprovalInv` says that nothing is under way and no sender is past
`connect` while `receive_file` is being armed (`QuietWhileArming`), that `answer`
is the answer of this call (`AnswerInv`), and that without an approval nothing is
accepted or stored and no sender has, or is about to receive, a fragment of
ACCEPT (`UnapprovedInv`).  The last part is the strengthening that makes the
property inductive: it follows ACCEPT backwards from the sender's body over its
decision, its gathered text and the wire to the step that sent it.

**`TransferProofs`, many senders.**  `OkMeansBytesStored`: whoever is told OK announced
bytes that some file on the receiver's disk holds, for any number of senders that
compete for one `receive_file`.  `OrderlySenders` says what it needs: the receiver
prompts, the senders run `send_file` on files nobody edits after `receive_file` is
armed, and none gives up (the second departure above shows why) or has a failing
`StreamSend`.  Lost links, the receiver's expiring waits, and failing opens
and writes stay.  It also names two facts about the data: a byte of a file is
no header fragment, so that no digest of contents is the digest of a header, and
the null value is no content.

The difficulty is that the senders share `rx`, `file_stream_` and `file_header_`, and
each new stream replaces the last two.  The argument goes by time.  Until
`receive_file` answers nobody has been told anything (`ToldInv`), so whatever streams
there are, each carries a header and no body (`SetupInv`, `JobInv`, `StreamInv`,
`ShelfInv`).  From then on, while there is an output, only `file_stream_` is told anything
(`ToldInv`, `CurrentInv`), and a new stream that replaces it takes the output away
for good; so only its bytes follow a header.  What is in the output is then one of
three: what `file_stream_` has delivered of its file; or a sequence with a header
fragment in it, because one sender's header was parsed and the other's came after it;
or less than that, since bytes that arrived together with the header are dropped with the
buffer and stay missing from the count (`HeadInv`, `BodyInv`).  And the output is
closed only by the end of the stream it belongs to (`ClosedInv`).
`finish_file_receive` rejects the third by the size and the second by the hash, so in
the first the digest it compares is that of the file of the sender it
answers, and `NewsInv` follows the news from there to what `send_file` returns.  No
conjunct is inductive alone: what is stored depends on what `file_stream_` has
delivered, that on who may still send, and that on who has been told what.

**`HeaderCodecProofs`.**  The codec is made of folds and one recursive function, so what it
computes needs induction over texts.  The library's induction theorems take an
operator as a parameter, which the provers cannot instantiate; what they can use is
its theorem that inclusion is well founded on the finite subsets of a set.
`LeastOfSet` derives from it that every non-empty set of numbers has a least
element, and an induction is a proof by the least counterexample, over numbers or
over the length of a sequence.  With it the first third shows that the folds
and the function exist and what one more step does to them (`IsStep`).  Then come,
each for its own sake: names (a sanitised name is one path component, and stays as
it is: `SanitizedOnceIsEnough`), digits and numbers in any radix with their
overflow, lines, the blank line, and texts joined line by line.  `DecodeInvertsEncode`
puts them together, and `SomeOfHeader` says that a proper prefix of an encoded header
is undecided, which is what lets receive events cut it anywhere.
The invariant is `CodecInv`: types, `SafeInv` (a parsed name is safe), `UndecidedInv`
(what is in the buffer while reading does not decode) and `SentInv` (buffer and what is to
come are together the announced header and a body, and while reading the buffer ends
before the header does).  `ReadsWhatWasSent` is not inductive without the last: it
speaks of the text read so far, and the next event brings more.
`DecodingAgreesWithGrammar` compares the loop with a declarative grammar, key by key:
what the loop has after some lines is what the grammar picks among them.

**One sender.**  The next three modules assume `Clients = {c}` and
`~EarlySenders`.  A second sender that opens a stream replaces `file_stream_` and
resets the receive state in the middle of the first one's transfer
(`swapped_sender`), and the invariants below say what the state is about: one
header, one stream, one file.  `OkMeansBytesStored` is what remains of
`SenderOkMeansStored` for more; of the other results of these modules nothing is
claimed with more than one sender.

**`SessionProofs`** has the lemmas.  `FlowInv` says which stages of the two sides
can coincide: the stream is opened once, after arming (`Unopened`, `OpensOnce`), the
receiver has nothing before it has the stream (`Unheard`), it goes on with a header
only (`PhaseInv`), and that header is the announced one (`HeaderInv`).
`HeaderInv` is not inductive without `WireInv`: until the header is parsed the
stream carries nothing but the header, or the junk of a test, because a sender
streams its body only after ACCEPT and nobody sends ACCEPT before.

**`OutcomeProofs`, what was stored.**  Both reports of success go back to one step,
`finish_file_receive` with a matching hash.  `StoredInv` collects every place where
its news can be, on the way from the callback to the two callers (`Claimed`: the
result, the flag, the blocked notification, the wire, the sender's text, what the
calls returned), and says that as long as the news is anywhere the whole file is
on disk, the output is closed and the sender's stream is at its end, so that
nothing can follow (`Delivered`).  `AgreeInv` keeps the two results in step: once
`receive_file` goes by a success (`Believed`), `last_file_result()` says so too or the
sender's abort has been handled, and no callback is on its way to change either.  It
needs that a sender that aborts is done with its call, so that it does not abort again.  `LengthInv` ties `bytes_written` to the length
of the output, and `AskedInv` the answer to the header that was shown.

**`OutcomeProofs`, what the sender knows.**  `RepliesAreDelivered`: when `receive_file`
returns true the sender has read OK, and when it was refused REJECT.  That holds under
`Undisturbed`: no lost link, no drain that runs into its 2 s, no sender that
stops waiting.  Each of the three lets the receiver return, or the sender leave,
with the reply still unread, and `drain_connection` promises nothing then.  All
other faults (failing opens, writes and sends, edits, the receiver's timeouts, the
test entry points) stay; `clean_network` checks the property with none of them.
`DeliveryInv` has five parts.  A connection ends by its sender's disconnect or by
`stop()` (`ConnectedInv`); a sender leaves only with the answer it waited for
(`PatientInv`); replies come one at a time, each where the sender looks for it
(`TalkInv`); a refusal is only drained and returned (`AnswerPhase`); and a success
that the receiver knows of has been read as OK or is under way and will be
(`OkInv`).

**`RefinementProofs`.**  `TransferImplementsFileTransfer` proves `Implements` for a
receiver that prompts: initial states map to an initial state, and every step
to one action of `FileTransfer` or a stutter, by one lemma for each part of `Next`
over a few about the view alone (`ViewShows`, `ViewDecides`, `ViewStreams`, ...).
`AgreementInv` is what the steps need of both sides at once: while the sender awaits
a decision, the text it has gathered and the text under way are exactly what the
receiver has decided (`AwaitInv`), a sender that acts on a decision acts on that one
(`DecidedInv`), a call has one result (`CallerInv`), and bytes behind a parsed header
come from a sender that streams or has given up (`BodyWireInv`).  `ApprovedIsSent`
follows: the file that is sent is the one that was shown.

**`ReceiverProofs`.**  For any set of clients and names:
`LeavesNothing`, `ClosedInOrder` and `KnownClient` about the server's handles,
`Listening`, `GoneWithoutTrace` and `Serviced` about the receiving process, and
`SearchIsExact` about a sender's search.  None of the properties is inductive: that
nothing is left in `stopped` depends on every step before.  `IInv` has four
parts.  `HandleInv` says that a handle member is set exactly when its handle is open
(`MembersAreLive`) and which handles each stage of `start` and `stop` can have
(`Stages`).  `ConnectionInv` says that there is no connection, and no
callback at work, without an open registration, and that `client_connection_`
names no connection whose end has been handled; it is what lets
`RegistrationClose` bring `AllClosed`.  `AdvertiserInv` relates `running_`, `ref_`,
the thread and the registration, and `Phases` relates the stage of `run_recv`
to those of the server and the advertiser.  `SearchIsExact` has an invariant of
its own, `SearchInv`: items and what is still unresolved are free of duplicates
and, in `find_by_name`, hold nothing but the wanted name; it takes the facts
about appending and removing from `SequenceTheorems`.  `ReceiverTypeCorrect` proves the
types and needs `Names` to be finite, because `TypeOK` bounds the browser's lists by
the number of devices.

**`ClientProofs`.**  All six invariants of `ClientLifecycle`, for any `MaxSends`.
`NothingLeft` and `ClosedInOrder` follow from which handle is open at each point
of `connect` and `disconnect` (`LiveInv`, `HandleInv`, `ConnectionInv`) and from the
pointer `stream_` naming only a stream that is open or just being closed
(`PointerInv`, `FreshInv`).  `RacesOnlyAfterLoss` needs that without a loss only
`disconnect` ends the connection (`LossInv`, `PaceInv`).  `AnswersAreOwn` is the hard one,
since the flags a send waits on are shared by all sends of a connection.  `PeerInv`
describes what a stream's inbox can hold, `LeftInv` says that a send that returned
leaves nothing to be heard on its stream unless a wait expired or it was rejected,
and `OwnAnswer` and `OwnResult` that what the current send was told was therefore
said on its own stream.  `SendInv`, `QueueInv` and `ReportInv` carry `FailureIsSignalled`.

**`GuiProofs`.**  All five invariants of `Gui`.  The properties speak of pages and
labels, but what breaks them is an event still in the queue.  So `Orderly` says in
which order events can be queued, `EventInv` what a queued event says about its
worker and the page, `WorkerInv` what the stage of a worker says about the page, and
`BoxInv` that a box on show is about an event that has been handled.

**Only model-checked** are:

* the liveness properties (`EverybodyReturns`, `ApprovedTransferCompletes`,
  `DisconnectReturns`, `ReceiverEnds`, `SearchEnds`, `ThreadsEnd`, `SearchingEnds`,
  `ExitReturns`): fairness and `ENABLED` are outside the prover's reach;
* `SenderOkMeansStored` with early senders and without a prompt (`auto_accept`);
* the counterexamples.

## 5. Not modelled

* Progress callbacks of the endpoints, logging, `format.cpp`: presentation.
* Command-line flags and exit codes: sequential and stateless.
* File dialogs, the choice of a peer in the list, and layout of the GUI; the
  transport's errors as the GUI words them.
* What is in certificates; `open_configuration` succeeds or fails.
* `connect()` after the peer ended a connection, without `disconnect()`: it would
  open everything anew over the old handles.  No caller does it.
* Two services with one name on the LAN.
* Races inside one callback, see the simplifications above.

## 6. Plan

1. *Done*: transport, both endpoints, their composition, type correctness and the
   approval proofs.
2. *Done*: the header text, the life of both endpoints, discovery, the receiving
   process with its proofs, the GUI, and the abstract specification with its
   refinement.
3. *Done*: proofs of `ReceivedMeansStored`, `SenderOkMeansStored` and
   `ReplyDelivered`, and of the refinement, for one sender.
4. *Done*: proofs about `ClientLifecycle` and `Gui`, and the types of `Receiver`.
5. *Done*: what an OK means for any number of senders, and all of `HeaderCodec`.
6. Open: what a step may never do (with one sender, no file is reopened or truncated
   once it was reported stored) as action properties, and `auto_accept`'s property as
   a theorem: it needs `OutcomeProofs`' invariants without `~EarlySenders`.
