---------------------------- MODULE SessionProofs ----------------------------
(***************************************************************************)
(* One sender and one receive_file: which stages of the two sides can      *)
(* coincide, and that the header the receiver decodes is the one the       *)
(* sender announced.  For any contents, names, faults and test entry       *)
(* points, with and without a prompt; the sender starts once receive_file  *)
(* is armed.                                                               *)
(*                                                                         *)
(* The argument: the stream carries nothing but the header until the       *)
(* sender reads ACCEPT, and nobody sends ACCEPT before the header is       *)
(* parsed.  So what is parsed is what was announced; and since the stream  *)
(* is opened once, nothing resets the receive state afterwards.            *)
(***************************************************************************)
EXTENDS TransferProofs

\* Where receive_file is once a header was offered to it.
Engaged ==
  Accepting \cup {"prompt", "reject_drain", "reject_locked"}
    \cup (IF Prompt THEN {"final_wait", "ok_drain"} ELSE {})

\* Before its stream is opened a sender has announced and sent nothing.
Unopened(c) ==
  cStream[c] = "none" =>
    /\ cpc[c] \in IdleStates /\ job[c] = NoJob
    /\ c2s[c] = <<>> /\ cFin[c] = "no" /\ sStream[c] = "none"

\* It opens one stream only, and only after receive_file was armed.
OpensOnce(c) ==
  /\ cpc[c] \in {"start", "connecting", "ready"} => cStream[c] = "none"
  /\ rpc \in Arming => cStream[c] = "none"

\* Before the server has the stream, nothing was received or answered.
Unheard(c) ==
  sStream[c] = "none" =>
    /\ rx = FreshRx(rx.path) /\ file_header = NoHeader
    /\ blocked[c] = "no" /\ ~offer_ready
    /\ s2c[c] = <<>> /\ sFin[c] = "no"
    /\ rpc \notin Engaged

\* receive_file goes on with a header only, and opens the output after that.
PhaseInv(c) ==
  /\ rpc \in Engaged \/ offer_ready => file_header # NoHeader
  /\ blocked[c] # "offer"
  /\ rpc \in {"offer_wait", "prompt"} => rx.out = "null" /\ ~rx.accepted
  /\ rx.out # "null" \/ rx.accepted => rx.header_parsed
  /\ ~Prompt => rpc \notin {"offer_wait", "prompt", "reject_drain", "reject_locked"}
                               \cup Accepting

\* The header that was decoded is the one that was announced, and the output
\* goes where it says.
HeaderInv(c) ==
  /\ file_header # NoHeader => /\ rx.header_parsed
                               /\ job[c] # NoJob
                               /\ file_header = Announced(job[c].header)
                               /\ rx.path = TargetOf(file_header)
  /\ rx.header_parsed /\ ~rx.io_error => file_header # NoHeader
  /\ rpc \notin {"started", "arm_path"} /\ file_header = NoHeader => rx.path = OutputPath

FlowInv(c) ==
  Unopened(c) /\ OpensOnce(c) /\ Unheard(c) /\ PhaseInv(c) /\ HeaderInv(c)

\* What the bytes before the header's end can be: the two units of the announced
\* header, or the junk of send_raw_stream.
Only(text, S) == \A i \in 1..Len(text) : text[i] \in S

HeaderText(c) == encode_file_header(job[c].header)

WireSets(c) ==
  IF job[c] = NoJob THEN {{}} \cup {{u} : u \in Bytes}
                    ELSE {{HeaderText(c)[1], HeaderText(c)[2]}}

\* Until the header is parsed no ACCEPT is anywhere, and the stream carries
\* nothing but the header.
WireInv(c) ==
  ~rx.header_parsed =>
    /\ NoAccept(c)
    /\ \E S \in WireSets(c) : Only(rx.buffer, S) /\ Only(c2s[c], S)
    /\ job[c] # NoJob => Len(rx.buffer) + Len(c2s[c]) <= HeaderUnits

SessionInv(c) == FlowInv(c) /\ WireInv(c)

-----------------------------------------------------------------------------
(* The header on the wire.                                                 *)

\* Text that is made of units of a kind stays so when more of them come, ...
LEMMA OnlyConcat ==
  ASSUME NEW T, NEW S, NEW s \in Seq(T), NEW t \in Seq(T), Only(s, S), Only(t, S)
  PROVE  Only(s \o t, S)
<1>1. Len(s) \in Nat /\ Len(t) \in Nat /\ Len(s \o t) = Len(s) + Len(t)
  BY LenProperties, ConcatProperties
<1>2. SUFFICES ASSUME NEW i \in 1..(Len(s) + Len(t)) PROVE (s \o t)[i] \in S
  BY <1>1 DEF Only
<1>3. CASE i <= Len(s)
  BY <1>1, <1>3, ConcatProperties DEF Only
<1>4. CASE i > Len(s)
  <2>1. (s \o t)[i] = t[i - Len(s)] /\ i - Len(s) \in 1..Len(t)
    BY <1>1, <1>4, ConcatProperties
  <2> QED
    BY <2>1 DEF Only
<1> QED
  BY <1>1, <1>3, <1>4

\* ... and when it is cut in two.
LEMMA OnlySplit ==
  ASSUME NEW T, NEW S, NEW s \in Seq(T), Only(s, S), NEW n \in 1..Len(s)
  PROVE  Only(SubSeq(s, 1, n), S) /\ Only(SubSeq(s, n + 1, Len(s)), S)
<1>1. Len(s) \in Nat /\ n \in Nat
  BY LenProperties
<1>2. /\ Len(SubSeq(s, 1, n)) = n
      /\ \A i \in 1..n : SubSeq(s, 1, n)[i] = s[i]
  BY <1>1
<1>3. /\ Len(SubSeq(s, n + 1, Len(s))) = Len(s) - n
      /\ \A i \in 1..(Len(s) - n) : SubSeq(s, n + 1, Len(s))[i] = s[n + i]
  BY <1>1
<1>4. Only(SubSeq(s, 1, n), S)
  BY <1>1, <1>2 DEF Only
<1>5. Only(SubSeq(s, n + 1, Len(s)), S)
  <2>1. \A i \in 1..(Len(s) - n) : n + i \in 1..Len(s)
    BY <1>1
  <2> QED
    BY <1>1, <1>3, <2>1 DEF Only
<1> QED
  BY <1>4, <1>5

\* An empty text is of any kind.
LEMMA OnlyEmpty == ASSUME NEW S PROVE Only(<<>>, S)
BY DEF Only

\* A header as the receiver sees it is a header, and names the same file.
LEMMA AnnouncedFacts ==
  ASSUME NEW header \in FileTransferHeader
  PROVE  /\ Announced(header) \in FileTransferHeader
         /\ Announced(header).name \in Names
         /\ Announced(header).name = sanitize_file_name(header.name)
         /\ Announced(header).size = header.size
         /\ Announced(header).sha256_hex = header.sha256_hex
         /\ Announced(header) # NoHeader
         /\ TargetOf(Announced(header)) = TargetOf(header)
         /\ TargetOf(header) = IF OutputPath = None THEN Announced(header).name
                                                    ELSE OutputPath
<1>1. /\ Announced(header) \in FileTransferHeader
      /\ Announced(header).name \in Names
      /\ Announced(header).name = sanitize_file_name(header.name)
      /\ Announced(header).size = header.size
      /\ Announced(header).sha256_hex = header.sha256_hex
  BY NamesAssumption DEF Announced, FileTransferHeader, sanitize_file_name
<1>2. Announced(header) # NoHeader
  BY <1>1, NoneAssumption DEF NoHeader
<1>3. sanitize_file_name(Announced(header).name) = Announced(header).name
  BY <1>1, NamesAssumption DEF sanitize_file_name
<1> QED
  BY <1>1, <1>2, <1>3 DEF TargetOf

\* The header line is two units long, and both know what they announce.
LEMMA HeaderTextFacts ==
  ASSUME NEW header \in FileTransferHeader
  PROVE  LET text == encode_file_header(header)
         IN /\ Len(text) = 2
            /\ text[1] = [part |-> 1, header |-> Announced(header)]
            /\ text[2] = [part |-> 2, header |-> Announced(header)]
BY DEF encode_file_header, Announced

\* What try_parse_file_header decodes is the header that was announced, and it
\* has consumed everything under way.
LEMMA DecodesAnnounced ==
  ASSUME NEW c, Clients = {c}, IInv, WireInv(c), ~rx.header_parsed,
         NEW n \in 1..Len(c2s[c]),
         NEW buffer, buffer = rx.buffer \o SubSeq(c2s[c], 1, n), DecodesHeader(buffer)
  PROVE  /\ job[c] # NoJob
         /\ DecodedHeader(buffer) = Announced(job[c].header)
         /\ Len(c2s[c]) = n /\ Len(buffer) = HeaderUnits
<1>t. /\ rx.buffer \in Seq(Units) /\ c2s[c] \in Seq(Units) /\ c \in Clients
      /\ job[c] \in Jobs \cup {NoJob}
  BY DEF IInv, TypeOK, ServerTypeOK, QuicTypeOK, ClientTypeOK, RxState
<1>1. PICK S \in WireSets(c) : Only(rx.buffer, S) /\ Only(c2s[c], S)
  BY DEF WireInv
<1>2. /\ SubSeq(c2s[c], 1, n) \in Seq(Units) /\ Len(SubSeq(c2s[c], 1, n)) = n
      /\ Only(SubSeq(c2s[c], 1, n), S)
  BY <1>t, <1>1, SplitType, OnlySplit
<1>3. Only(buffer, S)
  BY <1>t, <1>1, <1>2, OnlyConcat
<1>4. buffer \in Seq(Units) /\ Len(buffer) = Len(rx.buffer) + n
  BY <1>t, <1>2, ConcatProperties
<1>5. Len(buffer) >= 2 /\ Len(buffer) \in Nat
  BY <1>4, LenProperties DEF DecodesHeader, HeaderUnits
<1>6. /\ buffer[1] \in S /\ buffer[2] \in S
      /\ buffer[1] \in HeaderFragments /\ buffer[1].part = 1 /\ buffer[2].part = 2
  <2>1. 1 \in 1..Len(buffer) /\ 2 \in 1..Len(buffer)
    BY <1>5
  <2>2. buffer[1] \in S /\ buffer[2] \in S
    BY <1>3, <2>1 DEF Only
  <2>3. /\ buffer[1] \in HeaderFragments /\ buffer[1].part = 1
        /\ buffer[2] = [buffer[1] EXCEPT !.part = 2]
    BY Zenon DEF DecodesHeader
  <2>4. \A f \in HeaderFragments : [f EXCEPT !.part = 2].part = 2
    BY DEF HeaderFragments
  <2> QED
    BY <2>2, <2>3, <2>4, Zenon
<1>7. job[c] # NoJob
  <2>1. SUFFICES ASSUME job[c] = NoJob PROVE FALSE
    OBVIOUS
  <2>2. S = {} \/ \E u \in Bytes : S = {u}
    BY <1>1, <2>1 DEF WireSets
  <2>3. buffer[1] = buffer[2]
    BY <1>6, <2>2
  <2>4. 1 # 2
    OBVIOUS
  <2> QED
    BY <1>6, <2>3, <2>4, Zenon
<1>8. job[c].header \in FileTransferHeader
  BY <1>t, <1>7 DEF Jobs
<1> DEFINE header == Announced(job[c].header)
<1>9. buffer[1] = [part |-> 1, header |-> header]
  <2>1. S = {[part |-> 1, header |-> header], [part |-> 2, header |-> header]}
    BY <1>1, <1>7, <1>8, HeaderTextFacts DEF WireSets, HeaderText
  <2>2. [part |-> 2, header |-> header].part = 2
    OBVIOUS
  <2> QED
    BY <1>6, <2>1, <2>2
<1>10. DecodedHeader(buffer) = header
  <2>1. header \in FileTransferHeader /\ sanitize_file_name(header.name) = header.name
    BY <1>8, AnnouncedFacts, NamesAssumption DEF sanitize_file_name
  <2>2. buffer[1].header = header
    BY <1>9
  <2>3. [header EXCEPT !.name = sanitize_file_name(@)] = header
    BY <2>1 DEF FileTransferHeader
  <2> QED
    BY <2>2, <2>3 DEF DecodedHeader
<1>11. Len(rx.buffer) + Len(c2s[c]) <= 2
  BY <1>7 DEF WireInv, HeaderUnits
<1>12. Len(c2s[c]) = n /\ Len(buffer) = 2
  <2>1. Len(rx.buffer) \in Nat /\ Len(c2s[c]) \in Nat /\ n \in 1..Len(c2s[c])
    BY <1>t, LenProperties
  <2>2. Len(buffer) = Len(rx.buffer) + n /\ Len(buffer) >= 2
    BY <1>4, <1>5
  <2>3. \A a, b, m \in Nat : m \in 1..b /\ a + b <= 2 /\ a + m >= 2 => b = m /\ a + m = 2
    OBVIOUS
  <2>4. n \in Nat
    BY <2>1
  <2>5. Len(rx.buffer) + n >= 2
    BY <2>2, Zenon
  <2>6. Len(c2s[c]) = n /\ Len(rx.buffer) + n = 2
    BY <1>11, <2>1, <2>3, <2>4, <2>5, Zenon
  <2> QED
    BY <2>2, <2>6, Zenon
<1> QED
  BY <1>7, <1>10, <1>12 DEF HeaderUnits

-----------------------------------------------------------------------------
(* The flow of the receiving thread.                                       *)

\* A file that was not opened is not closed either.
LEMMA CloseUnopened ==
  ASSUME NEW r, r = FreshRx(r.path) PROVE CloseFile(r) = r
BY DEF CloseFile, FreshRx

\* The fields of a fresh state.
LEMMA FreshFields ==
  ASSUME NEW p
  PROVE  LET r == FreshRx(p)
         IN /\ r.buffer = <<>> /\ ~r.header_parsed /\ ~r.io_error /\ ~r.overflow
            /\ r.bytes_written = 0 /\ r.out = "null" /\ r.out_path = None
            /\ ~r.accepted /\ ~r.sending_final_ack /\ r.path = p
BY DEF FreshRx

\* ArmPath keeps it fresh.
LEMMA FreshPath ==
  ASSUME NEW r \in RxState, r = FreshRx(r.path), NEW q \in Names \cup {None}
  PROVE  [r EXCEPT !.path = q] = FreshRx(q)
<1>1. /\ r.buffer = <<>> /\ ~r.header_parsed /\ ~r.io_error /\ ~r.overflow
      /\ r.bytes_written = 0 /\ r.out = "null" /\ r.out_path = None
      /\ ~r.accepted /\ ~r.sending_final_ack
  BY FreshFields
<1> DEFINE s == [r EXCEPT !.path = q]
<1>2. /\ s \in RxState /\ s.path = q
      /\ s.buffer = <<>> /\ ~s.header_parsed /\ ~s.io_error /\ ~s.overflow
      /\ s.bytes_written = 0 /\ s.out = "null" /\ s.out_path = None
      /\ ~s.accepted /\ ~s.sending_final_ack
  BY <1>1 DEF RxState
<1> HIDE DEF s
<1>3. s = FreshRx(q)
  BY <1>2 DEF FreshRx, RxState
<1> QED
  BY <1>3 DEF s

\* The server thread keeps to the order of receive_file.
LEMMA ServerThreadFlow ==
  ASSUME NEW c, Clients = {c}, IInv, FlowInv(c), ServerThreadStep
  PROVE  FlowInv(c)'
<1>t. /\ rx \in RxState /\ rpc \in RpcStates /\ c \in Clients
      /\ UNCHANGED <<cpc, job>>
  BY DEF IInv, TypeOK, ServerTypeOK, ServerThreadStep, clientVars, jobVars
<1> USE DEF FlowInv, Unopened, OpensOnce, Unheard, PhaseInv, HeaderInv, Engaged, Accepting, Arming
<1> USE DEF callbackVars, waitVars, quicVars, c2sVars, s2cVars, streamVars
<1>1. CASE ArmReceiving
  BY <1>1, <1>t DEF ArmReceiving
<1>2. CASE ArmPath
  <2>0. rpc = "arm_path" /\ rx' = [rx EXCEPT !.path = OutputPath]
    BY <1>2 DEF ArmPath
  <2>1. rx = FreshRx(rx.path)
    <3>1. sStream[c] = "none"
      BY <2>0
    <3> QED
      BY <3>1, Zenon
  <2>2. rx' = FreshRx(OutputPath)
    BY <1>t, <2>0, <2>1, FreshPath, ServerAssumption
  <2>3. rx' = FreshRx(rx'.path)
    BY <2>2 DEF FreshRx
  <2>4. rx'.path = OutputPath /\ ~rx'.header_parsed /\ rx'.out = "null" /\ ~rx'.accepted
    BY <2>2 DEF FreshRx
  <2> QED
    BY <1>2, <1>t, <2>3, <2>4 DEF ArmPath
<1>3. CASE ArmOffer
  BY <1>3, <1>t DEF ArmOffer
<1>4. CASE ArmReset
  BY <1>4, <1>t DEF ArmReset, FreshRx
<1>5. CASE OfferArrived
  BY <1>5, <1>t DEF OfferArrived
<1>6. CASE OfferFailed
  BY <1>6, <1>t DEF OfferFailed, Return
<1>7. CASE OfferTimeout
  BY <1>7, <1>t DEF OfferTimeout, Return
<1>8. CASE PromptReject
  <2>1. file_header # NoHeader /\ rx.header_parsed
    BY <1>8 DEF PromptReject
  <2>2. sStream[c] # "none"
    BY <2>1
  <2> QED
    BY <1>8, <1>t, <2>1, <2>2 DEF PromptReject
<1>9. CASE PromptAccept
  <2>1. file_header # NoHeader /\ rx.header_parsed /\ sStream[c] # "none"
    BY <1>9 DEF PromptAccept
  <2>2. PICK opened \in OpenOutcomes(rx.path) :
          /\ rpc' = IF opened THEN "accept_flag" ELSE "reject_locked"
          /\ rx' = OpenedRx(rx, opened)
    BY <1>9 DEF PromptAccept
  <2>3. rx'.header_parsed /\ rx'.path = rx.path
    BY <1>t, <2>1, <2>2 DEF OpenedRx, RxState
  <2>4. rpc' \in {"accept_flag", "reject_locked"} /\ Prompt
    BY <1>9, <2>2 DEF PromptAccept
  <2> QED
    BY <1>9, <1>t, <2>1, <2>3, <2>4 DEF PromptAccept
<1>10. CASE SendAccept
  <2>1. file_header # NoHeader /\ rx.header_parsed /\ sStream[c] # "none"
    BY <1>10 DEF SendAccept
  <2> QED
    BY <1>10, <1>t, <2>1 DEF SendAccept
<1>11. CASE TransferFinished
  BY <1>11, <1>t DEF TransferFinished
<1>12. CASE TransferFailed
  <2>1. rx' = CloseFile(rx)
    BY <1>12 DEF TransferFailed
  <2>2. /\ rx'.header_parsed = rx.header_parsed /\ rx'.io_error = rx.io_error
        /\ rx'.path = rx.path /\ rx'.accepted = rx.accepted
        /\ rx'.out = "null" <=> rx.out = "null"
    BY <1>t, <2>1 DEF CloseFile, RxState
  <2>3. rx = FreshRx(rx.path) => rx' = rx
    BY <2>1, CloseUnopened
  <2> QED
    BY <1>12, <1>t, <2>2, <2>3 DEF TransferFailed, Return
<1>13. CASE DrainAfterReject
  BY <1>13, <1>t DEF DrainAfterReject, Return
<1>14. CASE DrainAfterTransfer
  BY <1>14, <1>t DEF DrainAfterTransfer, Return
<1>15. CASE Stop
  BY <1>15, <1>t DEF Stop
<1>16. CASE StopReturns
  BY <1>16, <1>t DEF StopReturns
<1>17. CASE MarkAccepted
  <2>1. file_header # NoHeader /\ rx.header_parsed /\ sStream[c] # "none"
    BY <1>17 DEF MarkAccepted
  <2>2. /\ rx'.header_parsed /\ rx'.path = rx.path
        /\ rx'.out = rx.out /\ rx'.io_error = rx.io_error
    BY <1>17, <1>t, <2>1 DEF MarkAccepted, RxState
  <2> QED
    BY <1>17, <1>t, <2>1, <2>2 DEF MarkAccepted
<1> QED
  BY <1>1, <1>2, <1>3, <1>4, <1>5, <1>6, <1>7, <1>8, <1>9, <1>10, <1>11, <1>12, <1>13,
     <1>14, <1>15, <1>16, <1>17 DEF ServerThreadStep, ServerThread

-----------------------------------------------------------------------------
(* The output file.                                                        *)

\* Everything written is counted, and nothing else: the counter is the length of
\* the file.
LEMMA WrittenFacts ==
  ASSUME NEW r \in RxState, NEW header \in HeaderOrNone, NEW data \in Seq(Units),
         NEW d \in Disks, NEW good \in BOOLEAN,
         r.bytes_written <= header.size,
         r.out_path \in Names, d[r.out_path] \in Seq(Units),
         Len(d[r.out_path]) = r.bytes_written
  PROVE  LET r2 == WrittenRx(r, header, data, good)
             d2 == WrittenDisk(d, r, header, data, good)
         IN /\ Len(d2[r.out_path]) = r2.bytes_written
            /\ r2.out = r.out /\ r2.out_path = r.out_path /\ r2.path = r.path
            /\ r2.header_parsed = r.header_parsed /\ r2.accepted = r.accepted
            /\ r.io_error => r2.io_error
            /\ r.bytes_written = header.size => d2[r.out_path] = d[r.out_path]
<1> DEFINE n == Room(r, header, Len(data))
           more == SubSeq(data, 1, n)
<1>1. Len(data) \in Nat /\ header.size \in Nat /\ r.bytes_written \in Nat
  BY LenProperties DEF RxState, HeaderOrNone, FileTransferHeader, NoHeader
<1>2. n \in 0..Len(data) /\ r.bytes_written + n <= header.size
  BY <1>1, RoomBounds
<1>3. more \in Seq(Units) /\ Len(more) = n
  <2>1. \A i \in 1..n : data[i] \in Units
    BY <1>1, <1>2, ElementOfSeq
  <2> QED
    BY <1>1, <1>2, <2>1, SubSeqProperties
<1>4. /\ d[r.out_path] \o more \in Seq(Units)
      /\ Len(d[r.out_path] \o more) = r.bytes_written + n
  BY <1>3, ConcatProperties
<1>5. WrittenDisk(d, r, header, data, good)[r.out_path]
        = IF good THEN d[r.out_path] \o more ELSE d[r.out_path]
  BY DEF WrittenDisk, Disks
<1>6. /\ WrittenRx(r, header, data, good).bytes_written
           = IF good THEN r.bytes_written + n ELSE r.bytes_written
      /\ WrittenRx(r, header, data, good).out = r.out
      /\ WrittenRx(r, header, data, good).out_path = r.out_path
      /\ WrittenRx(r, header, data, good).path = r.path
      /\ WrittenRx(r, header, data, good).header_parsed = r.header_parsed
      /\ WrittenRx(r, header, data, good).accepted = r.accepted
      /\ r.io_error => WrittenRx(r, header, data, good).io_error
  BY DEF WrittenRx, RxState
<1>7. ASSUME r.bytes_written = header.size
      PROVE  d[r.out_path] \o more = d[r.out_path]
  <2>1. n = 0
    BY <1>1, <1>2, <1>7
  <2>2. more = <<>>
    BY <1>3, <2>1, EmptySeq
  <2> QED
    BY <2>2, ConcatEmptySeq
<1> HIDE DEF n, more
<1> QED
  BY <1>4, <1>5, <1>6, <1>7

\* Without a prompt the header opens the output, which then holds what came with
\* the header; a failed open leaves no output.
LEMMA AutoAcceptedFacts ==
  ASSUME NEW c \in Clients, IInv, ~rx.header_parsed, rx.out = "null",
         NEW buffer \in Seq(Units), HeaderAutoAccepted(c, buffer)
  PROVE  /\ rx'.header_parsed /\ rx'.path = ParsedRx(buffer).path
         /\ rx'.out # "closed"
         /\ rx'.out = "null" => rx'.bytes_written = 0 /\ rx'.io_error
         /\ rx'.out # "null" => /\ rx'.out_path = rx'.path
                                /\ Len(disk'[rx'.path]) = rx'.bytes_written
         /\ file_result'.success = file_result.success
<1>t. /\ ServerTypeOK /\ RxInv /\ QuicTypeOK
      /\ rx \in RxState /\ disk \in Disks /\ file_result \in Results
  BY DEF IInv, TypeOK, ServerTypeOK, Disks, Results
<1> DEFINE header == DecodedHeader(buffer)
           parsed == ParsedRx(buffer)
           body   == SubSeq(buffer, HeaderUnits + 1, Len(buffer))
<1>1. DecodesHeader(buffer)
  BY DEF HeaderAutoAccepted
<1>2. /\ parsed \in RxState /\ parsed.bytes_written = 0 /\ parsed.header_parsed
      /\ parsed.out = "null"
  BY <1>t, <1>1, ParsedType
<1>3. header \in HeaderOrNone /\ header.size \in Nat
  BY <1>1, DecodeType DEF HeaderOrNone, FileTransferHeader
<1>4. body \in Seq(Units)
  <2>1. Len(buffer) \in Nat /\ \A i \in 1..Len(buffer) : buffer[i] \in Units
    BY LenProperties, ElementOfSeq
  <2>2. \A i \in (HeaderUnits + 1)..Len(buffer) : buffer[i] \in Units
    BY <2>1 DEF HeaderUnits
  <2> QED
    BY <2>1, <2>2, SubSeqProperties DEF HeaderUnits
<1>5. PICK opened \in OpenOutcomes(parsed.path) :
        LET r == [OpenedRx(parsed, opened) EXCEPT !.buffer = <<>>, !.accepted = opened \/ @]
            d == OpenedDisk(parsed, opened)
        IN IF opened
           THEN \E good \in WriteOutcomes(r, header, body) :
                  /\ rx' = WrittenRx(r, header, body, good)
                  /\ disk' = WrittenDisk(d, r, header, body, good)
                  /\ file_result' = [file_result EXCEPT !.error = @ \/ ~good]
           ELSE /\ rx' = r
                /\ disk' = d
                /\ file_result' = OpenedResult(opened)
  BY DEF HeaderAutoAccepted
<1> DEFINE q == OpenedRx(parsed, opened)
           r == [q EXCEPT !.buffer = <<>>, !.accepted = opened \/ @]
           d == OpenedDisk(parsed, opened)
<1>6. opened \in BOOLEAN /\ (opened => parsed.path # None)
  BY DEF OpenOutcomes, Outcomes
<1>7. /\ q \in RxState /\ d \in Disks
      /\ q.bytes_written = 0 /\ q.header_parsed
      /\ opened => q.out_path \in Names /\ d[q.out_path] \in Seq(Units)
  BY <1>t, <1>2, <1>5, OpenedType
<1>8. /\ q.path = parsed.path
      /\ opened => q.out = "open" /\ q.out_path = parsed.path /\ d[parsed.path] = <<>>
      /\ ~opened => q.out = "null" /\ q.io_error
  BY <1>t, <1>2, <1>6 DEF OpenedRx, OpenedDisk, RxState, Disks
<1>9. /\ r \in RxState /\ r.bytes_written = 0 /\ r.header_parsed /\ r.path = q.path
      /\ r.out_path = q.out_path /\ r.out = q.out /\ r.io_error = q.io_error
  <2>1. (opened \/ q.accepted) \in BOOLEAN
    BY <1>6, <1>7 DEF RxState
  <2> HIDE DEF q
  <2>2. r \in RxState
    BY <1>7, <2>1, EmptySeq DEF RxState
  <2> QED
    BY <1>7, <2>2 DEF RxState
<1> HIDE DEF q, r, d, body, header, parsed
<1>10. CASE opened
  <2>1. PICK good \in WriteOutcomes(r, header, body) :
          /\ rx' = WrittenRx(r, header, body, good)
          /\ disk' = WrittenDisk(d, r, header, body, good)
          /\ file_result' = [file_result EXCEPT !.error = @ \/ ~good]
    BY <1>5, <1>10 DEF q, r, d
  <2>2. good \in BOOLEAN
    BY DEF WriteOutcomes, Outcomes
  <2>3. /\ r.bytes_written <= header.size /\ r.out_path \in Names
        /\ d[r.out_path] \in Seq(Units) /\ Len(d[r.out_path]) = r.bytes_written
    BY <1>3, <1>7, <1>8, <1>9, <1>10, EmptySeq
  <2>4. /\ Len(disk'[r.out_path]) = rx'.bytes_written
        /\ rx'.out = r.out /\ rx'.out_path = r.out_path /\ rx'.path = r.path
        /\ rx'.header_parsed = r.header_parsed
    <3>1. /\ Len(WrittenDisk(d, r, header, body, good)[r.out_path])
               = WrittenRx(r, header, body, good).bytes_written
          /\ WrittenRx(r, header, body, good).out = r.out
          /\ WrittenRx(r, header, body, good).out_path = r.out_path
          /\ WrittenRx(r, header, body, good).path = r.path
          /\ WrittenRx(r, header, body, good).header_parsed = r.header_parsed
      <4>1. r \in RxState /\ header \in HeaderOrNone /\ body \in Seq(Units) /\ d \in Disks
        BY <1>3, <1>4, <1>7, <1>9
      <4> QED
        BY <2>2, <2>3, <4>1, WrittenFacts
    <3>2. rx' = WrittenRx(r, header, body, good) /\ disk' = WrittenDisk(d, r, header, body, good)
      BY <2>1, Zenon
    <3> QED
      BY <3>1, <3>2
  <2>5. file_result'.success = file_result.success
    BY <1>t, <2>1 DEF Results
  <2> QED
    BY <1>8, <1>9, <1>10, <2>4, <2>5 DEF parsed
<1>11. CASE ~opened
  <2>1. rx' = r /\ file_result' = OpenedResult(opened)
    BY <1>5, <1>11 DEF q, r, d
  <2>2. file_result'.success = file_result.success
    BY <1>t, <2>1 DEF OpenedResult, Results
  <2> QED
    BY <1>8, <1>9, <1>11, <2>1, <2>2 DEF parsed
<1> QED
  BY <1>6, <1>10, <1>11

-----------------------------------------------------------------------------
(* The flow of the server's callbacks.                                     *)

\* Once the server has the stream, a callback that neither parses a header nor
\* opens the output keeps all of it.
LEMMA StreamFlow ==
  ASSUME NEW c, FlowInv(c), sStream[c] # "none", sStream'[c] # "none",
         UNCHANGED <<cpc, job, cStream, rpc, file_header>>,
         rx'.header_parsed = rx.header_parsed, rx'.path = rx.path,
         rx.io_error => rx'.io_error,
         rx'.out = "null" <=> rx.out = "null", rx'.accepted = rx.accepted,
         offer_ready' => offer_ready, blocked'[c] # "offer"
  PROVE  FlowInv(c)'
<1>1. cStream[c] # "none"
  BY DEF FlowInv, Unopened
<1> QED
  BY <1>1 DEF FlowInv, Unopened, OpensOnce, Unheard, PhaseInv, HeaderInv, Engaged, Accepting

\* Before that, a receive event may parse it.
LEMMA UnparsedFlow ==
  ASSUME NEW c, Clients = {c}, IInv, SessionInv(c), sStream[c] = "open", rpc \notin Arming,
         ~rx.header_parsed, NEW n \in 1..Len(c2s[c]),
         append_file_bytes(c, SubSeq(c2s[c], 1, n)),
         UNCHANGED <<cpc, job, cStream, sStream, rpc>>
  PROVE  FlowInv(c)'
<1>t. /\ rx \in RxState /\ c \in Clients /\ blocked[c] # "offer"
      /\ blocked \in [Clients -> {"no", "offer", "notify_true", "notify_false"}]
      /\ job[c] \in Jobs \cup {NoJob}
  BY DEF IInv, TypeOK, ServerTypeOK, ClientTypeOK, SessionInv, FlowInv, PhaseInv
<1>h. /\ file_header = NoHeader /\ rx.path = OutputPath /\ rx.out = "null" /\ ~rx.accepted
      /\ rpc \notin Engaged /\ ~offer_ready
  BY DEF SessionInv, FlowInv, HeaderInv, PhaseInv, Arming
<1>s. cStream[c] # "none"
  BY DEF SessionInv, FlowInv, Unopened
<1> DEFINE buffer == rx.buffer \o SubSeq(c2s[c], 1, n)
<1>b. buffer \in Seq(Units)
  <2>1. rx.buffer \in Seq(Units) /\ c2s[c] \in Seq(Units)
    BY <1>t DEF IInv, TypeOK, QuicTypeOK, RxState
  <2> QED
    BY <2>1, SplitType, ConcatProperties
<1>1. CASE HeaderIncomplete(c, buffer)
  <2>1. /\ rx'.path = rx.path /\ rx'.out = rx.out /\ rx'.accepted = rx.accepted
        /\ rx'.header_parsed => rx'.io_error
    BY <1>1, <1>t DEF HeaderIncomplete, RxState
  <2>2. UNCHANGED <<offer_ready, file_header>> /\ blocked'[c] # "offer"
    BY <1>1, <1>t DEF HeaderIncomplete, notify_file_waiter, waitVars
  <2> QED
    BY <1>h, <1>s, <2>1, <2>2
       DEF SessionInv, FlowInv, Unopened, OpensOnce, Unheard, PhaseInv, HeaderInv, Engaged,
       Accepting
<1>2. ASSUME DecodesHeader(buffer)
      PROVE  /\ job[c] # NoJob /\ DecodedHeader(buffer) = Announced(job[c].header)
             /\ ParsedRx(buffer).header_parsed
             /\ ParsedRx(buffer).path = TargetOf(DecodedHeader(buffer))
             /\ ParsedRx(buffer).out = "null" /\ ~ParsedRx(buffer).accepted
             /\ DecodedHeader(buffer) # NoHeader
  <2>1. job[c] # NoJob /\ DecodedHeader(buffer) = Announced(job[c].header)
    BY <1>2, DecodesAnnounced DEF SessionInv
  <2>2. job[c].header \in FileTransferHeader
    BY <1>t, <2>1 DEF Jobs
  <2>3. /\ DecodedHeader(buffer) # NoHeader
        /\ TargetOf(DecodedHeader(buffer)) = IF OutputPath = None THEN DecodedHeader(buffer).name
                                                                  ELSE OutputPath
    BY <2>1, <2>2, AnnouncedFacts
  <2>4. OutputIsDir <=> OutputPath = None
    BY DEF OutputIsDir, Arming
  <2> HIDE DEF buffer
  <2>5. /\ ParsedRx(buffer).header_parsed
        /\ ParsedRx(buffer).path = IF OutputPath = None THEN DecodedHeader(buffer).name
                                                        ELSE rx.path
        /\ ParsedRx(buffer).out = "null" /\ ~ParsedRx(buffer).accepted
    BY <1>t, <1>h, <2>4 DEF ParsedRx, RxState
  <2> QED
    BY <1>h, <2>1, <2>3, <2>5
<1> HIDE DEF buffer
<1>3. CASE HeaderOffered(c, buffer)
  <2>1. DecodesHeader(buffer) /\ file_header' = DecodedHeader(buffer) /\ Prompt
    BY <1>3 DEF HeaderOffered, OfferRegistered
  <2>2. ~MutexHeld
    BY <1>h DEF MutexHeld, Engaged, Accepting, Arming
  <2>3. /\ rx'.header_parsed /\ rx'.path = ParsedRx(buffer).path
        /\ rx'.out = "null" /\ ~rx'.accepted /\ blocked' = blocked
    BY <1>2, <1>3, <1>t, <2>1, <2>2 DEF HeaderOffered, ParsedRx, RxState
  <2> QED
    BY <1>2, <1>t, <1>s, <2>1, <2>3
       DEF SessionInv, FlowInv, Unopened, OpensOnce, Unheard, PhaseInv, HeaderInv
<1>4. CASE HeaderAutoAccepted(c, buffer)
  <2>1. DecodesHeader(buffer) /\ file_header' = DecodedHeader(buffer) /\ ~Prompt
    BY <1>4 DEF HeaderAutoAccepted, OfferRegistered, Arming
  <2>2. UNCHANGED <<offer_ready, blocked>>
    BY <1>4 DEF HeaderAutoAccepted, waitVars
  <2>3. rx'.header_parsed /\ rx'.path = ParsedRx(buffer).path
    BY <1>4, <1>t, <1>h, <1>b, AutoAcceptedFacts
  <2> QED
    BY <1>2, <1>t, <1>s, <2>1, <2>2, <2>3
       DEF SessionInv, FlowInv, Unopened, OpensOnce, Unheard, PhaseInv, HeaderInv
<1> QED
  BY <1>1, <1>3, <1>4 DEF append_file_bytes, buffer

\* What leaves all of these variables alone.
LEMMA FlowFrame ==
  ASSUME NEW c, FlowInv(c),
         UNCHANGED <<cpc, job, cStream, sStream, c2s, cFin, s2c, sFin, rpc, rx, file_header,
                     blocked, offer_ready>>
  PROVE  FlowInv(c)'
BY DEF FlowInv, Unopened, OpensOnce, Unheard, PhaseInv, HeaderInv, Engaged, Accepting

\* notify_file_waiter announces no header.
LEMMA NotifyFacts ==
  ASSUME NEW c \in Clients, NEW success, NEW r, blocked[c] # "offer",
         blocked \in [Clients -> {"no", "offer", "notify_true", "notify_false"}],
         notify_file_waiter(c, success, r)
  PROVE  offer_ready' = offer_ready /\ blocked'[c] # "offer"
BY DEF notify_file_waiter

\* The callbacks of the server move the connection forward only.
LEMMA ServerCallbackFlow ==
  ASSUME NEW c, Clients = {c}, IInv, SessionInv(c), ServerCallbackStep(c)
  PROVE  FlowInv(c)'
<1>t. /\ rx \in RxState /\ c \in Clients /\ FlowInv(c) /\ blocked[c] # "offer"
      /\ blocked \in [Clients -> {"no", "offer", "notify_true", "notify_false"}]
      /\ sStream \in [Clients -> StreamStates] /\ c2s[c] \in Seq(Units)
      /\ UNCHANGED <<cpc, job>>
  BY DEF IInv, TypeOK, ServerTypeOK, QuicTypeOK, SessionInv, FlowInv, PhaseInv,
         ServerCallbackStep, clientVars, jobVars
<1>1. CASE on_new_connection(c)
  BY <1>1, <1>t, FlowFrame
     DEF on_new_connection, serverVars, flowVars, waitVars, c2sVars, s2cVars, streamVars
<1>2. CASE on_connected(c)
  BY <1>2, <1>t, FlowFrame
     DEF on_connected, flowVars, waitVars, c2sVars, s2cVars, streamVars
<1>3. CASE on_connection_shutdown_complete(c)
  BY <1>3, <1>t, FlowFrame
     DEF on_connection_shutdown_complete, flowVars, waitVars, c2sVars, s2cVars, streamVars
<1>4. CASE on_peer_stream_started(c)
  <2>1. sStream[c] = "none" /\ cStream[c] # "none" /\ sStream'[c] = "open"
    BY <1>4, <1>t DEF on_peer_stream_started
  <2>2. rx' = rx
    BY <1>4, <1>t, <2>1, Zenon DEF on_peer_stream_started, FlowInv, Unheard
  <2>3. UNCHANGED <<cStream, rpc, file_header, blocked, offer_ready>>
    BY <1>4 DEF on_peer_stream_started, flowVars, waitVars
  <2> QED
    BY <1>t, <2>1, <2>2, <2>3
       DEF FlowInv, Unopened, OpensOnce, Unheard, PhaseInv, HeaderInv, Engaged, Accepting
<1>5. CASE on_receive(c)
  <2>1. PICK n \in 1..Len(c2s[c]) :
          IF receiving_file
          THEN append_file_bytes(c, SubSeq(c2s[c], 1, n))
          ELSE UNCHANGED <<waitVars, file_header, rx, file_result, disk, s2cVars, sSends>>
    BY <1>5 DEF on_receive
  <2>2. sStream[c] = "open" /\ UNCHANGED <<cStream, sStream, rpc>>
    BY <1>5 DEF on_receive, ServerHears, flowVars, streamVars
  <2>3. rpc \notin Arming
    BY <1>t, <2>2 DEF FlowInv, Unopened, OpensOnce
  <2>4. CASE receiving_file /\ ~rx.header_parsed
    BY <1>t, <2>1, <2>2, <2>3, <2>4, UnparsedFlow
  <2>5. CASE receiving_file /\ rx.header_parsed
    <3>1. BodyBytes(SubSeq(c2s[c], 1, n))
      BY <2>1, <2>5 DEF append_file_bytes
    <3>2. /\ rx'.header_parsed = rx.header_parsed /\ rx'.path = rx.path
          /\ rx.io_error => rx'.io_error
          /\ rx'.out = rx.out /\ rx'.accepted = rx.accepted
          /\ UNCHANGED <<offer_ready, blocked, file_header>>
      BY <1>t, <3>1 DEF BodyBytes, WrittenRx, RxState, waitVars
    <3> QED
      BY <1>t, <2>2, <3>2, StreamFlow
  <2>6. CASE ~receiving_file
    BY <1>t, <2>1, <2>2, <2>6, StreamFlow DEF waitVars
  <2> QED
    BY <2>4, <2>5, <2>6
<1>6. CASE on_peer_send_shutdown(c)
  <2>1. sStream[c] = "open" /\ UNCHANGED <<cStream, sStream, rpc, file_header>>
    BY <1>6 DEF on_peer_send_shutdown, ServerHears, flowVars, streamVars
  <2>2. CASE receiving_file /\ (rx.accepted \/ rx.io_error)
    <3>1. finish_file_receive(c)
      BY <1>6, <2>2 DEF on_peer_send_shutdown
    <3>2. /\ rx'.header_parsed = rx.header_parsed /\ rx'.path = rx.path
          /\ rx'.io_error = rx.io_error
          /\ rx'.out = "null" <=> rx.out = "null"
          /\ rx'.accepted = rx.accepted
      BY <1>t, <3>1 DEF finish_file_receive, CloseFile, RxState
    <3>3. offer_ready' = offer_ready /\ blocked'[c] # "offer"
      BY <1>t, <3>1, NotifyFacts DEF finish_file_receive, waitVars
    <3> QED
      BY <1>t, <2>1, <3>2, <3>3, StreamFlow
  <2>3. CASE ~(receiving_file /\ (rx.accepted \/ rx.io_error))
    BY <1>6, <1>t, <2>1, <2>3, StreamFlow DEF on_peer_send_shutdown, waitVars
  <2> QED
    BY <2>2, <2>3
<1>7. CASE on_send_complete(c)
  <2>1. /\ sStream[c] = "open" /\ UNCHANGED <<cStream, sStream, rpc, file_header, rx>>
    BY <1>7 DEF on_send_complete, flowVars, streamVars
  <2>2. offer_ready' = offer_ready /\ blocked'[c] # "offer"
    BY <1>7, <1>t, NotifyFacts DEF on_send_complete, waitVars
  <2> QED
    BY <1>t, <2>1, <2>2, StreamFlow
<1>8. CASE on_peer_aborted(c)
  <2>1. sStream[c] = "open" /\ UNCHANGED <<cStream, sStream, rpc, file_header>>
    BY <1>8 DEF on_peer_aborted, ServerHears, flowVars, streamVars
  <2>2. /\ rx'.header_parsed = rx.header_parsed /\ rx'.path = rx.path
        /\ rx'.io_error = rx.io_error
        /\ rx'.out = "null" <=> rx.out = "null"
        /\ rx'.accepted = rx.accepted
    BY <1>8, <1>t DEF on_peer_aborted, CloseFile, RxState
  <2>3. offer_ready' = offer_ready /\ blocked'[c] # "offer"
    BY <1>8, <1>t, NotifyFacts DEF on_peer_aborted, waitVars
  <2> QED
    BY <1>t, <2>1, <2>2, <2>3, StreamFlow
<1>9. CASE on_stream_shutdown_complete(c)
  <2>1. sStream[c] = "open" /\ sStream'[c] = "closed"
    BY <1>9, <1>t DEF on_stream_shutdown_complete, ServerStreamOver
  <2>2. UNCHANGED <<cStream, rpc, file_header, rx, offer_ready, blocked>>
    BY <1>9 DEF on_stream_shutdown_complete, serverVars, flowVars, waitVars
  <2> QED
    BY <1>t, <2>1, <2>2, StreamFlow
<1>10. CASE EnterFileMutex(c)
  <2>1. blocked[c] # "no" /\ blocked'[c] = "no"
    BY <1>10, <1>t DEF EnterFileMutex
  <2>2. sStream[c] # "none"
    BY <1>t, <2>1 DEF FlowInv, Unheard
  <2>3. UNCHANGED <<cStream, sStream, rpc, file_header, rx, offer_ready>>
    BY <1>10, <1>t DEF EnterFileMutex, flowVars, quicVars, streamVars
  <2> QED
    BY <1>t, <2>1, <2>2, <2>3, StreamFlow
<1> QED
  BY <1>1, <1>2, <1>3, <1>4, <1>5, <1>6, <1>7, <1>8, <1>9, <1>10
     DEF ServerCallbackStep, ServerCallback

-----------------------------------------------------------------------------
(* The flow of the sender.                                                 *)

\* A sending thread opens its stream once and sends the header first.
LEMMA ClientThreadFlow ==
  ASSUME NEW c, Clients = {c}, ~EarlySenders, IInv, FlowInv(c), ClientThreadStep(c)
  PROVE  FlowInv(c)'
<1>t. /\ c \in Clients /\ cpc \in [Clients -> CpcStates] /\ job \in [Clients -> Jobs \cup {NoJob}]
      /\ cStream \in [Clients -> StreamStates] /\ sStream \in [Clients -> StreamStates]
      /\ UNCHANGED <<rpc, rx, file_header, blocked, offer_ready>>
  BY DEF IInv, TypeOK, ClientTypeOK, QuicTypeOK, ClientThreadStep, serverVars, flowVars,
     waitVars
<1>a. cpc[c] = "ready" => rpc \notin Arming
  BY DEF ClientThreadStep, Armed
<1> USE DEF FlowInv, Unopened, OpensOnce, Unheard, PhaseInv, HeaderInv, Engaged, Accepting
<1> USE DEF Goto, Finish, IdleStates, jobVars
<1> USE DEF quicVars, c2sVars, s2cVars, streamVars
<1>1. CASE Connect(c)
  BY <1>1, <1>t DEF Connect
<1>2. CASE ConnectReturns(c)
  BY <1>2, <1>t DEF ConnectReturns
<1>3. CASE SendHeader(c)
  <2>1. cStream[c] = "none" /\ cpc[c] = "ready"
    BY <1>3 DEF SendHeader
  <2>2. cpc'[c] \in {"header_wait", "disconnect"} /\ cStream'[c] = "open"
    BY <1>3, <1>t DEF SendHeader, FirstSend
  <2>3. UNCHANGED <<s2c, sFin, sStream>> /\ sStream[c] = "none" /\ file_header = NoHeader
    BY <1>3, <2>1 DEF SendHeader
  <2> QED
    BY <1>t, <1>a, <2>1, <2>2, <2>3
<1>4. CASE SendWithoutConnection(c)
  BY <1>4, <1>t DEF SendWithoutConnection
<1>5. CASE HeaderSent(c)
  BY <1>5, <1>t DEF HeaderSent
<1>6. CASE DecisionAccepted(c)
  BY <1>6, <1>t DEF DecisionAccepted
<1>7. CASE DecisionRejected(c)
  BY <1>7, <1>t DEF DecisionRejected
<1>8. CASE WaitExpires(c)
  BY <1>8, <1>t DEF WaitExpires
<1>9. CASE SendChunk(c)
  <2>1. cStream[c] # "none" /\ cpc[c] = "send_chunk"
    BY <1>9 DEF SendChunk
  <2>2. cpc'[c] \in {"chunk_wait", "disconnect"}
    BY <1>9, <1>t DEF SendChunk
  <2>3. UNCHANGED <<s2c, sFin, sStream, cStream, job>>
    BY <1>9 DEF SendChunk
  <2> QED
    BY <1>t, <2>1, <2>2, <2>3
<1>10. CASE FileShrank(c)
  BY <1>10, <1>t DEF FileShrank
<1>11. CASE ChunkSent(c)
  BY <1>11, <1>t DEF ChunkSent
<1>12. CASE SendReturns(c)
  BY <1>12, <1>t DEF SendReturns
<1>13. CASE SendRaw(c)
  <2>1. cStream[c] = "none" /\ cpc[c] = "ready"
    BY <1>13 DEF SendRaw
  <2>2. cpc'[c] \in {"raw_wait", "disconnect"} /\ cStream'[c] = "open"
    BY <1>13, <1>t DEF SendRaw, FirstSend
  <2>3. UNCHANGED <<s2c, sFin, sStream, job>>
    BY <1>13 DEF SendRaw
  <2> QED
    BY <1>t, <1>a, <2>1, <2>2, <2>3
<1>14. CASE RawReturns(c)
  BY <1>14, <1>t DEF RawReturns
<1>15. CASE Disconnect(c)
  BY <1>15, <1>t DEF Disconnect
<1>16. CASE DisconnectReturns(c)
  BY <1>16, <1>t DEF DisconnectReturns
<1> QED
  BY <1>1, <1>2, <1>3, <1>4, <1>5, <1>6, <1>7, <1>8, <1>9, <1>10, <1>11, <1>12, <1>13,
     <1>14, <1>15, <1>16 DEF ClientThreadStep, ClientThread

\* The callbacks of the client move the connection forward only.
LEMMA ClientCallbackFlow ==
  ASSUME NEW c, Clients = {c}, IInv, FlowInv(c), ClientCallbackStep(c)
  PROVE  FlowInv(c)'
<1>t. /\ c \in Clients /\ cStream \in [Clients -> StreamStates] /\ s2c[c] \in Seq(Fragments)
      /\ sFin \in [Clients -> Signals]
      /\ UNCHANGED <<rpc, rx, file_header, blocked, offer_ready>>
  BY DEF IInv, TypeOK, QuicTypeOK, ClientCallbackStep, serverVars, flowVars, waitVars
<1> USE DEF quicVars, c2sVars, s2cVars, streamVars, jobVars
<1>1. CASE OnConnected(c)
  BY <1>1, <1>t, FlowFrame DEF OnConnected
<1>2. CASE OnShutdownInitiated(c)
  BY <1>2, <1>t, FlowFrame DEF OnShutdownInitiated
<1>3. CASE OnConnectionShutdownComplete(c)
  BY <1>3, <1>t, FlowFrame DEF OnConnectionShutdownComplete
<1> USE DEF FlowInv, Unopened, OpensOnce, Unheard, PhaseInv, HeaderInv, Engaged, Accepting
<1>4. CASE OnReceive(c)
  <2>1. s2c[c] # <<>>
    BY <1>4, <1>t DEF OnReceive
  <2>2. UNCHANGED <<cpc, job, cStream, sStream, c2s, cFin>>
    BY <1>4 DEF OnReceive
  <2> QED
    BY <1>t, <2>1, <2>2
<1>5. CASE OnPeerSendShutdown(c)
  <2>1. sFin[c] = "sent"
    BY <1>5 DEF OnPeerSendShutdown
  <2>2. UNCHANGED <<cpc, job, cStream, sStream, c2s, cFin>>
    BY <1>5 DEF OnPeerSendShutdown
  <2> QED
    BY <1>t, <2>1, <2>2
<1>6. CASE OnSendComplete(c)
  BY <1>6, <1>t, FlowFrame DEF OnSendComplete
<1>7. CASE OnStreamShutdownComplete(c)
  <2>1. cStream[c] # "none" /\ cStream'[c] = "closed"
    BY <1>7, <1>t DEF OnStreamShutdownComplete, ClientStreamOver
  <2>2. UNCHANGED <<cpc, job, sStream, c2s, cFin, s2c, sFin>>
    BY <1>7 DEF OnStreamShutdownComplete, clientVars
  <2> QED
    BY <1>t, <2>1, <2>2
<1> QED
  BY <1>1, <1>2, <1>3, <1>4, <1>5, <1>6, <1>7 DEF ClientCallbackStep, ClientCallback

-----------------------------------------------------------------------------
(* The wire.                                                               *)

\* A step that adds nothing to either direction keeps it, whatever it drops.
LEMMA WireKeeps ==
  ASSUME NEW c, Clients = {c}, IInv, WireInv(c), UNCHANGED job,
         ~rx'.header_parsed => ~rx.header_parsed /\ rx'.buffer = rx.buffer,
         ~rx'.header_parsed /\ NoAccept(c) => NoAccept(c)',
         c2s'[c] = c2s[c] \/ c2s'[c] = <<>>
  PROVE  WireInv(c)'
<1> SUFFICES ASSUME ~rx'.header_parsed
             PROVE  /\ NoAccept(c)'
                    /\ \E S \in WireSets(c)' : Only(rx'.buffer, S) /\ Only(c2s'[c], S)
                    /\ job'[c] # NoJob => Len(rx'.buffer) + Len(c2s'[c]) <= HeaderUnits
  BY DEF WireInv
<1>t. rx.buffer \in Seq(Units) /\ c2s[c] \in Seq(Units)
  BY DEF IInv, TypeOK, ServerTypeOK, QuicTypeOK, RxState
<1>1. /\ ~rx.header_parsed /\ rx'.buffer = rx.buffer /\ WireSets(c)' = WireSets(c)
      /\ NoAccept(c)'
  BY DEF WireInv, WireSets, HeaderText
<1>2. PICK S \in WireSets(c) : Only(rx.buffer, S) /\ Only(c2s[c], S)
  BY <1>1 DEF WireInv
<1>3. Only(c2s'[c], S)
  BY <1>2, OnlyEmpty
<1>4. job'[c] # NoJob => Len(rx'.buffer) + Len(c2s'[c]) <= HeaderUnits
  <2>1. Len(rx.buffer) \in Nat /\ Len(c2s[c]) \in Nat /\ Len(<<>>) = 0
    BY <1>t, LenProperties
  <2>2. job[c] # NoJob => Len(rx.buffer) + Len(c2s[c]) <= HeaderUnits
    BY <1>1 DEF WireInv
  <2>3. /\ Len(c2s'[c]) = Len(c2s[c]) \/ Len(c2s'[c]) = 0
        /\ Len(c2s'[c]) \in Nat
    BY <2>1
  <2>4. \A n, m, k \in Nat : (k = m \/ k = 0) /\ n + m <= 2 => n + k <= 2
    OBVIOUS
  <2>5. job[c] # NoJob => Len(rx.buffer) + Len(c2s'[c]) <= 2
    BY <2>1, <2>2, <2>3, <2>4, Zenon DEF HeaderUnits
  <2> QED
    BY <1>1, <2>5, Zenon DEF HeaderUnits
<1> QED
  BY <1>1, <1>2, <1>3, <1>4

\* Nothing is sent to the sender.
LEMMA WireFrame ==
  ASSUME NEW c, Clients = {c}, IInv, WireInv(c),
         UNCHANGED <<job, cpc, decision, decision_buf, s2c>>,
         ~rx'.header_parsed => ~rx.header_parsed /\ rx'.buffer = rx.buffer,
         c2s'[c] = c2s[c] \/ c2s'[c] = <<>>
  PROVE  WireInv(c)'
<1>1. NoAccept(c) => NoAccept(c)'
  BY DEF NoAccept
<1> QED
  BY <1>1, WireKeeps

\* receive_file sends only after it was offered a header.
LEMMA ServerThreadWire ==
  ASSUME NEW c, Clients = {c}, IInv, SessionInv(c), ServerThreadStep
  PROVE  WireInv(c)'
<1>t. /\ rx \in RxState /\ WireInv(c) /\ UNCHANGED <<job, cpc, decision, decision_buf>>
      /\ rpc \in Engaged => rx.header_parsed
  BY DEF IInv, TypeOK, ServerTypeOK, SessionInv, FlowInv, PhaseInv, HeaderInv,
         ServerThreadStep, clientVars, jobVars, decisionVars
<1> USE DEF quicVars, c2sVars, s2cVars
<1>1. CASE ArmReceiving
  BY <1>1, <1>t, WireFrame DEF ArmReceiving
<1>2. CASE ArmPath
  <2>1. rx'.header_parsed = rx.header_parsed /\ rx'.buffer = rx.buffer
    BY <1>2, <1>t DEF ArmPath, RxState
  <2> QED
    BY <1>2, <1>t, <2>1, WireFrame DEF ArmPath
<1>3. CASE ArmOffer
  BY <1>3, <1>t, WireFrame DEF ArmOffer
<1>4. CASE ArmReset
  <2>1. rx' = rx
    <3>1. cStream[c] = "none"
      BY <1>4 DEF ArmReset, Arming, SessionInv, FlowInv, OpensOnce
    <3>2. rx = FreshRx(rx.path)
      BY <3>1 DEF SessionInv, FlowInv, Unopened, Unheard
    <3> QED
      BY <1>4, <3>2, Zenon DEF ArmReset
  <2> QED
    BY <1>4, <1>t, <2>1, WireFrame DEF ArmReset
<1>5. CASE OfferArrived
  BY <1>5, <1>t, WireFrame DEF OfferArrived
<1>6. CASE OfferFailed
  BY <1>6, <1>t, WireFrame DEF OfferFailed
<1>7. CASE OfferTimeout
  BY <1>7, <1>t, WireFrame DEF OfferTimeout
<1>8. CASE PromptReject
  <2>1. rx'.header_parsed
    BY <1>8, <1>t DEF PromptReject, Engaged, Accepting
  <2> QED
    BY <2>1 DEF WireInv
<1>9. CASE PromptAccept
  <2>1. rx.header_parsed
    BY <1>9, <1>t DEF PromptAccept, Engaged, Accepting
  <2>2. rx'.header_parsed
    BY <1>9, <1>t, <2>1 DEF PromptAccept, OpenedRx, RxState
  <2> QED
    BY <2>2 DEF WireInv
<1>10. CASE SendAccept
  <2>1. rx'.header_parsed
    BY <1>10, <1>t DEF SendAccept, Engaged, Accepting
  <2> QED
    BY <2>1 DEF WireInv
<1>11. CASE TransferFinished
  BY <1>11, <1>t, WireFrame DEF TransferFinished
<1>12. CASE TransferFailed
  <2>1. rx'.header_parsed = rx.header_parsed /\ rx'.buffer = rx.buffer
    BY <1>12, <1>t DEF TransferFailed, CloseFile, RxState
  <2> QED
    BY <1>12, <1>t, <2>1, WireFrame DEF TransferFailed
<1>13. CASE DrainAfterReject
  BY <1>13, <1>t, WireFrame DEF DrainAfterReject
<1>14. CASE DrainAfterTransfer
  BY <1>14, <1>t, WireFrame DEF DrainAfterTransfer
<1>15. CASE Stop
  BY <1>15, <1>t, WireFrame DEF Stop
<1>16. CASE StopReturns
  BY <1>16, <1>t, WireFrame DEF StopReturns
<1>17. CASE MarkAccepted
  <2>1. rx'.header_parsed
    BY <1>17, <1>t DEF MarkAccepted, Engaged, Accepting, RxState
  <2> QED
    BY <2>1 DEF WireInv
<1> QED
  BY <1>1, <1>2, <1>3, <1>4, <1>5, <1>6, <1>7, <1>8, <1>9, <1>10, <1>11, <1>12, <1>13,
     <1>14, <1>15, <1>16, <1>17 DEF ServerThreadStep, ServerThread

\* A receive event moves a prefix of what is under way into the buffer, or drops
\* it, or ends the header.
LEMMA OnReceiveWire ==
  ASSUME NEW c, Clients = {c}, IInv, SessionInv(c), on_receive(c),
         UNCHANGED <<job, cpc, decision, decision_buf>>
  PROVE  WireInv(c)'
<1> SUFFICES ASSUME ~rx'.header_parsed PROVE WireInv(c)'
  BY DEF WireInv
<1>t. /\ rx \in RxState /\ c \in Clients /\ c2s \in [Clients -> Seq(Units)]
      /\ c2s[c] \in Seq(Units) /\ rx.buffer \in Seq(Units)
  BY DEF IInv, TypeOK, ServerTypeOK, QuicTypeOK, RxState
<1>1. PICK n \in 1..Len(c2s[c]) :
        /\ c2s' = [c2s EXCEPT ![c] = SubSeq(@, n + 1, Len(@))]
        /\ IF receiving_file
           THEN append_file_bytes(c, SubSeq(c2s[c], 1, n))
           ELSE UNCHANGED <<waitVars, file_header, rx, file_result, disk, s2cVars, sSends>>
  BY DEF on_receive
<1> DEFINE first  == SubSeq(c2s[c], 1, n)
           rest   == SubSeq(c2s[c], n + 1, Len(c2s[c]))
           buffer == rx.buffer \o first
<1>2. /\ first \in Seq(Units) /\ Len(first) = n
      /\ rest \in Seq(Units) /\ Len(rest) = Len(c2s[c]) - n
  <2>1. Len(c2s[c]) \in Nat /\ n \in 1..Len(c2s[c])
    BY <1>t, LenProperties
  <2>2. Len(rest) = Len(c2s[c]) - n
    BY <1>t, <2>1
  <2> QED
    BY <1>t, <2>2, SplitType
<1>3. c2s'[c] = rest
  BY <1>t, <1>1
<1> HIDE DEF first, rest
<1>4. buffer \in Seq(Units) /\ Len(buffer) = Len(rx.buffer) + n
  BY <1>t, <1>2, ConcatProperties
<1> HIDE DEF buffer
<1>5. /\ ~rx.header_parsed /\ s2c' = s2c
      /\ rx'.buffer = buffer \/ rx'.buffer = rx.buffer
  <2>1. CASE ~receiving_file
    BY <1>1, <2>1 DEF s2cVars
  <2>2. CASE receiving_file /\ rx.header_parsed
    <3>1. BodyBytes(first)
      BY <1>1, <2>2 DEF append_file_bytes, first
    <3>2. rx'.header_parsed
      BY <1>t, <2>2, <3>1 DEF BodyBytes, WrittenRx, RxState
    <3> QED
      BY <3>2
  <2>3. CASE receiving_file /\ ~rx.header_parsed
    <3>1. \/ HeaderIncomplete(c, buffer)
          \/ HeaderOffered(c, buffer)
          \/ HeaderAutoAccepted(c, buffer)
      BY <1>1, <2>3 DEF append_file_bytes, first, buffer
    <3>2. CASE HeaderIncomplete(c, buffer)
      BY <1>t, <2>3, <3>2 DEF HeaderIncomplete, RxState, s2cVars
    <3>3. CASE HeaderOffered(c, buffer)
      BY <1>t, <3>3 DEF HeaderOffered, ParsedRx, RxState
    <3>4. CASE HeaderAutoAccepted(c, buffer)
      <4>1. rx.out = "null"
        BY <1>t, <2>3 DEF SessionInv, FlowInv, PhaseInv
      <4> QED
        BY <1>4, <1>t, <2>3, <3>4, <4>1, AutoAcceptedFacts
    <3> QED
      BY <3>1, <3>2, <3>3, <3>4
  <2> QED
    BY <2>1, <2>2, <2>3
<1>6. NoAccept(c)'
  BY <1>5 DEF SessionInv, WireInv, NoAccept
<1>7. PICK S \in WireSets(c) : Only(rx.buffer, S) /\ Only(c2s[c], S)
  BY <1>5 DEF SessionInv, WireInv
<1>8. Only(first, S) /\ Only(rest, S)
  BY <1>t, <1>7, OnlySplit DEF first, rest
<1>9. Only(rx'.buffer, S) /\ Only(c2s'[c], S)
  BY <1>t, <1>2, <1>3, <1>5, <1>7, <1>8, OnlyConcat DEF buffer
<1>10. job'[c] # NoJob => Len(rx'.buffer) + Len(c2s'[c]) <= HeaderUnits
  <2>1. /\ Len(rx.buffer) \in Nat /\ Len(c2s[c]) \in Nat /\ n \in 1..Len(c2s[c])
        /\ Len(rx'.buffer) = Len(rx.buffer) + n \/ Len(rx'.buffer) = Len(rx.buffer)
        /\ Len(c2s'[c]) = Len(c2s[c]) - n
    BY <1>t, <1>2, <1>3, <1>4, <1>5, LenProperties
  <2>2. job[c] # NoJob => Len(rx.buffer) + Len(c2s[c]) <= 2
    BY <1>5 DEF SessionInv, WireInv, HeaderUnits
  <2>3. \A a, b \in Nat : \A m \in 1..b :
          a + b <= 2 => (a + m) + (b - m) <= 2 /\ a + (b - m) <= 2
    OBVIOUS
  <2>4. job[c] # NoJob => Len(rx'.buffer) + Len(c2s'[c]) <= 2
    BY <2>1, <2>2, <2>3, Zenon
  <2> QED
    BY <2>4, Zenon DEF HeaderUnits
<1>11. WireSets(c)' = WireSets(c)
  BY DEF WireSets, HeaderText
<1> QED
  BY <1>6, <1>7, <1>9, <1>10, <1>11 DEF WireInv

\* What the server has not parsed yet is the rest of the header line.
LEMMA ServerCallbackWire ==
  ASSUME NEW c, Clients = {c}, IInv, SessionInv(c), ServerCallbackStep(c)
  PROVE  WireInv(c)'
<1>t. /\ QuicTypeOK /\ rx \in RxState /\ c \in Clients /\ WireInv(c)
      /\ c2s \in [Clients -> Seq(Units)]
      /\ UNCHANGED <<job, cpc, decision, decision_buf>>
  BY DEF IInv, TypeOK, ServerTypeOK, QuicTypeOK, SessionInv, ServerCallbackStep, clientVars,
         jobVars, decisionVars
<1> USE DEF c2sVars, s2cVars
<1>1. CASE on_new_connection(c)
  BY <1>1, <1>t, WireFrame DEF on_new_connection, serverVars
<1>2. CASE on_connected(c)
  BY <1>2, <1>t, WireFrame DEF on_connected
<1>3. CASE on_connection_shutdown_complete(c)
  BY <1>3, <1>t, WireFrame DEF on_connection_shutdown_complete
<1>4. CASE on_peer_stream_started(c)
  <2>1. rx' = rx
    BY <1>4, <1>t, Zenon DEF on_peer_stream_started, SessionInv, FlowInv, Unheard
  <2> QED
    BY <1>4, <1>t, <2>1, WireFrame DEF on_peer_stream_started
<1>5. CASE on_receive(c)
  BY <1>5, <1>t, OnReceiveWire
<1>6. CASE on_peer_send_shutdown(c)
  <2>1. UNCHANGED c2s
    BY <1>6 DEF on_peer_send_shutdown
  <2>2. CASE receiving_file /\ (rx.accepted \/ rx.io_error)
    <3>1. finish_file_receive(c)
      BY <1>6, <2>2 DEF on_peer_send_shutdown
    <3>2. rx'.header_parsed = rx.header_parsed /\ rx'.buffer = rx.buffer
      BY <1>t, <3>1 DEF finish_file_receive, CloseFile, RxState
    <3>3. PICK word \in Words \ {"ACCEPT"} :
            ServerSends(c, word, TRUE) \/ UNCHANGED <<s2cVars, sSends>>
      BY <3>1 DEF finish_file_receive, Words
    <3>4. Without(s2c[c], "ACCEPT") => Without(s2c'[c], "ACCEPT")
      BY <1>t, <3>3, SendsWithout
    <3>5. NoAccept(c) => NoAccept(c)'
      BY <1>t, <3>4 DEF NoAccept
    <3> QED
      BY <1>t, <2>1, <3>2, <3>5, WireKeeps
  <2>3. CASE ~(receiving_file /\ (rx.accepted \/ rx.io_error))
    BY <1>6, <1>t, <2>1, <2>3, WireFrame DEF on_peer_send_shutdown
  <2> QED
    BY <2>2, <2>3
<1>7. CASE on_send_complete(c)
  BY <1>7, <1>t, WireFrame DEF on_send_complete
<1>8. CASE on_peer_aborted(c)
  <2>1. rx'.header_parsed = rx.header_parsed /\ rx'.buffer = rx.buffer
    BY <1>8, <1>t DEF on_peer_aborted, CloseFile, RxState
  <2>2. c2s'[c] = <<>>
    BY <1>8, <1>t DEF on_peer_aborted
  <2> QED
    BY <1>8, <1>t, <2>1, <2>2, WireFrame DEF on_peer_aborted
<1>9. CASE on_stream_shutdown_complete(c)
  BY <1>9, <1>t, WireFrame DEF on_stream_shutdown_complete, serverVars
<1>10. CASE EnterFileMutex(c)
  <2>1. rx' = rx
    BY <1>10 DEF EnterFileMutex, SessionInv, FlowInv, PhaseInv
  <2> QED
    BY <1>10, <1>t, <2>1, WireFrame DEF EnterFileMutex, quicVars
<1> QED
  BY <1>1, <1>2, <1>3, <1>4, <1>5, <1>6, <1>7, <1>8, <1>9, <1>10
     DEF ServerCallbackStep, ServerCallback

\* What the sending thread adds comes after that line.
LEMMA ClientThreadWire ==
  ASSUME NEW c, Clients = {c}, IInv, SessionInv(c), ClientThreadStep(c)
  PROVE  WireInv(c)'
<1> SUFFICES ASSUME ~rx'.header_parsed PROVE WireInv(c)'
  BY DEF WireInv
<1>t. /\ c \in Clients /\ cpc \in [Clients -> CpcStates] /\ job \in [Clients -> Jobs \cup {NoJob}]
      /\ c2s \in [Clients -> Seq(Units)] /\ decision_buf \in [Clients -> Seq(Fragments)]
      /\ decision \in [Clients -> {"none", "accepted", "rejected"}]
      /\ ClientTypeOK /\ UNCHANGED rx
  BY DEF IInv, TypeOK, ClientTypeOK, QuicTypeOK, ClientThreadStep, serverVars
<1>n. WireInv(c) /\ NoAccept(c) /\ ~rx.header_parsed
  BY <1>t DEF SessionInv, WireInv
\* A step that sends nothing and goes on outside the body.
<1>k. ASSUME UNCHANGED <<job, c2s, s2c, decision, decision_buf>>,
             NEW label \in CpcStates \ BodyStates, Goto(c, label)
      PROVE  WireInv(c)'
  <2>1. NoAccept(c)'
    BY <1>t, <1>n, <1>k DEF NoAccept, Goto
  <2> QED
    BY <1>t, <1>n, <1>k, <2>1, WireKeeps
<1>l. {"connecting", "ready", "header_wait", "decision_wait", "raw_wait", "raw_ack_wait",
       "disconnect", "shutdown_wait", "done"} \subseteq CpcStates \ BodyStates
  BY DEF CpcStates, BodyStates
\* The first send of a sender that was never heard of.
<1>o. cpc[c] = "ready" => job[c] = NoJob /\ c2s[c] = <<>> /\ rx.buffer = <<>>
  <2> SUFFICES ASSUME cpc[c] = "ready" PROVE job[c] = NoJob /\ c2s[c] = <<>> /\ rx.buffer = <<>>
    OBVIOUS
  <2>1. job[c] = NoJob /\ c2s[c] = <<>> /\ rx = FreshRx(rx.path)
    BY DEF SessionInv, FlowInv, OpensOnce, Unopened, Unheard
  <2> QED
    BY <2>1, FreshFields, ZenonT(60)
<1> USE DEF Finish, jobVars, decisionVars
<1> USE DEF quicVars, c2sVars, s2cVars
<1>1. CASE Connect(c)
  BY <1>1, <1>k, <1>l DEF Connect
<1>2. CASE ConnectReturns(c)
  BY <1>2, <1>k, <1>l DEF ConnectReturns
<1>3. CASE SendHeader(c)
  <2>1. PICK j \in {FileJob(c, name) : name \in RawNames} \cup TestJobs :
          /\ job' = [job EXCEPT ![c] = j]
          /\ FirstSend(c, encode_file_header(j.header), FALSE, "header_wait")
    BY <1>3 DEF SendHeader
  <2>2. j \in Jobs /\ j.header \in FileTransferHeader
    BY <1>t, JobType DEF Jobs
  <2> DEFINE units == encode_file_header(j.header)
  <2>3. units \in Seq(Units) /\ Len(units) = 2
    BY <2>2, EncodeType, HeaderTextFacts
  <2> HIDE DEF units
  <2>4. c2s'[c] = units \/ c2s'[c] = <<>>
    <3>1. c2s'[c] = c2s[c] \o units \/ c2s'[c] = c2s[c]
      BY <1>t, <2>1 DEF FirstSend, ClientSends, units
    <3>2. c2s[c] = <<>> /\ <<>> \o units = units
      BY <1>3, <1>o, <2>3, ConcatEmptySeq DEF SendHeader
    <3> QED
      BY <3>1, <3>2
  <2>5. NoAccept(c)'
    <3>1. cpc'[c] \in {"header_wait", "disconnect"}
      BY <1>t, <2>1 DEF FirstSend, Goto
    <3>2. decision'[c] = "none" /\ decision_buf'[c] = <<>> /\ s2c' = s2c
      BY <1>3, <1>t DEF SendHeader
    <3> QED
      BY <1>n, <3>1, <3>2 DEF NoAccept, Without, BodyStates
  <2>6. job'[c] = j /\ rx'.buffer = <<>>
    BY <1>3, <1>t, <1>o, <2>1 DEF SendHeader
  <2>7. job'[c] = NoJob \/ WireSets(c)' = {{units[1], units[2]}}
    BY <2>6 DEF WireSets, HeaderText, units
  <2>8. job'[c] # NoJob
    <3>1. NoJob.header = None
      BY DEF NoJob
    <3> QED
      BY <2>2, <2>6, <3>1, NoneAssumption, Zenon
  <2>9. Only(units, {units[1], units[2]})
    BY <2>3 DEF Only
  <2>10. Only(rx'.buffer, {units[1], units[2]}) /\ Only(c2s'[c], {units[1], units[2]})
    BY <2>4, <2>6, <2>9, OnlyEmpty
  <2>11. Len(rx'.buffer) + Len(c2s'[c]) <= 2
    <3>1. Len(rx'.buffer) = 0
      BY <2>6
    <3>2. Len(c2s'[c]) = 2 \/ Len(c2s'[c]) = 0
      BY <2>3, <2>4
    <3>3. 0 + 2 <= 2 /\ 0 + 0 <= 2
      OBVIOUS
    <3> QED
      BY <3>1, <3>2, <3>3, Zenon
  <2> QED
    BY <2>5, <2>7, <2>8, <2>10, <2>11 DEF WireInv, HeaderUnits
<1>4. CASE SendWithoutConnection(c)
  BY <1>4, <1>k, <1>l DEF SendWithoutConnection
<1>5. CASE HeaderSent(c)
  BY <1>5, <1>k, <1>l DEF HeaderSent
<1>6. CASE DecisionAccepted(c)
  BY <1>6, <1>n DEF DecisionAccepted, NoAccept
<1>7. CASE DecisionRejected(c)
  BY <1>7, <1>k, <1>l DEF DecisionRejected
<1>8. CASE WaitExpires(c)
  BY <1>8, <1>k, <1>l DEF WaitExpires
<1>9. CASE SendChunk(c) \/ FileShrank(c) \/ ChunkSent(c) \/ SendReturns(c)
  BY <1>9, <1>n DEF SendChunk, FileShrank, ChunkSent, SendReturns, NoAccept, BodyStates
<1>10. CASE SendRaw(c)
  <2>1. PICK b \in Bytes : FirstSend(c, [i \in 1..JunkLength |-> b], TRUE, "raw_wait")
    BY <1>10 DEF SendRaw
  <2> DEFINE units == [i \in 1..JunkLength |-> b]
  <2>2. units \in Seq(Units) /\ Only(units, {b})
    <3>1. JunkLength \in Nat
      BY ClientAssumption
    <3>2. Len(units) = JunkLength
      BY <3>1
    <3> QED
      BY <3>1, <3>2, JunkType DEF Only
  <2> HIDE DEF units
  <2>3. c2s'[c] = units \/ c2s'[c] = <<>>
    <3>1. c2s'[c] = c2s[c] \o units \/ c2s'[c] = c2s[c]
      BY <1>t, <2>1 DEF FirstSend, ClientSends, units
    <3>2. c2s[c] = <<>> /\ <<>> \o units = units
      BY <1>10, <1>o, <2>2, ConcatEmptySeq DEF SendRaw
    <3> QED
      BY <3>1, <3>2
  <2>4. NoAccept(c)'
    <3>1. cpc'[c] \in {"raw_wait", "disconnect"}
      BY <1>t, <2>1 DEF FirstSend, Goto
    <3>2. UNCHANGED <<decision, decision_buf, s2c>>
      BY <1>10 DEF SendRaw
    <3> QED
      BY <1>n, <3>1, <3>2 DEF NoAccept, BodyStates
  <2>5. job'[c] = NoJob /\ rx'.buffer = <<>>
    BY <1>10, <1>t, <1>o DEF SendRaw
  <2>6. {b} \in WireSets(c)'
    BY <2>5 DEF WireSets
  <2>7. Only(rx'.buffer, {b}) /\ Only(c2s'[c], {b})
    BY <2>2, <2>3, <2>5, OnlyEmpty
  <2> QED
    BY <2>4, <2>5, <2>6, <2>7 DEF WireInv
<1>11. CASE RawReturns(c)
  BY <1>11, <1>k, <1>l DEF RawReturns
<1>12. CASE Disconnect(c)
  BY <1>12, <1>k, <1>l DEF Disconnect
<1>13. CASE DisconnectReturns(c)
  BY <1>13, <1>k, <1>l DEF DisconnectReturns
<1> QED
  BY <1>1, <1>2, <1>3, <1>4, <1>5, <1>6, <1>7, <1>8, <1>9, <1>10, <1>11, <1>12, <1>13
     DEF ClientThreadStep, ClientThread

\* The client's callbacks do not change what is on the wire to the server.
LEMMA ClientCallbackWire ==
  ASSUME NEW c, Clients = {c}, IInv, SessionInv(c), ClientCallbackStep(c)
  PROVE  WireInv(c)'
<1>t. /\ c \in Clients /\ WireInv(c) /\ UNCHANGED rx
      /\ decision_buf \in [Clients -> Seq(Fragments)]
      /\ decision \in [Clients -> {"none", "accepted", "rejected"}]
  BY DEF IInv, TypeOK, ClientTypeOK, SessionInv, ClientCallbackStep, serverVars
<1> USE DEF jobVars, decisionVars
<1> USE DEF quicVars, c2sVars, s2cVars
<1>1. CASE OnConnected(c)
  BY <1>1, <1>t, WireFrame DEF OnConnected
<1>2. CASE OnShutdownInitiated(c)
  BY <1>2, <1>t, WireFrame DEF OnShutdownInitiated
<1>3. CASE OnConnectionShutdownComplete(c)
  BY <1>3, <1>t, WireFrame DEF OnConnectionShutdownComplete
<1>4. CASE OnReceive(c)
  <2>1. UNCHANGED <<job, cpc, c2s>>
    BY <1>4 DEF OnReceive
  <2>2. NoAccept(c) => NoAccept(c)'
    <3> SUFFICES ASSUME NoAccept(c) PROVE NoAccept(c)'
      OBVIOUS
    <3>1. /\ Without(s2c'[c], "ACCEPT") /\ Without(decision_buf'[c], "ACCEPT")
          /\ decision'[c] # "accepted"
      BY <1>4, <1>t, OnReceiveKeeps
    <3> QED
      BY <2>1, <3>1 DEF NoAccept
  <2> QED
    BY <1>t, <2>1, <2>2, WireKeeps
<1>5. CASE OnPeerSendShutdown(c)
  <2>1. UNCHANGED <<job, cpc, c2s, s2c, decision_buf>>
    BY <1>5 DEF OnPeerSendShutdown
  <2>2. NoAccept(c) => NoAccept(c)'
    <3> SUFFICES ASSUME NoAccept(c) PROVE NoAccept(c)'
      OBVIOUS
    <3>1. Resolved(decision_buf[c]) # "accepted"
      BY <1>t, ResolvesWithout DEF NoAccept
    <3>2. decision'[c] \in {decision[c], Resolved(decision_buf[c])}
      BY <1>5, <1>t DEF OnPeerSendShutdown
    <3> QED
      BY <2>1, <3>1, <3>2 DEF NoAccept
  <2> QED
    BY <1>t, <2>1, <2>2, WireKeeps
<1>6. CASE OnSendComplete(c)
  BY <1>6, <1>t, WireFrame DEF OnSendComplete
<1>7. CASE OnStreamShutdownComplete(c)
  BY <1>7, <1>t, WireFrame DEF OnStreamShutdownComplete, clientVars
<1> QED
  BY <1>1, <1>2, <1>3, <1>4, <1>5, <1>6, <1>7 DEF ClientCallbackStep, ClientCallback

-----------------------------------------------------------------------------
(* Putting the steps together.                                             *)

\* At the start nobody has sent or heard anything.
LEMMA InitSession ==
  ASSUME NEW c, Clients = {c}, Init PROVE SessionInv(c)
<1> USE DEF Init, QuicInit, ServerInit, ClientInit
<1>t. c \in Clients
  OBVIOUS
<1>1. Unopened(c) /\ OpensOnce(c)
  BY <1>t DEF Unopened, OpensOnce, IdleStates
<1>2. Unheard(c)
  <2>1. rx = FreshRx(rx.path)
    BY Zenon DEF FreshRx
  <2> QED
    BY <1>t, <2>1 DEF Unheard, Engaged, Accepting
<1>3. PhaseInv(c) /\ HeaderInv(c)
  <2>1. rpc = "started" /\ file_header = NoHeader /\ ~offer_ready /\ blocked[c] = "no"
    BY <1>t
  <2>2. rx.out = "null" /\ ~rx.accepted /\ ~rx.header_parsed
    BY FreshFields
  <2> QED
    BY <2>1, <2>2 DEF PhaseInv, HeaderInv, Engaged, Accepting
<1>4. WireInv(c)
  <2>1. NoAccept(c)
    BY <1>t DEF NoAccept, Without, BodyStates
  <2>2. rx.buffer = <<>> /\ c2s[c] = <<>> /\ job[c] = NoJob
    BY <1>t, FreshFields
  <2>3. {} \in WireSets(c)
    BY <2>2 DEF WireSets
  <2>4. Only(rx.buffer, {}) /\ Only(c2s[c], {})
    BY <2>2, OnlyEmpty
  <2> QED
    BY <2>1, <2>2, <2>3, <2>4 DEF WireInv
<1> QED
  BY <1>1, <1>2, <1>3, <1>4 DEF SessionInv, FlowInv

\* Every step keeps the session's invariant.
LEMMA StepSession ==
  ASSUME NEW c, Clients = {c}, ~EarlySenders, IInv, SessionInv(c), [Next]_vars
  PROVE  SessionInv(c)'
<1>n. ASSUME UNCHANGED <<cpc, job, cStream, sStream, c2s, cFin, s2c, sFin, serverVars,
                         decision, decision_buf>>
      PROVE  SessionInv(c)'
  <2>1. FlowInv(c)'
    BY <1>n, FlowFrame DEF SessionInv, serverVars, flowVars, waitVars
  <2>2. WireInv(c)'
    BY <1>n, WireFrame DEF SessionInv, serverVars
  <2> QED
    BY <2>1, <2>2 DEF SessionInv
<1> USE DEF quicVars, c2sVars, s2cVars, streamVars, clientVars, jobVars, decisionVars
<1>1. CASE ServerThreadStep
  BY <1>1, ServerThreadFlow, ServerThreadWire DEF SessionInv
<1>2. CASE ServerCallbackStep(c)
  BY <1>2, ServerCallbackFlow, ServerCallbackWire DEF SessionInv
<1>3. CASE ServerTransportStep(c)
  BY <1>3, <1>n DEF ServerTransportStep, ServerLearnsClose
<1>4. CASE ClientThreadStep(c)
  BY <1>4, ClientThreadFlow, ClientThreadWire DEF SessionInv
<1>5. CASE ClientCallbackStep(c)
  BY <1>5, ClientCallbackFlow, ClientCallbackWire DEF SessionInv
<1>6. CASE LinkDownStep(c)
  BY <1>6, <1>n DEF LinkDownStep, LinkDown
<1>7. CASE EditStep(c)
  BY <1>7, <1>n DEF EditStep, EditSource
<1>8. CASE UNCHANGED vars
  BY <1>8, <1>n DEF vars
<1> QED
  BY <1>1, <1>2, <1>3, <1>4, <1>5, <1>6, <1>7, <1>8 DEF Next, Finished

\* The invariant holds in every state of every run with one sender.
LEMMA SessionHolds ==
  ASSUME NEW CONSTANT c, Clients = {c}, ~EarlySenders
  PROVE  Spec => []SessionInv(c)
<1>1. IInv /\ SessionInv(c) /\ [Next]_vars => SessionInv(c)'
  BY StepSession
<1>2. Init => SessionInv(c)
  BY InitSession
<1> QED
  BY <1>1, <1>2, IInvHolds, PTL DEF Spec
=============================================================================
