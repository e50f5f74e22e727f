----------------------------- MODULE HeaderCodec -----------------------------
(***************************************************************************)
(* The text header of a transfer (src/transfer/quic_transfer.cpp) and the  *)
(* part of QuicServer that reads it off a stream when no prompt is         *)
(* registered (try_parse_file_header, append_file_bytes): the text arrives *)
(* cut into receive events of any length, and what follows the header is   *)
(* the body.                                                               *)
(*                                                                         *)
(* A text is a sequence of characters.  Every word the format knows, and   *)
(* the default file name, counts as one character; "LF" is the newline,    *)
(* "TAB" a control character that is white space, "BEL" one that is not.   *)
(***************************************************************************)
EXTENDS Integers, SequencesExt

CONSTANTS
  Radix,          \* 10, the radix numbers are written in
  MaxSize,        \* the largest uint64_t
  HashLength,     \* 64
  MaxHeaderBytes, \* kMaxHeaderBytes
  Headers,        \* what senders announce
  Bodies,         \* what they send after the header
  OddTexts        \* other texts a peer may send

Magic == "LFT/1"
DigitChars == << "0", "1", "2", "3", "4", "5", "6", "7", "8", "9" >>
Digits == {DigitChars[i] : i \in 1..Radix}
HexDigits == Digits \cup {"a", "A"}
Controls == {"LF", "TAB", "BEL"}
Spaces == {"SP", "LF", "TAB"}
Separators == {"/", "\\"}
Words == {Magic, "name", "size", "hash", "mode", "received.bin"}
Chars == Words \cup HexDigits \cup Controls \cup Spaces \cup Separators \cup {"=", ".", "_"}

Texts == Seq(Chars)

Header == [name : Texts, size : Nat, sha256_hex : Texts]

NoHeader == [name |-> <<>>, size |-> 0, sha256_hex |-> <<>>]

ASSUME CodecAssumption ==
  /\ Radix \in 2..10
  /\ HashLength \in Nat /\ MaxSize \in Nat /\ MaxHeaderBytes \in Nat
  /\ Bodies \subseteq Texts /\ OddTexts \subseteq Texts
  /\ Headers \subseteq Header
  /\ \A h \in Headers : h.size <= MaxSize

-----------------------------------------------------------------------------
(* File names.                                                             *)

\* std::filesystem::path::filename(): what follows the last slash.
FileName(raw) ==
  LET slash == SelectLastInSeq(raw, LAMBDA ch : ch = "/")
  IN SubSeq(raw, slash + 1, Len(raw))

\* White space is erased at both ends.
Trim(name) ==
  LET first == SelectInSeq(name, LAMBDA ch : ch \notin Spaces)
      last  == SelectLastInSeq(name, LAMBDA ch : ch \notin Spaces)
  IN IF first = 0 THEN <<>> ELSE SubSeq(name, first, last)

DefaultName == <<"received.bin">>

\* Mutant: the directory names are recognised before the white space is erased.
UsableUntrimmed(name, untrimmed) ==
  name # <<>> /\ untrimmed \notin {<<".">>, <<".", ".">>}

\* Not empty, and neither "." nor "..".
Usable(name, untrimmed) == name \notin {<<>>, <<".">>, <<".", ".">>}

sanitize_file_name(raw) ==
  LET name == Trim(FileName(raw))
      Replace(ch) == IF ch \in Controls \cup Separators THEN "_" ELSE ch
  IN IF Usable(name, FileName(raw)) THEN [i \in 1..Len(name) |-> Replace(name[i])]
                                    ELSE DefaultName

-----------------------------------------------------------------------------
(* Numbers and hashes.                                                     *)

DigitValue(ch) == (CHOOSE i \in 1..Radix : DigitChars[i] = ch) - 1

NumberOf(text) == FoldLeft(LAMBDA n, ch : Radix * n + DigitValue(ch), 0, text)

\* parse_full_u64 succeeds: digits only, and no overflow.
ParsesFully(text) ==
  /\ text # <<>>
  /\ Range(text) \subseteq Digits
  /\ NumberOf(text) <= MaxSize

\* How operator<< writes a number.
NumberText[n \in Nat] ==
  IF n < Radix THEN << DigitChars[n + 1] >>
               ELSE Append(NumberText[n \div Radix], DigitChars[(n % Radix) + 1])

is_sha256_hex(s) == Len(s) = HashLength /\ Range(s) \subseteq HexDigits

to_lower(s) == [i \in 1..Len(s) |-> IF s[i] = "A" THEN "a" ELSE s[i]]

-----------------------------------------------------------------------------
(* The header block.                                                       *)

Line(key, value) == <<key, "=">> \o value \o <<"LF">>

\* Mutant: the name goes out as the user's system spells it.
EncodedRaw(header) ==
  << Magic, "LF" >> \o Line("name", header.name)
                    \o Line("size", NumberText[header.size])
                    \o Line("hash", to_lower(header.sha256_hex))
                    \o << "LF" >>

encode_file_header(header) ==
  << Magic, "LF" >> \o Line("name", sanitize_file_name(header.name))
                    \o Line("size", NumberText[header.size])
                    \o Line("hash", to_lower(header.sha256_hex))
                    \o << "LF" >>

\* Mutant: the last blank line ends the header.
LastBlankLine(data) ==
  LET Ends == {i \in 1..(Len(data) - 1) : data[i] = "LF" /\ data[i + 1] = "LF"}
  IN IF Ends = {} THEN 0 ELSE CHOOSE i \in Ends : \A j \in Ends : i >= j

\* find("\n\n"), as a position; 0 if there is none.
BlankLine(data) ==
  LET Ends == {i \in 1..(Len(data) - 1) : data[i] = "LF" /\ data[i + 1] = "LF"}
  IN IF Ends = {} THEN 0 ELSE CHOOSE i \in Ends : \A j \in Ends : i <= j

Lines(block) ==
  FoldLeft(LAMBDA ls, ch : IF ch = "LF" THEN Append(ls, <<>>)
                                        ELSE [ls EXCEPT ![Len(ls)] = Append(@, ch)],
           << <<>> >>, block)

\* What the loop of decode_file_header knows: the fields so far, and whether it
\* has already returned false.
NothingRead == [header |-> NoHeader, seen |-> {}, bad |-> FALSE]

Bad(got) == [got EXCEPT !.bad = TRUE]

\* Mutant: of several lines with one key the first counts.
FirstCounts(got, key) == key \notin got.seen

\* The last one does.
Counts(got, key) == TRUE

ReadField(got, key, value) ==
  CASE ~Counts(got, key) -> got
    [] key = <<"name">> ->
         [got EXCEPT !.header.name = sanitize_file_name(value), !.seen = @ \cup {key}]
    [] key = <<"size">> ->
         IF ParsesFully(value)
         THEN [got EXCEPT !.header.size = NumberOf(value), !.seen = @ \cup {key}]
         ELSE Bad(got)
    [] key = <<"hash">> ->
         IF is_sha256_hex(value)
         THEN [got EXCEPT !.header.sha256_hex = to_lower(value), !.seen = @ \cup {key}]
         ELSE Bad(got)
    [] OTHER -> got

\* A line after the first: a key, the first "=", a value.
ReadLine(got, line) ==
  LET eq == SelectInSeq(line, LAMBDA ch : ch = "=")
  IN IF got.bad \/ line = <<>> THEN got
     ELSE IF eq = 0 THEN Bad(got)
     ELSE ReadField(got, SubSeq(line, 1, eq - 1), SubSeq(line, eq + 1, Len(line)))

ReadBlock(block) ==
  IF Head(Lines(block)) # <<Magic>> THEN Bad(NothingRead)
  ELSE FoldLeft(ReadLine, NothingRead, Tail(Lines(block)))

NotDecoded == [ok |-> FALSE, header |-> NoHeader, header_byte_count |-> 0]

decode_file_header(data) ==
  LET end == BlankLine(data)
      got == ReadBlock(SubSeq(data, 1, end - 1))
  IN IF end = 0 \/ got.bad \/ Cardinality(got.seen) < 3 THEN NotDecoded
     ELSE [ok |-> TRUE, header |-> got.header, header_byte_count |-> end + 1]

-----------------------------------------------------------------------------
(* Reading a header off a stream.                                          *)

VARIABLES
  announced,   \* the header the sender encoded, NoHeader if it sends an odd text
  to_come,     \* the rest of the stream
  buffer,      \* stream_receive_buffer_
  phase,       \* file_header_parsed_ with its outcome
  file_header, \* file_header_
  body         \* what append_file_bytes has been given to write

vars == <<announced, to_come, buffer, phase, file_header, body>>

Phases == {"reading", "parsed", "refused"}

Init ==
  /\ \/ \E h \in Headers, b \in Bodies :
          announced = h /\ to_come = encode_file_header(h) \o b
     \/ \E t \in OddTexts : announced = NoHeader /\ to_come = t
  /\ buffer = <<>>
  /\ phase = "reading"
  /\ file_header = NoHeader
  /\ body = <<>>

\* The cap only counts for what is not a header yet.
TooLong(data, got) == ~got.ok /\ Len(data) > MaxHeaderBytes

\* try_parse_file_header on the buffer with the new bytes in it.
try_parse_file_header(data) ==
  LET got == decode_file_header(data)
  IN IF TooLong(data, got)
     THEN /\ phase' = "refused"
          /\ buffer' = <<>>
          /\ UNCHANGED <<file_header, body>>
     ELSE IF got.ok
     THEN /\ phase' = "parsed"
          /\ file_header' = got.header
          /\ body' = SubSeq(data, got.header_byte_count + 1, Len(data))
          /\ buffer' = <<>>
     ELSE /\ buffer' = data
          /\ UNCHANGED <<phase, file_header, body>>

\* append_file_bytes: n characters arrive in one receive event.
append_file_bytes(n) ==
  LET data == SubSeq(to_come, 1, n)
  IN /\ to_come' = SubSeq(to_come, n + 1, Len(to_come))
     /\ \/ phase = "reading" /\ try_parse_file_header(buffer \o data)
        \/ /\ phase = "parsed"
           /\ body' = body \o data
           /\ UNCHANGED <<buffer, phase, file_header>>
        \/ phase = "refused" /\ UNCHANGED <<buffer, phase, file_header, body>>
     /\ UNCHANGED announced

AllRead == to_come = <<>> /\ UNCHANGED vars

Next == (\E n \in 1..Len(to_come) : append_file_bytes(n)) \/ AllRead

Spec == Init /\ [][Next]_vars

-----------------------------------------------------------------------------
(* Properties.                                                             *)

\* What the receiver should make of a header: the name as it is stored, the hash
\* in lower case.
Canonical(h) ==
  [name |-> sanitize_file_name(h.name), size |-> h.size, sha256_hex |-> to_lower(h.sha256_hex)]

Sent == encode_file_header(announced)

\* decode_file_header inverts encode_file_header wherever the receive events cut
\* the text (the name is sanitized at both ends): the header is recognised with
\* the event that completes it, never earlier, and what follows it is the body,
\* without a character lost or doubled at the cut.  kMaxHeaderBytes never refuses a
\* header that keeps to it, whatever follows it in the same receive event.
ReadsWhatWasSent ==
  announced # NoHeader /\ is_sha256_hex(announced.sha256_hex) =>
    /\ phase = "reading" => /\ Len(buffer) < Len(Sent)
                            /\ IsPrefix(buffer, Sent)
    /\ phase = "parsed"  => /\ file_header = Canonical(announced)
                            /\ \E b \in Bodies : b = body \o to_come
    /\ phase = "refused" => Len(Sent) > MaxHeaderBytes

\* A received name is one component of a path, with nothing that could break a
\* line of the header or leave the output directory (quic_transfer.h, 31-32).
NameIsSafe ==
  phase = "parsed" =>
    /\ file_header.name \notin {<<>>, <<".">>, <<".", ".">>}
    /\ Range(file_header.name) \cap (Controls \cup Separators) = {}

\* A blank line that has arrived decides: if it did not complete a header, no
\* further bytes will (the text reads as "not enough data yet" until the cap).
MalformedStaysMalformed ==
  phase = "reading" /\ BlankLine(buffer) # 0 => ~decode_file_header(buffer \o to_come).ok

\* The grammar of a header block, as quic_transfer.h (17-24) and the tests give
\* it: the magic line, then lines key=value, with a name, a size that fits and a
\* hash among them; of several lines with one key the last is meant.
SplitAt(line, i) == [key |-> SubSeq(line, 1, i - 1), value |-> SubSeq(line, i + 1, Len(line))]

Pairs(lines) ==
  [k \in 1..Len(lines) |->
     SplitAt(lines[k], CHOOSE i \in 1..Len(lines[k]) :
                         /\ lines[k][i] = "="
                         /\ \A j \in 1..(i - 1) : lines[k][j] # "=")]

WellFormed(block) ==
  LET lines == Tail(Lines(block))
      pairs == Pairs(lines)
      Good(pair) == /\ pair.key = <<"size">> => ParsesFully(pair.value)
                    /\ pair.key = <<"hash">> => is_sha256_hex(pair.value)
  IN /\ Head(Lines(block)) = <<Magic>>
     /\ \A k \in 1..Len(lines) : "=" \in Range(lines[k])
     /\ \A k \in 1..Len(lines) : Good(pairs[k])
     /\ \A key \in {<<"name">>, <<"size">>, <<"hash">>} : \E k \in 1..Len(lines) : pairs[k].key = key

LastValue(block, key) ==
  LET pairs == Pairs(Tail(Lines(block)))
      last  == CHOOSE k \in 1..Len(pairs) :
                 /\ pairs[k].key = key
                 /\ \A l \in (k + 1)..Len(pairs) : pairs[l].key # key
  IN pairs[last].value

\* decode_file_header accepts exactly that grammar, and reads the size as the
\* number it stands for.
AgreesWithGrammar ==
  buffer = <<>> /\ phase = "reading" =>
    LET got   == decode_file_header(to_come)
        block == SubSeq(to_come, 1, BlankLine(to_come) - 1)
    IN /\ got.ok <=> BlankLine(to_come) # 0 /\ WellFormed(block)
       /\ got.ok => /\ got.header.name = sanitize_file_name(LastValue(block, <<"name">>))
                    /\ got.header.size = NumberOf(LastValue(block, <<"size">>))
                    /\ got.header.sha256_hex = to_lower(LastValue(block, <<"hash">>))
=============================================================================
