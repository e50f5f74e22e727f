------------------------------ MODULE Protocol ------------------------------
(***************************************************************************)
(* The wire format of an LFT transfer (include/transfer/quic_transfer.h,   *)
(* src/transfer/quic_transfer.cpp): the text header that precedes a file's *)
(* bytes and the one-line replies of the receiver.                         *)
(*                                                                         *)
(* A QUIC stream carries bytes, and a receive event may end in the middle  *)
(* of a header or of a reply.  What the endpoints can tell apart is        *)
(* whether such a text is complete, so a header travels as two fragments   *)
(* (everything up to the blank line, and the blank line) and a reply as    *)
(* two fragments (its letters, and the rest with the newline).  A byte of  *)
(* a file is an element of Bytes.                                          *)
(***************************************************************************)
EXTENDS Naturals, Sequences

CONSTANTS
  RawNames,      \* file names as the sending side finds them
  Names,         \* the names sanitize_file_name can return
  SanitizeMap,   \* what sanitize_file_name makes of each raw name
  Bytes,         \* the bytes a file is made of
  Contents,      \* the contents files have
  None           \* "no value": a null handle, an empty path, an absent file

ASSUME NamesAssumption ==
  /\ Names \subseteq RawNames
  /\ SanitizeMap \in [RawNames -> Names]
  /\ \A n \in Names : SanitizeMap[n] = n

ASSUME ContentsAssumption == Contents \subseteq Seq(Bytes)

sanitize_file_name(raw) == SanitizeMap[raw]

\* OpenSSL's digest, assumed free of collisions: equal digests mean equal
\* contents.
sha256(content) == [sha256 |-> content]

Hashes == {sha256(content) : content \in Contents}

FileTransferHeader == [name : RawNames, size : Nat, sha256_hex : Hashes]

ASSUME NoneAssumption == None \notin Names \cup FileTransferHeader

-----------------------------------------------------------------------------
HeaderFragments == [part : {1, 2}, header : FileTransferHeader]

\* What a sender's stream is made of.
Units == Bytes \cup HeaderFragments

encode_file_header(header) ==
  LET clean == [header EXCEPT !.name = sanitize_file_name(@)]
  IN << [part |-> 1, header |-> clean], [part |-> 2, header |-> clean] >>

\* decode_file_header succeeds exactly on a buffer that starts with a whole
\* well-formed header: raw bytes in front of it, or a missing blank line, read
\* as "not enough data yet".
HeaderUnits == 2

DecodesHeader(buffer) ==
  /\ Len(buffer) >= HeaderUnits
  /\ buffer[1] \in HeaderFragments
  /\ buffer[2] \in HeaderFragments
  /\ buffer[1].part = 1
  /\ buffer[2] = [buffer[1] EXCEPT !.part = 2]

DecodedHeader(buffer) ==
  [buffer[1].header EXCEPT !.name = sanitize_file_name(@)]

-----------------------------------------------------------------------------
Words == {"ACCEPT", "REJECT", "OK", "FAIL"}

Fragments == [word : Words, part : {1, 2}]

ReplyText(word) == << [word |-> word, part |-> 1], [word |-> word, part |-> 2] >>

\* std::string::starts_with and find('\n') on the text a client has gathered.
StartsWith(text, word) ==
  /\ Len(text) >= 2
  /\ SubSeq(text, 1, 2) = ReplyText(word)

HasNewline(text) == \E i \in 1..Len(text) : text[i].part = 2
=============================================================================
