----------------------------- MODULE MCTransfer -----------------------------
(***************************************************************************)
(* Values for the constants of Transfer: one or two senders, files of up   *)
(* to two bytes over two byte values, and two names: one that              *)
(* sanitize_file_name changes into the other, or two that it keeps.        *)
(***************************************************************************)
EXTENDS TransferRefinement, TLC

CONSTANTS b1, b2, plain, spaced

MCBytes == {b1, b2}
MCNames == {plain}
MCRawNames == {plain, spaced}
MCSanitize == [n \in RawNames |-> plain]

\* Two files side by side in the receiver's directory.
TwoNames == {"a.txt", "b.txt"}
KeepNames == [n \in RawNames |-> n]

\* Contents that differ in length, and in one byte only.
MCContents == {<<>>, <<b1>>, <<b1, b2>>, <<b1, b1>>}
OneByteContents == {<<b1>>, <<b2>>}
OneContent == {<<b1>>}
SmallContents == {<<>>, <<b1, b2>>}

\* Senders are interchangeable in the runs that use this.
Symmetry == Permutations(Clients)
=============================================================================
