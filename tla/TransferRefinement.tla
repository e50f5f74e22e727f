------------------------- MODULE TransferRefinement -------------------------
(***************************************************************************)
(* The transfer protocol implements FileTransfer: what QuicServer and      *)
(* QuicClient do, seen through the API of the two endpoints.               *)
(***************************************************************************)
EXTENDS Transfer

\* on_offer's answer, and whether the file could be created afterwards.
DecisionMade ==
  IF answer = "accept" /\ rx.out = "null" THEN "unwritable" ELSE answer

SenderPhase(c) ==
  CASE cpc[c] \in BodyStates      -> "streaming"
    [] rejected[c]                -> "rejected"
    [] send_result[c] = "ok"      -> "ok"
    [] send_result[c] \in {"failed", "raw"} /\ ~rejected[c] -> "failed"
    [] OTHER                      -> "waiting"

\* Every byte that was announced is on the disk, and nothing else.
StoredFile ==
  /\ DecisionMade = "accept"
  /\ Len(disk[TargetOf(offered)]) = offered.size
  /\ Holds(offered)

Abstract ==
  INSTANCE FileTransfer WITH
    Senders   <- Clients,
    Files     <- FileTransferHeader,
    NoFile    <- NoHeader,
    announced <- [c \in Clients |-> IF job[c] = NoJob THEN NoHeader
                                                      ELSE Announced(job[c].header)],
    shown     <- offered,
    decision  <- DecisionMade,
    sender    <- [c \in Clients |-> SenderPhase(c)],
    stored    <- StoredFile,
    receiver  <- IF recv_result = "none" THEN "waiting" ELSE recv_result

\* With one sender, every step of the endpoints, of msquic and of the network is
\* a step of FileTransfer or leaves it alone.
Implements == Abstract!Spec
=============================================================================
