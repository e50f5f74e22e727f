---------------------------- MODULE FileTransfer ----------------------------
(***************************************************************************)
(* What LFT promises about one receive_file() and the send_file() calls    *)
(* that meet it, without streams, callbacks or threads: a file is          *)
(* announced, shown to the user, streamed only once the user has agreed to *)
(* that very file, and reported as delivered only once it is stored.       *)
(*                                                                         *)
(* Either side may give up at any time, so a report of failure promises    *)
(* nothing; "rejected" says that the receiver refused.                     *)
(***************************************************************************)
CONSTANTS
  Senders,
  Files,     \* what can be announced: name, size and hash
  NoFile

VARIABLES
  announced,  \* the file each sender announces
  shown,      \* the file the user was asked about
  decision,   \* what became of the question; "unwritable": agreed to, but the
              \* receiver could not create the file
  sender,     \* how far each send_file() has got, and how it ended
  stored,     \* the shown file is on the receiver's disk, whole
  receiver    \* how receive_file() ended

vars == <<announced, shown, decision, sender, stored, receiver>>

Init ==
  /\ announced = [s \in Senders |-> NoFile]
  /\ shown = NoFile
  /\ decision = "none"
  /\ sender = [s \in Senders |-> "waiting"]
  /\ stored = FALSE
  /\ receiver = "waiting"

Running(s) == sender[s] \in {"waiting", "streaming"}

Announce(s) ==
  /\ sender[s] = "waiting" /\ announced[s] = NoFile
  /\ announced'[s] \in Files
  /\ announced' = [announced EXCEPT ![s] = announced'[s]]
  /\ sender' \in {sender, [sender EXCEPT ![s] = "failed"]}
  /\ UNCHANGED <<shown, decision, stored, receiver>>

\* The user is asked once, about a file some sender announced.
Show ==
  /\ shown = NoFile /\ receiver = "waiting"
  /\ \E s \in Senders : announced[s] # NoFile /\ shown' = announced[s]
  /\ UNCHANGED <<announced, decision, sender, stored, receiver>>

\* An empty file is stored as soon as it is created.
Decide ==
  /\ shown # NoFile /\ decision = "none"
  /\ decision' \in {"accept", "reject", "unwritable"}
  /\ stored' \in {FALSE, decision' = "accept" /\ shown.size = 0}
  /\ UNCHANGED <<announced, shown, sender, receiver>>

Stream(s) ==
  /\ sender[s] = "waiting"
  /\ decision = "accept" /\ shown = announced[s]
  /\ sender' = [sender EXCEPT ![s] = "streaming"]
  /\ UNCHANGED <<announced, shown, decision, stored, receiver>>

\* The last byte arrives, possibly after its sender has given up.
Store ==
  /\ decision = "accept" /\ ~stored
  /\ \E s \in Senders : announced[s] = shown /\ sender[s] \in {"streaming", "failed"}
  /\ stored' = TRUE
  /\ UNCHANGED <<announced, shown, decision, sender, receiver>>

SenderReports(s) ==
  /\ Running(s)
  /\ \/ /\ sender[s] = "streaming" /\ stored
        /\ sender' = [sender EXCEPT ![s] = "ok"]
     \/ /\ sender[s] = "waiting" /\ decision \in {"reject", "unwritable"}
        /\ sender' = [sender EXCEPT ![s] = "rejected"]
     \/ sender' = [sender EXCEPT ![s] = "failed"]
  /\ UNCHANGED <<announced, shown, decision, stored, receiver>>

ReceiverReports ==
  /\ receiver = "waiting"
  /\ \/ stored /\ receiver' = "true"
     \/ receiver' = "false"
  /\ UNCHANGED <<announced, shown, decision, sender, stored>>

Next ==
  \/ Show \/ Decide \/ Store \/ ReceiverReports
  \/ \E s \in Senders : Announce(s) \/ Stream(s) \/ SenderReports(s)

Spec == Init /\ [][Next]_vars
=============================================================================
