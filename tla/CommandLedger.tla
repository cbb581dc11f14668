--------------------------- MODULE CommandLedger ---------------------------
(***************************************************************************)
(* What the gateway promises about the commands it accepts from the cloud. *)
(* A light has at most one open command.  Opening one is the acceptance of *)
(* a command, for one light or for several at once (the group command); an *)
(* open command ends exactly once, acknowledged or dropped.  An open       *)
(* command is never replaced by another one and never acknowledged twice.  *)
(***************************************************************************)
EXTENDS Naturals

CONSTANTS Slot,     \* the entries of the gateway's node table
          CmdId,    \* message ids of the commands the cloud sends
          NoMsg     \* the empty message id, not in CmdId

VARIABLES open,     \* open[s]: the id of the open command of s, or NoMsg
          acks      \* acks[c][s]: acknowledgements of command c published for s

vars == <<open, acks>>

Init == /\ open = [s \in Slot |-> NoMsg]
        /\ acks = [c \in CmdId |-> [s \in Slot |-> 0]]

\* A command is opened on lights that have none open and never acknowledged it.
Accept(S, c) ==
    /\ \A s \in S : open[s] = NoMsg /\ acks[c][s] = 0
    /\ open' = [s \in Slot |-> IF s \in S THEN c ELSE open[s]]
    /\ UNCHANGED acks

Ack(s) ==
    /\ open[s] \in CmdId
    /\ open' = [open EXCEPT ![s] = NoMsg]
    /\ acks' = [acks EXCEPT ![open[s]][s] = @ + 1]

\* The gateway gives up on a command, or finishes it unheard (broker offline).
Drop(S) ==
    /\ open' = [s \in Slot |-> IF s \in S THEN NoMsg ELSE open[s]]
    /\ UNCHANGED acks

Next == \/ \E S \in SUBSET Slot, c \in CmdId : Accept(S, c)
        \/ \E s \in Slot : Ack(s)
        \/ \E S \in SUBSET Slot : Drop(S)

Spec == Init /\ [][Next]_vars

-----------------------------------------------------------------------------
\* No command is acknowledged twice for the same light.
AckedAtMostOnce == \A c \in CmdId, s \in Slot : acks[c][s] <= 1
=============================================================================
