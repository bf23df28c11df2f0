------------------------------ MODULE FifoLink ------------------------------
(***************************************************************************)
(* What the handlers at the two ends of a channel rely on: messages come   *)
(* out whole, once, and in the order in which they went in, except those   *)
(* the receiver cannot make anything of.                                   *)
(***************************************************************************)
EXTENDS Sequences, Naturals

CONSTANTS Message, Lost

VARIABLES
    sent,      \* what has gone in
    taken,     \* how many of those the receiver is through with
    received   \* what has come out

linkVars == <<sent, taken, received>>

LinkInit == sent = <<>> /\ taken = 0 /\ received = <<>>

Send(m) == sent' = Append(sent, m) /\ UNCHANGED <<taken, received>>

(* The receiver is through with the next message.                          *)
Take ==
    /\ taken < Len(sent)
    /\ taken' = taken + 1
    /\ UNCHANGED sent

Receive ==
    /\ Take
    /\ sent[taken + 1] \notin Lost
    /\ received' = Append(received, sent[taken + 1])

Lose ==
    /\ Take
    /\ sent[taken + 1] \in Lost
    /\ UNCHANGED received

LinkNext == (\E m \in Message : Send(m)) \/ Receive \/ Lose

LinkSpec == LinkInit /\ [][LinkNext]_linkVars
=============================================================================
