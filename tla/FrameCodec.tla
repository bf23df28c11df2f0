----------------------------- MODULE FrameCodec -----------------------------
(***************************************************************************)
(* One direction of a channel: RPCEncoder turns a message into a frame,    *)
(* four bytes of length and the serialized object, TCP cuts the stream of  *)
(* bytes anywhere, and netty's ByteToMessageDecoder collects what arrives  *)
(* and calls RPCDecoder.decode on it again and again.  A byte is known by  *)
(* the message it belongs to and its place in the frame.                   *)
(***************************************************************************)
EXTENDS Naturals, Sequences

CONSTANTS
    Message,         \* written at most once each
    Size,            \* Size[m]: length of what serialize makes of m
    Unwritten,       \* not of the encoder's genericClass, or serialize throws
    Undecodable,     \* deserialize throws, at the receiver
    Garbage          \* what deserialize makes of other bytes

ASSUME CodecAssumption ==
    /\ Size \in [Message -> Nat]
    /\ Unwritten \subseteq Message
    /\ Undecodable \subseteq Message
    /\ Garbage \notin Message

Header == 4

Byte == UNION {{<<m, i>> : i \in 1 .. Header + Size[m]} : m \in Message}

VARIABLES
    unsent,    \* messages not yet given to the channel
    sent,      \* those the encoder has written, in order
    wire,      \* bytes on their way
    in,        \* the cumulation: readable bytes
    decoding,  \* whether the decoder's loop is on
    open,      \* whether the receiving channel is active
    ended,     \* whether channelInactive has been through the decoder
    received,  \* what the next handler has got, in order
    decoded    \* history: the frames the decoder has read

vars == <<unsent, sent, wire, in, decoding, open, ended, received, decoded>>

(* The type of every variable.                                             *)
TypeOK ==
    /\ unsent \subseteq Message
    /\ sent \in Seq(Message)
    /\ wire \in Seq(Byte)
    /\ in \in Seq(Byte)
    /\ decoding \in BOOLEAN
    /\ open \in BOOLEAN
    /\ ended \in BOOLEAN /\ (ended => ~open)
    /\ received \in Seq(Message \cup {Garbage})
    /\ decoded \in Nat

Init ==
    /\ unsent = Message
    /\ sent = <<>>
    /\ wire = <<>>
    /\ in = <<>>
    /\ decoding = FALSE
    /\ open = TRUE
    /\ ended = FALSE
    /\ received = <<>>
    /\ decoded = 0

Skip(n, s) == SubSeq(s, n + 1, Len(s))
First(n, s) == SubSeq(s, 1, n)

(* Mutant: the length that is reserved counts the header twice.            *)
MutFrame(m) == [i \in 1 .. Header + Header + Size[m] |-> <<m, i>>]

Frame(m) == [i \in 1 .. Header + Size[m] |-> <<m, i>>]

-----------------------------------------------------------------------------
(* RPCEncoder.encode, in the event loop of the channel.                    *)
Encode(m) ==
    /\ m \in unsent
    /\ unsent' = unsent \ {m}
    /\ IF open /\ m \notin Unwritten
       THEN sent' = Append(sent, m) /\ wire' = wire \o Frame(m)
       ELSE UNCHANGED <<sent, wire>>
    /\ UNCHANGED <<in, decoding, open, ended, received, decoded>>

(* channelRead: n bytes have come; the loop begins.                        *)
ChannelRead(n) ==
    /\ open /\ ~decoding
    /\ in' = in \o First(n, wire)
    /\ wire' = Skip(n, wire)
    /\ decoding' = TRUE
    /\ UNCHANGED <<unsent, sent, open, ended, received, decoded>>

(* in.readInt(): the length, when the reader stands before a header.       *)
DataLength ==
    IF \E m \in Message : First(Header, in) = First(Header, Frame(m))
    THEN Size[in[1][1]] ELSE 0

(* SerializationUtil.deserialize(data, genericClass)                       *)
Deserialized(data) ==
    IF \E m \in Message : data # <<>> /\ data = Skip(Header, Frame(m))
    THEN data[1][1]
    ELSE IF data = <<>> /\ Size[in[1][1]] = 0 THEN in[1][1] ELSE Garbage

WholeFrame == Len(in) >= Header /\ Len(in) - Header >= DataLength

(* Mutant: the index is not reset, and netty's loop goes on.               *)
MutAwaitMore ==
    /\ decoding
    /\ ~WholeFrame
    /\ in' = IF Len(in) < Header THEN in ELSE Skip(Header, in)
    /\ decoding' = (Len(in) > Header)
    /\ UNCHANGED <<unsent, sent, wire, open, ended, received, decoded>>

(* decode returns without having read anything, for markReaderIndex and    *)
(* resetReaderIndex undo readInt: the loop ends.                           *)
AwaitMore ==
    /\ decoding
    /\ ~WholeFrame
    /\ decoding' = FALSE
    /\ UNCHANGED <<unsent, sent, wire, in, open, ended, received, decoded>>

(* Mutant: the loop ends after a frame, until more bytes come.             *)
MutLoopGoesOn == FALSE

LoopGoesOn == TRUE

(* decode adds an object, which the next handler gets; the loop goes on.   *)
Decode ==
    /\ decoding
    /\ WholeFrame
    /\ LET obj == Deserialized(First(DataLength, Skip(Header, in)))
       IN obj \notin Undecodable /\ received' = Append(received, obj)
    /\ in' = Skip(Header + DataLength, in)
    /\ decoded' = decoded + 1
    /\ decoding' = LoopGoesOn
    /\ UNCHANGED <<unsent, sent, wire, open, ended>>

(* deserialize throws, after the frame has been read: exceptionCaught of   *)
(* the next handler closes the channel.                                    *)
DecodeFails ==
    /\ decoding
    /\ WholeFrame
    /\ Deserialized(First(DataLength, Skip(Header, in))) \in Undecodable
    /\ in' = Skip(Header + DataLength, in)
    /\ decoded' = decoded + 1
    /\ decoding' = FALSE
    /\ open' = FALSE
    /\ UNCHANGED <<unsent, sent, wire, ended, received>>

(* The connection is lost.                                                 *)
Cut ==
    /\ open /\ ~decoding
    /\ open' = FALSE
    /\ UNCHANGED <<unsent, sent, wire, in, decoding, ended, received, decoded>>

(* channelInactive: the decoder goes once more through what it has, then   *)
(* netty lets go of it.                                                    *)
ChannelInactive ==
    /\ ~open /\ ~ended /\ ~decoding
    /\ ended' = TRUE
    /\ decoding' = TRUE
    /\ UNCHANGED <<unsent, sent, wire, in, open, received, decoded>>

(* Everything has been given to the channel and has come out or is lost.   *)
Quiescent ==
    /\ unsent = {}
    /\ ~decoding
    /\ ended \/ wire = <<>>
    /\ UNCHANGED vars

ReceiverStep ==
    \/ \E n \in 1 .. Len(wire) : ChannelRead(n)
    \/ AwaitMore \/ Decode \/ DecodeFails \/ ChannelInactive

Next ==
    \/ \E m \in Message : Encode(m)
    \/ ReceiverStep
    \/ Cut
    \/ Quiescent

Spec == Init /\ [][Next]_vars

(* TCP delivers while the connection lives, and the event loop runs.       *)
FairSpec == Spec /\ WF_vars(ReceiverStep)

-----------------------------------------------------------------------------
(* Properties.                                                             *)

Link == INSTANCE FifoLink WITH Lost <- Undecodable, taken <- decoded

(* However the stream is cut into pieces, what RPCDecoder adds to out is   *)
(* what RPCEncoder was given: whole messages, each once, in order, also    *)
(* when a frame in between cannot be deserialized.                         *)
ImplementsFifo == Link!LinkSpec

(* A message that was written comes out, also when the bytes of several    *)
(* arrived together, unless the connection goes down.                      *)
EveryMessageDecoded ==
    \A m \in Message \ Undecodable :
        (\E i \in DOMAIN sent : sent[i] = m) ~>
            ~open \/ \E i \in DOMAIN received : received[i] = m

(* Between two runs of the loop the decoder holds less than one frame: a   *)
(* complete message is never left waiting for the next bytes to come.      *)
(* While the channel is open; when it fails, the rest is dealt with by     *)
(* channelInactive.                                                        *)
NoFrameLeftBehind == open /\ ~decoding => ~WholeFrame
=============================================================================
