-------------------------------- MODULE Framing --------------------------------
(***************************************************************************)
(* Messages on a connection (conn/network.go, conn/connectionHandler.go):  *)
(* each is preceded by its length, as a varint of one or more bytes, and   *)
(* what is read of the connection ends anywhere.  A message is taken when  *)
(* its length is less than the bytes that are there, header included.      *)
(*                                                                         *)
(* Bytes are counted: which message they belong to follows from that.  As  *)
(* soon as a message has been taken that was not all there, the rest of    *)
(* it is read for the header of the next one, and anything may follow.     *)
(* Messages without content are not sent; they would never be taken.       *)
(***************************************************************************)
EXTENDS Integers, Sequences

CONSTANTS
  VarintBase,  \* lengths below it have a header of one byte; 128 in the code
  Lengths,     \* lengths of messages
  MaxMessages

ASSUME LengthsAssumption == Lengths \subseteq Nat \ {0}

VARIABLES
  peer,       \* "runner": it only answers; "client": of the API, it sends what it likes
  sent,       \* the messages it has written: their lengths, and where they end
  arrived,    \* bytes that were read
  taken,      \* bytes that were taken out of the buffer
  handed,     \* messages that were handed on
  processing, \* is the buffer looked at
  garbled     \* a message was handed on that was not all there

framing == <<peer, sent, arrived, taken, handed, processing, garbled>>

\* EncodeVarint has seven bits in a byte.
HeaderSize(length) ==
  IF length < VarintBase THEN 1 ELSE IF length < VarintBase * VarintBase THEN 2 ELSE 3

\* Where message k ends.
Boundary(k) == IF k = 0 THEN 0 ELSE sent[k].end

Buffered == arrived - taken

FramingInit ==
  /\ peer \in {"runner", "client"}
  /\ sent = <<>> /\ arrived = 0 /\ taken = 0 /\ handed = 0
  /\ processing = FALSE /\ garbled = FALSE

\* Write, by the other side.
Write(length) ==
  /\ Len(sent) < MaxMessages
  /\ peer = "runner" => handed = Len(sent)
  /\ LET end == Boundary(Len(sent)) + HeaderSize(length) + length
     IN  sent' = Append(sent, [length |-> length, end |-> end])
  /\ UNCHANGED <<peer, arrived, taken, handed, processing, garbled>>

\* conn.Read and buffer.Write.
Receive(n) ==
  /\ ~processing /\ ~garbled
  /\ arrived + n <= Boundary(Len(sent))
  /\ arrived' = arrived + n /\ processing' = TRUE
  /\ UNCHANGED <<peer, sent, taken, handed, garbled>>

\* The length of the message that begins the buffer
MessageLength == sent[handed + 1].length

HeaderThere == handed < Len(sent) /\ Buffered >= HeaderSize(MessageLength)

\* A slip: the header is forgotten.
LengthThere(length) == length <= Buffered

MessageThere(length) == length < Buffered

\* processMessage; readResponse, which drops the buffer.  The slice that is handed on may
\* reach beyond the bytes that were read into the buffer (beyond its capacity it panics);
\* bytes.Buffer.Next takes only what is there.
Take ==
  /\ processing /\ HeaderThere /\ MessageThere(MessageLength)
  /\ handed' = handed + 1
  /\ LET whole == arrived >= Boundary(handed + 1)
     IN  /\ taken' = IF whole THEN Boundary(handed + 1) ELSE arrived
         /\ garbled' = ~whole
         /\ processing' = (whole /\ arrived > Boundary(handed + 1))
  /\ UNCHANGED <<peer, sent, arrived>>

ReadOn ==
  /\ processing /\ ~(HeaderThere /\ MessageThere(MessageLength))
  /\ processing' = FALSE
  /\ UNCHANGED <<peer, sent, arrived, taken, handed, garbled>>

FramingNext ==
  \/ \E length \in Lengths : Write(length)
  \/ \E n \in 1..Boundary(Len(sent)) : Receive(n)
  \/ Take \/ ReadOn

FramingSpec == FramingInit /\ [][FramingNext]_framing
-----------------------------------------------------------------------------
(* Property.                                                               *)

\* Every message is handed on as soon as it is there, whole and in step, however the reads
\* fall, but for one whose header is of several bytes: it is handed on too early when a
\* read ends fewer bytes before its end than the header has more than one.
FramesIntact ==
  IF garbled
  THEN arrived \in (Boundary(handed) - HeaderSize(sent[handed].length) + 1)..(Boundary(handed) - 1)
  ELSE /\ taken = Boundary(handed)
       /\ ~processing => \A k \in DOMAIN sent : Boundary(k) <= arrived => k <= handed
=============================================================================
