------------------------------ MODULE InputBuffer ------------------------------
(***************************************************************************)
(* The messages of the client, cut out of a stream of bytes that arrives   *)
(* in chunks.  A message is a header that holds the number of bytes of the *)
(* body, four bytes that end it, and the body.  A body is the sequence of  *)
(* the widths of its characters: what a character is does not matter, but  *)
(* that it may be two bytes does.                                          *)
(***************************************************************************)
EXTENDS Naturals, Sequences, SequencesExt

CONSTANTS
    Bodies,         \* the bodies the client sends
    HeaderLength,   \* the length of a header
    MaxMessages     \* bound on the messages sent

ASSUME BodiesAssumption == Bodies \subseteq Seq({1, 2}) \ {<<>>}
ASSUME HeaderAssumption == HeaderLength \in Nat \ {0}
ASSUME BoundAssumption  == MaxMessages \in Nat

VARIABLES
    sent,       \* the messages of the client
    wire,       \* the bytes that have not arrived
    buffer,     \* InputBuffer::buffer
    messages,   \* what onInput has queued
    thrown      \* an exception has left append()

vars == <<sent, wire, buffer, messages, thrown>>

EndLength == 4

(* A byte is the part of its message it belongs to, and its place there;   *)
(* of a character that takes two, the second begins no character.          *)
Byte(m, part, i, first) == [msg |-> m, part |-> part, at |-> i, first |-> first]

Part(m, part, length) == [i \in 1 .. length |-> Byte(m, part, i, TRUE)]

Body(m) ==
    FlattenSeq([i \in DOMAIN sent[m] |-> [h \in 1 .. sent[m][i] |-> Byte(m, "body", i, h = 1)]])

Bytes(m) == Part(m, "head", HeaderLength) \o Part(m, "end", EndLength) \o Body(m)

(* The bytes of the body, as the header says. *)
ContentLength(m) == Len(Body(m))

(* The stream from the message behind the k-th on. *)
Stream(k) == FlattenSeq([m \in DOMAIN sent |-> IF m > k THEN Bytes(m) ELSE <<>>])

Init ==
    /\ sent \in SeqOf(Bodies, MaxMessages)
    /\ wire = Stream(0)
    /\ buffer = <<>>
    /\ messages = <<>>
    /\ thrown = FALSE

-----------------------------------------------------------------------------
(* toString: the characters of some bytes.  One that is cut counts. *)
Chars(bytes) ==
    FlattenSeq([i \in DOMAIN bytes |-> IF bytes[i].first THEN <<bytes[i]>> ELSE <<>>])

(* split('\r\n\r\n'): where the next end of a header is, if there is one. *)
EndsAt(text) ==
    {i \in 0 .. Len(text) - EndLength : \A j \in 1 .. EndLength : text[i + j].part = "end"}

Nearest(places) == CHOOSE i \in places : \A j \in places : i <= j

(* The second piece: all characters up to the end of a further header. *)
Piece(text, from) ==
    LET rest == SubSeq(text, from, Len(text))
    IN IF EndsAt(rest) = {} THEN rest ELSE SubSeq(rest, 1, Nearest(EndsAt(rest)))

(* What getMessage makes of the buffer: nothing yet, or a text and what is *)
(* left.  The length counts bytes and is compared with characters.         *)
Incomplete == [found |-> FALSE]

Cut(bytes, header, body, length) ==
    [found |-> TRUE,
     text  |-> SubSeq(body, 1, length),
     rest  |-> SubSeq(bytes, header + EndLength + length + 1, Len(bytes))]

(* Mutants of GetMessage: a body has to be longer than its length, or the  *)
(* bytes of the end of the header stay in the buffer.                      *)
GetMessageLate(bytes) ==
    LET text   == Chars(bytes)
        header == Nearest(EndsAt(text))
        body   == Piece(text, header + EndLength + 1)
        length == ContentLength(text[1].msg)
    IN IF EndsAt(text) = {} \/ length >= Len(body)
       THEN Incomplete ELSE Cut(bytes, header, body, length)

GetMessageKeepsEnd(bytes) ==
    LET text   == Chars(bytes)
        header == Nearest(EndsAt(text))
        body   == Piece(text, header + EndLength + 1)
        length == ContentLength(text[1].msg)
    IN IF EndsAt(text) = {} \/ length > Len(body)
       THEN Incomplete ELSE Cut(bytes, header - EndLength, body, length)

GetMessage(bytes) ==
    LET text   == Chars(bytes)
        header == Nearest(EndsAt(text))
        body   == Piece(text, header + EndLength + 1)
        length == ContentLength(text[1].msg)
    IN IF EndsAt(text) = {} \/ length > Len(body)
       THEN Incomplete ELSE Cut(bytes, header, body, length)

(* Json.parse: a text that is one whole message, or an exception. *)
Parses(text) ==
    /\ text # <<>>
    /\ LET m == Head(text).msg
       IN /\ Len(text) = Len(sent[m])
          /\ \A i \in DOMAIN text : text[i].msg = m /\ text[i].part = "body"

(* The loop of append, once.  An exception loses the messages of this call *)
(* that have already been cut off the buffer.                              *)
ReadOn(read) ==
    LET next == GetMessage(read.rest)
    IN IF ~read.going THEN read
       ELSE IF ~next.found THEN [read EXCEPT !.going = FALSE]
       ELSE IF ~Parses(next.text)
            THEN [rest |-> next.rest, got |-> <<>>, going |-> FALSE, thrown |-> TRUE]
       ELSE [read EXCEPT !.rest = next.rest, !.got = Append(@, Head(next.text).msg)]

(* append: all messages there are, each of which has at least one byte. *)
GetMessages(bytes) ==
    LET read[n \in 0 .. Len(bytes) + 1] ==
            IF n = 0 THEN [rest |-> bytes, got |-> <<>>, going |-> TRUE, thrown |-> FALSE]
            ELSE ReadOn(read[n - 1])
    IN read[Len(bytes) + 1]

(* onInput: a chunk has been read. *)
OnInput ==
    /\ ~thrown
    /\ \E n \in 1 .. Len(wire) :
          LET result == GetMessages(buffer \o SubSeq(wire, 1, n))
          IN /\ wire' = SubSeq(wire, n + 1, Len(wire))
             /\ buffer' = result.rest
             /\ messages' = messages \o result.got
             /\ thrown' = result.thrown
    /\ UNCHANGED sent

InputSpec == Init /\ [][OnInput]_vars

-----------------------------------------------------------------------------
(* What has arrived and is not in a queued message: the bytes from the     *)
(* message behind the last queued one on.                                  *)
Unread ==
    LET stream == Stream(Len(messages))
    IN SubSeq(stream, 1, Len(stream) - Len(wire))

Arrived(m) == \A i \in DOMAIN wire : wire[i].msg # m

(* The messages whose bytes have all arrived. *)
Complete == {m \in DOMAIN sent : Arrived(m)}

Ascii(m) == \A i \in DOMAIN sent[m] : sent[m][i] = 1

(* However the stream is cut into chunks, the messages that have arrived   *)
(* are queued, all of them, once and in order, as long as the client has   *)
(* sent none that is not ASCII (InputBuffer.getMessage counts a length in  *)
(* bytes over characters).                                                 *)
MessagesArrive ==
    (\A m \in Complete : Ascii(m)) =>
        /\ ~thrown
        /\ messages = [m \in 1 .. Len(messages) |-> m]
        /\ Complete = 1 .. Len(messages)

(* Whatever the client sends, the buffer begins with a message and nothing *)
(* is lost or read twice while no exception has been thrown: header and    *)
(* end are ASCII and the body is cut off by bytes (buffer.splice).         *)
FramesAligned == ~thrown => buffer = Unread
=============================================================================
