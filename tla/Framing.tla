------------------------------- MODULE Framing -------------------------------
(***************************************************************************)
(* ReadResponse and ReadChunkedBody of TailscaleHTTPClient, byte by byte:    *)
(* where a response ends in the stream of a connection.  Reads deliver the   *)
(* stream in pieces that respect nothing: a CRLF may come in two, a chunk    *)
(* with the size line of the next.                                          *)
(*                                                                          *)
(* HttpExchange has responses in whole parts; this module is what entitles   *)
(* it to.  The head is one byte followed by the blank line (what it says is  *)
(* in msg); sizes are numbers below Modulus, written in binary digits, with   *)
(* leading zeros or not.                                                    *)
(***************************************************************************)
EXTENDS Naturals, Sequences, SequencesExt

CONSTANTS
    Messages,       \* the responses of the server
    Follows,        \* what may follow a response on its connection
    Modulus         \* one more than size_t can hold

CR == "\r"
LF == "\n"
HEAD == "head"      \* status line and headers
DATA == "x"
EXT == ";"          \* a chunk extension
BAD == "-"          \* in a size: neither a digit nor an extension
CRLF == <<CR, LF>>
Digits == {"0", "1"}

(* ParseChunkSize: at least one digit, nothing but digits, no overflow.      *)
Value(digits) == FoldLeft(LAMBDA v, d : 2 * v + (IF d = "1" THEN 1 ELSE 0), 0, digits)
IsSize(digits) ==
    /\ digits # <<>>
    /\ \A i \in DOMAIN digits : digits[i] \in Digits
    /\ Value(digits) < Modulus

(* A response: its framing and the pieces of its body (the chunks, or one    *)
(* piece); the sizes of the chunks, the last one's included, and whether      *)
(* their lines have extensions; the trailer lines; whether the peer asks to   *)
(* close the connection; whether what is in the place of sizes is no number.  *)
MessageType == [framing : {"none", "length", "chunked", "eof"}, pieces : Seq(Seq({CR, LF, DATA} \cup Digits)),
                sizes : Seq(Seq(Digits)), extension : BOOLEAN, trailers : Nat, close : BOOLEAN,
                malformed : BOOLEAN]

(* The sizes are those of the chunks, in whatever way they are written.      *)
ChunkSizes(m) ==
    /\ Len(m.sizes) = Len(m.pieces) + 1
    /\ \A i \in DOMAIN m.sizes :
         /\ IsSize(m.sizes[i])
         /\ Value(m.sizes[i]) = IF i \in DOMAIN m.pieces THEN Len(m.pieces[i]) ELSE 0

ASSUME FramingAssumption ==
    /\ Modulus \in Nat \ {0}
    /\ Follows \subseteq Seq({HEAD, CR, LF, DATA})
    /\ <<>> \in Follows
    /\ \A m \in Messages :
         /\ m \in MessageType
         /\ \A i \in DOMAIN m.pieces : Len(m.pieces[i]) < Modulus
         /\ m.framing # "chunked" => Len(m.pieces) <= 1
         /\ m.framing = "none" => m.pieces = <<>>
         /\ m.framing = "chunked" => ChunkSizes(m) /\ \A i \in DOMAIN m.pieces : m.pieces[i] # <<>>

Body(m) == FlattenSeq(m.pieces)

(* A chunk of one of the two sizes for which chunk_size + 2 wraps to 0 or 1.  *)
Wraps(m) == m.framing = "chunked" /\ \E i \in DOMAIN m.pieces : Len(m.pieces[i]) + 2 >= Modulus

(* The bytes of a response.                                                 *)
SizeLine(m, i) ==
    (IF m.malformed THEN <<BAD>> ELSE <<>>) \o m.sizes[i]
    \o (IF m.extension THEN <<EXT, DATA>> ELSE <<>>) \o CRLF

Chunk(m, i) == SizeLine(m, i) \o m.pieces[i] \o CRLF
Chunks(m) == FlattenSeq([i \in DOMAIN m.pieces |-> Chunk(m, i)])
Trailers(m) == FlattenSeq([i \in 1 .. m.trailers |-> <<DATA>> \o CRLF])
ChunkedBody(m) == Chunks(m) \o SizeLine(m, Len(m.sizes)) \o Trailers(m) \o CRLF

Encoded(m) == <<HEAD>> \o CRLF \o CRLF \o (IF m.framing = "chunked" THEN ChunkedBody(m) ELSE Body(m))

VARIABLES
    msg,            \* the response
    after,          \* what the connection carries after it
    left,           \* the bytes that read has not delivered
    cut,            \* the connection ended within the response
    error,          \* how it ends: with an error (or a timeout), or cleanly
    rx,             \* delivered and not consumed
    phase,          \* where ReadResponse is
    body,           \* out.body
    chunk_size,
    read_error,
    connection_close

framingVars == <<msg, after, left, cut, error, rx, phase, body, chunk_size, read_error, connection_close>>
stream == <<msg, after, left, cut, error>>

FramingInit ==
    /\ msg \in Messages
    /\ after \in Follows
    /\ \/ /\ cut = FALSE
          /\ msg.framing = "eof" => after = <<>>
          /\ left = Encoded(msg) \o after
       \/ /\ cut = TRUE
          /\ after = <<>>
          /\ \E k \in 0 .. Len(Encoded(msg)) - 1 : left = SubSeq(Encoded(msg), 1, k)
    /\ error \in BOOLEAN
    /\ rx = <<>>
    /\ phase = "head"
    /\ body = <<>>
    /\ chunk_size = 0
    /\ read_error = FALSE
    /\ connection_close = FALSE

-----------------------------------------------------------------------------
(* rx.find and rx.erase(0, n).                                              *)
Found(pattern) == {i \in 1 .. Len(rx) : i + Len(pattern) - 1 <= Len(rx) /\ SubSeq(rx, i, i + Len(pattern) - 1) = pattern}
First(S) == CHOOSE i \in S : \A j \in S : i <= j
Erased(n) == SubSeq(rx, n + 1, Len(rx))
Least(m, n) == IF m < n THEN m ELSE n

Goto(there) == phase' = there

-----------------------------------------------------------------------------
(* ReadMore, called where the bytes in rx are not enough.                    *)
NeedsMore ==
    \/ phase = "head" /\ Found(CRLF \o CRLF) = {}
    \/ phase \in {"size", "trailer"} /\ Found(CRLF) = {}
    \/ phase = "chunk" /\ Len(rx) < (chunk_size + 2) % Modulus
    \/ phase = "length" /\ Len(rx) < Len(Body(msg))
    \/ phase = "eof"

ReadMore ==
    /\ NeedsMore /\ left # <<>>
    /\ \E n \in 1 .. Len(left) :
         /\ rx' = rx \o SubSeq(left, 1, n)
         /\ left' = SubSeq(left, n + 1, Len(left))
    /\ UNCHANGED <<msg, after, cut, error, phase, body, chunk_size, read_error, connection_close>>

(* read returned 0 or -1.                                                   *)
ReadEnds ==
    /\ NeedsMore /\ left = <<>>
    /\ read_error' = error
    /\ IF phase = "eof" /\ ~error
       THEN /\ Goto("ok")
            /\ body' = rx
            /\ rx' = <<>>
       ELSE /\ Goto("fail")
            /\ UNCHANGED <<body, rx>>
    /\ UNCHANGED <<stream, chunk_size, connection_close>>

-----------------------------------------------------------------------------
(* The head, and the choice of the framing.                                 *)
TakeHead ==
    /\ phase = "head" /\ Found(CRLF \o CRLF) # {}
    /\ rx' = Erased(First(Found(CRLF \o CRLF)) + 3)
    /\ connection_close' = (msg.close \/ msg.framing = "eof" \/ (msg.framing = "length" /\ msg.malformed))
    /\ Goto(CASE msg.framing = "none" -> "ok"
              [] msg.framing = "chunked" -> "size"
              [] msg.framing = "length" -> IF msg.malformed THEN "fail" ELSE "length"
              [] OTHER -> "eof")
    /\ UNCHANGED <<stream, body, chunk_size, read_error>>

WithoutExtension(line) ==
    LET semicolons == {i \in DOMAIN line : line[i] = EXT}
    IN IF semicolons = {} THEN line ELSE SubSeq(line, 1, First(semicolons) - 1)

TakeSize ==
    /\ phase = "size" /\ Found(CRLF) # {}
    /\ rx' = Erased(First(Found(CRLF)) + 1)
    /\ LET size == WithoutExtension(SubSeq(rx, 1, First(Found(CRLF)) - 1))
       IN IF IsSize(size)
          THEN /\ chunk_size' = Value(size)
               /\ Goto(IF Value(size) = 0 THEN "trailer" ELSE "chunk")
          ELSE /\ Goto("fail")
               /\ UNCHANGED chunk_size
    /\ UNCHANGED <<stream, body, read_error, connection_close>>

(* Mutant: the CRLF after a chunk is not waited for.                        *)
TakeBareChunk ==
    /\ phase = "chunk" /\ Len(rx) >= chunk_size
    /\ body' = body \o SubSeq(rx, 1, Least(chunk_size, Len(rx)))
    /\ rx' = Erased((chunk_size + 2) % Modulus)
    /\ Goto("size")
    /\ UNCHANGED <<stream, chunk_size, read_error, connection_close>>

TakeChunk ==
    /\ phase = "chunk" /\ Len(rx) >= (chunk_size + 2) % Modulus
    /\ body' = body \o SubSeq(rx, 1, Least(chunk_size, Len(rx)))
    /\ rx' = Erased((chunk_size + 2) % Modulus)
    /\ Goto("size")
    /\ UNCHANGED <<stream, chunk_size, read_error, connection_close>>

TakeTrailer ==
    /\ phase = "trailer" /\ Found(CRLF) # {}
    /\ rx' = Erased(First(Found(CRLF)) + 1)
    /\ Goto(IF First(Found(CRLF)) = 1 THEN "ok" ELSE "trailer")
    /\ UNCHANGED <<stream, body, chunk_size, read_error, connection_close>>

(* Mutant: the bytes after the body are thrown away.                        *)
TakeLengthAndRest ==
    /\ phase = "length" /\ Len(rx) >= Len(Body(msg))
    /\ body' = SubSeq(rx, 1, Len(Body(msg)))
    /\ rx' = <<>>
    /\ connection_close' = (connection_close \/ Len(rx) > Len(Body(msg)))
    /\ Goto("ok")
    /\ UNCHANGED <<stream, chunk_size, read_error>>

TakeLength ==
    /\ phase = "length" /\ Len(rx) >= Len(Body(msg))
    /\ body' = SubSeq(rx, 1, Len(Body(msg)))
    /\ rx' = Erased(Len(Body(msg)))
    /\ connection_close' = (connection_close \/ rx' # <<>>)
    /\ Goto("ok")
    /\ UNCHANGED <<stream, chunk_size, read_error>>

Returned == phase \in {"ok", "fail"} /\ UNCHANGED framingVars

FramingNext ==
    \/ ReadMore \/ ReadEnds \/ TakeHead
    \/ TakeSize \/ TakeChunk \/ TakeTrailer \/ TakeLength
    \/ Returned

FramingSpec == FramingInit /\ [][FramingNext]_framingVars

-----------------------------------------------------------------------------
(* A response is taken to end where it ends: in whatever pieces it arrives,  *)
(* the body is the one that was sent, never a part of it, and every byte that *)
(* follows it on the connection is still there, in rx or to be read.  Only     *)
(* where the framing is the end of the connection can a cut go unnoticed.     *)
(* The exception is a chunk of one of the two sizes that wrap.               *)
FramesExactly ==
    phase = "ok" /\ ~Wraps(msg) =>
        /\ cut => msg.framing = "eof"
        /\ IF cut THEN IsPrefix(body, Body(msg)) ELSE body = Body(msg)
        /\ rx \o left = after

(* A response that arrived whole is never refused: ReadResponse fails only   *)
(* when the connection ended within it, when it ended with an error that the  *)
(* framing cannot do without, or when a size is no number; or after a chunk   *)
(* of one of the two sizes that wrap.                                       *)
WholeIsAccepted ==
    phase = "fail" /\ ~Wraps(msg) => cut \/ msg.malformed \/ (msg.framing = "eof" /\ read_error)
=============================================================================
