------------------------------- MODULE MCFraming -------------------------------
(* The instance of Framing that TLC checks: bodies of up to two bytes, in one  *)
(* piece or two, CR and LF among them, chunks of the largest size for which    *)
(* chunk_size + 2 is no overflow and of the two sizes for which it is (6 and  *)
(* 7 with a Modulus of 8; the first one has a body that looks like an end), and *)
(* what follows a response: nothing, a byte, a blank line, a response.        *)
EXTENDS Framing

MCPieces(n) == UNION {[1 .. k -> {CR, LF, DATA}] : k \in 1 .. n}
MCOf(n) == [i \in 1 .. n |-> DATA]
MCLargest == MCOf(Modulus - 3)
MCWrapping == {<<<<"0", CR, LF, CR, LF, DATA>>>>, <<MCOf(Modulus - 1), <<CR>>>>}
MCBodies == {<<>>, <<MCLargest>>, <<MCLargest, <<CR>>>>} \cup MCWrapping \cup [1 .. 1 -> MCPieces(2)] \cup [1 .. 2 -> MCPieces(1)]

Digit(n) == IF n = 0 THEN "0" ELSE "1"
Binary[n \in Nat] == IF n < 2 THEN <<Digit(n)>> ELSE Append(Binary[n \div 2], Digit(n % 2))

(* The sizes of the chunks, with leading zeros or not, and that of the last.  *)
Sizes(pieces, zeros) ==
    LET size(n) == [i \in 1 .. zeros |-> "0"] \o Binary[n]
    IN [i \in 1 .. Len(pieces) + 1 |-> size(IF i <= Len(pieces) THEN Len(pieces[i]) ELSE 0)]

Message(framing, pieces, zeros, extension, trailers, close, malformed) ==
    [framing |-> framing, pieces |-> pieces, sizes |-> Sizes(pieces, zeros), extension |-> extension,
     trailers |-> trailers, close |-> close, malformed |-> malformed]

MCMessages ==
    {Message("chunked", pieces, 0, extension, 0, FALSE, FALSE) : pieces \in MCBodies, extension \in BOOLEAN}
    \cup {Message("chunked", <<piece>>, 1, FALSE, 1, TRUE, malformed) : piece \in MCPieces(2), malformed \in BOOLEAN}
    \cup {Message(framing, <<piece>>, 0, FALSE, 0, FALSE, FALSE) : framing \in {"length", "eof"}, piece \in MCPieces(2)}
    \cup {Message(framing, <<>>, 0, FALSE, 0, close, FALSE) : framing \in {"none", "length", "eof"}, close \in BOOLEAN}
    \cup {Message("length", <<>>, 0, FALSE, 0, FALSE, TRUE)}

MCFollows == {<<>>, <<DATA>>, <<CR, LF>>, <<HEAD, CR, LF, CR, LF>>}
=============================================================================
