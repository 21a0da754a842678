------------------------------ MODULE Framing ------------------------------
(***************************************************************************)
(* One line is one message (crates/dd-protocol/src/framing.rs): the        *)
(* Decoder takes bytes as they come, in pieces of any length, and cuts     *)
(* lines out of them.  An oversized line costs that line; an oversized     *)
(* rest, of which the end has not been seen, costs the connection.         *)
(***************************************************************************)
EXTENDS Naturals, Sequences, SequencesExt

CONSTANTS
    MaxBytes,       \* DEFAULT_MAX_MESSAGE_BYTES
    Stream          \* bound: bytes in a connection

VARIABLES
    buf, poisoned,      \* the Decoder
    frames,             \* all it has returned
    received            \* ghost: all it was given since the connection was made

framingVars == <<buf, poisoned, frames, received>>

Byte == {"a", "bad", "cr", "lf"}    \* "bad" is in no UTF-8 text
TooLarge == <<"more than max">>
InvalidUtf8 == <<"no text">>
Piece == UNION {[1 .. n -> Byte] : n \in 1 .. 2}

TypeOK ==
    /\ buf \in Seq(Byte) /\ Len(buf) <= MaxBytes
    /\ poisoned \in BOOLEAN
    /\ received \in Seq(Byte) /\ Len(received) <= Stream
    /\ ToSet(frames) \subseteq {TooLarge, InvalidUtf8} \cup UNION {[1 .. n -> {"a", "cr"}] : n \in 1 .. MaxBytes}

Init == buf = <<>> /\ poisoned = FALSE /\ frames = <<>> /\ received = <<>>

\* A line without its line feed: CRLF is tolerated, an empty line ignored.
FrameOf(line) ==
    LET text == IF line # <<>> /\ Last(line) = "cr" THEN Front(line) ELSE line IN
    CASE text = <<>> -> <<>>
      [] Len(text) > MaxBytes -> <<TooLarge>>
      [] Len(text) <= MaxBytes /\ "bad" \in ToSet(text) -> <<InvalidUtf8>>
      [] OTHER -> <<text>>

\* The loop of push over the bytes it has: what is consumed, up to the last line
\* feed, and the frames of the lines.
Scanned(bytes) ==
    LET scan[n \in 0 .. Len(bytes)] ==
          IF n = 0 THEN [consumed |-> 0, frames |-> <<>>]
          ELSE IF bytes[n] # "lf" THEN scan[n - 1]
          ELSE [consumed |-> n,
                frames |-> scan[n - 1].frames
                             \o FrameOf(SubSeq(bytes, scan[n - 1].consumed + 1, n - 1))]
    IN scan[Len(bytes)]

FramesOf(bytes) == Scanned(bytes).frames
Rest(bytes) == SubSeq(bytes, Scanned(bytes).consumed + 1, Len(bytes))

\* mutant: the bytes after the last line feed are thrown away with the lines
PushDropsRest(piece) ==
    LET all == buf \o piece
        lines == FramesOf(all)
        cut == Len(Rest(all)) > MaxBytes
    IN /\ received' = received \o piece
       /\ IF poisoned
          THEN UNCHANGED <<buf, poisoned, frames>>
          ELSE /\ poisoned' = cut
               /\ buf' = IF cut \/ lines # <<>> THEN <<>> ELSE Rest(all)
               /\ frames' = frames \o lines \o (IF cut THEN <<TooLarge>> ELSE <<>>)

Push(piece) ==
    LET all == buf \o piece
        lines == FramesOf(all)
        cut == Len(Rest(all)) > MaxBytes
    IN /\ received' = received \o piece
       /\ IF poisoned
          THEN UNCHANGED <<buf, poisoned, frames>>
          ELSE /\ poisoned' = cut
               /\ buf' = IF cut THEN <<>> ELSE Rest(all)
               /\ frames' = frames \o lines \o (IF cut THEN <<TooLarge>> ELSE <<>>)

\* reset, when the connection is made anew
Reset ==
    /\ poisoned /\ poisoned' = FALSE
    /\ buf' = <<>> /\ frames' = <<>> /\ received' = <<>>

Next ==
    \/ \E p \in Piece : Len(received) + Len(p) <= Stream /\ Push(p)
    \/ Reset

Spec == Init /\ [][Next]_framingVars

-----------------------------------------------------------------------------
\* However the bytes were cut into pieces, the frames are those of the lines of
\* the whole stream, in order; up to the one rest that was too large.
FramesAreTheLines ==
    \E n \in {m \in 0 .. Len(received) : poisoned \/ m = Len(received)} :
       LET seen == SubSeq(received, 1, n)
           whole == FramesOf(seen)
       IN IF poisoned THEN /\ frames = whole \o <<TooLarge>>
                           /\ Len(Rest(seen)) > MaxBytes
                      ELSE frames = whole /\ buf = Rest(seen)

\* "CRLF is tolerated" and the limit is on one message (framing.rs on push): a
\* stream of which every line is within the limit costs no frame.  The rest is
\* compared with its carriage return, the line is compared without it.
LegalLinesArrive ==
    Rest(received) = <<>> /\ TooLarge \notin ToSet(FramesOf(received))
    => TooLarge \notin ToSet(frames)
=============================================================================
