---------------------------- MODULE MCBodyReader ----------------------------
(***************************************************************************)
(* Wires for module BodyReader: a head, up to two chunks, a broken one or  *)
(* a last one with its trailers, and the beginning of the next message.    *)
(***************************************************************************)
EXTENDS BodyReader

MCHead == <<Letter>> \o Crlf \o Crlf

\* Data that looks like a last chunk or like a line end, an extension.
MCChunks ==
    {<<1, CR, LF, 0, CR, LF>>, <<2, CR, LF, CR, LF, CR, LF>>, <<1, Semicolon, Letter, CR, LF, 0, CR, LF>>}

\* Data one byte too long or too short, data with no line end behind it, a size
\* over the limit, no size, a line that is too long for the parser, one that is
\* too long for the reader.
MCBroken ==
    {<<1, CR, LF, 0, 0, CR, LF>>, <<1, CR, LF, 0, 0, 0>>, <<1, CR, LF, CR, LF>>, <<4, CR, LF>>, <<Plain, CR, LF>>,
     <<0, 0, 0, 0, 0, 0, 1, CR, LF>>, <<0, 0, 0, 0, 0, 0, 0, 1, CR, LF>>}

\* Without and with a trailer, one that is not declared, one that is both
\* broken and misplaced, a section at its limit and one over it, none.
MCFinals ==
    {<<0, CR, LF, CR, LF>>, <<0, CR, LF, Letter, Colon, CR, LF, CR, LF>>,
     <<0, CR, LF, 1, Colon, CR, LF, CR, LF>>, <<0, CR, LF, Plain, CR, Colon, CR, LF, CR, LF>>,
     <<0, CR, LF, Letter, Colon, 1, 1, CR, LF, CR, LF>>,
     <<0, CR, LF, Letter, Colon, 1, 1, 1, CR, LF, CR, LF>>, <<0, CR, LF, CR>>}

MCBodies ==
    {FlattenSeq(chunks) \o rest :
        chunks \in {<<>>} \cup [{1} -> MCChunks] \cup [{1, 2} -> MCChunks],
        rest \in {broken \o <<0, CR, LF, CR, LF>> : broken \in MCBroken} \cup MCFinals
                \cup {final \o <<Letter>> : final \in MCFinals}}

MCFraming(kind, length) == [kind |-> kind, length |-> length]

MCMessage(text, framing, trailers) ==
    [wire |-> MCHead \o text, framing |-> framing, trailers |-> trailers]

MCMessages ==
    {MCMessage(text, MCFraming("Chunked", 0), <<<<Padding, Capital>>>>) : text \in MCBodies}
    \cup {MCMessage(final, MCFraming("Chunked", 0), trailers) :
             final \in MCFinals, trailers \in {<<>>, <<<<Letter>>, <<>>>>, <<<<Letter>>, <<Letter>>>>}}
    \cup {MCMessage(text, framing, <<>>) :
             text \in {<<>>, <<0>>, <<0, CR, LF>>, <<0, 0, 0, 0, 0>>},
             framing \in {MCFraming("None", 0), MCFraming("Close", 0)}
                         \cup {MCFraming("ContentLength", n) : n \in {0, 1, 3, 4}}}
    \cup {[MCMessage(<<>>, MCFraming("None", 0), <<>>) EXCEPT !.wire = w] :
             w \in {<<Letter, Letter, Letter>> \o MCHead, <<Letter, CR, LF>>,
                    <<Letter, Letter, Letter, Letter, Letter, Letter, Letter, Letter>>}}
=============================================================================
