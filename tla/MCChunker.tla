------------------------------ MODULE MCChunker ------------------------------
EXTENDS Chunker

MCContents == {<<"w", "s", "w", "s", "w", "s", "L", "c", "s", "w", "s", "w">>,
               <<"w", "s", "w", "s", "w", "s", "w", "s", "w", "s", "w">>}
MCSymbols(content) == {<<>>, <<Unit(0, Len(content), "f")>>}
MCLimits == {<<1, 3>>}
=============================================================================
