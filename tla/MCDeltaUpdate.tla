-------------------------- MODULE MCDeltaUpdate --------------------------
EXTENDS DeltaUpdate, SuffixSort

\* Every pair of short images over two letters, images with several matches to
\* choose from, and longer old images for the suffix sort alone.
MCPairs ==
  (BoundedSeq({0, 7}, 4) \X BoundedSeq({0, 7}, 4))
  \cup (BoundedSeq({1, 2, 3}, 3) \X BoundedSeq({1, 2, 3}, 3))
  \cup {<<f \o g, g \o h \o f>> : f, g, h \in BoundedSeq({1, 2}, 3)}
  \cup (BoundedSeq({0, 1, 2}, 6) \X {<<>>})

\* The full chain.
MCDeltas == {<<f \o g, g \o f>> : f, g \in BoundedSeq({0, 7}, 3)}

\* Long enough over two letters to slide the buffer of the encoder and to refill
\* it, shorter over four; letter 6 is a negative char.
MCTexts == ([1..12 -> {1, 6}] \cup BoundedSeq({0, 1, 2, 6}, 5)) \ {<<>>}
MCCodes == BoundedSeq(L!Byte, 3)

\* No failing read, one, or two in a row; a byte of a match may be the second of a call.
MCBadReads == SUBSET {1, 2}
==========================================================================
