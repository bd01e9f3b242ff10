--------------------------- MODULE DeltaUpdate ---------------------------
(***************************************************************************)
(* The tool chain of differential updates and the stages of the device     *)
(* that undo it.  The firmware tool makes a patch from two images and      *)
(* compresses it, the device decompresses it (lzss.c), patches the image   *)
(* it has (bspatch.c) and hands the result to the next stage, while the    *)
(* file arrives in chunks of any size.  chain says which stages are used:  *)
(* both, as fsm.c connects them, or one alone, as the tests do.            *)
(***************************************************************************)
EXTENDS BsdiffCodec

CONSTANTS EI, EJ, SPACE,   \* of LzssCodec
          Deltas,          \* pairs of images for chain "delta"
          Pairs,           \* pairs of images for chain "patch"
          Texts,           \* files for chain "text"
          Codes,           \* for chain "code": bytes that no encoder has to have written
          MaxChunk,        \* bound on the length of a chunk
          BadReads,        \* which bytes given to the patching stage in one call, counted
                           \* from 1, may fail to read the old image: a set of such sets
          SortSuffixes(_)  \* the suffix array of an image, see SuffixSort

\* No token may complete inside the padding of the last byte, which is at most
\* BITS - 1 bits long; the shortest tokens have 1 + BITS and 1 + EI + EJ bits.
ASSUME LzssAssumption ==
  /\ EI \in Nat \ {0} /\ EJ \in Nat \ {0}
  /\ 2^EJ + 1 < 2^EI
  /\ 1 + EI + EJ >= BITS
  /\ SPACE \in 0..(2^BITS - 1)

\* The suffix array has positions in the image, and the numbers of a patch leave
\* the sign bit of their encoding free.
ASSUME ImagesAssumption ==
  \A pair \in Deltas \cup Pairs :
    /\ pair \in Seq(Bytes) \X Seq(Bytes)
    /\ SortSuffixes(pair[1]) \in [0..Len(pair[1]) -> 0..Len(pair[1])]
    /\ \A k \in {1, 2} : \A x \in 0..Len(pair[k]) : Quotients(x)[OFFW - 1] < Base \div 2

\* They fit in the int32_t that the device reads them into.
ASSUME DeviceAssumption ==
  \A pair \in Deltas \cup Pairs : \A k \in {1, 2} : \A x \in 0..Len(pair[k]) :
    Quotients(x)[OFFW \div 2 - 1] < Base \div 2

ASSUME FilesAssumption == Texts \subseteq Seq(Bytes) /\ Codes \subseteq Seq(Bytes)

\* What the proofs use of powers of two.
ASSUME PowersAssumption ==
  2^0 = 1 /\ \A k \in 0..(BITS + EI + EJ) : 2^k \in Nat \ {0} /\ 2^(k + 1) = 2 * 2^k

L == INSTANCE LzssCodec

VARIABLES chain,     \* "delta", "patch", "text" or "code"
          phase,     \* "sort", "diff", "scan", "extend", "compress" or "receive"
          old, new,  \* the two images; for "text" new is the file
          I,         \* the suffix array of old
          d,         \* the state of bsdiff_internal
          patch,     \* what is compressed or, without compression, sent
          enc,       \* the state of the encoder
          sent,      \* what is sent to the device
          fed,       \* bytes of it the device was given
          lz, bs,    \* the suspended coroutines of the two stages
          failed,    \* the pipeline returned an error
          misread,   \* history: a failing read of the old image was "reported" to
                     \* the caller of the pipeline or "lost" inside it, or "none" failed
          sink       \* what the stage after them received

tool == <<phase, I, d, patch, enc, sent>>
device == <<fed, lz, bs, failed, misread, sink>>
vars == <<chain, old, new, tool, device>>

NoText == L!EncodeStart(<<>>)

Init ==
  /\ \/ /\ chain = "delta" /\ phase = "sort" /\ sent = <<>>
        /\ \E pair \in Deltas : old = pair[1] /\ new = pair[2]
     \/ /\ chain = "patch" /\ phase = "sort" /\ sent = <<>>
        /\ \E pair \in Pairs : old = pair[1] /\ new = pair[2]
     \/ chain = "text" /\ phase = "compress" /\ sent = <<>> /\ old = <<>> /\ new \in Texts
     \/ chain = "code" /\ phase = "receive" /\ sent \in Codes /\ old = <<>> /\ new = <<>>
  /\ I = <<>> /\ d = DiffStart
  /\ patch = IF chain = "text" THEN new ELSE <<>>
  /\ enc = L!EncodeStart(patch)
  /\ fed = 0 /\ lz = L!LzssInit /\ bs = BspatchInit
  /\ failed = FALSE /\ misread = "none" /\ sink = <<>>

---------------------------------------------------------------------------
(* The tool.                                                               *)

\* bsdiff_internal up to its loop.
Sort ==
  /\ phase = "sort"
  /\ I' = SortSuffixes(old)
  /\ phase' = "diff"
  /\ UNCHANGED <<chain, old, new, d, patch, enc, sent, device>>

\* The loop of bsdiff_internal: an iteration begins,
Diff ==
  /\ phase = "diff"
  /\ d.scan < Len(new)
  /\ d' = ScanStart(d) /\ phase' = "scan"
  /\ UNCHANGED <<chain, old, new, I, patch, enc, sent, device>>

\* looks for a match that is worth an entry,
Scan ==
  /\ phase = "scan"
  /\ d.scan < Len(new)
  /\ LET g == Scored(I, old, new, d)
     IN  IF Better(g) THEN d' = g /\ phase' = "extend"
                      ELSE d' = ScanOn(old, new, g) /\ phase' = phase
  /\ UNCHANGED <<chain, old, new, I, patch, enc, sent, device>>

\* and writes the entry of the stretch before it.
Write ==
  /\ phase = "extend" \/ (phase = "scan" /\ d.scan >= Len(new))
  /\ d' = DiffStep(old, new, d) /\ phase' = "diff"
  /\ UNCHANGED <<chain, old, new, I, patch, enc, sent, device>>

\* The loop ends; the patch is the header and what the loop wrote.
Written ==
  /\ phase = "diff"
  /\ d.scan >= Len(new)
  /\ patch' = Header(new) \o d.out
  /\ IF chain = "delta" THEN phase' = "compress" /\ enc' = L!EncodeStart(patch') /\ sent' = sent
                        ELSE phase' = "receive" /\ sent' = patch' /\ enc' = enc
  /\ I' = <<>> /\ d' = DiffStart
  /\ UNCHANGED <<chain, old, new, device>>

\* One iteration of the loop of pipeline_compress_command.
Compress ==
  /\ phase = "compress"
  /\ enc.r < enc.bufferend
  /\ enc' = L!EncodeStep(enc)
  /\ UNCHANGED <<chain, phase, old, new, I, d, patch, sent, device>>

\* The loop ends, flush_bit_buffer completes the last byte.
Flush ==
  /\ phase = "compress"
  /\ enc.r >= enc.bufferend
  /\ sent' = L!Pack(enc.bits)
  /\ phase' = "receive" /\ enc' = NoText
  /\ UNCHANGED <<chain, old, new, I, d, patch, device>>

---------------------------------------------------------------------------
(* The device.  A running call is a record of the stages, the bytes that   *)
(* came out and whether an error goes back to the caller; n counts the     *)
(* bytes given to the patching stage, bad are the ones whose read of the   *)
(* old image fails, and miss is misread so far.                            *)

\* bspatch_pipeline called with one byte.
bspatch_pipeline(a, byte) ==
  LET missed == a.bs.at = "diff" /\ a.n + 1 \in a.bad
      g == PatchByte(a.bs, old, ~missed, byte)
  IN  [a EXCEPT !.bs = g.p, !.out = @ \o g.emit, !.err = g.err, !.n = @ + 1,
                !.miss = IF missed /\ @ = "none" THEN "reported" ELSE @]

\* A slip of NextStage: an error on a literal is lost as well.
NextStageDeaf(a, bytes, literal) ==
  LET run[k \in 0..Len(bytes)] == IF k = 0 THEN a ELSE bspatch_pipeline(run[k - 1], bytes[k])
  IN  IF chain # "delta" THEN [a EXCEPT !.out = @ \o bytes]
      ELSE [run[Len(bytes)] EXCEPT
              !.err = FALSE,
              !.miss = IF @ = "reported" /\ ~literal THEN "lost" ELSE @]

\* ctx->next_stage of the decompressor, for each byte of a token.  An error on a
\* literal ends the call, an error on a byte of a match is lost.
NextStage(a, bytes, literal) ==
  LET run[k \in 0..Len(bytes)] == IF k = 0 THEN a ELSE bspatch_pipeline(run[k - 1], bytes[k])
  IN  IF chain # "delta" THEN [a EXCEPT !.out = @ \o bytes]
      ELSE [run[Len(bytes)] EXCEPT
              !.err = @ /\ literal,
              !.miss = IF @ = "reported" /\ ~literal THEN "lost" ELSE @]

\* One bit, up to the next getbit.
LzssBit(a, b) ==
  LET g == L!GetBit(a.lz, b)
  IN  [NextStage(a, g.emit, g.literal) EXCEPT !.lz = g.d]

\* lzss_pipeline called with one byte.
lzss_pipeline(a, byte) ==
  LET bits == L!BitsOf(byte, BITS)
      run[k \in 0..BITS] == IF k = 0 THEN a
                            ELSE IF run[k - 1].err THEN run[k - 1]
                            ELSE LzssBit(run[k - 1], bits[k])
  IN  run[BITS]

\* The decompressor alone does not read the old image.
Unread == IF chain \in {"delta", "patch"} THEN BadReads ELSE {{}}

\* A call of the pipeline with the next len bytes.
Receive ==
  \E len \in 1..MaxChunk, bad \in Unread :
    /\ phase = "receive" /\ ~failed
    /\ fed + len <= Len(sent)
    /\ LET step(a, b) == IF a.err THEN a
                         ELSE IF chain = "patch" THEN bspatch_pipeline(a, b)
                         ELSE lzss_pipeline(a, b)
           run[k \in 0..len] ==
             IF k = 0 THEN [lz |-> lz, bs |-> bs, out |-> sink, err |-> FALSE,
                            n |-> 0, bad |-> bad, miss |-> misread]
             ELSE step(run[k - 1], sent[fed + k])
       IN  /\ lz' = run[len].lz /\ bs' = run[len].bs /\ sink' = run[len].out
           /\ failed' = run[len].err /\ misread' = run[len].miss
    /\ fed' = fed + len
    /\ UNCHANGED <<chain, old, new, tool>>

Next == Sort \/ Diff \/ Scan \/ Write \/ Written \/ Compress \/ Flush \/ Receive

Spec == Init /\ [][Next]_vars

---------------------------------------------------------------------------
\* Lexicographic order: at the first difference, or where f ends.
Less(f, g) ==
  LET k == matchlen(f, g)
  IN  k < Len(g) /\ (k = Len(f) \/ f[k + 1] < g[k + 1])

\* qsufsort enumerates the suffixes of the old image, the empty one included, in
\* lexicographic order: the bisection of search rests on it.
SuffixesSorted ==
  phase = "diff" => /\ {I[k] : k \in DOMAIN I} = 0..Len(old)
                    /\ \A k \in 0..(Len(old) - 1) :
                         Less(From(old, I[k]), From(old, I[k + 1]))

\* What bsdiff_internal has written so far patches the old image into the part of
\* the new one before lastscan: every iteration leaves a patch without gaps or
\* overlaps, whatever the alignments and extensions it chose.
DiffSoFar ==
  phase \in {"diff", "scan", "extend"} =>
    bspatch(old, d.out, d.lastscan, 0) = SubSeq(new, 1, d.lastscan)

\* The patch of the tool makes the new image from the old one.
ToolPatches ==
  patch # <<>> /\ chain \in {"delta", "patch"}
    => PatchedBy(old, patch) = new

\* The streaming decoder of the device (lzss.c) agrees with the decoder of the
\* tool (pipeline_decompress_command) on every prefix of every input, those that
\* no encoder wrote included, in the first use of its static window after a start.
StageIsTool ==
  chain \in {"code", "text"} => sink = L!pipeline_decompress_command(SubSeq(sent, 1, fed))

\* What the device hands on is the new image (or the compressed file), whatever the
\* chunks, as long as every read of the old image succeeds: in order at every
\* moment, with nothing added by the padding of the last byte, complete when
\* everything was received, and without an error or a read outside the old image.
DeliversImage ==
  phase = "receive" /\ chain # "code" /\ misread = "none" =>
    /\ ~failed
    /\ IsPrefix(sink, new)
    /\ fed = Len(sent) => sink = new

\* The patching stage finishes with the last byte of the patch and not before:
\* with the last byte received, or with the byte of the code that completes it,
\* as long as every read of the old image succeeds.
FinishesAtEnd ==
  phase = "receive" /\ chain \in {"delta", "patch"} /\ misread = "none" =>
    /\ bs.at = "finish" => sink = new
    /\ fed = Len(sent) => bs.at = "finish"
    /\ chain = "patch" /\ bs.at = "finish" => fed = Len(sent)

\* A read of the old image that fails stops the update with nothing wrong handed on:
\* the caller gets an error, the stage is not finished, and the bytes before it are
\* those of the new image.  The exception is a byte of a match of the decompressor:
\* there the error is lost and the stage takes the next byte of the patch in its place.
FailedReadStops ==
  misread = "reported" => failed /\ bs.at # "finish" /\ IsPrefix(sink, new)
==========================================================================
