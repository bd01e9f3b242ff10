---------------------------- MODULE LzssCodec ----------------------------
(***************************************************************************)
(* The LZSS codec: the encoder and the decoder of the firmware tool        *)
(* (utils/firmware_tool/commands/pipeline.cpp) and the decoder stage of    *)
(* the device (src/core/pipeline/lzss.c).                                  *)
(*                                                                         *)
(* Bytes are numbers below 2^BITS (BITS = 8 in the code), arrays are       *)
(* functions from 0 as in the source.  The widths EI, EJ of an offset and  *)
(* of a length and the byte the window starts with are parameters.         *)
(***************************************************************************)
EXTENDS Integers, SequencesExt

CONSTANTS EI,     \* bits of a window position (10 in the code)
          EJ,     \* bits of a match length (4)
          BITS,   \* bits of a byte (8)
          SPACE   \* the byte the window is filled with (' ')

N == 2^EI
F == 2^EJ + 1
P == 1
Byte == 0..(2^BITS - 1)

\* What a byte is once it is held in a (signed) char.
SChar(b) == IF b >= 2^(BITS - 1) THEN b - 2^BITS ELSE b

\* The n low bits of x, the most significant one first.
BitsOf(x, n) == [b \in 1..n |-> (x \div 2^(n - b)) % 2]
ValueOf(bits) ==
  LET v[k \in 0..Len(bits)] == IF k = 0 THEN 0 ELSE 2 * v[k - 1] + bits[k]
  IN  v[Len(bits)]

---------------------------------------------------------------------------
(* The encoder.  e.bits is what putbit0 and putbit1 were called with.      *)

output1(c) == <<1>> \o BitsOf(c % 2^BITS, BITS)
output2(x, y) == <<0>> \o BitsOf(x, EI) \o BitsOf(y, EJ)

\* putbit1, putbit0 and flush_bit_buffer: the bits grouped into bytes, the last
\* one completed with zeros.
Pack(bits) ==
  LET n == (Len(bits) + BITS - 1) \div BITS
      at(k) == IF k <= Len(bits) THEN bits[k] ELSE 0
  IN  [m \in 1..n |-> ValueOf([b \in 1..BITS |-> at((m - 1) * BITS + b)])]

\* Copies input into the buffer from bufferend on, until either of them ends.
Fill(e) ==
  LET room == 2 * N - e.bufferend
      k    == IF Len(e.input) <= room THEN Len(e.input) ELSE room
  IN  [e EXCEPT !.buffer = [i \in DOMAIN @ |->
                              IF i \in e.bufferend..(e.bufferend + k - 1)
                              THEN e.input[i - e.bufferend + 1] ELSE @[i]],
                !.bufferend = @ + k,
                !.input = SubSeq(@, k + 1, Len(@))]

EncodeStart(text) ==
  Fill([buffer |-> [i \in 0..(2 * N - 1) |-> IF i < N - F THEN SPACE ELSE 0],
        bufferend |-> N - F, r |-> N - F, s |-> 0, input |-> text, bits |-> <<>>])

\* How far the text at i repeats the one at r; the first bytes are known to agree.
Agrees(e, i, f1) ==
  CHOOSE j \in 1..f1 : /\ \A k \in 1..(j - 1) : e.buffer[i + k] = e.buffer[e.r + k]
                       /\ j < f1 => e.buffer[i + j] # e.buffer[e.r + j]

\* The longest match in the window, the nearest one of several.  c is a char:
\* a byte in its upper half equals no (unsigned) byte of the buffer.
LongestMatch(e) ==
  LET f1 == IF F <= e.bufferend - e.r THEN F ELSE e.bufferend - e.r
      c  == SChar(e.buffer[e.r])
      starts == {i \in e.s..(e.r - 1) : e.buffer[i] = c}
      better(i, k) == Agrees(e, i, f1) < Agrees(e, k, f1)
      best == CHOOSE i \in starts :
                \A k \in starts : ~better(i, k) /\ (k > i => better(k, i))
  IN  IF starts = {} THEN [x |-> 0, y |-> 1]
      ELSE [x |-> best, y |-> Agrees(e, best, f1)]

\* The trailing part of an iteration: the upper half of the buffer becomes the
\* lower one once less than F bytes are left to look ahead.
Slide(e) ==
  IF e.r < 2 * N - F THEN e
  ELSE Fill([e EXCEPT !.buffer = [i \in DOMAIN @ |-> IF i < N THEN @[i + N] ELSE @[i]],
                      !.bufferend = @ - N, !.r = @ - N, !.s = @ - N])

EncodeStep(e) ==
  LET m == LongestMatch(e)
      token == IF m.y <= P THEN output1(SChar(e.buffer[e.r])) ELSE output2(m.x % N, m.y - 2)
  IN  Slide([e EXCEPT !.bits = @ \o token, !.r = @ + m.y, !.s = @ + m.y])

---------------------------------------------------------------------------
(* The decoder of the tool: reads the whole file, n bits at a time.        *)

FileBits(code) ==
  [k \in 1..(BITS * Len(code)) |-> BitsOf(code[(k - 1) \div BITS + 1], BITS)[((k - 1) % BITS) + 1]]

\* buffer and r, as the decoders start with them.
Window == [buffer |-> [i \in 0..(N - 1) |-> IF i < N - F THEN SPACE ELSE 0], r |-> N - F]

\* buffer[r++] = c;  r &= (N - 1)
PutByte(w, c) == [w EXCEPT !.buffer[w.r] = c, !.r = (@ + 1) % N]

\* n bytes of a match at i, each copied after the ones before it were written.
CopyMatch(w, i, n) ==
  LET copy[k \in 0..n] ==
        IF k = 0 THEN [w |-> w, out |-> <<>>]
        ELSE LET a == copy[k - 1]
                 c == a.w.buffer[(i + k - 1) % N]
             IN  [w |-> PutByte(a.w, c), out |-> Append(a.out, c)]
  IN  copy[n]

\* A character that is not part of a match.
CopyByte(w, c) == [w |-> PutByte(w, c), out |-> <<c>>]

\* One turn of the loop, up to the getbit that meets the end of the file.
DecodeToken(bits, a) ==
  LET has(n) == a.p + n <= Len(bits)
      get(from, n) == ValueOf(SubSeq(bits, a.p + from + 1, a.p + from + n))
      literal == has(1) /\ bits[a.p + 1] = 1
      n == 1 + IF literal THEN BITS ELSE EI + EJ
      a1 == IF literal THEN CopyByte(a.w, get(1, BITS))
            ELSE CopyMatch(a.w, get(1, EI), get(1 + EI, EJ) + 2)
  IN  IF has(n) THEN [p |-> a.p + n, w |-> a1.w, out |-> a.out \o a1.out] ELSE a

\* A token has at least the bits of a byte.
pipeline_decompress_command(code) ==
  LET bits == FileBits(code)
      run[n \in 0..Len(code)] == IF n = 0 THEN [p |-> 0, w |-> Window, out |-> <<>>]
                                 ELSE DecodeToken(bits, run[n - 1])
  IN  run[Len(code)].out

---------------------------------------------------------------------------
(* The decoder stage of the device: lzss_pipeline is a coroutine that is   *)
(* suspended in whichever getbit meets the end of the chunk.  getting says *)
(* which one, s and x how many bits it has and their value.                *)

\* A slip of LzssInit: the window is written from its beginning.
LzssInitAtZero == [getting |-> "flag", s |-> 0, x |-> 0, i |-> 0, w |-> [Window EXCEPT !.r = 0]]

\* The first use after a start: the static window is zero where nothing is filled in.
LzssInit == [getting |-> "flag", s |-> 0, x |-> 0, i |-> 0, w |-> Window]

\* One more bit.  emit are the bytes handed to the next stage, one call each.
GetBit(d, b) ==
  LET x == 2 * d.x + b
      s == d.s + 1
      start(g) == [d EXCEPT !.getting = g, !.s = 0, !.x = 0]
      none(q) == [d |-> q, emit |-> <<>>, literal |-> FALSE]
      more == none([d EXCEPT !.s = s, !.x = x])
      token(c, lit) == [d |-> [start("flag") EXCEPT !.w = c.w], emit |-> c.out, literal |-> lit]
  IN  CASE d.getting = "flag" -> none(start(IF b = 1 THEN "char" ELSE "pos"))
        [] d.getting = "char" -> IF s < BITS THEN more ELSE token(CopyByte(d.w, x), TRUE)
        [] d.getting = "pos"  -> IF s < EI THEN more ELSE none([start("len") EXCEPT !.i = x])
        [] d.getting = "len"  -> IF s < EJ THEN more
                                 ELSE token(CopyMatch(d.w, d.i, x + 2), FALSE)
==========================================================================
