--------------------------- MODULE BsdiffCodec ---------------------------
(***************************************************************************)
(* Binary differences: bsdiff and bspatch of the firmware tool             *)
(* (utils/firmware_tool/commands/pipeline.cpp) and the patching stage of   *)
(* the device (src/core/pipeline/bspatch.c).                               *)
(*                                                                         *)
(* A file is a sequence of bytes; At indexes it from 0 as the source does. *)
(* The loops of the tool that are not actions of DeltaUpdate are recursive *)
(* functions of the number of turns.                                       *)
(***************************************************************************)
EXTENDS Integers, SequencesExt, FiniteSetsExt

CONSTANTS BITS,       \* bits of a byte (8 in the code)
          OFFW,       \* bytes of an encoded number (8)
          MAGIC,      \* the byte of the magic number (0x2a)
          MAGICLEN,   \* how often it is repeated (16)
          FUZZ        \* a match must beat the current alignment by more than this (8)

ASSUME BsdiffAssumption ==
  /\ BITS \in Nat \ {0, 1}
  /\ OFFW \in Nat \ {0} /\ OFFW % 2 = 0
  /\ MAGICLEN \in Nat \ {0}
  /\ FUZZ \in Nat
  /\ MAGIC \in 0..(2^BITS - 1)

Base == 2^BITS

\* What the proofs use of a power of two.
ASSUME BaseAssumption == Base \in Nat \ {0, 1} /\ Base = 2 * (Base \div 2)

Bytes == 0..(Base - 1)
At(file, i) == file[i + 1]
From(file, i) == SubSeq(file, i + 1, Len(file))

---------------------------------------------------------------------------
(* bsdiff.                                                                 *)

matchlen(f, g) == Max({i \in 0..Len(f) : i <= Len(g) /\ \A k \in 1..i : f[k] = g[k]})

\* memcmp on the length that both have, < 0
Below(f, g) ==
  \E k \in DOMAIN f : /\ k <= Len(g) /\ f[k] < g[k]
                      /\ \A l \in 1..(k - 1) : f[l] = g[l]

\* The longest match of new in old, by bisection over the sorted suffixes: half[k]
\* is the interval after k calls.
search(I, old, new) ==
  LET half[k \in Nat] ==
        IF k = 0 THEN <<0, Len(old)>>
        ELSE LET b == half[k - 1]
                 x == b[1] + (b[2] - b[1]) \div 2
             IN  IF b[2] - b[1] < 2 THEN b
                 ELSE IF Below(From(old, I[x]), new) THEN <<x, b[2]>> ELSE <<b[1], x>>
      last == half[Len(old)]
      lenAt(m) == matchlen(From(old, I[m]), new)
      m == IF lenAt(last[1]) > lenAt(last[2]) THEN last[1] ELSE last[2]
  IN  [len |-> lenAt(m), pos |-> I[m]]

\* old[i] of the tool's checks is only read inside old
Same(old, i, new, k) == i < Len(old) /\ At(old, i) = At(new, k)

DiffStart == [scan |-> 0, scsc |-> 0, oldscore |-> 0, len |-> 0, pos |-> 0,
              lastscan |-> 0, lastpos |-> 0, lastoffset |-> 0, out |-> <<>>]

\* The scan for a match that is better than the current alignment begins.
ScanStart(d) == [d EXCEPT !.scan = @ + d.len, !.scsc = d.scan + d.len, !.oldscore = 0]

\* The match at scan, and how much of it the current alignment has as well.
Scored(I, old, new, d) ==
  LET m == search(I, old, From(new, d.scan))
      gained == Cardinality({k \in d.scsc..(d.scan + m.len - 1) :
                               Same(old, k + d.lastoffset, new, k)})
  IN  [d EXCEPT !.len = m.len, !.pos = m.pos, !.oldscore = @ + gained,
                !.scsc = IF @ < d.scan + m.len THEN d.scan + m.len ELSE @]

\* The break of the scan.
Better(d) == (d.len = d.oldscore /\ d.len # 0) \/ d.len > d.oldscore + FUZZ

ScanOn(old, new, d) ==
  [d EXCEPT !.scan = @ + 1,
            !.oldscore = IF Same(old, d.scan + d.lastoffset, new, d.scan) THEN @ - 1 ELSE @]

\* The first length with the best score; score[0] = 0.
BestLen(score) ==
  CHOOSE i \in DOMAIN score :
    \A k \in DOMAIN score : score[k] <= score[i] /\ (k < i => score[k] < score[i])

\* y, y/256, y/256/256 ...
Quotients(y) == LET q[k \in Nat] == IF k = 0 THEN y ELSE q[k - 1] \div Base IN q

\* The remainders of these by 256, with the sign in the top bit of the last one.
offtout(x) ==
  LET q == Quotients(IF x < 0 THEN -x ELSE x)
      digit(k) == q[k - 1] % Base
  IN  [k \in 1..OFFW |-> IF k = OFFW /\ x < 0
                         THEN (digit(k) % (Base \div 2)) + (Base \div 2) ELSE digit(k)]

Least(x, y) == IF x < y THEN x ELSE y

ExtendForward(old, new, d) ==
  BestLen([i \in 0..Least(d.scan - d.lastscan, Len(old) - d.lastpos) |->
             2 * Cardinality({k \in 0..(i - 1) :
                   At(old, d.lastpos + k) = At(new, d.lastscan + k)}) - i])

ExtendBackward(old, new, d) ==
  IF d.scan >= Len(new) THEN 0
  ELSE BestLen([i \in 0..Least(d.scan - d.lastscan, d.pos) |->
                  2 * Cardinality({k \in 1..i :
                        At(old, d.pos - k) = At(new, d.scan - k)}) - i])

\* A slip of Extend: bytes that both extensions claim stay with both.
ExtendOverlapping(old, new, d) ==
  [f |-> ExtendForward(old, new, d), b |-> ExtendBackward(old, new, d)]

\* How much of the stretch lastscan..scan is aligned with what came before (f) and
\* with the match just found (b), the overlap given to the better one.
Extend(old, new, d) ==
  LET lenf == ExtendForward(old, new, d)
      lenb == ExtendBackward(old, new, d)
      overlap == (d.lastscan + lenf) - (d.scan - lenb)
      lens == BestLen([i \in 0..overlap |->
        Cardinality({k \in 0..(i - 1) : At(new, d.lastscan + lenf - overlap + k)
                                          = At(old, d.lastpos + lenf - overlap + k)})
        - Cardinality({k \in 0..(i - 1) : At(new, d.scan - lenb + k)
                                            = At(old, d.pos - lenb + k)})])
  IN  IF overlap > 0 THEN [f |-> lenf + lens - overlap, b |-> lenb - lens]
      ELSE [f |-> lenf, b |-> lenb]

\* The control triple, the differences and the extra bytes of one entry.
Entry(old, new, d, e) ==
  offtout(e.f) \o offtout((d.scan - e.b) - (d.lastscan + e.f))
  \o offtout((d.pos - e.b) - (d.lastpos + e.f))
  \o [k \in 1..e.f |-> (new[d.lastscan + k] - old[d.lastpos + k]) % Base]
  \o SubSeq(new, d.lastscan + e.f + 1, d.scan - e.b)

\* The rest of an iteration of the loop of bsdiff_internal, after the scan.
DiffStep(old, new, d) ==
  LET e == Extend(old, new, d)
  IN  IF d.len = d.oldscore /\ d.scan # Len(new) THEN d
      ELSE [d EXCEPT !.out = @ \o Entry(old, new, d, e),
                     !.lastscan = d.scan - e.b, !.lastpos = d.pos - e.b,
                     !.lastoffset = d.pos - d.scan]

\* A slip of Header: the magic number is one byte short.
HeaderShort(new) == [k \in 1..(MAGICLEN - 1) |-> MAGIC] \o offtout(Len(new))

Header(new) == [k \in 1..MAGICLEN |-> MAGIC] \o offtout(Len(new))

---------------------------------------------------------------------------
(* bspatch of the tool: reads the patch file as it needs it.               *)

\* v[k] is y after k digits more than the last one, which has the sign.
offtin(buf) ==
  LET v[k \in 0..(OFFW - 1)] == IF k = 0 THEN buf[OFFW] % (Base \div 2)
                                ELSE v[k - 1] * Base + buf[OFFW - k]
      y == v[OFFW - 1]
  IN  IF buf[OFFW] >= Base \div 2 THEN -y ELSE y

NoFile == <<-1>>

\* One turn of the loop of bspatch.  NoFile is a patch that is refused (an entry
\* exceeds the new size) or that ends early: the read that meets the end leaves
\* the rest of its buffer undefined and only the next one fails.
PatchEntry(old, patch, newsize, s) ==
  LET ctrl(k) == offtin(SubSeq(patch, s.p + (k - 1) * OFFW + 1, s.p + k * OFFW))
      q == s.p + 3 * OFFW
      add(k) == IF s.oldpos + k - 1 \in 0..(Len(old) - 1) THEN At(old, s.oldpos + k - 1) ELSE 0
      ends == q + ctrl(1) + ctrl(2)
  IN  IF s.new = NoFile \/ Len(s.new) >= newsize THEN s
      ELSE IF \/ q > Len(patch)
              \/ Len(s.new) + ctrl(1) > newsize
              \/ Len(s.new) + ctrl(1) + ctrl(2) > newsize
              \/ ends > Len(patch)
           THEN [s EXCEPT !.new = NoFile]
           ELSE [p |-> ends, oldpos |-> s.oldpos + ctrl(1) + ctrl(3),
                 new |-> s.new \o [k \in 1..ctrl(1) |-> (patch[q + k] + add(k)) % Base]
                               \o SubSeq(patch, q + ctrl(1) + 1, ends)]

\* The file that a patch makes from position p on.  There are fewer entries than
\* bytes in the patch.
bspatch(old, patch, newsize, p) ==
  LET run[n \in Nat] == IF n = 0 THEN [p |-> p, oldpos |-> 0, new |-> <<>>]
                        ELSE PatchEntry(old, patch, newsize, run[n - 1])
  IN  run[Len(patch)].new

\* What pipeline_patch_command does once the old image is loaded: it reads the size
\* from the header and patches.  The load itself is left out: the buffer it reads the
\* image into has size2 = 0 bytes, so what the command does there is undefined.
PatchedBy(old, patch) ==
  LET size == offtin(SubSeq(patch, MAGICLEN + 1, MAGICLEN + OFFW))
  IN  IF Len(patch) < MAGICLEN + OFFW \/ size < 0 THEN NoFile
      ELSE bspatch(old, patch, size, MAGICLEN + OFFW)

---------------------------------------------------------------------------
(* The patching stage of the device: bspatch_pipeline is a coroutine that  *)
(* is suspended where it needs the next byte (at).                         *)

\* The first half of the bytes as a number: v[k] is it after k digits more than the last.
Low(c) ==
  LET v[k \in 0..(OFFW \div 2 - 1)] == IF k = 0 THEN c[OFFW \div 2]
                                       ELSE v[k - 1] * Base + c[OFFW \div 2 - k]
  IN  v[OFFW \div 2 - 1]

\* A slip of CtrlValue: the sign is not looked at.
CtrlValueUnsigned(c) == Low(c)

\* ctrl_t is a union: the number is an int32_t in the first half of its bytes,
\* negated when the top bit of the last byte is set.
CtrlValue(c) ==
  LET y == IF c[OFFW \div 2] >= Base \div 2 THEN Low(c) - Base^(OFFW \div 2) ELSE Low(c)
  IN  IF c[OFFW] >= Base \div 2 THEN -y ELSE y

BspatchInit == [at |-> "header", j |-> 0, c |-> <<>>, ctrl |-> <<>>, newsize |-> 0,
                i |-> 0, oldpos |-> 0, newpos |-> 0]

\* A slip of NextEntry: the loop is entered once more.
NextEntryOnceMore(p) == [p EXCEPT !.at = IF p.newpos <= p.newsize THEN "ctrl" ELSE "finish",
                                  !.c = <<>>, !.ctrl = <<>>, !.i = 0]

\* The head of while (newpos < newsize.y).
NextEntry(p) == [p EXCEPT !.at = IF p.newpos < p.newsize THEN "ctrl" ELSE "finish",
                          !.c = <<>>, !.ctrl = <<>>, !.i = 0]

InExtra(p) ==
  IF p.i < p.ctrl[2] THEN [p EXCEPT !.at = "extra"]
  ELSE NextEntry([p EXCEPT !.newpos = @ + p.ctrl[2], !.oldpos = @ + p.ctrl[3]])

InDiff(p) ==
  LET q == [p EXCEPT !.newpos = @ + p.ctrl[1], !.oldpos = @ + p.ctrl[1], !.i = 0]
  IN  IF p.i < p.ctrl[1] THEN [p EXCEPT !.at = "diff"]
      ELSE IF q.newpos + p.ctrl[2] > p.newsize THEN [q EXCEPT !.at = "insane"]
      ELSE InExtra(q)

\* The three control numbers are there.
CtrlRead(p) == IF p.newpos + p.ctrl[1] > p.newsize THEN [p EXCEPT !.at = "insane"]
               ELSE InDiff([p EXCEPT !.i = 0])

\* One byte.  emit is the byte handed to the next stage, whose result is ignored;
\* err that the call returns an error, with the coroutine where it was.
PatchByte(p, old, readok, byte) ==
  LET ok(q) == [p |-> q, emit |-> <<>>, err |-> q.at = "insane"]
      fail == [p |-> p, emit |-> <<>>, err |-> TRUE]
      c == Append(p.c, byte)
      more == [p EXCEPT !.j = @ + 1, !.c = IF p.j < MAGICLEN THEN <<>> ELSE c]
      size == CtrlValue(c)
      ctrl == Append(p.ctrl, CtrlValue(c))
  IN  CASE p.at = "finish" -> ok(p)
        [] p.at = "header" ->
             IF p.j < MAGICLEN /\ byte # MAGIC THEN fail
             ELSE IF p.j < MAGICLEN + OFFW - 1 THEN ok(more)
             ELSE IF size < 0 THEN [fail EXCEPT !.p.at = "insane"]
             ELSE ok(NextEntry([p EXCEPT !.newsize = size]))
        [] p.at = "ctrl" ->
             IF Len(c) < OFFW THEN ok([p EXCEPT !.c = c])
             ELSE IF Len(ctrl) < 3 THEN ok([p EXCEPT !.c = <<>>, !.ctrl = ctrl])
             ELSE ok(CtrlRead([p EXCEPT !.c = <<>>, !.ctrl = ctrl]))
        [] p.at = "diff" ->
             IF ~readok \/ p.oldpos + p.i \notin 0..(Len(old) - 1) THEN fail
             ELSE [ok(InDiff([p EXCEPT !.i = @ + 1])) EXCEPT
                     !.emit = <<(byte + At(old, p.oldpos + p.i)) % Base>>]
        [] p.at = "extra" ->
             [ok(InExtra([p EXCEPT !.i = @ + 1])) EXCEPT !.emit = <<byte>>]
        [] p.at = "insane" -> fail
==========================================================================
