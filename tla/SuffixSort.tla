---------------------------- MODULE SuffixSort ----------------------------
(***************************************************************************)
(* The suffix sort of the firmware tool, qsufsort of                       *)
(* utils/firmware_tool/commands/pipeline.cpp.  The arrays I and V are      *)
(* functions on 0..oldsize.  Its operators are RECURSIVE, only TLC         *)
(* evaluates them; DeltaUpdate has the sort as a parameter.                *)
(***************************************************************************)
EXTENDS BsdiffCodec

CONSTANT SMALL   \* split sorts groups below this size by selection (16)

ASSUME SmallAssumption == SMALL \in Nat \ {0}

Slice(I, lo, hi) == [m \in 1..(hi - lo) |-> I[lo + m - 1]]
Put(I, lo, seq) == [m \in DOMAIN I |-> IF m \in lo..(lo + Len(seq) - 1)
                                       THEN seq[m - lo + 1] ELSE I[m]]

\* The suffixes I[lo..hi-1] are one group: its number is its last position, and
\* a group of one suffix is in its place.
Group(a, lo, hi) ==
  LET members == {a.I[m] : m \in lo..(hi - 1)}
  IN  [V |-> [i \in DOMAIN a.V |-> IF i \in members THEN hi - 1 ELSE a.V[i]],
       I |-> IF hi = lo + 1 THEN [a.I EXCEPT ![lo] = -1] ELSE a.I]

\* A group below SMALL: the suffixes with the least key, then the next ones.
\* The source swaps in place; the order inside a group has no meaning.
RECURSIVE SplitSmall(_, _, _, _)
SplitSmall(a, k, end, h) ==
  IF k >= end THEN a
  ELSE LET seq == Slice(a.I, k, end)
           key(i) == a.V[i + h]
           x  == Min({key(seq[m]) : m \in DOMAIN seq})
           eq == SelectSeq(seq, LAMBDA i : key(i) = x)
           gt == SelectSeq(seq, LAMBDA i : key(i) # x)
       IN  SplitSmall(Group([a EXCEPT !.I = Put(@, k, eq \o gt)], k, k + Len(eq)),
                      k + Len(eq), end, h)

\* The group I[start..start+len-1], whose suffixes agree on h bytes, split by
\* their next h bytes: by selection, or around the key in the middle.
RECURSIVE split(_, _, _, _)
split(a, start, len, h) ==
  IF len < SMALL THEN SplitSmall(a, start, start + len, h)
  ELSE LET seq == Slice(a.I, start, start + len)
           key(i) == a.V[i + h]
           x  == key(seq[len \div 2 + 1])
           lt == SelectSeq(seq, LAMBDA i : key(i) < x)
           eq == SelectSeq(seq, LAMBDA i : key(i) = x)
           gt == SelectSeq(seq, LAMBDA i : key(i) > x)
           jj == start + Len(lt)
           kk == jj + Len(eq)
           b  == [a EXCEPT !.I = Put(@, start, lt \o eq \o gt)]
           c  == IF jj > start THEN split(b, start, jj - start, h) ELSE b
           d  == Group(c, jj, kk)
       IN  IF start + len > kk THEN split(d, kk, start + len - kk, h) ELSE d

\* The buckets of the first byte.  A bucket of one suffix is in its place, but
\* the loop that says so leaves out byte 0.
Buckets(old) ==
  LET n == Len(old)
      upto(c) == Cardinality({i \in 0..(n - 1) : At(old, i) <= c})
      sorted == FlattenSeq([c \in 1..Base |->
                  SelectSeq([m \in 1..n |-> m - 1], LAMBDA i : At(old, i) = c - 1)])
      alone(m) == LET c == At(old, sorted[m]) IN c > 0 /\ upto(c) = upto(c - 1) + 1
  IN  [I |-> [m \in 0..n |-> IF m = 0 \/ alone(m) THEN -1 ELSE sorted[m]],
       V |-> [i \in 0..n |-> IF i = n THEN 0 ELSE upto(At(old, i))]]

\* One pass over I: runs of suffixes that are in place are joined (-len), the
\* other groups are split.
RECURSIVE SortPass(_, _, _, _)
SortPass(a, i, len, h) ==
  LET joined == IF len > 0 THEN [a EXCEPT !.I[i - len] = -len] ELSE a
      size   == a.V[a.I[i]] + 1 - i
  IN  IF i \notin DOMAIN a.I THEN joined
      ELSE IF a.I[i] < 0 THEN SortPass(a, i - a.I[i], len - a.I[i], h)
           ELSE SortPass(split(joined, i, size, h), i + size, 0, h)

RECURSIVE SortFrom(_, _)
SortFrom(a, h) ==
  IF a.I[0] = -Cardinality(DOMAIN a.I) THEN a ELSE SortFrom(SortPass(a, 0, 0, h), 2 * h)

\* A slip of qsufsort: the groups are split by their second byte only.
qsufsortOnePass(old) ==
  LET a == SortPass(Buckets(old), 0, 0, 1)
      at(p) == {i \in DOMAIN a.V : a.V[i] = p}
  IN  [p \in DOMAIN a.I |-> IF at(p) = {} THEN a.I[p] ELSE Max(at(p))]

qsufsort(old) ==
  LET a == SortFrom(Buckets(old), 1)
      at(p) == {i \in DOMAIN a.V : a.V[i] = p}
  IN  [p \in DOMAIN a.I |-> IF at(p) = {} THEN a.I[p] ELSE Max(at(p))]
==========================================================================
