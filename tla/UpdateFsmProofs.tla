-------------------------- MODULE UpdateFsmProofs --------------------------
(***************************************************************************)
(* Every call of fsm keeps FsmInv, for every set of images, every size of  *)
(* manifest, buffer and slot, whatever fails and whatever data a transport *)
(* delivers, in any order.                                                 *)
(***************************************************************************)
EXTENDS UpdateFsm, SequenceTheorems, TLAPS

\* What a transport passes to fsm.
Deliverable(msg) ==
  /\ msg.data \in Seq(Cells)
  /\ Len(msg.data) \in 1 .. MaxChunk

----------------------------------------------------------------------------
(* The pipeline. *)

LEMMA FlushedRange ==
  ASSUME NEW all \in Seq(Cells), Len(all) > 0
  PROVE  Flushed(all) \in Nat /\ Flushed(all) < Len(all)
<1> DEFINE n == Len(all) - 1
           q == n \div BufferUnits
<1>1. n \in Nat /\ BufferUnits \in Nat /\ BufferUnits > 0
  BY FsmAssumption
<1>2. q \in Nat /\ BufferUnits * q <= n
  BY <1>1
<1>3. BufferUnits * q \in Nat
  BY <1>1, <1>2
<1> QED BY <1>1, <1>2, <1>3 DEF Flushed

\* n units of `all` went behind the first w cells of o, which is o1 then, and
\* the others are in b1.
Moved(all, n, w, o, o1, b1) ==
  /\ Len(b1) = Len(all) - n
  /\ \A k \in 1 .. Len(all) - n : b1[k] = all[n + k]
  /\ \A u \in Units : u <= w => o1[u] = o[u]
  /\ \A u \in Units : w < u /\ u <= w + n => o1[u] \in {all[u - w], Junk}

\* They are there unchanged.
MovedWell(all, n, w, o1) ==
  \A u \in Units : w < u /\ u <= w + n => o1[u] = all[u - w]

\* st is what the first w cells of o and then b hold, the first cell aside.
InOrder(st, w, o, b) ==
  \A u \in 2 .. Len(st) : st[u] = IF u <= w THEN o[u] ELSE b[u - w]

LEMMA WriteKeeps ==
  ASSUME NEW all \in Seq(Cells), NEW n \in Nat, n <= Len(all),
         NEW w \in Nat, NEW o \in [Units -> Cells],
         buffer' = SubSeq(all, n + 1, Len(all)), slipped' \in BOOLEAN,
         obj' = Programmed(o, w, SubSeq(all, 1, n), ~slipped')
  PROVE  /\ buffer' \in Seq(Cells) /\ obj' \in [Units -> Cells]
         /\ Moved(all, n, w, o, obj', buffer')
         /\ ~slipped' => MovedWell(all, n, w, obj')
<1>3. /\ buffer' \in Seq(Cells) /\ Len(buffer') = Len(all) - n
      /\ \A k \in 1 .. Len(all) - n : buffer'[k] = all[n + k]
  OBVIOUS
<1>4. /\ SubSeq(all, 1, n) \in Seq(Cells) /\ Len(SubSeq(all, 1, n)) = n
      /\ \A k \in 1 .. n : SubSeq(all, 1, n)[k] = all[k]
  OBVIOUS
<1>5. (~slipped') \in BOOLEAN
  OBVIOUS
<1>6. /\ obj' \in [Units -> Cells]
      /\ \A u \in Units : u <= w \/ u > w + n => obj'[u] = o[u]
      /\ \A u \in Units : w < u /\ u <= w + n =>
           obj'[u] = IF ~slipped' THEN SubSeq(all, 1, n)[u - w] ELSE Junk
  <2> DEFINE data == SubSeq(all, 1, n)
  <2>1. data \in Seq(Cells) /\ Len(data) = n
    BY <1>4
  <2>2. obj' = [u \in Units |-> IF w < u /\ u <= w + Len(data)
                               THEN IF ~slipped' THEN data[u - w] ELSE Junk
                               ELSE o[u]]
    BY DEF Programmed
  <2> HIDE DEF data
  <2>3. \A u \in Units : u \in Int
    BY FsmAssumption DEF Units
  <2>4. \A u \in Units : w < u /\ u <= w + n => data[u - w] \in Cells
    BY <2>1, <2>3
  <2>5. \A u \in Units : obj'[u] = IF w < u /\ u <= w + n
                                   THEN IF ~slipped' THEN data[u - w] ELSE Junk
                                   ELSE o[u]
    BY <2>1, <2>2
  <2>6. \A u \in Units : obj'[u] \in Cells
    BY <2>4, <2>5 DEF Cells
  <2>7. obj' \in [Units -> Cells]
    BY <2>2, <2>6
  <2>8. \A u \in Units : u <= w \/ u > w + n => obj'[u] = o[u]
    BY <2>3, <2>5
  <2> QED BY <2>5, <2>7, <2>8 DEF data
<1>7. \A u \in Units : u \in Int
  BY FsmAssumption DEF Units
<1>8. \A u \in Units : w < u /\ u <= w + n => u - w \in 1 .. n
  BY <1>7
<1>9. \A u \in Units : w < u /\ u <= w + n =>
        obj'[u] = IF slipped' THEN Junk ELSE all[u - w]
  BY <1>4, <1>6, <1>8
<1> QED BY <1>3, <1>6, <1>9 DEF Moved, MovedWell

----------------------------------------------------------------------------
(* The calls that leave the slot alone. *)

\* Outside of STATE_RECEIVE_FIRMWARE and STATE_REBOOT little has to be shown.
LEMMA NotStored ==
  ASSUME FsmTypeOK', processed' = Len(stream'), FromTheStart',
         state' \notin {"STATE_RECEIVE_FIRMWARE", "STATE_REBOOT"}
  PROVE  FsmInv'
BY DEF FsmInv, PipelineInOrder, WithinExpected, StoredManifest, RebootVerified

LEMMA IdleKeeps ==
  ASSUME FsmInv, NEW msg, Idle(msg)
  PROVE  FsmInv'
<1>1. state' \in {"STATE_CLEAN", "STATE_IDLE", "STATE_START_UPDATE"} /\ err' \in BOOLEAN
  BY DEF Idle, FsmError
<1>2. \/ processed' = 0 /\ stream' = <<>>
      \/ state = "STATE_IDLE" /\ UNCHANGED <<processed, stream>>
  BY DEF Idle
<1>3. /\ processed' \in Nat /\ stream' \in Seq(Cells) /\ processed' = Len(stream')
      /\ processed' # ManifestUnits
  <2>1. CASE processed' = 0 /\ stream' = <<>>
    BY <2>1, FsmAssumption
  <2>2. CASE state = "STATE_IDLE" /\ UNCHANGED <<processed, stream>>
    BY <2>2 DEF FsmInv, FsmTypeOK, FromTheStart
  <2> QED BY <1>2, <2>1, <2>2
<1>4. FsmTypeOK'
  BY <1>1, <1>3 DEF Idle, FsmInv, FsmTypeOK, States
<1>5. FromTheStart'
  BY <1>3 DEF FromTheStart
<1> QED BY <1>1, <1>3, <1>4, <1>5, NotStored

LEMMA StartUpdateKeeps ==
  ASSUME FsmInv, NEW len, StartUpdate(len)
  PROVE  FsmInv'
<1>1. /\ state = "STATE_START_UPDATE"
      /\ state' \in {"STATE_CLEAN", "STATE_RECEIVE_MANIFEST"} /\ err' \in BOOLEAN
      /\ UNCHANGED <<version, processed, expected, stream, buffer, written, slipped, obj>>
  BY DEF StartUpdate, FsmError
<1>2. FsmTypeOK' /\ processed' = Len(stream') /\ FromTheStart'
  BY <1>1 DEF FsmInv, FsmTypeOK, FromTheStart, States
<1> QED BY <1>1, <1>2, NotStored

LEMMA ErrorKeeps ==
  ASSUME FsmInv, FsmError,
         UNCHANGED <<version, processed, expected, stream, buffer, written, slipped, obj>>
  PROVE  FsmInv'
<1>1. FsmTypeOK' /\ processed' = Len(stream') /\ FromTheStart'
  BY DEF FsmError, FsmInv, FsmTypeOK, FromTheStart, States
<1> QED BY <1>1, NotStored DEF FsmError

LEMMA ReceiveManifestKeeps ==
  ASSUME FsmInv, NEW data \in Seq(Cells), ReceiveManifest(data)
  PROVE  FsmInv'
<1>1. /\ stream' = stream \o data /\ processed' = processed + Len(data)
      /\ processed + Len(data) < ManifestUnits /\ err' = FALSE
      /\ state' = "STATE_RECEIVE_MANIFEST"
      /\ UNCHANGED <<version, expected, buffer, written, slipped, obj>>
  BY DEF ReceiveManifest
<1>2. stream \in Seq(Cells) /\ processed \in Nat /\ processed = Len(stream)
  BY DEF FsmInv, FsmTypeOK
<1>3. stream' \in Seq(Cells) /\ processed' \in Nat /\ processed' = Len(stream')
      /\ processed' # ManifestUnits
  BY <1>1, <1>2, FsmAssumption
<1>4. FsmTypeOK' /\ FromTheStart'
  BY <1>1, <1>3 DEF FsmInv, FsmTypeOK, FromTheStart, States
<1> QED BY <1>1, <1>3, <1>4, NotStored

\* The manifest as the machine has it when it is complete.
LEMMA CompleteManifest ==
  ASSUME FsmInv, NEW data \in Seq(Cells), processed + Len(data) >= ManifestUnits
  PROVE  /\ stream \o data \in Seq(Cells)
         /\ Len(stream \o data) = processed + Len(data)
         /\ SubSeq(stream \o data, 1, ManifestUnits) \in Seq(Cells)
         /\ Len(SubSeq(stream \o data, 1, ManifestUnits)) = ManifestUnits
<1>1. stream \in Seq(Cells) /\ processed = Len(stream)
  BY DEF FsmInv, FsmTypeOK
<1>2. stream \o data \in Seq(Cells) /\ Len(stream \o data) = processed + Len(data)
  BY <1>1
<1> QED BY <1>2, FsmAssumption

LEMMA RejectManifestKeeps ==
  ASSUME FsmInv, NEW data \in Seq(Cells), RejectManifest(data)
  PROVE  FsmInv'
<1>1. /\ stream' = SubSeq(stream \o data, 1, ManifestUnits) /\ processed' = ManifestUnits
      /\ processed + Len(data) >= ManifestUnits /\ err' = TRUE /\ state' = "STATE_CLEAN"
      /\ UNCHANGED <<version, expected, buffer, written, slipped, obj>>
  BY DEF RejectManifest, FsmError
<1>2. stream' \in Seq(Cells) /\ processed' \in Nat /\ processed' = Len(stream')
  BY <1>1, CompleteManifest, FsmAssumption
<1>3. FsmTypeOK' /\ FromTheStart'
  BY <1>1, <1>2 DEF FsmInv, FsmTypeOK, FromTheStart, States
<1> QED BY <1>1, <1>2, <1>3, NotStored

LEMMA RebootingKeeps ==
  ASSUME FsmInv, Rebooting
  PROVE  FsmInv'
<1>1. /\ state = "STATE_REBOOT" /\ state' = state /\ err' = FALSE
      /\ UNCHANGED <<version, processed, expected, stream, buffer, written, slipped, obj>>
  BY DEF Rebooting
<1>2. FsmTypeOK'
  BY <1>1 DEF FsmInv, FsmTypeOK
<1> QED BY <1>1, <1>2 DEF FsmInv, FromTheStart, PipelineInOrder, WithinExpected,
                          StoredManifest, RebootVerified, Holds

----------------------------------------------------------------------------
(* The calls that store data. *)

LEMMA AcceptManifestKeeps ==
  ASSUME FsmInv, NEW data \in Seq(Cells), Len(data) \in 1 .. MaxChunk, AcceptManifest(data)
  PROVE  FsmInv'
<1>1. /\ state = "STATE_RECEIVE_MANIFEST" /\ processed <= ManifestUnits
      /\ processed + Len(data) >= ManifestUnits /\ version' = version
  BY DEF AcceptManifest
<1>2. /\ stream \o data \in Seq(Cells) /\ Len(stream \o data) = processed + Len(data)
      /\ SubSeq(stream \o data, 1, ManifestUnits) \in Seq(Cells)
      /\ Len(SubSeq(stream \o data, 1, ManifestUnits)) = ManifestUnits
      /\ processed \in Nat /\ processed # ManifestUnits
  BY <1>1, CompleteManifest DEF FsmInv, FsmTypeOK, FromTheStart
<1>3. PICK i \in Signed :
        LET all == ForceFullImage(stream \o data, i)
        IN /\ ManifestOf(stream \o data, i)
           /\ Version[i] > version
           /\ \/ /\ Write(all, Flushed(all), 0, [u \in Units |-> Blank], FALSE)
                 /\ stream' = stream \o data
                 /\ processed' = processed + Len(data)
                 /\ expected' = Length[i]
                 /\ state' = "STATE_RECEIVE_FIRMWARE"
                 /\ err' = FALSE
              \/ /\ FsmError
                 /\ obj' \in {obj, [u \in Units |-> Blank]}
                 /\ stream' = SubSeq(stream \o data, 1, ManifestUnits)
                 /\ processed' = ManifestUnits
                 /\ buffer' = <<>>
                 /\ UNCHANGED <<expected, written, slipped>>
  BY DEF AcceptManifest
<1>4. [u \in Units |-> Blank] \in [Units -> Cells]
  BY DEF Cells
<1>5. CASE FsmError
  <2>1. /\ state' = "STATE_CLEAN" /\ err' = TRUE
        /\ obj' \in {obj, [u \in Units |-> Blank]}
        /\ stream' = SubSeq(stream \o data, 1, ManifestUnits)
        /\ processed' = ManifestUnits /\ buffer' = <<>>
        /\ UNCHANGED <<expected, written, slipped>>
    BY <1>3, <1>5 DEF FsmError
  <2>2. obj' \in [Units -> Cells] /\ buffer' \in Seq(Cells)
    BY <1>4, <2>1 DEF FsmInv, FsmTypeOK
  <2>3. stream' \in Seq(Cells) /\ processed' \in Nat /\ processed' = Len(stream')
    BY <1>2, <2>1, FsmAssumption
  <2>4. FsmTypeOK' /\ FromTheStart'
    BY <1>1, <2>1, <2>2, <2>3 DEF FsmInv, FsmTypeOK, FromTheStart, States
  <2> QED BY <2>1, <2>3, <2>4, NotStored
<1>6. CASE ~FsmError
  <2> DEFINE s == stream \o data
             all == ForceFullImage(s, i)
             n == Flushed(all)
  <2>1. /\ Write(all, n, 0, [u \in Units |-> Blank], FALSE)
        /\ stream' = s /\ processed' = processed + Len(data)
        /\ expected' = Length[i] /\ state' = "STATE_RECEIVE_FIRMWARE" /\ err' = FALSE
        /\ ManifestOf(s, i) /\ Version[i] > version
    BY <1>3, <1>6
  <2>2. /\ s \in Seq(Cells) /\ Len(s) = processed + Len(data) /\ Len(s) \in Nat
        /\ Len(s) >= ManifestUnits /\ Len(s) < ManifestUnits + MaxChunk /\ Len(s) >= 1
    BY <1>1, <1>2, FsmAssumption
  <2> HIDE DEF s
  <2>3. /\ all \in Seq(Cells) /\ Len(all) = Len(s)
        /\ \A k \in 2 .. Len(s) : all[k] = s[k]
        /\ all[1] \in {s[1], Altered}
    <3>1. CASE i \in Full
      BY <2>2, <3>1 DEF ForceFullImage
    <3>2. CASE i \notin Full
      <4>1. all = [s EXCEPT ![1] = Altered] /\ 1 \in 1 .. Len(s) /\ Altered \in Cells
        BY <2>2, <3>2 DEF ForceFullImage, Cells
      <4> QED BY <2>2, <4>1, ExceptSeq
    <3> QED BY <3>1, <3>2
  <2> HIDE DEF all
  <2>4. n \in Nat /\ n < Len(all)
    BY <2>2, <2>3, FlushedRange
  <2> HIDE DEF n
  <2>5. /\ buffer' \in Seq(Cells) /\ written' \in Nat /\ slipped' \in BOOLEAN
        /\ obj' \in [Units -> Cells]
        /\ written' = n /\ Len(buffer') = Len(all) - n
        /\ \A k \in 1 .. Len(all) - n : buffer'[k] = all[n + k]
        /\ \A u \in Units : 0 < u /\ u <= n => obj'[u] \in {all[u], Junk}
        /\ ~slipped' => \A u \in Units : 0 < u /\ u <= n => obj'[u] = all[u]
    <3> DEFINE blank == [u \in Units |-> Blank]
               zero == 0
    <3>1. /\ buffer' = SubSeq(all, n + 1, Len(all)) /\ written' = zero + n
          /\ obj' = Programmed(blank, zero, SubSeq(all, 1, n), ~slipped')
      BY <2>1 DEF Write
    <3>2. slipped' \in BOOLEAN
      BY <2>1 DEF Write
    <3>3. blank \in [Units -> Cells] /\ zero \in Nat /\ zero + n = n /\ n <= Len(all)
      BY <1>4, <2>2, <2>3, <2>4
    <3>5. \A u \in Units : u - zero = u
      BY FsmAssumption DEF Units
    <3> HIDE DEF blank, zero
    <3>4. /\ buffer' \in Seq(Cells) /\ obj' \in [Units -> Cells]
          /\ Moved(all, n, zero, blank, obj', buffer')
          /\ ~slipped' => MovedWell(all, n, zero, obj')
      BY <2>3, <2>4, <3>1, <3>2, <3>3, WriteKeeps
    <3> QED BY <2>4, <3>1, <3>2, <3>3, <3>4, <3>5 DEF zero, Moved, MovedWell
  <2>6. Length[i] \in Nat /\ Length[i] >= ManifestUnits + MaxChunk /\ Length[i] <= SlotUnits
    BY FsmAssumption, FirmwareAssumption
  <2>7. FsmTypeOK'
    BY <1>1, <2>1, <2>2, <2>5, <2>6 DEF FsmInv, FsmTypeOK, States
  <2>8. processed' = Len(stream')
    BY <2>1, <2>2
  <2>9. \A u \in 1 .. Len(s) : u \in Units
    BY <2>2, <2>6, FsmAssumption DEF Units
  <2>10. PipelineInOrder'
    <3>1. processed' = written' + Len(buffer')
      BY <2>1, <2>2, <2>3, <2>4, <2>5
    <3>2. ASSUME ~slipped', NEW u \in 2 .. processed'
          PROVE  stream'[u] = IF u <= written' THEN obj'[u] ELSE buffer'[u - written']
      <4>1. u \in 2 .. Len(s) /\ u \in Units /\ all[u] = s[u]
        BY <2>1, <2>2, <2>3, <2>9
      <4>2. CASE u <= written'
        BY <2>1, <2>5, <3>2, <4>1, <4>2
      <4>3. CASE ~(u <= written')
        <5>1. u - n \in 1 .. Len(all) - n /\ n + (u - n) = u
          BY <2>2, <2>3, <2>4, <2>5, <4>1, <4>3
        <5> QED BY <2>1, <2>5, <4>1, <4>3, <5>1
      <4> QED BY <4>2, <4>3
    <3> QED BY <2>8, <3>1, <3>2 DEF PipelineInOrder
  <2>11. WithinExpected'
    <3>1. ManifestUnits <= processed' /\ processed' < expected'
      BY <2>1, <2>2, <2>6, FsmAssumption
    <3> QED BY <1>1, <2>1, <3>1 DEF WithinExpected, ManifestOf
  <2>12. StoredManifest'
    <3>1. CASE n > 0
      <4>1. 1 \in Units
        BY <2>2, <2>9
      <4> QED BY <2>1, <2>3, <2>5, <3>1, <4>1 DEF StoredManifest
    <3>2. CASE n = 0
      <4>1. buffer'[1] = all[1]
        BY <2>2, <2>3, <2>5, <3>2
      <4> QED BY <2>1, <2>3, <2>5, <3>2, <4>1 DEF StoredManifest
    <3> QED BY <2>4, <3>1, <3>2
  <2> QED BY <2>1, <2>7, <2>8, <2>10, <2>11, <2>12 DEF FsmInv, FromTheStart, RebootVerified
<1> QED BY <1>5, <1>6

LEMMA Concatenated ==
  ASSUME NEW s \in Seq(Cells), NEW t \in Seq(Cells)
  PROVE  /\ s \o t \in Seq(Cells) /\ Len(s \o t) = Len(s) + Len(t)
         /\ \A k \in 1 .. Len(s) : (s \o t)[k] = s[k]
         /\ \A k \in 1 .. Len(t) : (s \o t)[Len(s) + k] = t[k]
OBVIOUS

\* More data is put behind the stream, and n cells move.
LEMMA Appended ==
  ASSUME NEW st \in Seq(Cells), NEW b \in Seq(Cells), NEW d \in Seq(Cells),
         NEW w \in Nat, NEW n \in Nat, NEW o, NEW o1, NEW b1,
         Len(st) = w + Len(b), Len(st) + Len(d) <= SlotUnits,
         InOrder(st, w, o, b),
         Moved(b \o d, n, w, o, o1, b1), MovedWell(b \o d, n, w, o1)
  PROVE  InOrder(st \o d, w + n, o1, b1)
<1> DEFINE all == b \o d
           s == st \o d
<1>1. /\ all \in Seq(Cells) /\ Len(all) = Len(b) + Len(d)
      /\ \A k \in 1 .. Len(b) : all[k] = b[k]
      /\ \A k \in 1 .. Len(d) : all[Len(b) + k] = d[k]
  BY Concatenated
<1>2. /\ s \in Seq(Cells) /\ Len(s) = Len(st) + Len(d)
      /\ \A k \in 1 .. Len(st) : s[k] = st[k]
      /\ \A k \in 1 .. Len(d) : s[Len(st) + k] = d[k]
  BY Concatenated, Zenon
<1>3. Len(b) \in Nat /\ Len(d) \in Nat /\ Len(st) \in Nat
  OBVIOUS
<1>4. /\ \A k \in 1 .. Len(all) - n : b1[k] = all[n + k]
      /\ \A u \in Units : u <= w => o1[u] = o[u]
      /\ \A u \in Units : w < u /\ u <= w + n => o1[u] = all[u - w]
  BY DEF Moved, MovedWell
<1>0. \A u \in 2 .. Len(st) : st[u] = IF u <= w THEN o[u] ELSE b[u - w]
  BY DEF InOrder
<1> SUFFICES ASSUME NEW u \in 2 .. Len(s)
             PROVE  s[u] = IF u <= w + n THEN o1[u] ELSE b1[u - (w + n)]
  BY Zenon DEF InOrder
<1> HIDE DEF all, s
<1>5. u \in Units /\ u \in Nat /\ u >= 2 /\ u <= Len(st) + Len(d)
  BY <1>2, <1>3, FsmAssumption DEF Units
<1>6. CASE u <= w
  <2>1. u \in 2 .. Len(st) /\ u \in 1 .. Len(st) /\ u <= w + n
    BY <1>3, <1>5, <1>6
  <2>2. st[u] = o[u] /\ o1[u] = o[u] /\ s[u] = st[u]
    BY <1>0, <1>2, <1>4, <1>5, <1>6, <2>1
  <2> QED BY <2>1, <2>2
<1>7. CASE u > w
  <2>1. s[u] = all[u - w]
    <3>1. CASE u <= Len(st)
      <4>1. u - w \in 1 .. Len(b) /\ u \in 2 .. Len(st) /\ u \in 1 .. Len(st) /\ ~(u <= w)
        BY <1>3, <1>5, <1>7, <3>1
      <4>2. st[u] = b[u - w]
        BY <1>0, <4>1
      <4> QED BY <1>1, <1>2, <4>1, <4>2
    <3>2. CASE u > Len(st)
      <4> DEFINE k == u - Len(st)
      <4>1. k \in 1 .. Len(d) /\ Len(st) + k = u /\ Len(b) + k = u - w
        BY <1>3, <1>5, <3>2
      <4> HIDE DEF k
      <4> QED BY <1>1, <1>2, <4>1
    <3> QED BY <1>3, <1>5, <3>1, <3>2
  <2>2. CASE u <= w + n
    BY <1>4, <1>5, <1>7, <2>1, <2>2
  <2>3. CASE u > w + n
    <3> DEFINE k == u - (w + n)
    <3>1. k \in 1 .. Len(all) - n /\ n + k = u - w /\ ~(u <= w + n)
      BY <1>1, <1>3, <1>5, <2>3
    <3>2. b1[k] = all[n + k]
      BY <1>4, <3>1
    <3> QED BY <2>1, <3>1, <3>2
  <2> QED BY <1>5, <2>2, <2>3
<1> QED BY <1>5, <1>6, <1>7

\* The cell that holds the start of the manifest, in the buffer or in the
\* object, under the same circumstances.
LEMMA FirstKept ==
  ASSUME NEW b \in Seq(Cells), NEW d \in Seq(Cells), NEW w \in Nat, NEW n \in Nat,
         NEW o, NEW o1, NEW b1, 1 \in Units, w + Len(b) >= 1, n <= Len(b) + Len(d),
         Moved(b \o d, n, w, o, o1, b1)
  PROVE  (IF w + n > 0 THEN o1[1] ELSE b1[1]) \in {IF w > 0 THEN o[1] ELSE b[1], Junk}
<1>0. /\ \A k \in 1 .. Len(b \o d) - n : b1[k] = (b \o d)[n + k]
      /\ \A u \in Units : u <= w => o1[u] = o[u]
      /\ \A u \in Units : w < u /\ u <= w + n => o1[u] \in {(b \o d)[u - w], Junk}
  BY DEF Moved
<1>1. CASE w > 0
  BY <1>0, <1>1
<1>2. CASE w = 0
  <2>1. (b \o d)[1] = b[1] /\ Len(b \o d) = Len(b) + Len(d) /\ Len(b) \in Nat /\ Len(b) >= 1
    BY <1>2
  <2>2. CASE n > 0
    BY <1>0, <1>2, <2>1, <2>2
  <2>3. CASE n = 0
    <3>1. b1[1] = (b \o d)[n + 1]
      BY <1>0, <2>1, <2>3
    <3> QED BY <1>2, <2>1, <2>3, <3>1
  <2> QED BY <2>2, <2>3
<1> QED BY <1>1, <1>2

\* data is accepted and n units leave the buffer, in STATE_RECEIVE_FIRMWARE.
Stores(data, n) ==
  /\ state = "STATE_RECEIVE_FIRMWARE"
  /\ processed + Len(data) <= expected
  /\ n <= Len(buffer) + Len(data)
  /\ buffer' = SubSeq(buffer \o data, n + 1, Len(buffer \o data))
  /\ written' = written + n
  /\ slipped' \in BOOLEAN /\ (slipped => slipped')
  /\ obj' = Programmed(obj, written, SubSeq(buffer \o data, 1, n), ~slipped')
  /\ stream' = stream \o data
  /\ processed' = processed + Len(data)

\* What FsmInv knows about the pipeline, after more data was put into it.
LEMMA StoreKeeps ==
  ASSUME FsmInv, NEW data \in Seq(Cells), NEW n \in Nat, Stores(data, n)
  PROVE  /\ stream' \in Seq(Cells) /\ processed' \in Nat /\ processed' = Len(stream')
         /\ buffer' \in Seq(Cells) /\ written' \in Nat /\ slipped' \in BOOLEAN
         /\ obj' \in [Units -> Cells]
         /\ written' = written + n /\ Len(buffer') = Len(buffer) + Len(data) - n
         /\ processed' = written' + Len(buffer')
         /\ \A u \in 1 .. ManifestUnits : stream'[u] = stream[u]
         /\ ~slipped' => InOrder(stream', written', obj', buffer')
         /\ (IF written' > 0 THEN obj'[1] ELSE buffer'[1]) \in {stream'[1], Altered, Junk}
<1> DEFINE all == buffer \o data
<1>1. /\ stream \in Seq(Cells) /\ buffer \in Seq(Cells) /\ written \in Nat
      /\ obj \in [Units -> Cells] /\ processed \in Nat /\ expected \in Nat
  BY DEF FsmInv, FsmTypeOK
<1>2. processed = Len(stream) /\ processed = written + Len(buffer)
  BY DEF FsmInv, PipelineInOrder, Stores
<1>3. ~slipped => InOrder(stream, written, obj, buffer)
  BY DEF FsmInv, PipelineInOrder, Stores, InOrder
<1>4. /\ processed >= ManifestUnits /\ ManifestUnits \in Nat /\ ManifestUnits >= 1
      /\ expected <= SlotUnits /\ SlotUnits \in Nat
  BY <1>1, FsmAssumption DEF FsmInv, WithinExpected, Stores
<1>5. (IF written > 0 THEN obj[1] ELSE buffer[1]) \in {stream[1], Altered, Junk}
  BY DEF FsmInv, StoredManifest, Stores
<1>6. all \in Seq(Cells) /\ Len(all) = Len(buffer) + Len(data)
  BY <1>1
<1>7. n <= Len(buffer) + Len(data) /\ n <= Len(all)
  BY <1>6 DEF Stores
<1>8. /\ written' = written + n /\ stream' = stream \o data
      /\ processed' = processed + Len(data) /\ processed + Len(data) <= expected
  BY DEF Stores
<1>0. slipped' \in BOOLEAN
  BY DEF Stores
<1>9. /\ buffer' \in Seq(Cells) /\ obj' \in [Units -> Cells]
      /\ Moved(all, n, written, obj, obj', buffer')
      /\ ~slipped' => MovedWell(all, n, written, obj')
  <2>1. /\ buffer' = SubSeq(all, n + 1, Len(all))
        /\ obj' = Programmed(obj, written, SubSeq(all, 1, n), ~slipped')
    BY DEF Stores
  <2> HIDE DEF all
  <2> QED BY <1>0, <1>1, <1>6, <1>7, <2>1, WriteKeeps
<1> HIDE DEF all
<1>10. /\ stream' \in Seq(Cells) /\ Len(stream') = processed + Len(data)
       /\ \A u \in 1 .. ManifestUnits : stream'[u] = stream[u]
  <2>1. /\ stream' \in Seq(Cells) /\ Len(stream') = processed + Len(data)
        /\ \A u \in 1 .. processed : stream'[u] = stream[u]
    <3>1. /\ stream \o data \in Seq(Cells)
          /\ Len(stream \o data) = Len(stream) + Len(data)
          /\ \A k \in 1 .. Len(stream) : (stream \o data)[k] = stream[k]
      BY <1>1, Concatenated, Zenon
    <3> QED BY <1>2, <1>8, <3>1, Zenon
  <2> QED BY <1>1, <1>4, <2>1
<1>11. Len(data) \in Nat /\ Len(buffer) \in Nat
  BY <1>1
<1>12. processed' = written' + Len(buffer')
  BY <1>1, <1>2, <1>6, <1>8, <1>9, <1>11 DEF Moved
<1>13. ASSUME ~slipped'
       PROVE  InOrder(stream', written', obj', buffer')
  <2>1. InOrder(stream, written, obj, buffer)
    BY <1>3, <1>13 DEF Stores
  <2>2. Len(stream) = written + Len(buffer) /\ Len(stream) + Len(data) <= SlotUnits
    BY <1>1, <1>2, <1>4, <1>8, <1>11
  <2>3. /\ Moved(buffer \o data, n, written, obj, obj', buffer')
        /\ MovedWell(buffer \o data, n, written, obj')
    BY <1>9, <1>13 DEF all
  <2>4. InOrder(stream \o data, written + n, obj', buffer')
    BY <1>1, <2>1, <2>2, <2>3, Appended
  <2> QED BY <1>8, <2>4
<1>14. (IF written' > 0 THEN obj'[1] ELSE buffer'[1]) \in {stream'[1], Altered, Junk}
  <2>0. /\ 1 \in Units /\ 1 \in 1 .. ManifestUnits
        /\ written + Len(buffer) >= 1
    BY <1>1, <1>2, <1>4, <1>8, <1>11 DEF Units
  <2>1. 1 \in Units /\ stream'[1] = stream[1] /\ written + Len(buffer) >= 1
    BY <1>10, <2>0
  <2>2. Moved(buffer \o data, n, written, obj, obj', buffer')
    BY <1>9 DEF all
  <2>3. (IF written + n > 0 THEN obj'[1] ELSE buffer'[1])
          \in {IF written > 0 THEN obj[1] ELSE buffer[1], Junk}
    BY <1>1, <1>7, <2>1, <2>2, FirstKept
  <2> QED BY <1>5, <1>8, <2>1, <2>3
<1>15. processed' \in Nat /\ processed' = Len(stream') /\ written' \in Nat
       /\ Len(buffer') = Len(buffer) + Len(data) - n
  BY <1>1, <1>6, <1>8, <1>9, <1>10, <1>11 DEF Moved
<1> QED BY <1>0, <1>8, <1>9, <1>10, <1>12, <1>13, <1>14, <1>15

LEMMA WriteStores ==
  ASSUME FsmInv, NEW data \in Seq(Cells), NEW n \in Nat, n <= Len(buffer) + Len(data),
         Write(buffer \o data, n, written, obj, slipped),
         state = "STATE_RECEIVE_FIRMWARE", processed + Len(data) <= expected,
         stream' = stream \o data, processed' = processed + Len(data)
  PROVE  Stores(data, n)
<1>1. slipped \in BOOLEAN
  BY DEF FsmInv, FsmTypeOK
<1>2. slipped' \in BOOLEAN /\ (slipped => slipped')
  BY <1>1 DEF Write
<1>3. /\ buffer' = SubSeq(buffer \o data, n + 1, Len(buffer \o data))
      /\ written' = written + n
      /\ obj' = Programmed(obj, written, SubSeq(buffer \o data, 1, n), ~slipped')
  BY DEF Write
<1> QED BY <1>2, <1>3 DEF Stores

LEMMA ReceiveFirmwareKeeps ==
  ASSUME FsmInv, NEW data \in Seq(Cells), Len(data) \in 1 .. MaxChunk,
         ReceiveFirmware(data)
  PROVE  FsmInv'
<1> DEFINE n == Flushed(buffer \o data)
<1>1. /\ state = "STATE_RECEIVE_FIRMWARE" /\ processed + Len(data) < expected
      /\ stream' = stream \o data /\ processed' = processed + Len(data) /\ err' = FALSE
      /\ state' = state /\ version' = version /\ expected' = expected
  BY DEF ReceiveFirmware
<1>2. /\ processed \in Nat /\ expected \in Nat /\ buffer \in Seq(Cells)
      /\ Len(data) \in Nat /\ Len(data) >= 1 /\ Len(buffer) \in Nat
  BY DEF FsmInv, FsmTypeOK
<1>3. buffer \o data \in Seq(Cells) /\ Len(buffer \o data) = Len(buffer) + Len(data)
  BY <1>2, Concatenated
<1>4. n \in Nat /\ n <= Len(buffer) + Len(data)
  <2> DEFINE all == buffer \o data
  <2>1. all \in Seq(Cells) /\ Len(all) = Len(buffer) + Len(data) /\ Len(all) > 0
    BY <1>2, <1>3
  <2> HIDE DEF all
  <2>2. Flushed(all) \in Nat /\ Flushed(all) < Len(all)
    BY <2>1, FlushedRange
  <2> QED BY <1>2, <2>1, <2>2 DEF all
<1>5. Stores(data, n)
  <2>1. Write(buffer \o data, n, written, obj, slipped) /\ processed + Len(data) <= expected
    BY <1>1, <1>2 DEF ReceiveFirmware
  <2> QED BY <1>1, <1>4, <2>1, WriteStores
<1> HIDE DEF n
<1>6. /\ stream' \in Seq(Cells) /\ processed' \in Nat /\ processed' = Len(stream')
      /\ buffer' \in Seq(Cells) /\ written' \in Nat /\ slipped' \in BOOLEAN
      /\ obj' \in [Units -> Cells]
      /\ processed' = written' + Len(buffer')
      /\ \A u \in 1 .. ManifestUnits : stream'[u] = stream[u]
      /\ ~slipped' => InOrder(stream', written', obj', buffer')
      /\ (IF written' > 0 THEN obj'[1] ELSE buffer'[1]) \in {stream'[1], Altered, Junk}
  BY <1>4, <1>5, StoreKeeps
<1>7. FsmTypeOK'
  BY <1>1, <1>6 DEF FsmInv, FsmTypeOK
<1>8. PipelineInOrder'
  BY <1>6 DEF PipelineInOrder, InOrder
<1>9. WithinExpected'
  <2>1. ManifestUnits <= processed /\ ManifestUnits \in Nat
    BY <1>1, FsmAssumption DEF FsmInv, WithinExpected
  <2>2. ManifestUnits <= processed' /\ processed' < expected'
    BY <1>1, <1>2, <2>1
  <2>3. PICK i \in Signed : expected = Length[i] /\ Version[i] > version /\ ManifestOf(stream, i)
    BY <1>1 DEF FsmInv, WithinExpected
  <2>4. ManifestOf(stream', i)
    BY <1>6, <2>3 DEF ManifestOf
  <2> QED BY <1>1, <2>2, <2>3, <2>4 DEF WithinExpected, ManifestOf
<1>10. StoredManifest'
  BY <1>6 DEF StoredManifest
<1> QED BY <1>1, <1>6, <1>7, <1>8, <1>9, <1>10 DEF FsmInv, FromTheStart, RebootVerified

\* The image that verify_object finds can only be the one whose manifest was
\* compared with the running version: its first unit tells.
LEMMA VerifyFirmwareKeeps ==
  ASSUME FsmInv, NEW data \in Seq(Cells), Len(data) \in 1 .. MaxChunk,
         VerifyFirmware(data)
  PROVE  FsmInv'
<1> DEFINE n == Len(buffer) + Len(data)
<1>1. /\ state = "STATE_RECEIVE_FIRMWARE" /\ processed + Len(data) = expected
      /\ stream' = stream \o data /\ processed' = processed + Len(data)
      /\ version' = version /\ expected' = expected
  BY DEF VerifyFirmware
<1>2. /\ processed \in Nat /\ expected \in Nat /\ buffer \in Seq(Cells)
      /\ Len(data) \in Nat /\ Len(data) >= 1 /\ Len(buffer) \in Nat
  BY DEF FsmInv, FsmTypeOK
<1>3. \/ VerifyObject(obj') /\ state' = "STATE_REBOOT" /\ err' = FALSE
      \/ state' = "STATE_IDLE" /\ err' = TRUE
  BY DEF VerifyFirmware
<1>4. n \in Nat /\ n <= Len(buffer) + Len(data) /\ n >= 1
  BY <1>2
<1>5. Stores(data, n)
  <2>1. Write(buffer \o data, n, written, obj, slipped) /\ processed + Len(data) <= expected
    BY <1>1, <1>2 DEF VerifyFirmware
  <2> QED BY <1>1, <1>4, <2>1, WriteStores
<1> HIDE DEF n
<1>6. /\ stream' \in Seq(Cells) /\ processed' \in Nat /\ processed' = Len(stream')
      /\ buffer' \in Seq(Cells) /\ written' \in Nat /\ slipped' \in BOOLEAN
      /\ obj' \in [Units -> Cells] /\ written' = written + n
      /\ \A u \in 1 .. ManifestUnits : stream'[u] = stream[u]
      /\ (IF written' > 0 THEN obj'[1] ELSE buffer'[1]) \in {stream'[1], Altered, Junk}
  BY <1>4, <1>5, StoreKeeps
<1>7. FsmTypeOK'
  BY <1>1, <1>3, <1>6 DEF FsmInv, FsmTypeOK, States
<1>8. PICK i \in Signed : expected = Length[i] /\ Version[i] > version /\ ManifestOf(stream, i)
  BY <1>1 DEF FsmInv, WithinExpected
<1>9. /\ i \in Images /\ \A j \in Images : Length[j] \in Nat /\ Length[j] > ManifestUnits
      /\ ManifestUnits \in Nat /\ ManifestUnits >= 1
  BY <1>8, FsmAssumption
<1>10. FromTheStart'
  BY <1>1, <1>2, <1>8, <1>9 DEF FromTheStart
<1>11. RebootVerified'
  <2> SUFFICES ASSUME state' = "STATE_REBOOT"
               PROVE  Holds(obj', i)
    BY <1>1, <1>8 DEF RebootVerified, Holds
  <2>1. PICK j \in Signed : Holds(obj', j)
    BY <1>3 DEF VerifyObject
  <2>2. j \in Images /\ 1 \in 1 .. Length[j] /\ 1 \in 1 .. ManifestUnits
    BY <1>9, FsmAssumption
  <2>3. obj'[1] = <<j, 1>>
    BY <2>1, <2>2 DEF Holds
  <2>4. stream'[1] = <<i, 1>>
    BY <1>6, <1>8, <2>2 DEF ManifestOf
  <2>5. written \in Nat /\ written' > 0
    BY <1>4, <1>6 DEF FsmInv, FsmTypeOK
  <2>6. <<j, 1>> \in {<<i, 1>>, Altered, Junk}
    BY <1>6, <2>3, <2>4, <2>5
  <2>7. j = i
    BY <2>2, <2>6, FsmAssumption DEF Images, Altered, Junk
  <2> QED BY <2>1, <2>7
<1>12. state' \notin {"STATE_RECEIVE_FIRMWARE"}
  BY <1>3
<1> QED BY <1>6, <1>7, <1>10, <1>11, <1>12
        DEF FsmInv, PipelineInOrder, WithinExpected, StoredManifest

----------------------------------------------------------------------------
\* Whatever a transport passes to fsm, FsmInv still holds when it returns.
THEOREM FsmKeeps ==
  ASSUME FsmInv, NEW msg, Deliverable(msg), Fsm(msg)
  PROVE  FsmInv'
<1>1. msg.data \in Seq(Cells) /\ Len(msg.data) \in 1 .. MaxChunk
  BY DEF Deliverable
<1>2. CASE Idle(msg)
  BY <1>2, IdleKeeps
<1>3. CASE StartUpdate(Len(msg.data))
  BY <1>3, StartUpdateKeeps
<1>4. CASE StaleManifest
  BY <1>4, ErrorKeeps DEF StaleManifest
<1>5. CASE ReceiveManifest(msg.data)
  BY <1>1, <1>5, ReceiveManifestKeeps
<1>6. CASE RejectManifest(msg.data)
  BY <1>1, <1>6, RejectManifestKeeps
<1>7. CASE AcceptManifest(msg.data)
  BY <1>1, <1>7, AcceptManifestKeeps
<1>8. CASE TooMuchFirmware(msg.data)
  BY <1>8, ErrorKeeps DEF TooMuchFirmware
<1>9. CASE ReceiveFirmware(msg.data)
  BY <1>1, <1>9, ReceiveFirmwareKeeps
<1>10. CASE VerifyFirmware(msg.data)
  BY <1>1, <1>10, VerifyFirmwareKeeps
<1>11. CASE Rebooting
  BY <1>11, RebootingKeeps
<1> QED BY <1>2, <1>3, <1>4, <1>5, <1>6, <1>7, <1>8, <1>9, <1>10, <1>11 DEF Fsm

LEMMA ImageIsData ==
  ASSUME NEW i \in Images
  PROVE  Image(i) \in Seq(Cells) /\ Len(Image(i)) = Length[i]
<1>1. Length[i] \in Nat /\ Length[i] <= SlotUnits /\ SlotUnits \in Nat
  BY FsmAssumption
<1>2. \A u \in 1 .. Length[i] : <<i, u>> \in Cells
  BY <1>1 DEF Cells, Units
<1> QED BY <1>1, <1>2 DEF Image

LEMMA FsmInitHolds ==
  ASSUME FsmInit, obj \in [Units -> Cells]
  PROVE  FsmInv
<1>1. /\ state = "STATE_IDLE" /\ version = RunningVersion /\ processed = 0
      /\ expected = 0 /\ stream = <<>> /\ buffer = <<>> /\ written = 0
  BY DEF FsmInit
<1>2. slipped \in BOOLEAN /\ err \in BOOLEAN
  BY DEF FsmInit
<1>3. /\ version \in Nat /\ processed # ManifestUnits
      /\ stream \in Seq(Cells) /\ buffer \in Seq(Cells) /\ Len(stream) = 0
  BY <1>1, FsmAssumption
<1>4. FsmTypeOK
  BY <1>1, <1>2, <1>3 DEF FsmTypeOK, States
<1> QED BY <1>1, <1>3, <1>4 DEF FsmInv, FromTheStart, PipelineInOrder, WithinExpected,
                               StoredManifest, RebootVerified

LEMMA FsmStutters ==
  ASSUME FsmInv, UNCHANGED fsmVars
  PROVE  FsmInv'
<1>1. /\ state' = state /\ version' = version /\ processed' = processed
      /\ expected' = expected /\ stream' = stream /\ buffer' = buffer
      /\ written' = written /\ obj' = obj
  BY DEF fsmVars
<1>2. slipped' = slipped /\ err' = err
  BY Zenon DEF fsmVars
<1>3. FsmTypeOK'
  BY <1>1, <1>2 DEF FsmInv, FsmTypeOK
<1>4. PipelineInOrder'
  BY <1>1, <1>2, Zenon DEF FsmInv, PipelineInOrder
<1> QED BY <1>1, <1>3, <1>4 DEF FsmInv, FromTheStart, WithinExpected,
                               StoredManifest, RebootVerified, Holds, ManifestOf
=============================================================================
