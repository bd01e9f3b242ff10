----------------------------- MODULE UpdateFsm -----------------------------
(***************************************************************************)
(* The finite state machine that turns what the network delivers into an   *)
(* image in a slot: fsm_init, fsm and the pipeline behind them (buffer and *)
(* writer; diff_version is forced to 0, so that lzss and bspatch are never *)
(* part of it).  Every call of fsm is one action, the states it falls      *)
(* through included.                                                       *)
(*                                                                         *)
(* Data is counted in units, parts of an image smaller than a manifest.    *)
(* <<i, u>> is unit u of image i, which starts with the manifest; the pairs*)
(* <<0, _>> are what belongs to no image.                                  *)
(***************************************************************************)
EXTENDS Integers, Sequences

CONSTANTS
  NImages,        \* the images that a server may send are 1..NImages
  Version,        \* Version[i]: vendor.version of image i
  Length,         \* Length[i]: vendor.offset + server.prop_size of image i
  Signed,         \* the images whose manifest passes verify_manifest as sent
  Full,           \* the images sent with diff_version 0
  RunningVersion, \* what get_newest_firmware finds in the bootable slots
  ManifestUnits,  \* sizeof(manifest_t)
  MsgUnits,       \* sizeof(receiver_msg_t)
  BufferUnits,    \* BUFFER_LEN of the buffer stage
  SlotUnits,      \* size of the slot that is written
  MaxChunk,       \* the longest data that a transport delivers at once
  FsmFaults       \* the operations that may fail: "rng", "open", "write", "read"

Images == 1 .. NImages
Units == 1 .. SlotUnits

ASSUME FsmAssumption ==
  /\ NImages \in Nat /\ RunningVersion \in Nat /\ SlotUnits \in Nat
  /\ ManifestUnits \in Nat \ {0} /\ MsgUnits \in Nat \ {0} /\ BufferUnits \in Nat \ {0}
  /\ Version \in [Images -> Nat]
  /\ Length \in [Images -> ManifestUnits + 1 .. SlotUnits]
  /\ Signed \subseteq Images /\ Full \subseteq Images
  /\ MaxChunk \in Nat \ {0}

\* The data that completes a manifest does not complete the firmware as well:
\* only STATE_RECEIVE_FIRMWARE looks whether all of it has come.
ASSUME FirmwareAssumption == \A i \in Images : Length[i] >= ManifestUnits + MaxChunk

Junk    == <<0, 0>>  \* neither erased nor part of an image
Blank   == <<0, 1>>  \* erased
Altered == <<0, 2>>  \* the part of a manifest whose diff_version was changed

Cells == (Images \X Units) \cup {Junk, Blank, Altered}

VARIABLES
  state,      \* ctx->state
  version,    \* ctx->version
  processed,  \* ctx->processed
  expected,   \* ctx->expected
  stream,     \* what was accepted since processed was 0: is->mt holds the
              \* first ManifestUnits units, the rest is history
  buffer,     \* the used part of the buffer stage
  written,    \* written of the writer stage
  slipped,    \* a memory_write failed, so written is off from then on
  obj,        \* contents of the slot
  err         \* the last call returned an error

fsmVars == <<state, version, processed, expected, stream, buffer, written,
             slipped, obj, err>>

States ==
  {"STATE_CLEAN", "STATE_IDLE", "STATE_START_UPDATE", "STATE_RECEIVE_MANIFEST",
   "STATE_RECEIVE_FIRMWARE", "STATE_REBOOT"}

FsmTypeOK ==
  /\ state \in States
  /\ version \in Nat
  /\ processed \in Nat
  /\ expected \in Nat
  /\ stream \in Seq(Cells)
  /\ buffer \in Seq(Cells)
  /\ written \in Nat
  /\ slipped \in BOOLEAN
  /\ obj \in [Units -> Cells]
  /\ err \in BOOLEAN

----------------------------------------------------------------------------
(* Messages. *)

\* What a call of fsm gets: a buffer as long as a version_t, which is data as
\* well if the machine is in a state that wants data, or a longer one.
NoVersion == -1
VersionMsg(v) == [version |-> v, data |-> <<Junk>>]
DataMsg(d) == [version |-> NoVersion, data |-> d]

Image(i) == [u \in 1 .. Length[i] |-> <<i, u>>]

\* Holds(o, i): verify_object would find image i in the object, unchanged.
Holds(o, i) == \A u \in 1 .. Length[i] : o[u] = <<i, u>>
VerifyObject(o) == \E i \in Signed : Holds(o, i)

\* is->mt holds the manifest of image i.
ManifestOf(mt, i) == \A u \in 1 .. ManifestUnits : mt[u] = <<i, u>>

\* is->mt.server.diff_version = 0, after the signature was verified.
ForceFullImage(mt, i) == IF i \in Full THEN mt ELSE [mt EXCEPT ![1] = Altered]

----------------------------------------------------------------------------
(* The pipeline. *)

\* Units of data programmed behind the first `from` units of o.
Programmed(o, from, data, good) ==
  [u \in Units |-> IF from < u /\ u <= from + Len(data)
                   THEN IF good THEN data[u - from] ELSE Junk
                   ELSE o[u]]

\* buffer_pipeline passes the buffer on when it is full and more data comes.
Flushed(all) == BufferUnits * ((Len(all) - 1) \div BufferUnits)

\* n units leave the buffer for the object.  The result of the writer is not
\* looked at.  A failed memory_write returns -1, which is added to written, so
\* that all that follows lands in the wrong place.
Write(all, n, written0, obj0, slipped0) ==
  /\ buffer' = SubSeq(all, n + 1, Len(all))
  /\ written' = written0 + n
  /\ slipped' \in {slipped0} \cup (IF n > 0 /\ "write" \in FsmFaults THEN {TRUE} ELSE {})
  /\ obj' = Programmed(obj0, written0, SubSeq(all, 1, n), ~slipped')

----------------------------------------------------------------------------
(* fsm. *)

FsmInit ==
  /\ state = "STATE_IDLE"
  /\ version = RunningVersion
  /\ processed = 0 /\ expected = 0
  /\ stream = <<>>
  /\ buffer = <<>> /\ written = 0 /\ slipped = FALSE
  /\ err = FALSE

\* Back to STATE_CLEAN with an error; processed keeps its value until the next
\* call.
FsmError ==
  /\ state' = "STATE_CLEAN"
  /\ err' = TRUE

\* STATE_CLEAN falls through to STATE_IDLE: a newer version starts an update.
Idle(msg) ==
  /\ state \in {"STATE_CLEAN", "STATE_IDLE"}
  /\ IF state = "STATE_CLEAN" THEN processed' = 0 /\ stream' = <<>>
                              ELSE UNCHANGED <<processed, stream>>
  /\ IF msg.version = NoVersion THEN FsmError
     ELSE /\ state' = IF msg.version <= version THEN "STATE_IDLE" ELSE "STATE_START_UPDATE"
          /\ err' = FALSE
  /\ UNCHANGED <<version, expected, buffer, written, slipped, obj>>

\* The caller's buffer, of len units, is filled with the identity and a nonce.
StartUpdate(len) ==
  /\ state = "STATE_START_UPDATE"
  /\ \/ /\ len >= MsgUnits
        /\ state' = "STATE_RECEIVE_MANIFEST"
        /\ err' = FALSE
     \/ /\ len < MsgUnits \/ "rng" \in FsmFaults
        /\ FsmError
  /\ UNCHANGED <<version, processed, expected, stream, buffer, written, slipped, obj>>

\* More bytes were processed than a manifest has.
StaleManifest ==
  /\ state = "STATE_RECEIVE_MANIFEST"
  /\ processed > ManifestUnits
  /\ FsmError
  /\ UNCHANGED <<version, processed, expected, stream, buffer, written, slipped, obj>>

\* The manifest is still incomplete.
ReceiveManifest(data) ==
  /\ state = "STATE_RECEIVE_MANIFEST"
  /\ processed + Len(data) < ManifestUnits
  /\ stream' = stream \o data
  /\ processed' = processed + Len(data)
  /\ err' = FALSE
  /\ UNCHANGED <<state, version, expected, buffer, written, slipped, obj>>

\* STATE_VERIFY_MANIFEST, entered when the manifest is complete: a manifest
\* that is not newer or not genuine ends the update, ...
RejectManifest(data) ==
  /\ state = "STATE_RECEIVE_MANIFEST"
  /\ processed <= ManifestUnits
  /\ processed + Len(data) >= ManifestUnits
  /\ ~\E i \in Signed : ManifestOf(stream \o data, i) /\ Version[i] > version
  /\ FsmError
  /\ stream' = SubSeq(stream \o data, 1, ManifestUnits)
  /\ processed' = ManifestUnits
  /\ UNCHANGED <<version, expected, buffer, written, slipped, obj>>

\* ... and a good one is stored, with the data that came behind it, in a slot
\* that memory_open erases first.
AcceptManifest(data) ==
  /\ state = "STATE_RECEIVE_MANIFEST"
  /\ processed <= ManifestUnits
  /\ processed + Len(data) >= ManifestUnits
  /\ \E i \in Signed :
       LET all == ForceFullImage(stream \o data, i)
       IN /\ ManifestOf(stream \o data, i)
          /\ Version[i] > version
          /\ \/ /\ Write(all, Flushed(all), 0, [u \in Units |-> Blank], FALSE)
                /\ stream' = stream \o data
                /\ processed' = processed + Len(data)
                /\ expected' = Length[i]
                /\ state' = "STATE_RECEIVE_FIRMWARE"
                /\ err' = FALSE
             \/ /\ "open" \in FsmFaults
                /\ FsmError
                /\ obj' \in {obj, [u \in Units |-> Blank]}
                /\ stream' = SubSeq(stream \o data, 1, ManifestUnits)
                /\ processed' = ManifestUnits
                /\ buffer' = <<>>
                /\ UNCHANGED <<expected, written, slipped>>
  /\ UNCHANGED version

\* More data than the manifest announced.
TooMuchFirmware(data) ==
  /\ state = "STATE_RECEIVE_FIRMWARE"
  /\ processed + Len(data) > expected
  /\ FsmError
  /\ UNCHANGED <<version, processed, expected, stream, buffer, written, slipped, obj>>

\* Mutants of ReceiveFirmware: the end is looked for with an inequality, and
\* what was in the buffer is lost.
ReceiveUnbounded(data) ==
  /\ state = "STATE_RECEIVE_FIRMWARE"
  /\ processed + Len(data) # expected
  /\ Write(buffer \o data, Flushed(buffer \o data), written, obj, slipped)
  /\ stream' = stream \o data
  /\ processed' = processed + Len(data)
  /\ err' = FALSE
  /\ UNCHANGED <<state, version, expected>>

ReceiveForgetful(data) ==
  /\ state = "STATE_RECEIVE_FIRMWARE"
  /\ processed + Len(data) < expected
  /\ Write(data, Flushed(data), written, obj, slipped)
  /\ stream' = stream \o data
  /\ processed' = processed + Len(data)
  /\ err' = FALSE
  /\ UNCHANGED <<state, version, expected>>

\* More of the firmware: fed to the pipeline.
ReceiveFirmware(data) ==
  /\ state = "STATE_RECEIVE_FIRMWARE"
  /\ processed + Len(data) < expected
  /\ Write(buffer \o data, Flushed(buffer \o data), written, obj, slipped)
  /\ stream' = stream \o data
  /\ processed' = processed + Len(data)
  /\ err' = FALSE
  /\ UNCHANGED <<state, version, expected>>

\* A mutant of VerifyFirmware: the object is not verified.
RebootUnverified(data) ==
  /\ state = "STATE_RECEIVE_FIRMWARE"
  /\ processed + Len(data) = expected
  /\ Write(buffer \o data, Len(buffer) + Len(data), written, obj, slipped)
  /\ stream' = stream \o data
  /\ processed' = processed + Len(data)
  /\ state' = "STATE_REBOOT"
  /\ err' = FALSE
  /\ UNCHANGED <<version, expected>>

\* The last data: the buffer is cleared, and STATE_VERIFY_FIRMWARE follows.
VerifyFirmware(data) ==
  /\ state = "STATE_RECEIVE_FIRMWARE"
  /\ processed + Len(data) = expected
  /\ Write(buffer \o data, Len(buffer) + Len(data), written, obj, slipped)
  /\ stream' = stream \o data
  /\ processed' = processed + Len(data)
  /\ \/ /\ VerifyObject(obj')
        /\ state' = "STATE_REBOOT"
        /\ err' = FALSE
     \/ /\ ~VerifyObject(obj') \/ "read" \in FsmFaults
        /\ state' = "STATE_IDLE"
        /\ err' = TRUE
  /\ UNCHANGED <<version, expected>>

\* STATE_REBOOT ignores whatever comes.
Rebooting ==
  /\ state = "STATE_REBOOT"
  /\ err' = FALSE
  /\ UNCHANGED <<state, version, processed, expected, stream, buffer, written, slipped, obj>>

\* fsm(ctx, buf, len)
Fsm(msg) ==
  \/ Idle(msg)
  \/ StartUpdate(Len(msg.data))
  \/ StaleManifest
  \/ ReceiveManifest(msg.data)
  \/ RejectManifest(msg.data)
  \/ AcceptManifest(msg.data)
  \/ TooMuchFirmware(msg.data)
  \/ ReceiveFirmware(msg.data)
  \/ VerifyFirmware(msg.data)
  \/ Rebooting

----------------------------------------------------------------------------
\* STATE_REBOOT promises a complete and genuine image that is newer than the
\* running one.  verify_object does not look at the version and the manifest
\* that was compared is not the one that is verified in the end: it takes the
\* whole pipeline to make them the same.
RebootVerified ==
  state = "STATE_REBOOT" =>
    \E i \in Signed : Holds(obj, i) /\ Version[i] > version

\* What the object and the buffer hold together is what was accepted from the
\* network, in order and without a gap, unless a write failed (or the manifest
\* had to be changed): fsm, buffer and writer each keep a count of their own.
PipelineInOrder ==
  state = "STATE_RECEIVE_FIRMWARE" =>
    /\ processed = Len(stream)
    /\ processed = written + Len(buffer)
    /\ ~slipped =>
         \A u \in 2 .. processed :
           stream[u] = IF u <= written THEN obj[u] ELSE buffer[u - written]

\* The length that ends the download is that of the accepted manifest, and the
\* machine never waits for data when it has all of it.
WithinExpected ==
  state = "STATE_RECEIVE_FIRMWARE" =>
    /\ ManifestUnits <= processed /\ processed < expected
    /\ \E i \in Signed :
         expected = Length[i] /\ Version[i] > version /\ ManifestOf(stream, i)

----------------------------------------------------------------------------
(* The inductive invariant behind these properties. *)

\* A manifest is received from its start, or not at all: STATE_IDLE is entered
\* either with nothing processed or with a whole image.
FromTheStart ==
  state \in {"STATE_IDLE", "STATE_START_UPDATE", "STATE_RECEIVE_MANIFEST"} =>
    processed # ManifestUnits

\* The manifest that is stored belongs to the image that was accepted, unless
\* it had to be changed or was not written properly.
StoredManifest ==
  state = "STATE_RECEIVE_FIRMWARE" =>
    (IF written > 0 THEN obj[1] ELSE buffer[1]) \in {stream[1], Altered, Junk}

FsmInv ==
  /\ FsmTypeOK
  /\ processed = Len(stream)
  /\ FromTheStart
  /\ PipelineInOrder
  /\ WithinExpected
  /\ StoredManifest
  /\ RebootVerified
=============================================================================
