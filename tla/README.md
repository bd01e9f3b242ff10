# A TLA+ model of UpKit (libpull)

UpKit updates the firmware of small devices over the air.  An *update agent* inside
the running application obtains an image, either by polling a CoAP server (pull) or
from a BLE gateway (push), and writes it into a memory slot.  After a reboot the
*bootloader agent* chooses, verifies and, if necessary, swaps the image into a
bootable slot and starts it.  This directory holds TLA+ models of that path, from the
first message to the jump into the new image, and of what feeds it: the testing server and
the firmware tool that makes manifests and patches.  TLC configurations check the models on
small instances, TLAPS proofs establish the main properties for all sizes.

Paths below are relative to the root of the repository.

## 1. Inventory

| Component | State | Operations | Interacts with | What is hard | What makes it correct |
|---|---|---|---|---|---|
| Memory objects on flash (`src/core/memory/memory_flash.c`, `memory_impl.c`, platform drivers) | contents of the slots, of SWAP and of the bootloader context | open (WRITE_ALL erases), read, write (SEQUENTIAL_REWRITE erases at page starts), close | vendor flash drivers | page boundaries, failing accesses, power loss between erase and program | a block is programmed only while it is erased |
| Memory helpers (`memory_objects.c`) | none of their own | `get_ordered_firmware`, `swap_slots`, `copy_firmware`, `invalidate_object` | memory objects, manifests | erased and zeroed manifests, ties, lost errors, partial swaps | the scan is a maximum; the swap is an exchange |
| Bootloader agent (`src/agents/bootloader_agent.c`) | `FIRST_BOOT` in flash, statics | one run per reset: choose, bootstrap, compare, verify, swap, verify, boot | memory helpers, verifier, driver | resets anywhere, skipped re-verification, two builds with different control flow | only verified images start; versions never go back; a download is started |
| State machine (`src/core/network/fsm.c`) | `state`, `version`, `processed`, `expected`, manifest | `fsm_init`, `fsm`, `update_receiver_msg` | pipeline, verifier, memory | called with anything in any state; stale counters after errors | STATE_REBOOT means a complete, genuine, newer image |
| Pipeline (`src/core/pipeline`) | buffer, count of written bytes, patch state | `process`, `clear` of each stage | memory | limits of the buffer, lost write errors | what is stored is what was received, in order |
| BLE service (`src/network/ble/zephyr_ble.c`) | the state machine | write version, read receiver message, write image | state machine | characteristics used in any order | a verified image is not touched any more |
| Update agent (`src/agents/update.c`, `src/core/network/request.c`) | position, receiver message, error of the last request | subscribe, get message, receive, apply | connection, state machine | timeouts, repeated requests, errors overwritten | it ends; it resumes where it stopped; an apply event does no harm |
| libcoap connection (`src/network/coap/libcoap`) | loop flag, blockwise context | request, response handler, loop with timeout | network, request callback | late responses, next block requested before this one is processed | blocks in order, none twice |
| zoap connection (`src/network/coap/zoap`) | semaphore, blockwise context, a callback that stays registered | request, `udp_receive`, loop with timeout | network, request callback | a callback outside of the loop, a block context that is never initialised | the same |
| er-coap connection | as above, on Contiki-NG | blocking request in a protothread | Contiki-NG | | not modelled |
| Verifier, manifest (`src/core/security/verifier.c`, `simple_manifest.c`) | none | verify manifest, digest, object; sign | crypto backends | short images, sizes that are not checked | what is genuine verifies, what is not does not |
| Pipeline stages lzss, bspatch (`src/core/pipeline`) | a suspended coroutine each | one call per chunk | each other, writer | input cut anywhere: inside a bit field, a number, a block | what is handed on does not depend on the cuts and is the new image |
| Firmware tool (`utils/firmware_tool`) | none | compress, decompress, diff, patch; generate and validate a manifest | files | suffix sort, overlapping extensions, the padding of the last byte | the device undoes what the tool did |
| Testing server (`utils/server`) | one manifest in memory, mapped privately | /version, /next_version, /firmware; restart | several devices | one manifest for all, changed between the blocks of a download | a device accepts only a manifest that was made for it |
| Crypto backends, safestore, rng, loaders, tests | | | | | signing and verifying as records; otherwise not modelled |

`PROJECT.json` lists the hazards at their lines, with the properties that cover them.

## 2. Modules

```
Flash            memory objects, manifests as they read, verification as a predicate
  OrderedFirmware      get_ordered_firmware          -> OrderedFirmwareProofs
  SwapSlots            swap_slots; refines Exchange  -> SwapSlotsProofs
    Bootloader         bootloader agent + driver + application + power -> BootloaderProofs
Exchange         abstract: two objects change places in one step
UpdateFsm        fsm with buffer and writer          -> UpdateFsmProofs
  BlePush              GATT service and gateway      -> BlePushProofs
  PullAgent            update agent, libcoap and zoap, network, server -> PullAgentProofs
Manifest         fields, signatures, verifier, manifest commands of the tool
  Provisioning         testing server and several devices -> ProvisioningProofs
LzssCodec        encoder, decoder of the tool, decoder of the device
BsdiffCodec      diff and patch of the tool, patching stage of the device
  SuffixSort           the suffix sort of the tool
  DeltaUpdate          the chain of both, cut into chunks (with LzssCodec) -> DeltaUpdateProofs
MC*              instances for TLC
```

**Flash.** A *block* is what one read/write pair of `swap_chunk` moves; block 0 has the
manifest.  The value of a block is `<<i, b>>` (block b of image i) or erased, zeroed or
torn (programmed over something else).  An erased manifest shows version 0xFFFF
(`MaxVersion`) and a size beyond every slot, a zeroed one shows 0 and 0: these readings
decide what the bootloader and the downloader choose after an interruption.
`VerifyObject` says that the object has every block of one image whose stored manifest
verifies: signatures and digests are taken as perfect.

**OrderedFirmware** has the loop of `get_ordered_firmware` turn by turn, with its locals
(`bootable` starts with any value, as in the code).  `ScanCorrect` ties it to
`NewestFirmware`/`OldestFirmware` of Flash, which the other modules use.

**SwapSlots.** One action per flash operation: `SwapErase`, `SwapProgram`; `SwapFault`
for a failing access, of which the code notices only the one in the first of the three
copies; `SwapOverrun` for a size that came from an erased manifest.  `Exchange` is the
promise; the refinement mapping reconstructs the two original images from the progress
of the loop (`SourceBlock`, `DestinationBlock`).

**Bootloader.** `pc` is the place in `bootloader_agent`.  `GetNewestFirmware`,
`Bootstrap`, `InvalidateSlot`, `StoreBootloaderCtx`, `GetNewestNonBootable`,
`ValidateNonBootable`, `Upgrade`, `SwapStep`, `UpgradeCopyStop`, `ValidateBootable`,
`Boot` follow the numbered comments of the source; each has the failure events of its
stage, enabled by `Faults`.  `Coroutines` selects the build: without coroutines
`PULL_CONTINUE` is empty and the agent passes over EVENT_VALIDATE_NON_BOOTABLE_INVALID.
`Download` is what the state machine does to the slots (all of an image, a part, or an
erasure that was cut off), `Reset` a power loss at any point.

**UpdateFsm.** One action per call of `fsm` and path through it: the falls through from
STATE_CLEAN to STATE_IDLE, from STATE_RECEIVE_MANIFEST to STATE_VERIFY_MANIFEST and from
STATE_RECEIVE_FIRMWARE to STATE_VERIFY_FIRMWARE are inside the actions, so that the two
VERIFY states never are states between calls.  Data is counted in units, smaller than a
manifest, so that manifests arrive in parts and data crosses the limits of the buffer.
An image that is sent as a difference (outside `Full`) has its `diff_version` set to 0
after its signature was verified, so that what is stored does not verify.

**BlePush** lets a gateway write any version or any part of any image in any state.

**PullAgent** has `update_agent` without coroutines and `request_cb`; `transport` is the
connection of the build.  With libcoap, the handler runs inside the loop, notes error codes
and refuses a block it does not expect (`HandlerLibcoap`).  With zoap, the callback stays
registered from the first loop to `conn_end`, takes whatever has a payload for data, and
reads whether more blocks follow from a context that nobody initialised: `UdpReceive` lets
it see either answer.  Requests and responses are bags: any order, loss (`Lose`), delay
beyond the timeout (`LoopReturns` with messages under way).  `ServerAssumption` is what
`resource_firmware` does: it signs `diff_version = msg->version`, so that only a device of
version 0 is sent what the state machine accepts as a full image in the end.

**Manifest.** A digest is what was hashed, a signature the record of what was signed with
which key, plus a salt that tells two signatures of the same data apart: a signature put
together from two calls of `ecc_sign` does not verify.  `Hashed` has the loop of
`verify_digest` with its first read of a whole buffer, as a recursive function.

**Provisioning.** A manifest is four blocks of 64 bytes, and `Block` says which fields are
in which; the server signature crosses from the third into the fourth.  The server signs its
one manifest again whenever another device or another nonce asks (`Sign`), `NextVersion`
raises the version and signs the vendor's part, `Restart` maps the file again.  Both
signatures may fail (`SignFaults`): what was changed stays and the signature is
`NoSignature`.  A device collects blocks, verifies, requests the binary, during which signing
may fail as well (`GetError`), and at the end verifies the stored object.  `disturbed` is
history: somebody else changed the manifest between the blocks, took back the version
that was offered, or left a signature that failed.

**LzssCodec, BsdiffCodec, SuffixSort, DeltaUpdate.** The width of a byte, of an offset and of the
numbers in a patch are parameters.  The tool's loops that sort, diff and compress are
actions, one turn each (of the diff also each turn of its inner loop: `Diff` begins an
iteration, `Scan` looks at one position, `Write` writes the entry), so that invariants speak
of the middle of the work; the loops of the tool's `bspatch` and of its decompressor are
recursive functions of the number of turns.  The two coroutines of the device are records of
where they wait and of what they hold, advanced bit by bit (`LzssBit`) and byte by byte
(`bspatch_pipeline`); a call with a chunk is the function `run` of `Receive`, which stops at the
first error.  A read of the old image may fail for any byte that needs one (`BadReads`, by the
ordinal of the byte in the call); `misread` is history and says what became of the first
error, reported to the caller or lost in a match.  `PatchedBy` is `pipeline_patch_command` from the
header on.  `DecodeToken` and `GetBit` share the window (`PutByte`, `CopyMatch`) and nothing
else: the one looks at the bits of a whole token, the other at one bit at a time.
The suffix sort is recursive in the source and in `SuffixSort`, which is why `DeltaUpdate` has
it as the parameter `SortSuffixes`: the run gives it the real one, the proofs suppose only that
it yields positions of the image (`ImagesAssumption`).

## 3. Runs

| Run | Question | Bounds |
|---|---|---|
| MCSwapSlots | Does `swap_slots` lose a block, does it end, is it the exchange? | 6 blocks per slot, pages of 2, SWAP of 4 (a partial last chunk), images of 3, 5, 6 blocks, every content that downloads and first boot leave |
| MCOrderedFirmware | Is the scan right for every table? | 4 slots, bootable ones at 1 and 3, versions 0..2 (ties, zeroed, erased), both parameters, a failure in any turn |
| BootContiki | Coroutine build, one bootable slot: only verified images, bootstrap once and complete, no downgrade? | 4 images (one does not verify when stored), 4 blocks, pages of 2, 3 resets anywhere, 3 downloads of any part, every reported fault |
| BootPosix | Build without coroutines, two bootable slots: bootstrap once, no downgrade? | 3 slots, 3 resets, 4 downloads, every reported fault |
| BootApplied | Is every download started, and does the device start after every reset? | all images genuine, complete downloads, no fault, resets outside of the swap |
| BlePush | Can any order of writes and reads lead to STATE_REBOOT with a wrong image? | 3 images (genuine, sent as difference, not genuine), manifest of 2 units, buffer of 2, messages of 1 or 2, every fault |
| PullFaults | Over both connections: does the agent return, is data stored in order, and is an apply event over libcoap ever dangerous? | 2 losses, 2 delays, 1 error response, every fault; manifest 3, buffer 3, message 2: messages cross the ends of manifest and buffer |
| PullResume | Over both connections: does a download resume after losses, without repetition or gap? | 4 losses, no delay, 11 units |
| MCProvisioning | Can a device accept a manifest that was made for another device or attempt, and is what it rejects always explained by interference? | 2 devices of version 0 or the one in the manifest file, 2 attempts each, one new version, one restart, failures to sign; binaries of 1, 2 and 5 units with a buffer of 2; a manifest file whose uncleared part equals a device's request |
| MCDeltaUpdate | Does the device rebuild the image from what the tool made, for every way to cut it into chunks, and do both decoders agree on every input? | bytes of 3 bits, window of 8, matches up to 3; all pairs of images up to 4 letters of two, 3 of three, and rearrangements; texts of 12 letters (the encoder's buffer slides and is refilled); codes of 3 arbitrary bytes; chunks of 1 to 3; the read of the old image fails for the first, the second or both bytes of a call |
| BootRunningImage, PullServerUpdate | expected violations, section 5 | the smallest instance that shows them |

The bounds are small because the code compares only versions, counts blocks and looks at
one chunk, page or buffer at a time: two chunks, two pages and one partial chunk meet
every case of the loops; two versions above the factory's allow an upgrade of an upgrade;
a third reset can hit the run that repairs what the second left.

*Deadlock* is checked only for BlePush.  The others really stop: a driver that halts, a
loop or an agent that has returned, an application with its bound of downloads used up.

*Fairness.*  `SwapSlots`: the loop runs (weak fairness of its step).
`Bootloader`: the bootloader runs when it is powered; downloads and resets have no
fairness, and resets are bounded, because a device that loses power in every run starts
nothing.  `PullAgent`: the agent runs (`AgentEnds` supposes that an update is offered), the
handler is called for what arrived, the server answers what it gets; losses are bounded and
nothing forces them.  The loop of either connection ends on
its timeout whatever the network does, which is what `LoopReturns` relies on.

*Mutants.*  Each property has a mutant in `PROJECT.json`, an operator next to the one that
it changes: a lost flag, a loop that ends early, a check that is left out.

## 4. Proofs

TLAPS proves the following for every value of the constants that satisfies the named
assumptions of `Flash`, `SwapSlots`, `Bootloader`, `UpdateFsm`, `PullAgent`, `Manifest`,
`Provisioning`, `BsdiffCodec` and `DeltaUpdate`.  Of the invariants that the runs check only
one is without a theorem (`SuffixesSorted`).

* `OrderedFirmwareProofs!ScanIsCorrect`: `Spec => []ScanCorrect`.  The invariant says that
  the slots visited so far have been compared.  It needs `BootableFirst`: with a
  non-bootable slot first in the table, `prefer_bootable` would not exclude it.
* `SwapSlotsProofs!SwapInvariant`, `SwapIsAtomic`: under `PagesFitChunk` (the swap object
  is a multiple of a page) and `ErrorsReported` (the two unassigned calls do not fail)
  `SwapInv` is inductive and `SwapSpec` implements `Exchange`.  `SwapInv` is needed
  because the refinement alone does not know that a block is erased when it is
  programmed (`PageReady`) nor that the copies of the current phase equal their
  originals (`Copied`).
* `BootloaderProofs!BootstrapIsOnce`: for both builds and all faults.
* `BootloaderProofs!BootsVerifiedOnly`: under `Coroutines`, `PagesFitChunk`,
  `ErrorsReported` the bootloader hands over only to a verified slot.  The inductive
  invariant `BootInv` carries the verified candidate through the swap: it is newer than
  every bootable slot, hence not one of them (`CandidateVerified`), and its blocks are
  complete in the three objects all the time (`ImageInTransit`, by `SwapInv`).  The run
  of the swap from an arbitrary state of the slots is why `SwapSlots` is part of it.
* `BootloaderProofs!BootstrapIsComplete`, under the same conditions: after bootstrap only
  the chosen slot shows a version that could be upgraded to.  `WipeInv` adds to `BootInv`
  that as long as no application was started the control is before the first start, the
  chosen slot verifies and is left alone, and the slots already passed are wiped
  (`WipedSoFar`): a reset in the middle starts the choice again from slots that are wiped,
  verified or as the factory left them.
* `BootloaderProofs!NeverDowngrades`: the versions that are started never decrease, for
  both builds, every size of page and all faults but a lost error of the last copy of
  `swap_slots`.  `LifeInv` follows the manifest only, the first block of an image: some
  bootable slot shows at least `last_version` (`VersionKept`), the candidate is newer than
  every bootable slot when it is chosen (`CandidateNewer`), and during the swap its manifest
  is in the source, in SWAP or in the destination (`CandidateManifest`), which keeps the
  promise while the destination is erased.
* `BootloaderProofs!NeverStops`: with no fault, complete and genuine downloads and no
  power loss inside `swap_slots`, every run starts an image, in both builds.  `AliveInv` adds
  to `WipeInv` that what is chosen verifies (`ChosenGenuine`), that every slot is genuine,
  wiped or as the factory left it (`SlotsGenuine`), and that both images are complete in
  the three objects during the swap (`SwapGenuine`).  The build without coroutines has these
  invariants too as long as the event it passes over does not happen (`EventSeen`).
* `TypeCorrect` of `OrderedFirmwareProofs` and of `BootloaderProofs`: no index past the
  table, no block past a slot, for both builds and all faults.
* `BlePushProofs!PushInvariant`, `PushRebootVerified`, from
  `UpdateFsmProofs!FsmKeeps`: every call of `fsm` with any message keeps `FsmInv`.
  `FsmInv` relates the three counts (`processed`, the filled part of the buffer,
  `written`) to the data accepted so far, and the stored manifest to the accepted one;
  without it nothing connects the version that was compared at the start with the object
  that is verified at the end.  `FirmwareAssumption` (an image is longer than one message
  behind its manifest) is used: a shorter one would never be verified.

* `PullAgentProofs!PullTypeCorrect`, `PullPipelineInOrder`, `PullRebootVerified`: `FsmInv`
  holds again, because every callback is a call of `fsm` (`FsmKeeps`); `AgentInv` adds the
  types of agent and network, from which what a response carries is data that `fsm` can get.
* `PullAgentProofs!PullApplyHarmless`: `ApplyInv` says that over libcoap an agent that has
  not failed has an untouched slot, a verified image, a download that it will not leave, or
  an error that it sees when its loop returns, before any other response is looked at.
* `PullAgentProofs!PullDownloadInOrder`, with `MaxDelays = 0`: `OrderInv` says that at most
  one request or response is under way (`Flight`), which asks for
  or carries the next unit, that none is when the loop was broken
  without an error (`BrokenLoop`), and that agent and machine advance together (`InStep`).
* `ProvisioningProofs!AcceptsOwnOnly`, `OffersValid`, for any number of devices, attempts and
  restarts: `ServerInv` says that both parts of the server's manifest, in memory and in the
  file, are signed as they are, up to the signature of a part that is missing after a failure;
  `DeviceInv` that the fourth block, which has all of the server's fields, was made for the
  present attempt of the device, and that a device that gave up has forgotten its blocks.
* `ProvisioningProofs!RejectsOnlyDisturbed`: `UndisturbedInv` says that the blocks of a
  device that nobody disturbed are those of the manifest in memory, that this manifest was
  made for its request and is newer than what the device runs, and that the vendor's signature
  on it did not fail.
* `ProvisioningProofs!VerifiesGenuine`: `ReceivedInv` says that a device past its manifest
  has the length of the binary and holds a prefix of it.  `HashedIsFirmware` is the lemma
  about the loop of `verify_digest`: what it hashes is the firmware, for every length and
  buffer.  The loop is a recursive function; the induction takes the least turn in which the
  claim would fail (`LeastElement`, from the well-foundedness of the natural numbers), as the
  induction rules of the library cannot be instantiated by the installed provers.

* `DeltaUpdateProofs!DiffCorrect`, `PatchCorrect`: for all images, what `bsdiff_internal` has
  written makes the new image up to `lastscan` after every turn, and the finished patch makes
  all of it.  `DiffInv` gives each point of the loop its bounds (`Scanning`, `Found`,
  `Between`) and says that the entries lead from the start to `lastscan` and `lastpos`
  (`Leads`): a sequence of places in the patch and in both images with an entry between each
  two (`Piece`), as long as it takes.  The argument has four parts: a number is read as it was
  written, for every width of a byte and of a number (`Decoded`); the extensions stay inside
  both images and do not overlap (`ExtendBounds`); an entry so bounded is a `Piece`
  (`EntryWritten`) and stays one when the patch grows or gets a header (`PieceMoved`); the
  reader that meets a `Piece` gets to its end (`ReaderTurns`) and stops at the size of the
  image (`ReaderStops`).  Nothing is supposed of the order of the suffixes: a wrong sort
  makes a longer patch, never a wrong one.  `ImagesAssumption` asks that the lengths of the
  images leave the sign bit of a number free (2^63 bytes in the code).

* `DeltaUpdateProofs!StageMatchesTool`, `DeliveryCorrect`, `FinishCorrect`, `FailedReadCorrect`: the
  whole way from two images to the new one on the device, for all images, files, widths and
  chunks, and for every pattern of failing reads of the old image (the first three speak of the
  device as long as none has failed, the last of one that was reported).  What the
  properties say of `sink` is not inductive, because what the device will hand on depends on
  where its two coroutines wait.  `ChainInv` therefore adds to `DiffInv`:
  - of the encoder (`EncAt`): its buffer is a part of the text with the spaces in front of it,
    moved by a multiple of the window (`Ready`), and the bits written so far are tokens that
    decode into the text up to `r`, with the window of the decoder equal to the last N - F bytes
    before it (`DecAt`).  A match may reach into the bytes that it makes itself; `MatchCopied`
    shows by induction over its bytes that the copy is right all the same;
  - of the compressed file (`Packed`): the bits of its bytes begin with those of the encoder and
    go on for less than a byte (`PackedBits`), too short for another token (`PaddedTokens`);
  - of the device (`DeviceAt`): there is a number of tokens that it has completed, its coroutine
    waits inside the next one with the bits of it that have arrived (`InToken`), and what the
    tokens made was handed on or, with patching, `BsAt` holds for that many bytes of the patch:
    the coroutine waits in the header, in the numbers of an entry, in its differences or in its
    extra bytes, with everything it holds determined by the entry of the patch that it is in
    (`Piece`, from the proof of `DiffCorrect`), and what came out is the new image up to there.
    After a failing read outside a match the call ends where it was (`Halted`); after one inside a
    match nothing is claimed any more.
  `PatchStep`, `BitOn`, `TakeOn` and `ReceiveOn` carry this over a byte of the patch, a bit, a
  byte received and a chunk.  `StageMatchesTool` needs nothing of the encoder: both decoders
  complete the same tokens of any file (`ToolEnds`).  The assumptions: `LzssAssumption` (a token
  is at least as long as a byte, so that the padding holds none and a match fits into the
  window: 1 + 10 + 4 >= 8 in the code), `DeviceAssumption` (the lengths of the images fit in the
  `int32_t` of `ctrl_t`, whose upper half the device ignores), `FilesAssumption` (files have
  bytes) and `PowersAssumption` (2^(k+1) = 2 * 2^k, a fact of arithmetic that TLC evaluates and
  the provers do not have).

Only model-checked: termination, `UpdateApplied`, `AgentEnds`, `ResumeCompletes` (liveness
is out of the prover's reach) and, of `DeltaUpdate`, `SuffixesSorted` (the suffix sort is a
RECURSIVE operator, which the prover does not handle; no other result depends on it).  `ChainInv`
itself is not a run's invariant: it says that a sequence of tokens exists, which TLC cannot
enumerate; the four properties it implies are checked by MCDeltaUpdate.

## 5. What the models show of the code

Two runs state something that the repository says of the program and find it violated:

* **BootRunningImage**: a download that follows an interrupted one may be written over
  the running image (`fsm.c:217`), because the manifest left behind is newer than it.
  `memory_objects.c:26` says that the choice avoids it.
* **PullServerUpdate**: the update from 0x0001 to 0x0002 of the tutorial
  (`build/doc/source/tutorial/6_test_update.md:11,46-48`) is downloaded completely and then
  fails its verification: the server signs `diff_version = 1`, and `fsm.c:183` sets it to 0
  in what is stored, after it has verified the manifest that was received.  The output that the
  tutorial shows for this update stops at "Server Signature Valid".

The conditions of the other results are the code's as well:

* `BootValid` needs the coroutine build: with `Coroutines = FALSE` in `BootContiki.cfg` an
  invalid candidate is passed over (`bootloader_agent.c:136`), swapped in and started.  It
  needs reported errors: with `Faults <- LostFaults` the result of the second or third copy
  of `swap_slots` is dropped (`memory_objects.c:129,135`) and the slot is started unverified.
* `ApplyHarmless` is about libcoap: a first block that is lost ends the agent with
  EVENT_APPLY (`update.c:86`), but the slot has not been touched then.  The callback of zoap
  runs after an error as well, and a later response makes the agent forget it.
* `GenuineVerified` has an exception: an image shorter than the buffer is hashed with the
  erased bytes behind it (`verifier.c:56`) and is refused.
* `AcceptedForDevice` holds although `fsm` compares neither the device's identity nor the
  nonce of the manifest: the server signs for the request it answers, and all the fields it
  signs are in one block.  Two devices that download at once can make each other fail,
  because a signature put together from two does not verify; `UndisturbedAccepted` says that
  a device rejects nothing without such interference.  A restart of the server is
  interference as well, before the first block too: it takes back the version that
  /next_version announced, and the device rejects the older one.
* `OfferedValid` and `UndisturbedAccepted` make an exception for a failure to sign:
  `resource_next_version` has stored the new version when it fails (`next_version.c:20-29`),
  answers 4.00 and leaves a manifest that /version announces and every device rejects, until
  the version is raised again or the server is restarted.
* `DeliversImage` is about stages that no agent reaches: `fsm` sets `diff_version` to 0
  before it builds the pipeline (`fsm.c:183-207`), and nothing but tests calls `lzss_init`.
  It has the condition that no read of the old image fails (`misread = "none"`).  A failing
  one (`bspatch.c:119`) makes the stage return an error and wait for the same byte again; for
  a literal the decompressor passes the error on and the update stops (`FailedReadStops`), for
  a byte of a match it drops it (`lzss.c:56`): the byte is missing, the next one of the patch
  is taken in its place, and only the digest of the finished image can tell.
* `StageIsTool` and `DeliversImage` speak of the first use of the decompressor.  Its window is
  static and only its first N - F bytes are filled at the start (`lzss.c:37`): a later use in the
  same run still has the last F bytes of the one before, which the first use finds zero.
* `ToolPatches` is about the tool's `bspatch` given the old image.  `pipeline_patch_command` itself
  reads the image into a buffer of `size2` = 0 bytes (`pipeline.cpp:747,771`), which is undefined
  behaviour and has no model.
* `PagesFitChunk` fails for the Zephyr bootloader on the nRF52840 (swap size 2048 in
  `build/zephyr/bootloader/src/bootloader.c:13`, page size 0x1000): with `SwapBlocks = 1`
  and `PageBlocks = 2`, `BootValid` fails without any fault.
* `AlwaysBoots` needs the absence of power loss in `swap_slots`, whose progress is kept
  in RAM only, and of interrupted downloads: the driver stops on an invalid candidate,
  which is not invalidated, although the bootable slot is intact.
* `NoDowngrade` fails with two bootable slots when the error of the last copy of
  `swap_slots` is lost; it stands every other lost error.
* `ResumeCompletes` needs the absence of late blocks: the handler does not look which
  request a response answers, so that a late block and its repetition are both processed.
* After an error of the state machine the version characteristic of the BLE service
  refuses every write (`zephyr_ble.c:142` asks for STATE_IDLE, errors lead to
  STATE_CLEAN); only a version written to the image characteristic starts it again.

## 6. Not modelled

* er-coap: its blocking request, retransmissions and protothread belong to Contiki-NG; with
  it, the coroutine build of the update agent.
* `copy_firmware` and the factory image (compiled out).
* DTLS, option encoding, the adapters to TinyCrypt, TinyDTLS and CryptoAuthLib, AES:
  cryptography is taken as perfect.
* Of the testing server the resources that send invalid data on purpose and `firmware_diff`;
  of the firmware tool the parsing of its command line, key files and printing, files that
  cannot be opened, failing allocations, and the loading of the old image by
  `pipeline_patch_command` (section 5).
* The open handles of memory objects, the count of openers of the cc2650's external flash,
  the uint16_t prototypes of `memory_impl.c`, sizes that exceed a slot (`Size` and `Length`
  are assumed to fit).
* Image loaders (a jump), watchdogs and LEDs of the drivers, tests.

## 7. Plan

Done: the modules of section 2, their runs and the proofs of section 4.  Next, in this order:

1. a Device module that composes UpdateFsm with Bootloader, so that downloads are those of
   the state machine and not an abstraction of them;
2. the memory interface below Flash: open counts, the cc2650's external flash, short reads;
3. the update agent with coroutines and the er-coap connection.
