---------------------------- MODULE Provisioning ----------------------------
(***************************************************************************)
(* The testing server and several devices that download from it at once.   *)
(* The server keeps one manifest in memory, a private copy of the file the *)
(* tool made, and signs its second half again whenever a request comes from*)
(* another device or with another nonce.  A manifest is sent in four blocks*)
(* of 64 bytes, and every block is read from what the manifest is then.    *)
(***************************************************************************)
EXTENDS Manifest

CONSTANTS
  Devices,
  Garbage,       \* what the tool may leave in the server's part of a manifest
  Sizes,         \* lengths of the binary
  FirstVersion,  \* the version that the tool wrote into the manifest
  DeviceVersions,\* versions that run on the devices
  AreaUnits,     \* length of a slot behind the manifest
  SignFaults,    \* TRUE if signing may fail
  MaxAttempts,   \* bound on the attempts of a device
  MaxBumps,      \* bound on the calls of next_version
  MaxRestarts    \* bound on the restarts of the server

ASSUME ProvisioningAssumption ==
  /\ AreaUnits \in Nat /\ Sizes \subseteq 1 .. AreaUnits
  /\ Garbage \subseteq [udid : Devices \cup {"none"}, nonce : Nat, diff_version : Nat,
                        prop_size : Nat]
  /\ FirstVersion \in 0 .. VersionMod - 1
  /\ DeviceVersions \subseteq 0 .. VersionMod - 1
  /\ MaxAttempts \in Nat /\ MaxBumps \in Nat /\ MaxRestarts \in Nat

VARIABLES
  bin,       \* the binary behind the manifest
  disk,      \* the manifest in the file
  file,      \* the manifest as the server has mapped it
  at,        \* where the download of each device is
  version,   \* the version that each device runs
  nonce,     \* the nonce of its last attempt, and the number of attempts
  got,       \* the blocks of the manifest it has
  disturbed, \* the server's copy was changed by someone else meanwhile, to its harm
  bumps, restarts

server == <<disk, file, bumps, restarts>>
devices == <<at, version, nonce, got, disturbed>>
vars == <<bin, server, devices>>

Erased == 0
Safestore == [appid |-> "app", keystore |-> "vendor"]

Init ==
  /\ \E n \in Sizes : bin = [u \in 1 .. n |-> u]
  /\ \E g \in Garbage : disk = manifest_generate_command(bin, FirstVersion, g)
  /\ file = disk
  /\ bumps = 0 /\ restarts = 0
  /\ at = [d \in Devices |-> "idle"]
  /\ version \in [Devices -> DeviceVersions]
  /\ nonce = [d \in Devices |-> 0]
  /\ got = [d \in Devices |-> <<>>]
  /\ disturbed = [d \in Devices |-> FALSE]

\* History: whose blocks may come from two different manifests, and from whom the
\* version was taken back that made it start.
Harmed(actors) ==
  [d \in Devices |->
    \/ disturbed[d]
    \/ /\ at[d] = "receive" /\ d \notin actors
       /\ (file' # file /\ got[d] # <<>>) \/ file'.vendor.version <= version[d]]
Disturb(actors) == disturbed' = Harmed(actors)

\* A salt that no signature has which is still around.
Salts ==
  {disk.vendor_signature.salt, disk.server_signature[1].salt,
   file.vendor_signature.salt, file.server_signature[1].salt}
  \cup UNION {{b.salt : b \in {got[d][n] : n \in DOMAIN got[d] \cap {1, 3}}} : d \in Devices}
  \cup {got[d][4].signature.salt : d \in {e \in Devices : Len(got[e]) = 4}}
FreshSalt == Min((0 .. Cardinality(Salts)) \ Salts)

----------------------------------------------------------------------------
(* The server. *)

\* Mutants of ForDevice: the device is not compared, and the manifest is signed for
\* every request.
SameNonce(d) == file.server.nonce = nonce[d]

NeverSame(d) == FALSE

\* The manifest is signed for this attempt of this device already.
ForDevice(d) == file.server.udid = d /\ file.server.nonce = nonce[d]

\* resource_firmware up to the transfer: the server's part is filled for the
\* device that asks and signed, whether or not signing works.
Sign(d, ok) ==
  IF ForDevice(d) THEN ok /\ UNCHANGED file
  ELSE file' = sign_manifest_server(
                 [file EXCEPT !.server = [udid |-> d, nonce |-> nonce[d],
                                          diff_version |-> version[d],
                                          prop_size |-> Len(bin)]],
                 "server", FreshSalt, ok)

\* Block num of the manifest: 64 bytes of vendor signature; the vendor's fields;
\* the rest of them and the start of the server signature; the rest of it and
\* the server's fields.
Block(mt, num) ==
  CASE num = 0 -> mt.vendor_signature
    [] num = 1 -> mt.vendor
    [] num = 2 -> mt.server_signature[1]
    [] num = 3 -> [signature |-> mt.server_signature[2], server |-> mt.server]

\* What the device has put together from the blocks.
Received(d) ==
  [vendor_signature |-> got[d][1], vendor |-> got[d][2],
   server_signature |-> <<got[d][3], got[d][4].signature>>, server |-> got[d][4].server]

\* A mutant of NextVersion: the manifest is not signed again.
NextVersionUnsigned ==
  /\ bumps < MaxBumps
  /\ bumps' = bumps + 1
  /\ file' = [file EXCEPT !.vendor.version = (@ + 1) % VersionMod]
  /\ Disturb({})
  /\ UNCHANGED <<bin, disk, restarts, at, version, nonce, got>>

\* resource_next_version: the version is increased and the vendor's part signed.
\* If signing fails, the new version stays, without a signature.
NextVersion ==
  /\ bumps < MaxBumps
  /\ bumps' = bumps + 1
  /\ \E ok \in {TRUE, ~SignFaults} :
       file' = sign_manifest_vendor([file EXCEPT !.vendor.version = (@ + 1) % VersionMod],
                                    "vendor", FreshSalt, ok)
  /\ Disturb({})
  /\ UNCHANGED <<bin, disk, restarts, at, version, nonce, got>>

\* update_server_context in a new process: the mapping is private, so that all
\* changes are gone.
Restart ==
  /\ restarts < MaxRestarts
  /\ restarts' = restarts + 1
  /\ file' = disk
  /\ Disturb({})
  /\ UNCHANGED <<bin, disk, bumps, at, version, nonce, got>>

----------------------------------------------------------------------------
(* A device. *)

\* /version offers something newer: an attempt with a new nonce begins.
Start(d) ==
  /\ at[d] \in {"idle", "rejected"}
  /\ nonce[d] < MaxAttempts
  /\ file.vendor.version > version[d]
  /\ at' = [at EXCEPT ![d] = "receive"]
  /\ nonce' = [nonce EXCEPT ![d] = @ + 1]
  /\ disturbed' = [disturbed EXCEPT ![d] = FALSE]
  /\ UNCHANGED <<bin, server, version, got>>

\* The next block of the manifest.  A device is disturbed as well by a vendor
\* signature that failed before its first block.
GetBlock(d) ==
  /\ at[d] = "receive" /\ Len(got[d]) < 4
  /\ Sign(d, TRUE)
  /\ got' = [got EXCEPT ![d] = Append(@, Block(file', Len(@)))]
  /\ disturbed' = [Harmed({d}) EXCEPT ![d] = @ \/ got'[d][1] = NoSignature]
  /\ UNCHANGED <<bin, disk, bumps, restarts, at, version, nonce>>

\* STATE_CLEAN: the attempt is over, and what was received is forgotten.
Reject(d) ==
  /\ at' = [at EXCEPT ![d] = "rejected"]
  /\ got' = [got EXCEPT ![d] = <<>>]

\* Signing fails for a request of the manifest or of the binary: the response is
\* an error, which ends the attempt.
GetError(d) ==
  /\ SignFaults
  /\ (at[d] = "receive" /\ Len(got[d]) < 4) \/ at[d] = "accepted"
  /\ Sign(d, FALSE)
  /\ Reject(d)
  /\ disturbed' = [e \in Devices |-> disturbed[e] \/ e = d \/ got[e] # <<>>]
  /\ UNCHANGED <<bin, disk, bumps, restarts, version, nonce>>

\* STATE_VERIFY_MANIFEST.
VerifyManifest(d) ==
  /\ at[d] = "receive" /\ Len(got[d]) = 4
  /\ IF Received(d).vendor.version > version[d] /\ verify_manifest(Received(d), Safestore)
     THEN at' = [at EXCEPT ![d] = "accepted"] /\ UNCHANGED got
     ELSE Reject(d)
  /\ UNCHANGED <<bin, server, version, nonce, disturbed>>

\* What the slot holds at the end: the manifest, with diff_version set to 0 after
\* it was verified, and the binary.
Stored(d) == [Received(d) EXCEPT !.server.diff_version = 0]
Area == bin \o [u \in 1 .. AreaUnits - Len(bin) |-> Erased]

\* The binary is requested and, when it is complete, the object is verified.
VerifyFirmware(d) ==
  /\ at[d] = "accepted"
  /\ Sign(d, TRUE)
  /\ at' = [at EXCEPT ![d] = IF verify_object(Stored(d), Area, Safestore)
                             THEN "verified" ELSE "failed"]
  /\ Disturb({d})
  /\ UNCHANGED <<bin, disk, bumps, restarts, version, nonce, got>>

Device(d) ==
  Start(d) \/ GetBlock(d) \/ GetError(d) \/ VerifyManifest(d) \/ VerifyFirmware(d)

Next == NextVersion \/ Restart \/ \E d \in Devices : Device(d)

Spec == Init /\ [][Next]_vars

----------------------------------------------------------------------------
\* A manifest that a device accepts was made for this attempt of this device and
\* announces the length of the binary.  fsm compares neither udid nor nonce, and
\* other devices change the same manifest between the blocks.
AcceptedForDevice ==
  \A d \in Devices :
    at[d] \in {"accepted", "verified", "failed"} =>
      LET mt == Received(d)
      IN mt.server.udid = d /\ mt.server.nonce = nonce[d] /\ mt.server.prop_size = Len(bin)

\* Only interference makes a device reject what the tool and the server signed:
\* another request, a new version or a restart between two blocks, a restart or an
\* overflow that takes back the version it was offered, a failure to sign for its
\* request, or a vendor signature that failed when the version was raised.
UndisturbedAccepted ==
  \A d \in Devices : at[d] = "rejected" => disturbed[d]

\* A binary that was received completely passes the verification of the stored
\* object, up to two exceptions: the server signed the version of the device as
\* diff_version, which is 0 in the object, or the binary is shorter than the
\* buffer and the erased area behind it is hashed as well.
GenuineVerified ==
  \A d \in Devices :
    at[d] = "failed" => Received(d).server.diff_version # 0 \/ Len(bin) < BufferUnits

\* The manifest that the server offers is one that the tool calls valid, except
\* after a failure to sign that nobody has made good for yet, of the server or of
\* the vendor; such a failure costs the signature of its own part only, and what
\* the other one signed stays as it was signed.
OfferedValid ==
  /\ \/ manifest_validate_command(file, bin)
     \/ NoSignature \in {file.vendor_signature, file.server_signature[1]}
  /\ \/ file.vendor_signature = NoSignature
     \/ ecc_verify("vendor", file.vendor_signature, file.vendor)
  /\ \/ file.server_signature[1] = NoSignature
     \/ ecc_verify("server", file.server_signature[1], file.server)
=============================================================================
