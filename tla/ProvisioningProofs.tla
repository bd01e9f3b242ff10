------------------------- MODULE ProvisioningProofs -------------------------
(***************************************************************************)
(* What the server offers is valid, what a device accepts was made for it, *)
(* a rejection has a cause, and a binary that was received verifies, for   *)
(* any number of devices, attempts, versions and restarts.                 *)
(***************************************************************************)
EXTENDS Provisioning, SequenceTheorems, WellFoundedInduction, TLAPS

----------------------------------------------------------------------------
(* Manifests. *)

\* A manifest with its four parts, for the binary, whose vendor's part is signed
\* unless signing failed.
VendorOK(mt) ==
  /\ mt = [vendor |-> mt.vendor, vendor_signature |-> mt.vendor_signature,
           server |-> mt.server, server_signature |-> mt.server_signature]
  /\ mt.vendor = [version |-> mt.vendor.version, size |-> Len(bin), appid |-> "app",
                  digest |-> bin, server_key |-> "server"]
  /\ \/ mt.vendor_signature = NoSignature
     \/ ecc_verify("vendor", mt.vendor_signature, mt.vendor)

\* The server's part is for the binary, and signed unless signing failed.
ServerOK(mt) ==
  /\ mt.server.prop_size = Len(bin)
  /\ mt.server_signature[1] = mt.server_signature[2]
  /\ \/ mt.server_signature[1] = NoSignature
     \/ ecc_verify("server", mt.server_signature[1], mt.server)

\* The manifest with another version.
Bumped(mt, v) == [mt EXCEPT !.vendor.version = v]

LEMMA SignVendor ==
  ASSUME NEW mt, NEW salt, NEW v, NEW ok, VendorOK(mt), ServerOK(mt)
  PROVE  LET next == sign_manifest_vendor(Bumped(mt, v), "vendor", salt, ok)
         IN /\ VendorOK(next) /\ ServerOK(next) /\ next.vendor.version = v
            /\ next.server = mt.server /\ next.server_signature = mt.server_signature
<1> DEFINE bumped == Bumped(mt, v)
           next == sign_manifest_vendor(bumped, "vendor", salt, ok)
           sig == IF ok THEN sign_data(bumped.vendor, "vendor", salt) ELSE NoSignature
           vendor == [version |-> v, size |-> Len(bin), appid |-> "app",
                      digest |-> bin, server_key |-> "server"]
<1>1. bumped = [vendor |-> vendor, vendor_signature |-> mt.vendor_signature,
                server |-> mt.server, server_signature |-> mt.server_signature]
  BY DEF VendorOK, Bumped
<1>2. bumped.vendor = vendor
  BY <1>1
<1>3. next = [bumped EXCEPT !.vendor_signature = sig]
  BY DEF sign_manifest_vendor
<1> HIDE DEF bumped
<1>4. next = [vendor |-> vendor, vendor_signature |-> sig,
              server |-> mt.server, server_signature |-> mt.server_signature]
  BY <1>1, <1>3
<1>5. sig = NoSignature \/ ecc_verify("vendor", sig, vendor)
  BY <1>2 DEF ecc_verify, sign_data
<1> HIDE DEF next, sig
<1>6. VendorOK(next)
  BY <1>4, <1>5 DEF VendorOK
<1>7. ServerOK(next)
  BY <1>4 DEF ServerOK
<1>8. /\ next.vendor.version = v
      /\ next.server = mt.server /\ next.server_signature = mt.server_signature
  BY <1>4
<1> QED BY <1>6, <1>7, <1>8 DEF next, bumped

\* The server's part is filled and signed, or not signed because that failed.
LEMMA SignServer ==
  ASSUME NEW mt, NEW salt, NEW part, part.prop_size = Len(bin), VendorOK(mt), NEW ok
  PROVE  LET next == sign_manifest_server([mt EXCEPT !.server = part], "server", salt, ok)
         IN /\ VendorOK(next) /\ ServerOK(next) /\ next.server = part
            /\ next.vendor = mt.vendor
            /\ ok => next.server_signature[1] # NoSignature
<1> DEFINE filled == [mt EXCEPT !.server = part]
           sig == IF ok THEN sign_data(filled.server, "server", salt) ELSE NoSignature
           next == sign_manifest_server(filled, "server", salt, ok)
<1>1. filled = [vendor |-> mt.vendor, vendor_signature |-> mt.vendor_signature,
                server |-> part, server_signature |-> mt.server_signature]
  BY DEF VendorOK
<1>2. filled.server = part
  BY <1>1
<1>3. next = [filled EXCEPT !.server_signature = <<sig, sig>>]
  BY DEF sign_manifest_server
<1>4. sig = NoSignature \/ ecc_verify("server", sig, part)
  BY <1>2 DEF ecc_verify, sign_data
<1>8. ok => sig # NoSignature
  BY DEF sign_data, NoSignature
<1> HIDE DEF filled, sig
<1>5. next = [vendor |-> mt.vendor, vendor_signature |-> mt.vendor_signature,
              server |-> part, server_signature |-> <<sig, sig>>]
  BY <1>1, <1>3
<1> HIDE DEF next
<1>6. VendorOK(next)
  BY <1>5 DEF VendorOK
<1>7. ServerOK(next) /\ next.server = part
  BY <1>4, <1>5 DEF ServerOK
<1>9. next.vendor = mt.vendor /\ (ok => next.server_signature[1] # NoSignature)
  BY <1>5, <1>8
<1> QED BY <1>6, <1>7, <1>9 DEF next, filled

LEMMA Generated ==
  ASSUME NEW v, NEW g \in Garbage
  PROVE  LET mt == manifest_generate_command(bin, v, g)
         IN /\ VendorOK(mt) /\ ServerOK(mt) /\ mt.vendor.version = v
            /\ mt.server_signature[1] # NoSignature
<1> DEFINE vendor == [version |-> v, size |-> Len(bin), appid |-> "app",
                      digest |-> bin, server_key |-> "server"]
           part == [g EXCEPT !.prop_size = Len(bin)]
           unsigned == [vendor |-> vendor, vendor_signature |-> NoSignature,
                        server |-> part, server_signature |-> <<NoSignature, NoSignature>>]
           half == sign_manifest_vendor(unsigned, "vendor", 0, TRUE)
           vsig == sign_data(vendor, "vendor", 0)
           ssig == sign_data(part, "server", 0)
           mt == manifest_generate_command(bin, v, g)
<1>1. part.prop_size = Len(bin)
  BY ProvisioningAssumption
<1>2. half = [vendor |-> vendor, vendor_signature |-> vsig,
              server |-> part, server_signature |-> <<NoSignature, NoSignature>>]
  BY DEF sign_manifest_vendor
<1>3. mt = sign_manifest_server(half, "server", 0, TRUE)
  BY DEF manifest_generate_command
<1>4. ecc_verify("vendor", vsig, vendor) /\ ecc_verify("server", ssig, part)
  BY DEF ecc_verify, sign_data
<1>10. vendor.version = v /\ ssig # NoSignature
  BY DEF sign_data, NoSignature
<1> HIDE DEF vendor, part, half, vsig, ssig
<1>5. sign_manifest_server(half, "server", 0, TRUE)
        = [half EXCEPT !.server_signature = <<sign_data(half.server, "server", 0),
                                              sign_data(half.server, "server", 0)>>]
  BY DEF sign_manifest_server
<1>6. half.server = part
  BY <1>2
<1>7. mt = [vendor |-> vendor, vendor_signature |-> vsig,
            server |-> part, server_signature |-> <<ssig, ssig>>]
  BY <1>2, <1>3, <1>5, <1>6 DEF ssig
<1> HIDE DEF mt
<1>8. VendorOK(mt)
  BY <1>4, <1>7 DEF VendorOK, vendor
<1>9. ServerOK(mt)
  BY <1>1, <1>4, <1>7 DEF ServerOK
<1>11. mt.vendor.version = v /\ mt.server_signature[1] # NoSignature
  BY <1>7, <1>10
<1> QED BY <1>8, <1>9, <1>11 DEF mt

----------------------------------------------------------------------------
(* The server. *)

ServerInv == VendorOK(file) /\ ServerOK(file) /\ VendorOK(disk) /\ ServerOK(disk)

LEMMA ServerStutters ==
  ASSUME ServerInv, UNCHANGED <<bin, disk>>, file' = file \/ file' = disk
  PROVE  ServerInv'
BY DEF ServerInv, VendorOK, ServerOK

\* A request leaves a manifest that is for the device that asked.
LEMMA SignKeeps ==
  ASSUME ServerInv, NEW d, NEW ok, Sign(d, ok), UNCHANGED <<bin, disk>>
  PROVE  ServerInv' /\ file'.server.udid = d /\ file'.server.nonce = nonce[d]
<1>1. CASE ForDevice(d)
  <2>1. file' = file
    BY <1>1, Zenon DEF Sign
  <2>2. ServerInv'
    BY <2>1, ServerStutters
  <2> QED BY <1>1, <2>1, <2>2 DEF ForDevice
<1>2. CASE ~ForDevice(d)
  <2> DEFINE part == [udid |-> d, nonce |-> nonce[d], diff_version |-> version[d],
                      prop_size |-> Len(bin)]
             next == sign_manifest_server([file EXCEPT !.server = part], "server",
                                          FreshSalt, ok)
  <2>1. file' = next
    BY <1>2, Zenon DEF Sign
  <2>2. part.prop_size = Len(bin) /\ part.udid = d /\ part.nonce = nonce[d]
    OBVIOUS
  <2> HIDE DEF part
  <2>3. VendorOK(next) /\ ServerOK(next) /\ next.server = part
    BY <2>2, SignServer DEF ServerInv
  <2> HIDE DEF next
  <2>4. VendorOK(file)' /\ ServerOK(file)'
    BY <2>1, <2>3 DEF VendorOK, ServerOK
  <2>5. VendorOK(disk)' /\ ServerOK(disk)'
    BY DEF ServerInv, VendorOK, ServerOK
  <2> QED BY <2>1, <2>2, <2>3, <2>4, <2>5 DEF ServerInv
<1> QED BY <1>1, <1>2

LEMMA ServerInvInit == Init => ServerInv
<1> SUFFICES ASSUME Init PROVE ServerInv
  OBVIOUS
<1>1. PICK g \in Garbage : disk = manifest_generate_command(bin, FirstVersion, g)
  BY DEF Init
<1>2. VendorOK(disk) /\ ServerOK(disk)
  BY <1>1, Generated
<1> QED BY <1>2 DEF Init, ServerInv

\* A new version concerns the vendor's part only, whether or not signing works.
LEMMA VersionRaised ==
  ASSUME ServerInv, NextVersion
  PROVE  /\ VendorOK(file') /\ ServerOK(file')
         /\ file'.vendor.version = (file.vendor.version + 1) % VersionMod
         /\ file'.server = file.server /\ file'.server_signature = file.server_signature
<1> DEFINE v == (file.vendor.version + 1) % VersionMod
           next(ok) == sign_manifest_vendor(Bumped(file, v), "vendor", FreshSalt, ok)
<1>1. \E ok : file' = next(ok)
  BY Zenon DEF NextVersion, Bumped
<1> HIDE DEF v
<1>2. PICK ok : file' = next(ok)
  BY <1>1
<1>3. VendorOK(file) /\ ServerOK(file)
  BY DEF ServerInv
<1>4. /\ VendorOK(next(ok)) /\ ServerOK(next(ok)) /\ next(ok).vendor.version = v
      /\ next(ok).server = file.server
      /\ next(ok).server_signature = file.server_signature
  BY <1>3, SignVendor
<1> HIDE DEF next
<1> QED BY <1>2, <1>4 DEF v

LEMMA ServerInvKept == ServerInv /\ [Next]_vars => ServerInv'
<1> SUFFICES ASSUME ServerInv, [Next]_vars PROVE ServerInv'
  OBVIOUS
<1>1. CASE UNCHANGED vars
  BY <1>1, ServerStutters DEF vars, server
<1>2. CASE NextVersion
  <2>1. UNCHANGED <<bin, disk>> /\ VendorOK(file') /\ ServerOK(file')
    BY <1>2, VersionRaised DEF NextVersion
  <2> QED BY <2>1 DEF ServerInv, VendorOK, ServerOK
<1>3. CASE Restart
  BY <1>3, ServerStutters DEF Restart
<1>4. ASSUME NEW d \in Devices, Device(d)
      PROVE  ServerInv'
  <2>1. CASE Start(d) \/ VerifyManifest(d)
    BY <2>1, ServerStutters DEF Start, VerifyManifest, server
  <2>2. CASE GetBlock(d)
    BY <2>2, SignKeeps DEF GetBlock
  <2>3. CASE GetError(d)
    BY <2>3, SignKeeps DEF GetError
  <2>4. CASE VerifyFirmware(d)
    BY <2>4, SignKeeps DEF VerifyFirmware
  <2> QED BY <1>4, <2>1, <2>2, <2>3, <2>4 DEF Device
<1> QED BY <1>1, <1>2, <1>3, <1>4 DEF Next

\* What the server offers is what the tool calls valid, except for a signature
\* that a failure of next_version or of a request has cost, after any number of
\* versions, devices, restarts and failures, whatever the tool left in the fields
\* that it does not set; each signature that is there fits its part.
THEOREM OffersValid == Spec => []OfferedValid
<1>1. ServerInv => OfferedValid
  <2> SUFFICES ASSUME ServerInv PROVE OfferedValid
    OBVIOUS
  <2>1. /\ file.vendor.size = Len(bin) /\ file.vendor.digest = bin
        /\ file.vendor.server_key = "server"
    BY DEF ServerInv, VendorOK
  <2>2. /\ \/ file.vendor_signature = NoSignature
           \/ ecc_verify("vendor", file.vendor_signature, file.vendor)
        /\ \/ file.server_signature[1] = NoSignature
           \/ ecc_verify("server", file.server_signature[1], file.server)
        /\ file.server_signature[1] = file.server_signature[2]
    BY DEF ServerInv, VendorOK, ServerOK
  <2>3. ASSUME file.vendor_signature # NoSignature, file.server_signature[1] # NoSignature
        PROVE  manifest_validate_command(file, bin)
    <3>1. verify_signature(file, "vendor")
      BY <2>1, <2>2, <2>3 DEF verify_signature
    <3> QED BY <2>1, <3>1 DEF manifest_validate_command
  <2> QED BY <2>2, <2>3 DEF OfferedValid
<1> QED BY <1>1, ServerInvInit, ServerInvKept, PTL DEF Spec

----------------------------------------------------------------------------
(* The devices. *)

IsSeq(s) == \E S : s \in Seq(S)

LEMMA AppendIsSeq ==
  ASSUME NEW s, NEW e, IsSeq(s)
  PROVE  /\ IsSeq(Append(s, e)) /\ Len(s) \in Nat
         /\ Len(Append(s, e)) = Len(s) + 1
         /\ Append(s, e)[Len(s) + 1] = e
<1>1. PICK S : s \in Seq(S)
  BY DEF IsSeq
<1>2. s \in Seq(S \cup {e}) /\ e \in S \cup {e}
  BY <1>1
<1>3. Append(s, e) \in Seq(S \cup {e})
  BY <1>2
<1>4. IsSeq(Append(s, e))
  BY <1>3 DEF IsSeq
<1> QED BY <1>2, <1>4

\* The last block of the manifest that a device has got is for this attempt.
LastBlockFor(d) ==
  Len(got[d]) = 4 =>
    /\ got[d][4].server.udid = d
    /\ got[d][4].server.nonce = nonce[d]
    /\ got[d][4].server.prop_size = Len(bin)

DeviceOK(d) ==
  /\ IsSeq(got[d])
  /\ at[d] \in {"idle", "rejected"} => got[d] = <<>>
  /\ at[d] \in {"accepted", "verified", "failed"} => Len(got[d]) = 4
  /\ LastBlockFor(d)

DeviceInv ==
  /\ at = [d \in Devices |-> at[d]]
  /\ nonce = [d \in Devices |-> nonce[d]]
  /\ got = [d \in Devices |-> got[d]]
  /\ \A d \in Devices : DeviceOK(d)

LEMMA EmptyIsSeq == IsSeq(<<>>) /\ Len(<<>>) = 0
<1>1. <<>> \in Seq({})
  OBVIOUS
<1> QED BY <1>1 DEF IsSeq

LEMMA OtherDevice ==
  ASSUME NEW e, DeviceOK(e), bin' = bin,
         at'[e] = at[e], nonce'[e] = nonce[e], got'[e] = got[e]
  PROVE  DeviceOK(e)'
BY DEF DeviceOK, LastBlockFor

LEMMA DeviceInvInit == Init => DeviceInv
<1> SUFFICES ASSUME Init PROVE DeviceInv
  OBVIOUS
<1>1. /\ at = [d \in Devices |-> "idle"] /\ nonce = [d \in Devices |-> 0]
      /\ got = [d \in Devices |-> <<>>]
  BY DEF Init
<1>2. \A d \in Devices : DeviceOK(d)
  BY <1>1, EmptyIsSeq DEF DeviceOK, LastBlockFor
<1> QED BY <1>1, <1>2 DEF DeviceInv

LEMMA DeviceInvKept ==
  ASSUME ServerInv, DeviceInv, [Next]_vars
  PROVE  DeviceInv'
<1>1. /\ at = [d \in Devices |-> at[d]] /\ nonce = [d \in Devices |-> nonce[d]]
      /\ got = [d \in Devices |-> got[d]] /\ \A d \in Devices : DeviceOK(d)
  BY DEF DeviceInv
<1>2. CASE UNCHANGED <<bin, at, nonce, got>>
  BY <1>1, <1>2, OtherDevice DEF DeviceInv
<1>3. CASE NextVersion \/ Restart
  BY <1>2, <1>3 DEF NextVersion, Restart
<1>4. CASE UNCHANGED vars
  BY <1>2, <1>4 DEF vars, devices
<1>5. ASSUME NEW d \in Devices, Device(d)
      PROVE  DeviceInv'
  \* It is enough to look at this device.
  <2>1. ASSUME NEW a, NEW n, NEW g, bin' = bin, at' = [at EXCEPT ![d] = a],
               nonce' = [nonce EXCEPT ![d] = n], got' = [got EXCEPT ![d] = g],
               DeviceOK(d)'
        PROVE  DeviceInv'
    <3>1. /\ at' = [e \in Devices |-> at'[e]] /\ nonce' = [e \in Devices |-> nonce'[e]]
          /\ got' = [e \in Devices |-> got'[e]]
      BY <1>1, <2>1
    <3>2. \A e \in Devices \ {d} : at'[e] = at[e] /\ nonce'[e] = nonce[e] /\ got'[e] = got[e]
      BY <1>1, <2>1
    <3>3. \A e \in Devices \ {d} : DeviceOK(e)'
      BY <1>1, <2>1, <3>2, OtherDevice
    <3> QED BY <2>1, <3>1, <3>3 DEF DeviceInv
  <2>2. /\ at = [at EXCEPT ![d] = at[d]] /\ nonce = [nonce EXCEPT ![d] = nonce[d]]
        /\ got = [got EXCEPT ![d] = got[d]] /\ DeviceOK(d)
    BY <1>1
  <2>3. CASE Start(d)
    <3>1. /\ bin' = bin /\ at' = [at EXCEPT ![d] = "receive"]
          /\ nonce' = [nonce EXCEPT ![d] = nonce[d] + 1] /\ got' = got /\ got[d] = <<>>
      BY <2>2, <2>3 DEF Start, DeviceOK
    <3>2. at'[d] = "receive" /\ got'[d] = <<>>
      BY <1>1, <3>1
    <3>3. DeviceOK(d)'
      BY <3>2, EmptyIsSeq DEF DeviceOK, LastBlockFor
    <3> QED BY <2>1, <2>2, <3>1, <3>3
  <2>4. CASE GetBlock(d)
    <3> DEFINE b == Block(file', Len(got[d]))
    <3>1. /\ at[d] = "receive" /\ Sign(d, TRUE) /\ Len(got[d]) < 4
          /\ UNCHANGED <<bin, disk, at, nonce>>
      BY <2>4 DEF GetBlock
    <3>2. got' = [got EXCEPT ![d] = Append(got[d], b)]
      BY <2>4 DEF GetBlock
    <3>3. /\ file'.server.udid = d /\ file'.server.nonce = nonce[d]
          /\ file'.server.prop_size = Len(bin)
      BY <3>1, SignKeeps DEF ServerInv, ServerOK
    <3>4. Len(got[d]) = 3 => b.server = file'.server
      BY DEF Block
    <3> HIDE DEF b
    <3>5. got'[d] = Append(got[d], b)
      BY <1>1, <3>2
    <3>6. /\ IsSeq(got'[d]) /\ Len(got[d]) \in Nat /\ Len(got'[d]) = Len(got[d]) + 1
          /\ got'[d][Len(got[d]) + 1] = b
      BY <2>2, <3>5, AppendIsSeq DEF DeviceOK
    <3>7. ASSUME Len(got'[d]) = 4
          PROVE  got'[d][4] = b /\ Len(got[d]) = 3
      <4> DEFINE n == Len(got[d])
      <4>1. n \in Nat /\ n + 1 = 4 /\ got'[d][n + 1] = b
        BY <3>6, <3>7
      <4> HIDE DEF n
      <4>2. n = 3 /\ got'[d][4] = b
        BY <4>1
      <4> QED BY <4>2 DEF n
    <3>8. DeviceOK(d)'
      BY <3>1, <3>3, <3>4, <3>6, <3>7 DEF DeviceOK, LastBlockFor
    <3> QED BY <2>1, <2>2, <3>1, <3>2, <3>8
  <2>5. CASE Reject(d) /\ UNCHANGED <<bin, nonce>>
    <3>1. at'[d] = "rejected" /\ got'[d] = <<>>
      BY <1>1, <2>5 DEF Reject
    <3>2. DeviceOK(d)'
      BY <3>1, EmptyIsSeq DEF DeviceOK, LastBlockFor
    <3> QED BY <2>1, <2>2, <2>5, <3>2 DEF Reject
  <2>6. CASE GetError(d)
    BY <2>5, <2>6 DEF GetError
  <2>7. ASSUME NEW a \in {"accepted", "verified", "failed"}, at' = [at EXCEPT ![d] = a],
               UNCHANGED <<bin, nonce, got>>, Len(got[d]) = 4
        PROVE  DeviceInv'
    <3>1. at'[d] = a
      BY <1>1, <2>7
    <3>2. DeviceOK(d)'
      BY <2>2, <2>7, <3>1 DEF DeviceOK, LastBlockFor
    <3> QED BY <2>1, <2>2, <2>7, <3>2
  <2>8. CASE VerifyManifest(d)
    BY <2>5, <2>7, <2>8 DEF VerifyManifest
  <2>9. CASE VerifyFirmware(d)
    <3>1. Len(got[d]) = 4
      BY <2>2, <2>9 DEF VerifyFirmware, DeviceOK
    <3> QED BY <2>7, <2>9, <3>1 DEF VerifyFirmware
  <2> QED BY <1>5, <2>3, <2>4, <2>6, <2>8, <2>9 DEF Device
<1> QED BY <1>3, <1>4, <1>5 DEF Next

\* Every manifest that a device accepts was made for this attempt of this device
\* and announces the length of the binary, whatever other devices and restarts
\* do to the one copy of the manifest between its blocks.
THEOREM AcceptsOwnOnly == Spec => []AcceptedForDevice
<1>1. Init => ServerInv /\ DeviceInv
  BY ServerInvInit, DeviceInvInit
<1>2. ServerInv /\ DeviceInv /\ [Next]_vars => ServerInv' /\ DeviceInv'
  BY ServerInvKept, DeviceInvKept
<1>3. DeviceInv => AcceptedForDevice
  BY DEF DeviceInv, DeviceOK, LastBlockFor, AcceptedForDevice, Received
<1> QED BY <1>1, <1>2, <1>3, PTL DEF Spec

----------------------------------------------------------------------------
(* Rejected only after interference.  As long as nobody interferes, the    *)
(* blocks of a device are those of the manifest on offer, which is newer   *)
(* than what it runs.  A manifest without a signature is for an attempt    *)
(* that was rejected, and no nonce is used twice.                          *)

VersionInv ==
  /\ nonce \in [Devices -> Nat] /\ version \in [Devices -> Nat]
  /\ file.vendor.version \in Nat /\ disk.vendor.version \in Nat

UnsignedInv ==
  /\ disk.server_signature[1] # NoSignature
  /\ file.server_signature[1] = NoSignature =>
       \E d \in Devices :
         /\ file.server.udid = d /\ file.server.nonce \in 0 .. nonce[d]
         /\ file.server.nonce = nonce[d] => at[d] = "rejected"

UndisturbedOK(d) ==
  disturbed[d] = FALSE =>
    /\ at[d] # "rejected"
    /\ at[d] = "receive" =>
         /\ file.vendor.version > version[d]
         /\ got[d] # <<>> => ForDevice(d) /\ file.vendor_signature # NoSignature
         /\ \A n \in 1 .. Len(got[d]) : got[d][n] = Block(file, n - 1)

UndisturbedInv ==
  /\ ServerInv /\ DeviceInv /\ VersionInv /\ UnsignedInv
  /\ disturbed \in [Devices -> BOOLEAN]
  /\ \A d \in Devices : UndisturbedOK(d)

\* What a request changes in the manifest.
LEMMA SignChanges ==
  ASSUME ServerInv, NEW d, NEW ok \in BOOLEAN, Sign(d, ok)
  PROVE  /\ file'.vendor = file.vendor
         /\ ForDevice(d) => ok /\ file' = file
         /\ ~ForDevice(d) => /\ file' # file
                             /\ ok => file'.server_signature[1] # NoSignature
<1>1. CASE ForDevice(d)
  BY <1>1, Zenon DEF Sign
<1>2. CASE ~ForDevice(d)
  <2> DEFINE part == [udid |-> d, nonce |-> nonce[d], diff_version |-> version[d],
                      prop_size |-> Len(bin)]
             next == sign_manifest_server([file EXCEPT !.server = part], "server",
                                          FreshSalt, ok)
  <2>1. file' = next
    BY <1>2, Zenon DEF Sign
  <2>2. part.prop_size = Len(bin) /\ part.udid = d /\ part.nonce = nonce[d]
    OBVIOUS
  <2> HIDE DEF part
  <2>3. /\ next.server = part /\ next.vendor = file.vendor
        /\ ok => next.server_signature[1] # NoSignature
    BY <2>2, SignServer DEF ServerInv
  <2> HIDE DEF next
  <2> QED BY <1>2, <2>1, <2>2, <2>3 DEF ForDevice
<1> QED BY <1>1, <1>2

\* A device that takes no part in a step and is not disturbed by it.
LEMMA BystanderOK ==
  ASSUME NEW e, UndisturbedOK(e), version' = version,
         at'[e] = at[e], nonce'[e] = nonce[e], got'[e] = got[e],
         disturbed'[e] = FALSE =>
           /\ disturbed[e] = FALSE
           /\ at[e] = "receive" => /\ file' = file \/ got[e] = <<>>
                                   /\ file'.vendor.version > version[e]
  PROVE  UndisturbedOK(e)'
<1> SUFFICES ASSUME disturbed'[e] = FALSE
             PROVE  /\ at[e] # "rejected"
                    /\ at[e] = "receive" =>
                         /\ file'.vendor.version > version[e]
                         /\ got[e] # <<>> => /\ ForDevice(e)'
                                            /\ file'.vendor_signature # NoSignature
                         /\ \A n \in 1 .. Len(got[e]) : got[e][n] = Block(file', n - 1)
  BY DEF UndisturbedOK, Block
<1>1. at[e] # "rejected"
  BY DEF UndisturbedOK
<1>2. CASE at[e] = "receive" /\ file' = file
  BY <1>2 DEF UndisturbedOK, ForDevice
<1>3. CASE at[e] = "receive" /\ got[e] = <<>>
  BY <1>3, EmptyIsSeq
<1> QED BY <1>1, <1>2, <1>3

LEMMA DisturbSpares ==
  ASSUME VersionInv, VersionInv', version' = version, disturbed \in [Devices -> BOOLEAN],
         NEW actors
  PROVE  /\ Harmed(actors) \in [Devices -> BOOLEAN]
         /\ \A e \in Devices :
              Harmed(actors)[e] = FALSE =>
                /\ disturbed[e] = FALSE
                /\ at[e] = "receive" /\ e \notin actors =>
                     /\ file' = file \/ got[e] = <<>>
                     /\ file'.vendor.version > version[e]
<1> DEFINE P(e) == /\ at[e] = "receive" /\ e \notin actors
                   /\ (file' # file /\ got[e] # <<>>) \/ file'.vendor.version <= version[e]
<1>1. Harmed(actors) = [e \in Devices |-> disturbed[e] \/ P(e)]
  BY Zenon DEF Harmed
<1>2. \A e \in Devices :
        Harmed(actors)[e] = (disturbed[e] \/ P(e)) /\ disturbed[e] \in BOOLEAN
  BY <1>1
<1>3. Harmed(actors) \in [Devices -> BOOLEAN]
  BY <1>1
<1>4. \A e \in Devices : ~(file'.vendor.version <= version[e]) => file'.vendor.version > version[e]
  BY DEF VersionInv
<1>5. \A e \in Devices : Harmed(actors)[e] = FALSE => disturbed[e] = FALSE /\ ~P(e)
  BY <1>2
<1> QED BY <1>3, <1>4, <1>5

LEMMA UndisturbedInit == Init => UndisturbedInv
<1> SUFFICES ASSUME Init PROVE UndisturbedInv
  OBVIOUS
<1>1. ServerInv /\ DeviceInv
  BY ServerInvInit, DeviceInvInit
<1>2. PICK g \in Garbage : disk = manifest_generate_command(bin, FirstVersion, g)
  BY DEF Init
<1>3. disk.vendor.version = FirstVersion /\ disk.server_signature[1] # NoSignature /\ file = disk
  BY <1>2, Generated DEF Init
<1>4. FirstVersion \in Nat /\ DeviceVersions \subseteq Nat
  BY ProvisioningAssumption, ManifestAssumption
<1>5. VersionInv
  BY <1>3, <1>4 DEF Init, VersionInv
<1>6. UnsignedInv
  BY <1>3 DEF UnsignedInv
<1>7. disturbed \in [Devices -> BOOLEAN] /\ \A d \in Devices : at[d] = "idle"
  BY DEF Init
<1> QED BY <1>1, <1>5, <1>6, <1>7 DEF UndisturbedInv, UndisturbedOK

\* Versions and nonces stay numbers.
LEMMA VersionsKept == UndisturbedInv /\ [Next]_vars => VersionInv'
<1> SUFFICES ASSUME UndisturbedInv, [Next]_vars PROVE VersionInv'
  OBVIOUS
<1>1. VersionInv /\ ServerInv
  BY DEF UndisturbedInv
<1>2. CASE NextVersion
  <2>1. UNCHANGED <<disk, nonce, version>>
    BY <1>2 DEF NextVersion
  <2>2. (file.vendor.version + 1) % VersionMod \in Nat
    BY <1>1, ManifestAssumption DEF VersionInv
  <2>3. file'.vendor.version = (file.vendor.version + 1) % VersionMod
    BY <1>1, <1>2, VersionRaised
  <2> QED BY <1>1, <2>1, <2>2, <2>3 DEF VersionInv
<1>3. CASE Restart
  BY <1>1, <1>3 DEF Restart, VersionInv
<1>4. CASE UNCHANGED vars
  BY <1>1, <1>4 DEF vars, server, devices, VersionInv
<1>5. ASSUME NEW d \in Devices, Device(d) PROVE VersionInv'
  <2>1. CASE Start(d)
    <3>1. UNCHANGED <<file, disk, version>> /\ nonce' = [nonce EXCEPT ![d] = nonce[d] + 1]
      BY <2>1 DEF Start, server
    <3> QED BY <1>1, <3>1 DEF VersionInv
  <2>2. CASE VerifyManifest(d)
    BY <1>1, <2>2 DEF VerifyManifest, server, VersionInv
  <2>3. ASSUME NEW ok \in BOOLEAN, Sign(d, ok), UNCHANGED <<disk, nonce, version>>
        PROVE  VersionInv'
    <3>1. file'.vendor = file.vendor
      BY <1>1, <2>3, SignChanges
    <3> QED BY <1>1, <2>3, <3>1 DEF VersionInv
  <2> QED BY <1>5, <2>1, <2>2, <2>3 DEF Device, GetBlock, GetError, VerifyFirmware
<1> QED BY <1>2, <1>3, <1>4, <1>5 DEF Next

LEMMA UnsignedKept == UndisturbedInv /\ [Next]_vars => UnsignedInv'
<1> SUFFICES ASSUME UndisturbedInv, [Next]_vars PROVE UnsignedInv'
  OBVIOUS
<1>1. VersionInv /\ ServerInv /\ UnsignedInv /\ at = [e \in Devices |-> at[e]]
  BY DEF UndisturbedInv, DeviceInv
<1>2. CASE NextVersion
  <2>1. UNCHANGED <<disk, nonce, at>>
    BY <1>2 DEF NextVersion
  <2>2. file'.server = file.server /\ file'.server_signature = file.server_signature
    BY <1>1, <1>2, VersionRaised
  <2> QED BY <1>1, <2>1, <2>2 DEF UnsignedInv
<1>3. CASE Restart
  BY <1>1, <1>3 DEF Restart, UnsignedInv
<1>4. CASE UNCHANGED vars
  BY <1>1, <1>4 DEF vars, server, devices, UnsignedInv
<1>5. ASSUME NEW d \in Devices, Device(d) PROVE UnsignedInv'
  \* A step that signs nothing and ends no rejected attempt.
  <2>1. ASSUME UNCHANGED <<file, disk>>, NEW a, at' = [at EXCEPT ![d] = a],
               \/ nonce' = nonce /\ (at[d] = "rejected" => a = "rejected")
               \/ nonce' = [nonce EXCEPT ![d] = nonce[d] + 1]
        PROVE  UnsignedInv'
    <3> SUFFICES ASSUME file.server_signature[1] = NoSignature
                 PROVE  \E e \in Devices :
                          /\ file.server.udid = e /\ file.server.nonce \in 0 .. nonce'[e]
                          /\ file.server.nonce = nonce'[e] => at'[e] = "rejected"
      BY <1>1, <2>1 DEF UnsignedInv
    <3>1. PICK e \in Devices :
            /\ file.server.udid = e /\ file.server.nonce \in 0 .. nonce[e]
            /\ file.server.nonce = nonce[e] => at[e] = "rejected"
      BY <1>1 DEF UnsignedInv
    <3>2. CASE e # d
      <4>1. nonce'[e] = nonce[e] /\ at'[e] = at[e]
        BY <1>1, <2>1, <3>2 DEF VersionInv
      <4> QED BY <3>1, <4>1
    <3>3. CASE e = d /\ nonce' = nonce
      <4>1. at[d] = "rejected" => at'[d] = "rejected"
        BY <1>1, <2>1, <3>3 DEF VersionInv
      <4> QED BY <3>1, <3>3, <4>1
    <3>4. CASE e = d /\ nonce' = [nonce EXCEPT ![d] = nonce[d] + 1]
      <4>1. nonce'[d] = nonce[d] + 1 /\ nonce[d] \in Nat
        BY <1>1, <3>4 DEF VersionInv
      <4>2. file.server.nonce \in 0 .. nonce'[d] /\ file.server.nonce # nonce'[d]
        BY <3>1, <3>4, <4>1
      <4> QED BY <3>1, <3>4, <4>2
    <3> QED BY <2>1, <3>2, <3>3, <3>4
  <2>2. CASE Start(d)
    <3>1. UNCHANGED <<file, disk>> /\ at' = [at EXCEPT ![d] = "receive"]
          /\ nonce' = [nonce EXCEPT ![d] = nonce[d] + 1]
      BY <2>2 DEF Start, server
    <3> QED BY <2>1, <3>1
  <2>3. CASE VerifyManifest(d)
    <3>1. UNCHANGED <<file, disk, nonce>> /\ at[d] = "receive"
      BY <2>3 DEF VerifyManifest, server
    <3>2. at' = [at EXCEPT ![d] = "accepted"] \/ at' = [at EXCEPT ![d] = "rejected"]
      BY <2>3 DEF VerifyManifest, Reject
    <3> QED BY <2>1, <3>1, <3>2
  <2>4. ASSUME Sign(d, TRUE), UNCHANGED <<disk, nonce>>, NEW a, at' = [at EXCEPT ![d] = a],
               at[d] # "rejected"
        PROVE  UnsignedInv'
    <3>1. CASE ForDevice(d)
      <4>1. file' = file
        BY <1>1, <2>4, <3>1, SignChanges
      <4> QED BY <2>1, <2>4, <4>1
    <3>2. CASE ~ForDevice(d)
      <4>1. file'.server_signature[1] # NoSignature
        BY <1>1, <2>4, <3>2, SignChanges
      <4> QED BY <1>1, <2>4, <4>1 DEF UnsignedInv
    <3> QED BY <3>1, <3>2
  <2>5. CASE GetBlock(d)
    <3>1. at' = [at EXCEPT ![d] = at[d]] /\ at[d] = "receive"
      BY <1>1, <2>5 DEF GetBlock
    <3> QED BY <2>4, <2>5, <3>1 DEF GetBlock
  <2>6. CASE VerifyFirmware(d)
    BY <2>4, <2>6 DEF VerifyFirmware
  <2>7. CASE GetError(d)
    <3>1. Sign(d, FALSE) /\ UNCHANGED <<bin, disk, nonce>> /\ at' = [at EXCEPT ![d] = "rejected"]
      BY <2>7 DEF GetError, Reject
    <3>2. file'.server.udid = d /\ file'.server.nonce = nonce[d]
      BY <1>1, <3>1, SignKeeps
    <3>3. at'[d] = "rejected" /\ nonce[d] \in Nat
      BY <1>1, <3>1 DEF VersionInv
    <3>4. file'.server.nonce \in 0 .. nonce'[d]
      BY <3>1, <3>2, <3>3
    <3> QED BY <1>1, <3>1, <3>2, <3>3, <3>4 DEF UnsignedInv
  <2> QED BY <1>5, <2>2, <2>3, <2>5, <2>6, <2>7 DEF Device
<1> QED BY <1>2, <1>3, <1>4, <1>5 DEF Next

\* Four blocks of a signed manifest put together are accepted.
LEMMA CompleteAccepted ==
  ASSUME UndisturbedInv, NEW d \in Devices, disturbed[d] = FALSE,
         at[d] = "receive", Len(got[d]) = 4
  PROVE  Received(d).vendor.version > version[d] /\ verify_manifest(Received(d), Safestore)
<1>1. UndisturbedOK(d) /\ ServerInv /\ UnsignedInv
  BY DEF UndisturbedInv
<1>2. file.vendor.version > version[d] /\ \A n \in 1 .. 4 : got[d][n] = Block(file, n - 1)
  BY <1>1 DEF UndisturbedOK
<1>3. ForDevice(d) /\ file.vendor_signature # NoSignature
  BY <1>1, EmptyIsSeq DEF UndisturbedOK
<1>4. /\ got[d][1] = Block(file, 0) /\ got[d][2] = Block(file, 1)
      /\ got[d][3] = Block(file, 2) /\ got[d][4] = Block(file, 3)
  BY <1>2
<1>5. /\ got[d][1] = file.vendor_signature /\ got[d][2] = file.vendor
      /\ got[d][3] = file.server_signature[1]
      /\ got[d][4] = [signature |-> file.server_signature[2], server |-> file.server]
  BY <1>4 DEF Block
<1>6. Received(d) = [vendor_signature |-> file.vendor_signature, vendor |-> file.vendor,
                     server_signature |-> <<file.server_signature[1], file.server_signature[2]>>,
                     server |-> file.server]
  BY <1>5 DEF Received
<1>7. file.server_signature[1] # NoSignature
  BY <1>1, <1>3 DEF UnsignedInv, ForDevice
<1>8. /\ ecc_verify("vendor", file.vendor_signature, file.vendor)
      /\ file.vendor.appid = "app" /\ file.vendor.server_key = "server"
      /\ file.server_signature[1] = file.server_signature[2]
      /\ ecc_verify("server", file.server_signature[1], file.server)
  BY <1>1, <1>3, <1>7 DEF ServerInv, VendorOK, ServerOK
<1> QED BY <1>2, <1>6, <1>8 DEF verify_manifest, verify_signature, Safestore

LEMMA UndisturbedKept == UndisturbedInv /\ [Next]_vars => UndisturbedInv'
<1> SUFFICES ASSUME UndisturbedInv, [Next]_vars PROVE UndisturbedInv'
  OBVIOUS
<1>1. /\ ServerInv /\ VersionInv /\ disturbed \in [Devices -> BOOLEAN]
      /\ \A d \in Devices : UndisturbedOK(d) /\ DeviceOK(d)
      /\ at = [e \in Devices |-> at[e]] /\ nonce = [e \in Devices |-> nonce[e]]
      /\ got = [e \in Devices |-> got[e]]
  BY DEF UndisturbedInv, DeviceInv
<1>2. ServerInv' /\ DeviceInv' /\ VersionInv' /\ UnsignedInv'
  BY ServerInvKept, DeviceInvKept, VersionsKept, UnsignedKept DEF UndisturbedInv
<1> SUFFICES /\ disturbed' \in [Devices -> BOOLEAN]
             /\ \A e \in Devices : UndisturbedOK(e)'
  BY <1>2 DEF UndisturbedInv
<1>3. CASE NextVersion \/ Restart
  <2>1. UNCHANGED <<at, version, nonce, got>> /\ \E nobody : nobody = {} /\ Disturb(nobody)
    BY <1>3 DEF NextVersion, Restart
  <2>2. PICK nobody : nobody = {} /\ Disturb(nobody)
    BY <2>1
  <2>3. /\ disturbed' \in [Devices -> BOOLEAN]
        /\ \A e \in Devices :
             disturbed'[e] = FALSE =>
               /\ disturbed[e] = FALSE
               /\ at[e] = "receive" /\ e \notin nobody => /\ file' = file \/ got[e] = <<>>
                                                          /\ file'.vendor.version > version[e]
    BY <1>1, <1>2, <2>1, <2>2, DisturbSpares DEF Disturb
  <2> QED BY <1>1, <2>1, <2>2, <2>3, BystanderOK
<1>4. CASE UNCHANGED vars
  <2>1. UNCHANGED <<file, at, version, nonce, got, disturbed>>
    BY <1>4 DEF vars, server, devices
  <2>2. \A e \in Devices : UndisturbedOK(e)'
    BY <1>1, <2>1, BystanderOK DEF UndisturbedOK
  <2> QED BY <1>1, <2>1, <2>2
<1>5. ASSUME NEW d \in Devices, Device(d)
      PROVE  /\ disturbed' \in [Devices -> BOOLEAN]
             /\ \A e \in Devices : UndisturbedOK(e)'
  <2>1. UndisturbedOK(d) /\ DeviceOK(d)
    BY <1>1
  \* The others see no more of a request than that the server's part changes.
  <2>2. ASSUME Sign(d, TRUE), UNCHANGED version, NEW harm,
               disturbed' = [Harmed({d}) EXCEPT ![d] = @ \/ harm],
               \A e \in Devices \ {d} : at'[e] = at[e] /\ nonce'[e] = nonce[e] /\ got'[e] = got[e]
        PROVE  /\ disturbed' \in [Devices -> BOOLEAN]
               /\ \A e \in Devices \ {d} : UndisturbedOK(e)'
               /\ disturbed'[d] = FALSE => disturbed[d] = FALSE /\ ~harm
    <3>1. /\ Harmed({d}) \in [Devices -> BOOLEAN]
          /\ \A e \in Devices :
               Harmed({d})[e] = FALSE =>
                 /\ disturbed[e] = FALSE
                 /\ at[e] = "receive" /\ e \notin {d} =>
                      /\ file' = file \/ got[e] = <<>>
                      /\ file'.vendor.version > version[e]
      BY <1>1, <1>2, <2>2, DisturbSpares
    <3> DEFINE h == Harmed({d})
    <3> HIDE DEF h
    <3>2. h \in [Devices -> BOOLEAN] /\ disturbed' = [h EXCEPT ![d] = h[d] \/ harm]
      BY <2>2, <3>1 DEF h
    <3>3. /\ disturbed' \in [Devices -> BOOLEAN] /\ disturbed'[d] = (h[d] \/ harm)
          /\ \A e \in Devices \ {d} : disturbed'[e] = h[e]
      BY <3>2
    <3>4. \A e \in Devices \ {d} : UndisturbedOK(e)'
      BY <1>1, <2>2, <3>1, <3>3, BystanderOK DEF h
    <3>5. disturbed'[d] = FALSE => h[d] = FALSE /\ ~harm
      BY <3>2, <3>3
    <3> QED BY <3>1, <3>3, <3>4, <3>5 DEF h
  <2>3. CASE Start(d)
    <3>1. /\ UNCHANGED <<file, version, got>> /\ file.vendor.version > version[d]
          /\ at' = [at EXCEPT ![d] = "receive"] /\ got[d] = <<>>
          /\ nonce' = [nonce EXCEPT ![d] = nonce[d] + 1]
          /\ disturbed' = [disturbed EXCEPT ![d] = FALSE]
      BY <2>1, <2>3 DEF Start, server, DeviceOK
    <3>2. disturbed' \in [Devices -> BOOLEAN]
      BY <1>1, <3>1
    <3>3. at'[d] = "receive" /\ got'[d] = <<>>
      BY <1>1, <3>1
    <3>4. UndisturbedOK(d)'
      BY <3>1, <3>3, EmptyIsSeq DEF UndisturbedOK
    <3>5. ASSUME NEW e \in Devices \ {d} PROVE UndisturbedOK(e)'
      <4>1. /\ at'[e] = at[e] /\ nonce'[e] = nonce[e] /\ got'[e] = got[e]
            /\ disturbed'[e] = disturbed[e] /\ UndisturbedOK(e)
        BY <1>1, <3>1
      <4> QED BY <3>1, <4>1, BystanderOK DEF UndisturbedOK
    <3> QED BY <3>2, <3>4, <3>5
  <2>4. CASE GetBlock(d)
    <3> DEFINE b == Block(file', Len(got[d]))
               harm == got'[d][1] = NoSignature
    <3>1. /\ at[d] = "receive" /\ Sign(d, TRUE)
          /\ UNCHANGED <<bin, disk, at, version, nonce>>
          /\ got' = [got EXCEPT ![d] = Append(got[d], b)]
          /\ disturbed' = [Harmed({d}) EXCEPT ![d] = @ \/ harm]
      BY <2>4 DEF GetBlock
    <3>2. \A e \in Devices \ {d} : at'[e] = at[e] /\ nonce'[e] = nonce[e] /\ got'[e] = got[e]
      BY <1>1, <3>1
    <3>3. /\ disturbed' \in [Devices -> BOOLEAN]
          /\ \A e \in Devices \ {d} : UndisturbedOK(e)'
          /\ disturbed'[d] = FALSE => disturbed[d] = FALSE /\ ~harm
      <4> HIDE DEF harm
      <4> QED BY <2>2, <3>1, <3>2
    <3>4. ASSUME disturbed'[d] = FALSE PROVE UndisturbedOK(d)'
      <4>1. /\ disturbed[d] = FALSE /\ file.vendor.version > version[d]
            /\ got[d] # <<>> => ForDevice(d) /\ file.vendor_signature # NoSignature
            /\ \A n \in 1 .. Len(got[d]) : got[d][n] = Block(file, n - 1)
        BY <2>1, <3>1, <3>3, <3>4 DEF UndisturbedOK
      <4>2. file'.vendor.version > version[d] /\ ForDevice(d)'
        BY <1>1, <3>1, <4>1, SignChanges, SignKeeps DEF ForDevice
      <4>3. \A n \in 1 .. Len(got[d]) : got[d][n] = Block(file', n - 1)
        <5>1. CASE ForDevice(d)
          BY <1>1, <3>1, <4>1, <5>1, SignChanges
        <5>2. CASE got[d] = <<>>
          BY <5>2, EmptyIsSeq
        <5> QED BY <4>1, <5>1, <5>2
      <4> HIDE DEF b
      <4>4. got'[d] = Append(got[d], b)
        BY <1>1, <3>1
      <4>5. /\ Len(got[d]) \in Nat /\ Len(got'[d]) = Len(got[d]) + 1
            /\ got'[d][Len(got[d]) + 1] = b
            /\ \A n \in 1 .. Len(got[d]) : got'[d][n] = got[d][n]
        BY <2>1, <4>4, AppendIsSeq DEF DeviceOK
      <4>6. \A n \in 1 .. Len(got'[d]) : got'[d][n] = Block(file', n - 1)
        <5>1. TAKE n \in 1 .. Len(got'[d])
        <5>2. CASE n \in 1 .. Len(got[d])
          BY <4>3, <4>5, <5>2
        <5>3. CASE n = Len(got[d]) + 1
          <6>1. n - 1 = Len(got[d])
            BY <4>5, <5>3
          <6> QED BY <4>5, <5>3, <6>1 DEF b
        <5> QED BY <4>5, <5>1, <5>2, <5>3
      <4>7. file'.vendor_signature # NoSignature
        <5>1. 1 \in 1 .. Len(got'[d])
          BY <4>5
        <5>2. got'[d][1] = Block(file', 0)
          BY <4>6, <5>1
        <5>3. got'[d][1] # NoSignature
          BY <3>3, <3>4
        <5> QED BY <5>2, <5>3 DEF Block
      <4> QED BY <3>1, <4>2, <4>6, <4>7 DEF UndisturbedOK, Block
    <3>5. UndisturbedOK(d)'
      BY <3>4 DEF UndisturbedOK
    <3> QED BY <3>3, <3>5
  <2>5. CASE GetError(d)
    <3>1. /\ Sign(d, FALSE) /\ Reject(d) /\ UNCHANGED <<version, nonce>>
          /\ disturbed' = [e \in Devices |-> disturbed[e] \/ e = d \/ got[e] # <<>>]
      BY <2>5 DEF GetError
    <3>2. /\ disturbed' \in [Devices -> BOOLEAN] /\ disturbed'[d] = TRUE
          /\ \A e \in Devices : disturbed'[e] = FALSE => disturbed[e] = FALSE /\ got[e] = <<>>
      BY <1>1, <3>1
    <3>3. file'.vendor = file.vendor
      BY <1>1, <3>1, SignChanges
    <3>4. UndisturbedOK(d)'
      BY <3>2 DEF UndisturbedOK
    <3>5. ASSUME NEW e \in Devices \ {d} PROVE UndisturbedOK(e)'
      <4>1. at'[e] = at[e] /\ nonce'[e] = nonce[e] /\ got'[e] = got[e] /\ UndisturbedOK(e)
        BY <1>1, <3>1 DEF Reject
      <4>2. disturbed'[e] = FALSE /\ at[e] = "receive" => file'.vendor.version > version[e]
        BY <3>2, <3>3, <4>1 DEF UndisturbedOK
      <4> QED BY <3>1, <3>2, <4>1, <4>2, BystanderOK
    <3> QED BY <3>2, <3>4, <3>5
  <2>6. CASE VerifyManifest(d)
    <3>1. UNCHANGED <<file, version, nonce, disturbed>> /\ at[d] = "receive" /\ Len(got[d]) = 4
      BY <2>6 DEF VerifyManifest, server
    <3>2. ASSUME disturbed[d] = FALSE PROVE at'[d] = "accepted"
      <4>1. at' = [at EXCEPT ![d] = "accepted"]
        BY <2>6, <3>1, <3>2, CompleteAccepted DEF VerifyManifest
      <4> QED BY <1>1, <4>1
    <3>3. UndisturbedOK(d)'
      BY <3>1, <3>2 DEF UndisturbedOK
    <3>4. ASSUME NEW e \in Devices \ {d} PROVE UndisturbedOK(e)'
      <4>1. at'[e] = at[e] /\ nonce'[e] = nonce[e] /\ got'[e] = got[e] /\ UndisturbedOK(e)
        BY <1>1, <2>6, <3>1 DEF VerifyManifest, Reject
      <4> QED BY <3>1, <4>1, BystanderOK DEF UndisturbedOK
    <3> QED BY <1>1, <3>1, <3>3, <3>4
  <2>7. CASE VerifyFirmware(d)
    <3>1. /\ Sign(d, TRUE) /\ disturbed' = Harmed({d}) /\ UNCHANGED <<version, nonce, got>>
          /\ \E a \in {"verified", "failed"} : at' = [at EXCEPT ![d] = a]
      BY <2>7 DEF VerifyFirmware, Disturb
    <3>2. at'[d] \in {"verified", "failed"} /\ \A e \in Devices \ {d} : at'[e] = at[e]
      BY <1>1, <3>1
    <3>3. UndisturbedOK(d)'
      BY <3>2 DEF UndisturbedOK
    <3>4. disturbed' = [Harmed({d}) EXCEPT ![d] = @ \/ FALSE]
      <4>1. Harmed({d}) \in [Devices -> BOOLEAN]
        BY <1>1, <1>2, <3>1, DisturbSpares
      <4> QED BY <3>1, <4>1
    <3>5. \A e \in Devices \ {d} : at'[e] = at[e] /\ nonce'[e] = nonce[e] /\ got'[e] = got[e]
      BY <3>1, <3>2
    <3> QED BY <2>2, <3>1, <3>3, <3>4, <3>5
  <2> QED BY <1>5, <2>3, <2>4, <2>5, <2>6, <2>7 DEF Device
<1> QED BY <1>3, <1>4, <1>5 DEF Next

\* A device that nobody interferes with accepts what it is offered: a rejection
\* means that another device, a new version or a restart changed the manifest
\* between its blocks, that the version was taken back, or that the server failed
\* to sign, for its request or for the vendor when the version was raised,
\* for any number of devices, attempts, versions and restarts.
THEOREM RejectsOnlyDisturbed == Spec => []UndisturbedAccepted
<1>1. UndisturbedInv => UndisturbedAccepted
  <2> SUFFICES ASSUME UndisturbedInv, NEW d \in Devices, at[d] = "rejected"
               PROVE  disturbed[d]
    BY DEF UndisturbedAccepted
  <2>1. disturbed[d] \in BOOLEAN /\ disturbed[d] # FALSE
    BY DEF UndisturbedInv, UndisturbedOK
  <2> QED BY <2>1
<1> QED BY <1>1, UndisturbedInit, UndisturbedKept, PTL DEF Spec

----------------------------------------------------------------------------
(* The digest.  The loop of verify_digest is a recursive function, whose   *)
(* value is found from its last turn back: were there a turn at which it   *)
(* differs from what is left of the firmware, there would be a last one.   *)

LEMMA LeastElement ==
  ASSUME NEW T, T \subseteq Nat, T # {}
  PROVE  \E x \in T : \A y \in T : x <= y
<1> DEFINE R == OpToRel(<, Nat)
<1>1. IsWellFoundedOn(R, Nat)
  BY NatLessThanWellFounded
<1>2. \A x, y \in Nat : y < x => <<y, x>> \in R
  BY DEF OpToRel
<1> HIDE DEF R
<1>3. \E x \in T : \A y \in T : ~(<<y, x>> \in R)
  BY <1>1, WFMin
<1>4. PICK x \in T : \A y \in T : ~(<<y, x>> \in R)
  BY <1>3
<1>5. \A y \in T : x \in Nat /\ y \in Nat /\ ~(y < x)
  BY <1>2, <1>4
<1>6. \A y \in T : x <= y
  BY <1>5
<1> QED BY <1>6

LEMMA MinOfTwo ==
  ASSUME NEW a \in Int, NEW b \in Int
  PROVE  Min({a, b}) = IF a <= b THEN a ELSE b
<1> DEFINE m == IF a <= b THEN a ELSE b
<1>1. m \in {a, b} /\ \A y \in {a, b} : m <= y
  OBVIOUS
<1>2. \A x \in {a, b} : (\A y \in {a, b} : x <= y) => x = m
  OBVIOUS
<1> HIDE DEF m
<1>3. Min({a, b}) = m
  BY <1>1, <1>2 DEF Min
<1> QED BY <1>3 DEF m

\* The loop reads the firmware, no more and no less, if the first read is not
\* longer than it.
LEMMA HashedIsFirmware ==
  ASSUME NEW S, NEW area \in Seq(S), NEW size \in Nat,
         BufferUnits <= size, size <= Len(area)
  PROVE  Hashed(area, size) = SubSeq(area, 1, size)
<1> DEFINE D == 0 .. size + BufferUnits
           step(from) == IF from = 0 THEN BufferUnits ELSE Min({BufferUnits, size - from})
           turn(f, from) ==
             IF from >= size THEN [ok |-> TRUE, bytes |-> <<>>]
             ELSE IF from + step(from) > Len(area) THEN [ok |-> FALSE, bytes |-> <<>>]
             ELSE [ok |-> f[from + step(from)].ok,
                   bytes |-> SubSeq(area, from + 1, from + step(from))
                             \o f[from + step(from)].bytes]
           loop == CHOOSE f : f = [from \in D |-> turn(f, from)]
           rest(from) == IF from >= size THEN <<>> ELSE SubSeq(area, from + 1, size)
           left == [from \in D |-> [ok |-> TRUE, bytes |-> rest(from)]]
<1>1. Hashed(area, size) = IF size = 0 \/ ~loop[0].ok THEN <<>> ELSE loop[0].bytes
  BY DEF Hashed
<1>2. BufferUnits \in Nat /\ BufferUnits > 0 /\ Len(area) \in Nat
  BY ManifestAssumption
<1>3. ASSUME NEW from \in D, from < size
      PROVE  from + step(from) \in from + 1 .. size /\ from + step(from) \in D
  <2>1. CASE from = 0
    BY <1>2, <1>3, <2>1
  <2>2. CASE from # 0
    <3>1. step(from) = IF BufferUnits <= size - from THEN BufferUnits ELSE size - from
      BY <1>2, <2>2, MinOfTwo
    <3> HIDE DEF step
    <3> QED BY <1>2, <1>3, <3>1
  <2> QED BY <2>1, <2>2
<1> HIDE DEF step
<1>4. \A from \in D : turn(left, from) = left[from]
  <2>1. TAKE from \in D
  <2>2. CASE from >= size
    BY <2>2
  <2>3. CASE from < size
    <3> DEFINE next == from + step(from)
    <3>1. next \in from + 1 .. size /\ next \in D
      BY <1>3, <2>3
    <3> HIDE DEF next
    <3>2. SubSeq(area, from + 1, next) \o SubSeq(area, next + 1, size) = SubSeq(area, from + 1, size)
      BY <1>2, <2>3, <3>1, ConcatAdjacentSubSeq
    <3>3. next >= size => SubSeq(area, next + 1, size) = <<>>
      <4>1. next + 1 \in Int /\ (next >= size => size < next + 1)
        BY <1>2, <3>1
      <4> QED BY <4>1, SubSeqEmpty
    <3>4. left[next] = [ok |-> TRUE, bytes |-> SubSeq(area, next + 1, size)]
      BY <3>1, <3>3
    <3>5. left[from] = [ok |-> TRUE, bytes |-> SubSeq(area, from + 1, size)]
      <4>1. ~(from >= size)
        BY <1>2, <2>3
      <4>2. rest(from) = SubSeq(area, from + 1, size)
        BY <4>1
      <4> QED BY <4>2
    <3>6. next <= Len(area) /\ ~(from >= size)
      BY <1>2, <2>3, <3>1
    <3> HIDE DEF left
    <3>7. turn(left, from) = [ok |-> left[next].ok,
                   bytes |-> SubSeq(area, from + 1, next) \o left[next].bytes]
      BY <1>2, <3>1, <3>6 DEF next
    <3> HIDE DEF turn
    <3>8. left[next].ok = TRUE
      BY <3>4
    <3>10. left[next].bytes = SubSeq(area, next + 1, size)
      <4> DEFINE l == left[next]
                 s == SubSeq(area, next + 1, size)
      <4>1. l = [ok |-> TRUE, bytes |-> s]
        BY <3>4
      <4> HIDE DEF l, s
      <4>2. l.bytes = s
        BY <4>1
      <4> QED BY <4>2 DEF l, s
    <3>9. turn(left, from) = [ok |-> TRUE, bytes |-> SubSeq(area, from + 1, size)]
      BY <3>2, <3>7, <3>8, <3>10
    <3> QED BY <3>5, <3>9
  <2> QED BY <1>2, <2>2, <2>3
<1>5. left = [from \in D |-> turn(left, from)]
  BY <1>4
<1> HIDE DEF left, turn
<1>6. loop = [from \in D |-> turn(loop, from)]
  BY <1>5
<1> HIDE DEF loop
<1>7. \A from \in D : loop[from] = left[from]
  <2> DEFINE T == {k \in D : loop[size + BufferUnits - k] # left[size + BufferUnits - k]}
  <2> SUFFICES ASSUME T # {} PROVE FALSE
    <3>1. TAKE from \in D
    <3>2. size + BufferUnits - from \in D
          /\ size + BufferUnits - (size + BufferUnits - from) = from
      BY <1>2
    <3> QED BY <3>2
  <2>1. T \subseteq Nat
    BY <1>2
  <2>2. PICK k \in T : \A y \in T : k <= y
    <3> HIDE DEF T
    <3> QED BY <2>1, LeastElement
  <2> DEFINE from == size + BufferUnits - k
  <2>3. from \in D /\ loop[from] # left[from] /\ k \in D
    BY <1>2
  <2>4. loop[from] = turn(loop, from) /\ left[from] = turn(left, from)
    BY <1>4, <1>6, <2>3
  <2>5. CASE from >= size
    <3> HIDE DEF from
    <3> QED BY <2>3, <2>4, <2>5 DEF turn
  <2>6. CASE from < size
    <3> DEFINE next == from + step(from)
    <3>1. next \in from + 1 .. size /\ next \in D
      BY <1>3, <2>3, <2>6
    <3>2. size + BufferUnits - next < k /\ size + BufferUnits - next \in D
          /\ size + BufferUnits - (size + BufferUnits - next) = next
      <4> HIDE DEF next
      <4> QED BY <1>2, <2>3, <3>1
    <3>3. loop[next] = left[next]
      <4> HIDE DEF next
      <4> QED BY <1>2, <2>2, <2>3, <3>2
    <3>4. turn(loop, from) = turn(left, from)
      <4> HIDE DEF from
      <4> QED BY <3>3 DEF turn
    <3> QED BY <2>3, <2>4, <3>4
  <2> QED BY <1>2, <2>3, <2>5, <2>6
<1>8. loop[0] = [ok |-> TRUE, bytes |-> SubSeq(area, 1, size)]
  BY <1>2, <1>7 DEF left
<1> QED BY <1>1, <1>2, <1>8

----------------------------------------------------------------------------
(* What was received verifies.  Only diff_version is changed in the stored *)
(* manifest, so that it stays verified where the signed value was 0.       *)

IsPart(p) == p = [udid |-> p.udid, nonce |-> p.nonce, diff_version |-> p.diff_version,
                  prop_size |-> p.prop_size]

ReceivedOK(d) ==
  /\ Len(got[d]) >= 2 => got[d][2].size = Len(bin) /\ got[d][2].digest = bin
  /\ Len(got[d]) >= 4 => IsPart(got[d][4].server)
  /\ at[d] \in {"accepted", "verified", "failed"} => verify_manifest(Received(d), Safestore)
  /\ at[d] = "failed" => Received(d).server.diff_version # 0 \/ Len(bin) < BufferUnits

ReceivedInv ==
  /\ ServerInv /\ DeviceInv
  /\ IsPart(file.server) /\ IsPart(disk.server)
  /\ \E n \in Sizes : bin = [u \in 1 .. n |-> u]
  /\ \A d \in Devices : ReceivedOK(d)

\* The area holds the binary and, behind it, erased flash.
LEMMA AreaHolds ==
  ASSUME NEW n \in Sizes, bin = [u \in 1 .. n |-> u]
  PROVE  /\ n \in Nat \ {0} /\ Len(bin) = n /\ bin # <<>>
         /\ Area \in Seq(Nat) /\ Len(Area) = AreaUnits /\ n <= AreaUnits
         /\ SubSeq(Area, 1, n) = bin
<1>1. n \in 1 .. AreaUnits /\ AreaUnits \in Nat
  BY ProvisioningAssumption
<1>2. bin \in Seq(Nat) /\ Len(bin) = n
  BY <1>1
<1> DEFINE free == [u \in 1 .. AreaUnits - Len(bin) |-> Erased]
<1>3. free \in Seq(Nat) /\ Len(free) = AreaUnits - n
  BY <1>1, <1>2 DEF Erased
<1>4. Area = bin \o free
  BY DEF Area
<1> HIDE DEF free
<1>5. Area \in Seq(Nat) /\ Len(Area) = AreaUnits
  BY <1>1, <1>2, <1>3, <1>4
<1>6. 1 \in 1 .. Len(bin) /\ n \in 1 .. Len(bin)
  BY <1>1, <1>2
<1>7. SubSeq(Area, 1, n) = SubSeq(bin, 1, n)
  BY <1>2, <1>3, <1>4, <1>6, SubSeqOfConcat1
<1>8. SubSeq(bin, 1, n) = bin
  BY <1>2, SubSeqFull
<1>9. bin # <<>>
  BY <1>1, <1>2, EmptyIsSeq
<1> QED BY <1>1, <1>2, <1>5, <1>7, <1>8, <1>9

\* With diff_version 0, the stored manifest is the one that was verified.
LEMMA StoredVerifies ==
  ASSUME ReceivedInv, NEW d \in Devices, at[d] = "accepted",
         Received(d).server.diff_version = 0, BufferUnits <= Len(bin)
  PROVE  verify_object(Stored(d), Area, Safestore)
<1>1. ReceivedOK(d) /\ Len(got[d]) = 4
  BY DEF ReceivedInv, DeviceInv, DeviceOK
<1>2. /\ verify_manifest(Received(d), Safestore)
      /\ got[d][2].size = Len(bin) /\ got[d][2].digest = bin
      /\ IsPart(got[d][4].server)
  BY <1>1 DEF ReceivedOK
<1> DEFINE part == got[d][4].server
           sigs == <<got[d][3], got[d][4].signature>>
<1>3. Received(d) = [vendor_signature |-> got[d][1], vendor |-> got[d][2],
                     server_signature |-> sigs, server |-> part]
  BY DEF Received
<1>4. Received(d).server = part /\ Received(d).vendor = got[d][2]
  BY <1>3
<1>5. [part EXCEPT !.diff_version = 0] = part
  BY <1>2, <1>4 DEF IsPart
<1>6. Stored(d) = Received(d)
  <2> HIDE DEF part, sigs
  <2>1. Stored(d) = [Received(d) EXCEPT !.server = [Received(d).server EXCEPT !.diff_version = 0]]
    BY DEF Stored
  <2> QED BY <1>3, <1>4, <1>5, <2>1
<1>7. PICK n \in Sizes : bin = [u \in 1 .. n |-> u]
  BY DEF ReceivedInv
<1>8. Hashed(Area, n) = bin /\ bin # <<>> /\ Len(bin) = n
  <2>1. /\ n \in Nat /\ Len(bin) = n /\ bin # <<>>
        /\ Area \in Seq(Nat) /\ n <= Len(Area) /\ SubSeq(Area, 1, n) = bin
    BY <1>7, AreaHolds
  <2>2. BufferUnits <= n
    BY <2>1
  <2>3. Hashed(Area, n) = SubSeq(Area, 1, n)
    BY <2>1, <2>2, HashedIsFirmware
  <2> QED BY <2>1, <2>3
<1>9. verify_digest(Area, Received(d))
  BY <1>2, <1>4, <1>8 DEF verify_digest
<1> QED BY <1>2, <1>6, <1>9 DEF verify_object

LEMMA ReceivedInit == Init => ReceivedInv
<1> SUFFICES ASSUME Init PROVE ReceivedInv
  OBVIOUS
<1>1. ServerInv /\ DeviceInv
  BY ServerInvInit, DeviceInvInit
<1>2. PICK g \in Garbage : disk = manifest_generate_command(bin, FirstVersion, g)
  BY DEF Init
<1>3. file = disk /\ IsPart(disk.server)
  <2>1. disk.server = [g EXCEPT !.prop_size = Len(bin)]
    BY <1>2 DEF manifest_generate_command, sign_manifest_server, sign_manifest_vendor
  <2>2. g \in [udid : Devices \cup {"none"}, nonce : Nat, diff_version : Nat, prop_size : Nat]
    BY ProvisioningAssumption
  <2> QED BY <2>1, <2>2 DEF IsPart, Init
<1>4. \A d \in Devices : got[d] = <<>> /\ at[d] = "idle"
  BY DEF Init
<1> QED BY <1>1, <1>3, <1>4, EmptyIsSeq DEF ReceivedInv, ReceivedOK, Init

LEMMA PartsKept ==
  ASSUME ReceivedInv, [Next]_vars
  PROVE  IsPart(file.server)' /\ IsPart(disk.server)' /\ bin' = bin
<1>1. disk' = disk /\ bin' = bin
  BY DEF Next, NextVersion, Restart, Device, Start, GetBlock, GetError, VerifyManifest,
         VerifyFirmware, server, vars
<1>2. IsPart(file.server) /\ IsPart(disk.server) /\ ServerInv
  BY DEF ReceivedInv
<1>3. CASE NextVersion
  <2>1. file'.server = file.server
    BY <1>2, <1>3, VersionRaised
  <2> QED BY <1>1, <1>2, <2>1 DEF IsPart
<1>4. CASE file' = file \/ file' = disk
  BY <1>1, <1>2, <1>4 DEF IsPart
<1>5. ASSUME NEW d, NEW ok, Sign(d, ok) PROVE IsPart(file.server)'
  <2>1. CASE ForDevice(d)
    BY <1>4, <1>5, <2>1, Zenon DEF Sign
  <2>2. CASE ~ForDevice(d)
    <3> DEFINE part == [udid |-> d, nonce |-> nonce[d], diff_version |-> version[d],
                        prop_size |-> Len(bin)]
               next == sign_manifest_server([file EXCEPT !.server = part], "server",
                                            FreshSalt, ok)
    <3>1. file' = next
      BY <1>5, <2>2, Zenon DEF Sign
    <3>2. part.prop_size = Len(bin) /\ IsPart(part)
      BY DEF IsPart
    <3> HIDE DEF part
    <3>3. next.server = part
      BY <1>2, <3>2, SignServer DEF ServerInv
    <3> HIDE DEF next
    <3> QED BY <3>1, <3>2, <3>3 DEF IsPart
  <2> QED BY <2>1, <2>2
<1>6. ASSUME NEW d \in Devices, Device(d) PROVE IsPart(file.server)'
  BY <1>4, <1>5, <1>6 DEF Device, Start, GetBlock, GetError, VerifyManifest, VerifyFirmware, server
<1>7. IsPart(disk.server)'
  BY <1>1, <1>2 DEF IsPart
<1> QED BY <1>1, <1>3, <1>4, <1>6, <1>7 DEF Next, Restart, vars, server

LEMMA BystanderReceived ==
  ASSUME NEW e, ReceivedOK(e), bin' = bin, at'[e] = at[e], got'[e] = got[e]
  PROVE  ReceivedOK(e)'
BY DEF ReceivedOK, Received, IsPart

LEMMA ReceivedKept == ReceivedInv /\ [Next]_vars => ReceivedInv'
<1> SUFFICES ASSUME ReceivedInv, [Next]_vars PROVE ReceivedInv'
  OBVIOUS
<1>1. /\ ServerInv /\ DeviceInv
      /\ \A d \in Devices : ReceivedOK(d) /\ DeviceOK(d)
      /\ at = [e \in Devices |-> at[e]] /\ got = [e \in Devices |-> got[e]]
  BY DEF ReceivedInv, DeviceInv
<1>2. ServerInv' /\ DeviceInv'
  BY <1>1, ServerInvKept, DeviceInvKept
<1>3. IsPart(file.server)' /\ IsPart(disk.server)' /\ bin' = bin
  BY PartsKept
<1> SUFFICES \A e \in Devices : ReceivedOK(e)'
  BY <1>2, <1>3 DEF ReceivedInv
<1>4. CASE UNCHANGED <<at, got>>
  BY <1>1, <1>3, <1>4, BystanderReceived
<1>5. CASE NextVersion \/ Restart \/ UNCHANGED vars
  BY <1>4, <1>5 DEF NextVersion, Restart, vars, devices
<1>6. ASSUME NEW d \in Devices, Device(d) PROVE \A e \in Devices : ReceivedOK(e)'
  <2>1. ReceivedOK(d) /\ DeviceOK(d)
    BY <1>1
  <2>2. ASSUME NEW a, NEW g, at' = [at EXCEPT ![d] = a], got' = [got EXCEPT ![d] = g],
               ReceivedOK(d)'
        PROVE  \A e \in Devices : ReceivedOK(e)'
    <3>1. \A e \in Devices \ {d} : at'[e] = at[e] /\ got'[e] = got[e]
      BY <1>1, <2>2
    <3> QED BY <1>1, <1>3, <2>2, <3>1, BystanderReceived
  <2>3. at = [at EXCEPT ![d] = at[d]] /\ got = [got EXCEPT ![d] = got[d]]
    BY <1>1
  <2>4. CASE Start(d)
    <3>1. got[d] = <<>> /\ got' = got /\ at' = [at EXCEPT ![d] = "receive"]
      BY <2>1, <2>4 DEF Start, DeviceOK
    <3>2. at'[d] = "receive" /\ got'[d] = <<>>
      BY <1>1, <3>1
    <3>3. ReceivedOK(d)'
      BY <3>2, EmptyIsSeq DEF ReceivedOK
    <3> QED BY <2>2, <2>3, <3>1, <3>3
  <2>5. CASE Reject(d)
    <3>1. at'[d] = "rejected" /\ got'[d] = <<>>
      BY <1>1, <2>5 DEF Reject
    <3>2. ReceivedOK(d)'
      BY <3>1, EmptyIsSeq DEF ReceivedOK
    <3> QED BY <2>2, <2>5, <3>2 DEF Reject
  <2>6. CASE GetBlock(d)
    <3> DEFINE b == Block(file', Len(got[d]))
    <3>1. /\ at[d] = "receive" /\ at' = at /\ Len(got[d]) < 4
          /\ got' = [got EXCEPT ![d] = Append(got[d], b)]
      BY <2>6 DEF GetBlock
    <3>2. file'.vendor.size = Len(bin) /\ file'.vendor.digest = bin
      BY <1>2, <1>3 DEF ServerInv, VendorOK
    <3>3. /\ Len(got[d]) = 1 => b.size = Len(bin) /\ b.digest = bin
          /\ Len(got[d]) = 3 => IsPart(b.server)
      BY <1>3, <3>2 DEF Block, IsPart
    <3> HIDE DEF b
    <3>4. got'[d] = Append(got[d], b) /\ at'[d] = "receive"
      BY <1>1, <3>1
    <3>5. /\ Len(got[d]) \in Nat /\ Len(got'[d]) = Len(got[d]) + 1
          /\ got'[d][Len(got[d]) + 1] = b
          /\ \A n \in 1 .. Len(got[d]) : got'[d][n] = got[d][n]
      BY <2>1, <3>4, AppendIsSeq DEF DeviceOK
    <3>6. Len(got'[d]) >= 2 => got'[d][2].size = Len(bin) /\ got'[d][2].digest = bin
      <4> DEFINE n == Len(got[d])
      <4>1. n \in Nat /\ (n = 0 => ~(Len(got'[d]) >= 2))
        BY <3>5
      <4>2. CASE n = 1
        BY <3>3, <3>5, <4>2
      <4>3. CASE n >= 2
        <5>1. got'[d][2] = got[d][2]
          BY <3>5, <4>3
        <5> QED BY <2>1, <4>3, <5>1 DEF ReceivedOK
      <4> HIDE DEF n
      <4> QED BY <4>1, <4>2, <4>3
    <3>7. Len(got'[d]) >= 4 => IsPart(got'[d][4].server)
      <4>1. Len(got'[d]) >= 4 => Len(got[d]) = 3
        <5> DEFINE n == Len(got[d])
        <5>1. n \in Nat /\ n < 4 /\ Len(got'[d]) = n + 1
          BY <3>1, <3>5
        <5> HIDE DEF n
        <5>2. Len(got'[d]) >= 4 => n = 3
          BY <5>1
        <5> QED BY <5>2 DEF n
      <4>2. CASE Len(got[d]) = 3
        BY <3>3, <3>5, <4>2
      <4> QED BY <4>1, <4>2
    <3>8. ReceivedOK(d)'
      BY <1>3, <3>4, <3>6, <3>7 DEF ReceivedOK, IsPart
    <3> QED BY <2>2, <2>3, <3>1, <3>8
  <2>7. ASSUME NEW a \in {"accepted", "verified", "failed"}, at' = [at EXCEPT ![d] = a],
               got' = got, verify_manifest(Received(d), Safestore),
               a = "failed" => Received(d).server.diff_version # 0 \/ Len(bin) < BufferUnits
        PROVE  \A e \in Devices : ReceivedOK(e)'
    <3>1. at'[d] = a
      BY <1>1, <2>7
    <3>2. Received(d)' = Received(d)
      BY <2>7 DEF Received
    <3>3. verify_manifest(Received(d), Safestore)'
      BY <2>7, <3>2 DEF verify_manifest, verify_signature, Safestore, ecc_verify
    <3>4. ReceivedOK(d)'
      BY <1>3, <2>1, <2>7, <3>1, <3>2, <3>3 DEF ReceivedOK, IsPart
    <3> QED BY <2>2, <2>3, <2>7, <3>4
  <2>8. CASE VerifyManifest(d)
    BY <2>5, <2>7, <2>8 DEF VerifyManifest
  <2>9. CASE VerifyFirmware(d)
    <3> DEFINE a == IF verify_object(Stored(d), Area, Safestore) THEN "verified" ELSE "failed"
    <3>1. at[d] = "accepted" /\ got' = got /\ at' = [at EXCEPT ![d] = a]
      BY <2>9 DEF VerifyFirmware
    <3>2. verify_manifest(Received(d), Safestore)
      BY <2>1, <3>1 DEF ReceivedOK
    <3>3. a = "failed" => Received(d).server.diff_version # 0 \/ ~(BufferUnits <= Len(bin))
      BY <3>1, StoredVerifies
    <3>4. BufferUnits \in Nat /\ Len(bin) \in Nat
      BY AreaHolds, ManifestAssumption DEF ReceivedInv
    <3>5. a \in {"verified", "failed"}
      OBVIOUS
    <3> HIDE DEF a
    <3>6. a = "failed" => Received(d).server.diff_version # 0 \/ Len(bin) < BufferUnits
      BY <3>3, <3>4
    <3> QED BY <2>7, <3>1, <3>2, <3>5, <3>6
  <2> QED BY <1>6, <2>4, <2>5, <2>6, <2>8, <2>9 DEF Device, GetError
<1> QED BY <1>5, <1>6 DEF Next

\* A complete binary passes the verification of the stored object, for every
\* length up to that of the slot and every length of the buffer, except where
\* the server signed a diff_version other than 0 or the binary does not fill the
\* buffer once.
THEOREM VerifiesGenuine == Spec => []GenuineVerified
<1>1. ReceivedInv => GenuineVerified
  BY DEF ReceivedInv, ReceivedOK, GenuineVerified
<1> QED BY <1>1, ReceivedInit, ReceivedKept, PTL DEF Spec
=============================================================================
