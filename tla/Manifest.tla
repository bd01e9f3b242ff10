------------------------------ MODULE Manifest ------------------------------
(***************************************************************************)
(* Manifests: their fields, their two signatures, how the firmware tool    *)
(* makes one and how the verifier checks one.  A digest is what was hashed,*)
(* a signature is the record of what was signed, with which key, and a salt*)
(* that makes two signatures of the same data differ.                      *)
(***************************************************************************)
EXTENDS Integers, Sequences, FiniteSetsExt

CONSTANTS
  BufferUnits,  \* length of the buffer that verify_digest is given
  VersionMod    \* number of values of version_t

ASSUME ManifestAssumption == BufferUnits \in Nat \ {0} /\ VersionMod \in Nat \ {0}

\* What a signature buffer holds that was never written, or after signing failed.
NoSignature == [key |-> "none", data |-> <<>>, salt |-> 0]

\* digest_init, digest_update, digest_finalize and ecc_sign.
sign_data(data, key, salt) == [key |-> key, data |-> data, salt |-> salt]

\* The buffer is stored as the signature even if signing failed.
sign_manifest_vendor(mt, key, salt, ok) ==
  LET sig == IF ok THEN sign_data(mt.vendor, key, salt) ELSE NoSignature
  IN [mt EXCEPT !.vendor_signature = sig]

sign_manifest_server(mt, key, salt, ok) ==
  LET sig == IF ok THEN sign_data(mt.server, key, salt) ELSE NoSignature
  IN [mt EXCEPT !.server_signature = <<sig, sig>>]

\* A signature of the data with the key, all of it from one call of ecc_sign.
ecc_verify(key, sig, data) == sig.key = key /\ sig.data = data

\* The vendor's part is verified with the key of the device, the server's with
\* the key that the vendor's part names.
verify_signature(mt, keystore) ==
  /\ ecc_verify(keystore, mt.vendor_signature, mt.vendor)
  /\ mt.server_signature[1] = mt.server_signature[2]
  /\ ecc_verify(mt.vendor.server_key, mt.server_signature[1], mt.server)

verify_manifest(mt, sf) == mt.vendor.appid = sf.appid /\ verify_signature(mt, sf.keystore)

\* A mutant of Hashed: the rest of a buffer is hashed as well.
HashedWholeBuffers(area, size) ==
  LET end == BufferUnits * ((size + BufferUnits - 1) \div BufferUnits)
  IN IF size = 0 \/ end > Len(area) THEN <<>> ELSE SubSeq(area, 1, end)

\* The loop of verify_digest over the firmware in area: the first read is a
\* whole buffer, however short the firmware is, the last one is what is left.
\* Nothing is hashed if the firmware is empty or a read goes beyond the area.
Hashed(area, size) ==
  LET step(from) == IF from = 0 THEN BufferUnits ELSE Min({BufferUnits, size - from})
      after[from \in 0 .. size + BufferUnits] ==
        IF from >= size THEN [ok |-> TRUE, bytes |-> <<>>]
        ELSE LET next == from + step(from)
             IN IF next > Len(area) THEN [ok |-> FALSE, bytes |-> <<>>]
                ELSE [ok |-> after[next].ok,
                      bytes |-> SubSeq(area, from + 1, next) \o after[next].bytes]
  IN IF size = 0 \/ ~after[0].ok THEN <<>> ELSE after[0].bytes

verify_digest(area, mt) ==
  LET hashed == Hashed(area, mt.vendor.size)
  IN hashed # <<>> /\ hashed = mt.vendor.digest

verify_object(mt, area, sf) == verify_manifest(mt, sf) /\ verify_digest(area, mt)

----------------------------------------------------------------------------
(* The firmware tool. *)

\* manifest_generate_command for the binary bin.  The manifest is not cleared
\* first, so that the fields that are not set hold garbage, which is signed.
manifest_generate_command(bin, version, garbage) ==
  LET unsigned ==
        [vendor |-> [version |-> version, size |-> Len(bin), appid |-> "app",
                     digest |-> bin, server_key |-> "server"],
         vendor_signature |-> NoSignature,
         server |-> [garbage EXCEPT !.prop_size = Len(bin)],
         server_signature |-> <<NoSignature, NoSignature>>]
  IN sign_manifest_server(sign_manifest_vendor(unsigned, "vendor", 0, TRUE), "server", 0, TRUE)

\* manifest_validate_command: every item of its list is valid.
manifest_validate_command(mt, bin) ==
  /\ mt.vendor.size = Len(bin)
  /\ mt.vendor.digest = bin
  /\ mt.vendor.server_key = "server"
  /\ verify_signature(mt, "vendor")
=============================================================================
