--------------------------- MODULE MCProvisioning ---------------------------
(* Two devices, each of which runs version 0 or the one that the tool wrote  *)
(* into the manifest; binaries shorter than the buffer, as long as it, and longer  *)
(* than two of it, up to the end of the slot.                                  *)
EXTENDS Provisioning

MCDevices == {"d1", "d2"}
MCSizes == {1, 2, 5}
MCGarbage ==
  {[udid |-> "none", nonce |-> 0, diff_version |-> 0, prop_size |-> 0],
   [udid |-> "d1", nonce |-> 1, diff_version |-> 1, prop_size |-> 0]}
MCDeviceVersions == {0, 2}
=============================================================================
