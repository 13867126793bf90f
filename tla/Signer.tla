-------------------------------- MODULE Signer --------------------------------
(***************************************************************************)
(* AmalgafySigner::seal and AmalgafySeal::verify (src/src/core/signer.rs), *)
(* and the legacy EnergyManifest (src/src/core/manifest.rs).  Ed25519 is   *)
(* symbolic: a signature is the key and the bytes it was made from, and a  *)
(* public key stands for its pair.  Bytes are what the encoder keeps: an   *)
(* object of known shape is the tuple of its values in the order of its    *)
(* keys, an array the tuple of its items.                                  *)
(***************************************************************************)
EXTENDS Naturals, Sequences, FiniteSets

Sign(key, bytes) == [key |-> key, bytes |-> bytes]

\* mutant: records of different workloads in one window compare equal
less_by_window(a, b) ==
  \/ a.window_start_ns < b.window_start_ns
  \/ a.window_start_ns = b.window_start_ns /\ a.window_end_ns < b.window_end_ns

\* the order of seal(): by pid, window_start_ns, window_end_ns
Less(a, b) ==
  \/ a.pid < b.pid
  \/ a.pid = b.pid /\ a.window_start_ns < b.window_start_ns
  \/ a.pid = b.pid /\ a.window_start_ns = b.window_start_ns
       /\ a.window_end_ns < b.window_end_ns

\* the places of the list whose records come before the one at i; records that
\* tie keep the caller's order, for slice::sort_by is stable
Ahead(list, i) ==
  {j \in DOMAIN list : Less(list[j], list[i]) \/ (~Less(list[i], list[j]) /\ j < i)}

sort_by(list) ==
  [k \in DOMAIN list |->
     list[CHOOSE i \in DOMAIN list : Cardinality(Ahead(list, i)) = k - 1]]

\* canonicalize_value on an attribution: values in lexicographic key order
canonicalize_attribution(a) ==
  <<a.attributed_energy_uj, a.burst_power_uw, a.hardware_signature, a.pid,
    a.window_end_ns, a.window_start_ns>>

canonical_json(p) ==
  <<[i \in DOMAIN p.attributions |-> canonicalize_attribution(p.attributions[i])],
    <<p.hardware_identity.fingerprint, p.hardware_identity.source>>,
    p.hardware_serial, p.manifest_version, p.sealed_at_unix_ns, p.total_micro_joules>>

seal(key, version, attributions, serial, total, identity, at) ==
  LET payload == [manifest_version |-> version, hardware_serial |-> serial,
                  hardware_identity |-> identity, sealed_at_unix_ns |-> at,
                  total_micro_joules |-> total, attributions |-> sort_by(attributions)]
      canonical == canonical_json(payload)
  IN  [payload |-> payload, signing_public_key |-> key,
       signature |-> Sign(key, canonical), canonical_payload |-> canonical]

\* mutant: the stored bytes are not compared with the payload
verify_stored_bytes(s) == s.signature = Sign(s.signing_public_key, s.canonical_payload)

verify(s) ==
  /\ canonical_json(s.payload) = s.canonical_payload
  /\ s.signature = Sign(s.signing_public_key, s.canonical_payload)

-------------------------------------------------------------------------------
(* EnergyManifest: the payload's fields in the order of their declaration *)

\* mutant: the window is not part of what is signed
json_without_window(p) ==
  <<p.manifest_version, p.provider, p.hardware_signature, p.workload_pid,
    p.idle_power_uw, p.active_power_uw, p.attributed_energy_uj>>

manifest_json(p) ==
  <<p.manifest_version, p.provider, p.hardware_signature, p.workload_pid,
    p.window_start_ns, p.window_end_ns, p.sampled_at_ns, p.idle_power_uw,
    p.active_power_uw, p.attributed_energy_uj>>

manifest_sign(payload, key) ==
  [payload |-> payload, signing_public_key |-> key,
   signature |-> Sign(key, manifest_json(payload))]

manifest_verify(m) == m.signature = Sign(m.signing_public_key, manifest_json(m.payload))
===============================================================================
