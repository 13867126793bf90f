------------------------------- MODULE SealStore -------------------------------
(***************************************************************************)
(* Daemons on several hosts that publish seals and legacy manifests, as    *)
(* the repository's README describes ("The Amalgafy Seal"), and the store  *)
(* the documents end up in.  A daemon process probes the host's identity,  *)
(* seals, may probe again, and may crash and be restarted.  Hosts may      *)
(* share a signing key.  The store is external and unreliable: it may hand *)
(* out a copy of one document with a part of another in it.                *)
(***************************************************************************)
EXTENDS HardwareIdentity, Signer, TLC

CONSTANTS
  Hosts,
  Systems,       \* operating systems, "linux", "macos", "windows"
  Keys,          \* signing keys
  Versions,      \* manifest versions a signer may stamp
  OsPids,        \* process ids of the daemon
  Energies,      \* uJ of an attribution
  KeySets,       \* sets of keys, <<pid, window_start_ns, window_end_ns>>, whose records
                 \* may be issued together
  Totals,        \* total_micro_joules a daemon may read from its registry
  Times,         \* what the wall clock may read
  MaxList,       \* bound: attributions in a seal
  MaxStarts,     \* bound: daemon processes started
  MaxProbes,     \* bound: probes in a behaviour
  MaxIssued,     \* bound: documents issued, after which only the store goes on
  MaxMixups      \* bound: copies the store gets wrong

ASSUME SealStoreAssumption ==
  /\ Systems \subseteq {"linux", "macos", "windows"}
  /\ Energies \subseteq Nat /\ Times \subseteq Nat
  /\ UNION KeySets \subseteq Nat \X Nat \X Nat
  /\ MaxList \in Nat /\ MaxStarts \in Nat /\ MaxProbes \in Nat
  /\ MaxIssued \in Nat /\ MaxMixups \in Nat

VARIABLES
  os,           \* host -> its operating system
  proc,         \* host -> the daemon process, or Down
  starts, probes, mixups,    \* how many so far
  seals,        \* the seals in the store
  manifests,    \* the manifests in the store
  issued        \* history: what daemons issued, by which host, from what input

svars == <<os, proc, starts, probes, mixups, seals, manifests, issued>>

NoIdentity == Identity("none", 0, "None")
Down == [up |-> FALSE]

\* records of host h, and lists of them a daemon may seal
Attributions(h) ==
  {[pid |-> key[1], window_start_ns |-> key[2], window_end_ns |-> key[3],
    burst_power_uw |-> uj, attributed_energy_uj |-> uj, hardware_signature |-> h] :
     key \in UNION KeySets, uj \in Energies}
Lists(h) == UNION {[1 .. n -> Attributions(h)] : n \in 0 .. MaxList}

Init ==
  /\ os \in [Hosts -> Systems]
  /\ proc = [h \in Hosts |-> Down]
  /\ starts = 0
  /\ probes = 0
  /\ mixups = 0
  /\ seals = {}
  /\ manifests = {}
  /\ issued = {}

-------------------------------------------------------------------------------
(* A daemon *)

\* the bound on documents, shared by all that a daemon does
MoreToIssue == Cardinality(issued) < MaxIssued

\* a new process, after a crash too: AmalgafySigner::new, with_manifest_version
Start(h, key, version, pid) ==
  /\ starts < MaxStarts /\ MoreToIssue
  /\ starts' = starts + 1
  /\ proc' = [proc EXCEPT ![h] = [up |-> TRUE, key |-> key, version |-> version,
                                  pid |-> pid, nvml |-> "unset",
                                  identity |-> NoIdentity]]
  /\ UNCHANGED <<os, probes, mixups, seals, manifests, issued>>

Probe(h, can) ==
  LET nvml == nvml_init_result(os[h], proc[h].nvml, can)
  IN  /\ proc[h].up
      /\ probes < MaxProbes /\ MoreToIssue
      /\ probes' = probes + 1
      /\ \E id \in probe(os[h], h, proc[h].pid, nvml, can) :
           proc' = [proc EXCEPT ![h].nvml = nvml, ![h].identity = id]
      /\ UNCHANGED <<os, starts, mixups, seals, manifests, issued>>

\* the keys of the records in the documents
KeysOf(docs) ==
  UNION {{<<i.input[k].pid, i.input[k].window_start_ns, i.input[k].window_end_ns>> :
            k \in DOMAIN i.input} : i \in docs}

Issue(h, kind, doc, input) ==
  /\ MoreToIssue
  /\ issued' = issued \cup {[kind |-> kind, doc |-> doc, by |-> h, input |-> input]}
  /\ \E keys \in KeySets : KeysOf(issued') \subseteq keys
  /\ UNCHANGED <<os, proc, starts, probes, mixups>>

SealNow(h, list, total, at) ==
  LET s == seal(proc[h].key, proc[h].version, list, h, total, proc[h].identity, at)
  IN  /\ proc[h].up
      /\ proc[h].identity # NoIdentity
      /\ Issue(h, "seal", s, list)
      /\ seals' = seals \cup {s}
      /\ UNCHANGED manifests

\* the powers the energy was computed from: none at rest, all of it burst
ManifestNow(h, a, at) ==
  LET payload == [manifest_version |-> proc[h].version, provider |-> os[h],
                  hardware_signature |-> h, workload_pid |-> a.pid,
                  window_start_ns |-> a.window_start_ns, window_end_ns |-> a.window_end_ns,
                  sampled_at_ns |-> at, idle_power_uw |-> 0,
                  active_power_uw |-> a.burst_power_uw,
                  attributed_energy_uj |-> a.attributed_energy_uj]
      m == manifest_sign(payload, proc[h].key)
  IN  /\ proc[h].up
      /\ Issue(h, "manifest", m, <<a>>)
      /\ manifests' = manifests \cup {m}
      /\ UNCHANGED seals

-------------------------------------------------------------------------------
(* The store *)

\* the copies of a with one part, a field or a field of the payload, from b
Mixed(a, b) ==
  {[a EXCEPT ![f] = b[f]] : f \in DOMAIN a} \cup
  {[a EXCEPT !.payload[f] = b.payload[f]] : f \in DOMAIN a.payload}

Mixup ==
  /\ mixups < MaxMixups
  /\ mixups' = mixups + 1
  /\ \/ /\ \E a, b \in seals : \E c \in Mixed(a, b) \ seals : seals' = seals \cup {c}
        /\ UNCHANGED manifests
     \/ /\ \E a, b \in manifests :
             \E c \in Mixed(a, b) \ manifests : manifests' = manifests \cup {c}
        /\ UNCHANGED seals
  /\ UNCHANGED <<os, proc, starts, probes, issued>>

Next ==
  \/ \E h \in Hosts :
       \/ \E key \in Keys, v \in Versions, pid \in OsPids : Start(h, key, v, pid)
       \/ \E can \in SUBSET Sources(os[h]) : Probe(h, can)
       \/ \E at \in Times :
            \/ \E list \in Lists(h), total \in Totals : SealNow(h, list, total, at)
            \/ \E a \in Attributions(h) : ManifestNow(h, a, at)
  \/ Mixup

Spec == Init /\ [][Next]_svars

\* hosts are interchangeable, and so are keys and names
SealSymmetry == Permutations(Hosts) \cup Permutations(Keys) \cup Permutations(Names)

StoreTypeOK ==
  /\ os \in [Hosts -> Systems]
  /\ \A h \in Hosts : proc[h] # Down =>
       /\ proc[h].key \in Keys /\ proc[h].version \in Versions /\ proc[h].pid \in OsPids
       /\ proc[h].nvml \in {"unset", "ok", "failed"}
       /\ (os[h] = "windows" /\ proc[h].identity # NoIdentity) => proc[h].nvml # "unset"
  /\ starts \in Nat /\ probes \in Nat /\ mixups \in Nat
  /\ \A i \in issued : IF i.kind = "seal" THEN i.doc \in seals ELSE i.doc \in manifests

\* a daemon that holds the document's key issued the document's payload
WasIssued(kind, d) ==
  \E i \in issued : /\ i.kind = kind
                    /\ i.doc.payload = d.payload
                    /\ i.doc.signing_public_key = d.signing_public_key

\* the same records, in any order
SameRecords(x, y) ==
  \A r \in {x[k] : k \in DOMAIN x} \cup {y[k] : k \in DOMAIN y} :
    Cardinality({k \in DOMAIN x : x[k] = r}) = Cardinality({k \in DOMAIN y : y[k] = r})

\* two seals of the same logical state
SameState(i, j) ==
  /\ i.kind = "seal" /\ j.kind = "seal"
  /\ i.doc.signing_public_key = j.doc.signing_public_key
  /\ SameRecords(i.input, j.input)
  /\ \A f \in DOMAIN i.doc.payload \ {"attributions"} : i.doc.payload[f] = j.doc.payload[f]

\* no two records agree in PID and window
NoTies(list) ==
  \A k, l \in DOMAIN list : k # l =>
    \/ list[k].pid # list[l].pid
    \/ list[k].window_start_ns # list[l].window_start_ns
    \/ list[k].window_end_ns # list[l].window_end_ns

(***************************************************************************)
(* Whatever the store does to the seals, one that verifies says exactly    *)
(* what some daemon holding that key sealed: no part of another seal gets  *)
(* in ("cannot swap a high-energy payload for a different machine or zero  *)
(* out the total without invalidating the signature").                     *)
(***************************************************************************)
VerifiedSealWasSealed == \A s \in seals : verify(s) => WasIssued("seal", s)

(***************************************************************************)
(* EnergyManifest::verify keeps no copy of the signed bytes and encodes    *)
(* the payload again; still a manifest that verifies, mixed up or not, is  *)
(* one that a daemon holding that key signed, window and energy included.  *)
(***************************************************************************)
VerifiedManifestWasSigned == \A m \in manifests : manifest_verify(m) => WasIssued("manifest", m)

(***************************************************************************)
(* "a manifest from host A cannot be replayed as if it came from host B    *)
(* even if both daemons share the same signing key": the identity in a     *)
(* seal that verifies is one of the host that sealed it, unless it says    *)
(* itself that it is none: "auditors are expected to flag any seal whose   *)
(* source == Synthetic".  So two hosts of one name, two that cannot read   *)
(* their name and two GPUs without serial and uuid share an identity, but  *)
(* never one that claims a real source.                                    *)
(***************************************************************************)
IdentityBindsHost ==
  \A s \in seals : verify(s) =>
    \A i \in issued :
      (i.kind = "seal" /\ i.doc.payload.hardware_identity = s.payload.hardware_identity)
        => \/ i.by = s.payload.hardware_serial
           \/ s.payload.hardware_identity.source = "Synthetic"

(***************************************************************************)
(* The fingerprint is "stable" and "deterministic on a given host": two    *)
(* seals of one host whose identities come from the same real source carry *)
(* the same fingerprint, across restarts and however the readable sources  *)
(* changed in between.  GPU uuids are exempt when there are several GPUs,  *)
(* for the probe takes whichever the directory lists first.                *)
(***************************************************************************)
FingerprintIsStable ==
  \A i, j \in {x \in issued : x.kind = "seal"} :
    LET a == i.doc.payload.hardware_identity
        b == j.doc.payload.hardware_identity
    IN  (/\ i.by = j.by /\ a.source = b.source /\ a.source # "Synthetic"
         /\ a.source = "LinuxGpuUuid" => Cardinality(Gpus) = 1)
          => a.fingerprint = b.fingerprint

(***************************************************************************)
(* Two seals of the same state are the same bytes "regardless of the order *)
(* in which the caller assembled the input", as long as no two records     *)
(* agree in PID and window.                                                *)
(***************************************************************************)
SealIgnoresOrderOfKeys ==
  \A i, j \in issued : (SameState(i, j) /\ NoTies(i.input)) => i.doc = j.doc

(***************************************************************************)
(* "two daemons observing the same logical state produce byte-identical    *)
(* canonical payloads (and therefore byte-identical signatures) regardless *)
(* of the order in which the caller assembled the input" (signer.rs).      *)
(***************************************************************************)
SealIgnoresOrder == \A i, j \in issued : SameState(i, j) => i.doc = j.doc
===============================================================================
