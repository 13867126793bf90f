--------------------------- MODULE HardwareIdentity ---------------------------
(***************************************************************************)
(* HardwareIdentity::probe (src/src/core/hardware.rs) and what it takes    *)
(* from WindowsProvider::new: which fingerprint a process on some host     *)
(* gets when only some of the host's sources can be read.  Fingerprints    *)
(* are symbolic: a tag and what the value is unique to.  A machine id, a   *)
(* serial and a uuid are taken to be unique to the host, as their makers   *)
(* promise; a host name is not, for nothing keeps two hosts from one name. *)
(***************************************************************************)
EXTENDS Naturals, FiniteSets

CONSTANTS
  Gpus,          \* the entries of /sys/class/drm that have a uuid
  Names          \* what $HOSTNAME, $COMPUTERNAME or /etc/hostname may say

ASSUME GpusAssumption == IsFiniteSet(Gpus)

\* What a probe may or may not be able to read on each OS.  "hostname" stands
\* for $HOSTNAME, $COMPUTERNAME and /etc/hostname.
Sources(os) ==
  {"hostname"} \cup
  CASE os = "linux" -> {"machine_id"} \cup Gpus
    [] os = "macos" -> {"platform_serial"}
    [] os = "windows" -> {"nvmlInit", "handle", "serial", "uuid"}

Identity(tag, of, src) == [fingerprint |-> <<tag, of>>, source |-> src]

\* HardwareIdentity::synthetic, which may find any name: hosts share names, and
\* a host is renamed
synthetic(pid, can) ==
  {Identity("synthetic", <<name, pid>>, "Synthetic") :
     name \in IF "hostname" \in can THEN Names ELSE {"unknown-host"}}

\* mutant: a GPU's uuid is passed off as the machine id
mislabelled_linux_probe(h, can) ==
  IF "machine_id" \in can
  THEN {Identity("machine-id", h, "LinuxMachineId")}
  ELSE {Identity("gpu", <<h, g>>, "LinuxMachineId") : g \in can \cap Gpus}

\* linux::probe.  read_dir has no order, so the first readable uuid is any of
\* them.  No result is an Err.
linux_probe(h, can) ==
  IF "machine_id" \in can
  THEN {Identity("machine-id", h, "LinuxMachineId")}
  ELSE {Identity("gpu", <<h, g>>, "LinuxGpuUuid") : g \in can \cap Gpus}

macos_probe(h, can) ==
  IF "platform_serial" \in can
  THEN {Identity("platform-serial", h, "MacosIoKitSerial")}
  ELSE {}

\* mutant: the placeholder of a device without serial and uuid is not flagged
unflagged_windows_probe(h, can) ==
  LET signature ==
        IF "serial" \in can THEN Identity("nvml-serial", h, "WindowsNvmlSerial")
        ELSE Identity(IF "uuid" \in can THEN "nvml-uuid" ELSE "nvml-device",
                      IF "uuid" \in can THEN h ELSE 0, "WindowsNvmlUuid")
  IN  IF "handle" \in can THEN {signature} ELSE {}

\* WindowsProvider::new for device 0, after ensure_nvml_initialized
windows_probe(h, can) ==
  LET signature ==
        IF "serial" \in can THEN Identity("nvml-serial", h, "WindowsNvmlSerial")
        ELSE IF "uuid" \in can THEN Identity("nvml-uuid", h, "WindowsNvmlUuid")
        ELSE Identity("nvml-device", 0, "Synthetic")
  IN  IF "handle" \in can THEN {signature} ELSE {}

\* mutant: the result of nvmlInit_v2 is not stored
nvml_not_stored(os, nvml, can) == nvml

\* ensure_nvml_initialized: the first call of a process decides for good
nvml_init_result(os, nvml, can) ==
  CASE os # "windows" \/ nvml # "unset" -> nvml
    [] "nvmlInit" \in can -> "ok"
    [] OTHER -> "failed"

try_probe(os, h, nvml, can) ==
  CASE os = "linux" -> linux_probe(h, can)
    [] os = "macos" -> macos_probe(h, can)
    [] os = "windows" -> IF nvml = "ok" THEN windows_probe(h, can) ELSE {}

\* probe: some result of try_probe, or a synthetic identity if there is none
probe(os, h, pid, nvml, can) ==
  LET found == try_probe(os, h, nvml, can)
  IN  IF found # {} THEN found ELSE synthetic(pid, can)
===============================================================================
