------------------------------- MODULE Devices -------------------------------
(***************************************************************************)
(* Which hardware the factory takes: the devices it publishes to ORT, the  *)
(* ones CreateEp accepts, the reasons it gives against one, in a process   *)
(* with a driver and in a sandboxed compiler process that describes a      *)
(* virtual device instead.                                                 *)
(*                                                                         *)
(* A hardware device is a record [type, vendor, key], key the LUID or PCI  *)
(* bus id of its metadata or NoKey; a CUDA device [key, cc], cc ten times  *)
(* the major plus the minor compute capability.  A driver version is       *)
(* <<major, minor>>, or NoVersion if NVML fails or gives no number.        *)
(***************************************************************************)
EXTENDS Naturals, FiniteSets, Sequences, SequencesExt

CONSTANTS
  Hardware,      \* sequence of the hardware devices ORT has found
  Cuda,          \* sequence of the CUDA devices, CUDA's id plus 1 the index
  NoKey, NoVersion, NoTarget,
  MaxEpDevices,  \* bound ORT passes
  Environments   \* environment entries of a process: [lockdown, virtual, target]

(* LUIDs and PCI bus ids name one device each; a hardware device without     *)
(* either has no key.                                                        *)
ASSUME DevicesAssumption ==
  /\ Hardware \in Seq(Range(Hardware)) /\ Cuda \in Seq(Range(Cuda))
  /\ \A i \in DOMAIN Cuda : Cuda[i].cc \in Nat
  /\ \A i, j \in DOMAIN Hardware :
       Hardware[i].key = Hardware[j].key => i = j \/ Hardware[i].key = NoKey
  /\ \A e \in Environments : e.lockdown \in BOOLEAN
  /\ NoVersion \notin Nat \X Nat
  /\ MaxEpDevices \in Nat

NamedSMs == {86, 89, 120, 121}                                 \* kTargetSMValues
IsTargetSMSupported(sm) == sm \in NamedSMs

IsComputeCapabilitySupported(cc) == cc >= 120 \/ IsTargetSMSupported(cc)

(* IsOrtHardwareDeviceSupported: the CUDA device with the key of the         *)
(* hardware device, by LUID on Windows and by bus id on Linux, 0 if none.    *)
CudaIndex(h) == IF h.key = NoKey THEN 0 ELSE SelectInSeq(Cuda, LAMBDA c : c.key = h.key)
IsOrtHardwareDeviceSupported(h) ==
  CudaIndex(h) # 0 /\ IsComputeCapabilitySupported(Cuda[CudaIndex(h)].cc)

IsNvidiaGpu(h) == h.type = "GPU" /\ h.vendor = "NVIDIA"

CompareNVMLDriverVersion(v, least) ==
  /\ v # NoVersion
  /\ v[1] > least[1] \/ (v[1] = least[1] /\ v[2] >= least[2])

MinDriverVersion(cc) == IF cc >= 120 THEN <<570, 0>> ELSE <<555, 85>>

(* (mutant) The diagnosis looks for the device among the targets, and so misses newer hardware. *)
IncompatibilityByTarget(h, driver) ==
  IF ~IsNvidiaGpu(h) \/ CudaIndex(h) = 0 \/ ~IsTargetSMSupported(Cuda[CudaIndex(h)].cc) THEN "device"
  ELSE IF ~CompareNVMLDriverVersion(driver, MinDriverVersion(Cuda[CudaIndex(h)].cc)) THEN "driver"
  ELSE "none"

(* GetHardwareDeviceIncompatibilityDetails. *)
Incompatibility(h, driver) ==
  IF ~IsNvidiaGpu(h) \/ ~IsOrtHardwareDeviceSupported(h) THEN "device"
  ELSE IF ~CompareNVMLDriverVersion(driver, MinDriverVersion(Cuda[CudaIndex(h)].cc)) THEN "driver"
  ELSE "none"

-----------------------------------------------------------------------------
VARIABLES
  env,        \* the process's entry of Environments
  published,  \* OrtEpDevices: [hardware, cuda, target], 0 for a virtual device
  infos       \* CUDA indices with memory infos (device_memory_infos)

deviceVars == <<env, published, infos>>

DevicesInit == env \in Environments /\ published = <<>> /\ infos = {}

(* GetSupportedDevices in a sandbox: one device, made up from the target the *)
(* host has passed on.                                                       *)
VirtualDevices(e) ==
  IF e.virtual /\ e.target # NoTarget /\ IsTargetSMSupported(e.target) /\ MaxEpDevices > 0
  THEN <<[hardware |-> 0, cuda |-> 0, target |-> e.target]>>
  ELSE <<>>

DescribeVirtualDevice ==
  env.lockdown /\ published' = VirtualDevices(env) /\ UNCHANGED infos

CreateMemoryInfoForDevices == infos' = DOMAIN Cuda

\* The members of a set of numbers, from the smallest on.
InOrder(S) == [n \in 1..Cardinality(S) |-> CHOOSE i \in S : Cardinality({j \in S : j < i}) = n - 1]

Described(i) == [hardware |-> i, cuda |-> CudaIndex(Hardware[i]),
                 target |-> Cuda[CudaIndex(Hardware[i])].cc]

(* GetSupportedDevices with a driver: memory infos for all CUDA devices, and *)
(* the NVIDIA GPUs that are supported, as many as ORT has room for.          *)
EnumerateDevices ==
  /\ ~env.lockdown
  /\ CreateMemoryInfoForDevices
  /\ LET taken == {i \in DOMAIN Hardware : /\ IsNvidiaGpu(Hardware[i])
                                           /\ IsOrtHardwareDeviceSupported(Hardware[i])}
         room == IF Cardinality(taken) > MaxEpDevices THEN MaxEpDevices ELSE Cardinality(taken)
     IN published' = [n \in 1..room |-> Described(InOrder(taken)[n])]

GetSupportedDevices ==
  /\ published = <<>> /\ infos = {}
  /\ DescribeVirtualDevice \/ EnumerateDevices
  /\ UNCHANGED env

(* CreateEp's own judgement of the device it is given.                       *)
CreateEpAccepts(lockdown, h, compileOnly) ==
  IF lockdown THEN compileOnly ELSE IsOrtHardwareDeviceSupported(h)

(* ParseDeviceIdFromEpDevice: the CUDA index, 1 (the stashed "0") for a      *)
(* virtual device.                                                           *)
ParseDeviceId(e) == IF e.cuda # 0 THEN e.cuda ELSE 1

(* ValidateCompiledModelCompatibilityInfo: of a header that is missing, does *)
(* not decode, has a wrong size, or that TensorRT finds of some validity.    *)
Validate(header) ==
  CASE header = "missing" -> "not applicable"
    [] header = "valid" -> "optimal"
    [] header = "suboptimal" -> "prefer recompilation"
    [] OTHER -> "unsupported"
=============================================================================
