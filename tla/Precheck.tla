------------------------------ MODULE Precheck ------------------------------
(***************************************************************************)
(* fleetint precheck, which enroll runs first: what CollectInput finds out *)
(* about the machine, and the five checks of Evaluate.  A version is the   *)
(* sequence of its numbers, Invalid when a part is not a number, and <<>>  *)
(* when it is empty.  An architecture is one of the supported ones (the    *)
(* names are compared without case and separators), another one, or "".    *)
(***************************************************************************)
EXTENDS DaemonConfig

minimumDCGMVersion == <<4, 2, 3>>
minimumDriverMajorVersion == 510

\* What the tools the checks rely on would answer on a machine.
\*   inventory: the DCGM device inventory, an error, none or some GPUs
\*   driver, architecture: as told with the inventory
\*   pci: what listing the PCI devices finds
\*   hostengines: what each DCGM endpoint answers, in the order they are tried;
\*     Unset for no connection
Machines(versions) ==
  [inventory : {"error", "none", "gpus"}, driver : versions,
   architecture : {"", "supported", "other"},
   pci : {"error", "none", "gpus"}, nvattest : BOOLEAN,
   hostengines : UNION {[1..n -> versions \cup {Unset}] : n \in 0..2}]

-----------------------------------------------------------------------------
(* CollectInput *)

\* Whether a hostengine's build information has a version that is not empty.
extractVersion(v) == v # <<>>

\* The first endpoint that connects and tells a version.
DetectHostengineVersion(engines) ==
  LET telling == {i \in DOMAIN engines : engines[i] # Unset /\ extractVersion(engines[i])}
  IN  IF telling = {} THEN Unset ELSE engines[Min(telling)]

\* What is known of GPU hardware: the PCI devices are listed only when DCGM
\* showed no GPU.
detectGPUHardware(m) == IF m.inventory = "gpus" THEN "gpus" ELSE m.pci

CollectInput(m) ==
  LET collected == m.inventory # "error"
      details == m.inventory = "gpus"
      version == DetectHostengineVersion(m.hostengines)
  IN  [GPUInfo |-> details,
       Architecture |-> IF details THEN m.architecture ELSE "",
       GPUDriverVersion |-> IF collected THEN m.driver ELSE <<>>,
       GPUHardwarePresent |-> detectGPUHardware(m) = "gpus",
       GPUHardwareErr |-> detectGPUHardware(m) = "error",
       NVAttestPresent |-> m.nvattest,
       DCGMReachable |-> version # Unset,
       DCGMVersion |-> IF version = Unset THEN <<>> ELSE version]

-----------------------------------------------------------------------------
(* Evaluate *)

evaluateGPUPresence(in) == ~in.GPUHardwareErr /\ in.GPUHardwarePresent

\* Skipped, and passed, without a GPU, a driver or GPU details.
evaluateArchitecture(in) ==
  \/ ~in.GPUHardwarePresent
  \/ in.GPUDriverVersion = <<>>
  \/ ~in.GPUInfo
  \/ in.Architecture = "supported"

\* Whether a driver version has two or three numbers.
parseDriverVersion(v) == v # Invalid /\ Len(v) \in 2..3

evaluateDriver(in) ==
  in.GPUHardwarePresent =>
    /\ in.GPUDriverVersion # <<>>
    /\ parseDriverVersion(in.GPUDriverVersion)
    /\ in.GPUDriverVersion[1] >= minimumDriverMajorVersion

evaluateNVAttest(in) == in.NVAttestPresent

\* Mutant: a version with fewer parts that agree is taken.
AgreesWithMinimum(v, min) ==
  LET shared == 1..(IF Len(v) < Len(min) THEN Len(v) ELSE Len(min))
      differ == {i \in shared : v[i] # min[i]}
  IN  differ # {} => v[Min(differ)] > min[Min(differ)]

\* The first part that differs decides; then the number of parts does.
isVersionAtLeast(v, min) ==
  LET shared == 1..(IF Len(v) < Len(min) THEN Len(v) ELSE Len(min))
      differ == {i \in shared : v[i] # min[i]}
  IN  IF differ = {}
        THEN Len(v) >= Len(min)
        ELSE v[Min(differ)] > min[Min(differ)]

evaluateDCGM(in) ==
  /\ in.DCGMReachable
  /\ in.DCGMVersion \notin {<<>>, Invalid}
  /\ isVersionAtLeast(in.DCGMVersion, minimumDCGMVersion)

Evaluate(in) ==
  /\ evaluateGPUPresence(in) /\ evaluateArchitecture(in)
  /\ evaluateDriver(in) /\ evaluateNVAttest(in) /\ evaluateDCGM(in)

PrecheckPasses(m) == Evaluate(CollectInput(m))

-----------------------------------------------------------------------------

\* Version 4.2.3 or a later one; 4.2 comes before 4.2.0.
Since423(v) ==
  \/ v[1] > 4
  \/ v[1] = 4 /\ Len(v) > 1 /\ v[2] > 2
  \/ v[1] = 4 /\ Len(v) > 2 /\ v[2] = 2 /\ v[3] >= 3

\* The requirements of precheck, of the machine itself.
Qualifies(m) ==
  /\ "gpus" \in {m.inventory, m.pci}
  /\ m.driver \notin {Invalid, <<>>} /\ m.driver[1] >= minimumDriverMajorVersion
  /\ m.inventory = "gpus" => m.architecture = "supported"
  /\ m.nvattest
  /\ \E i \in DOMAIN m.hostengines :
       /\ m.hostengines[i] \notin {Unset, Invalid, <<>>} /\ Since423(m.hostengines[i])
       /\ \A k \in 1..i - 1 : m.hostengines[k] \in {Unset, <<>>}
=============================================================================
