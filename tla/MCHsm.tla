------------------------------- MODULE MCHsm -------------------------------
(* TLC instances of Hsm.                                                    *)
EXTENDS Hsm, TLC

CONSTANTS h1, h2

TwoBootHarts == [d \in Domains |-> IF d = "root" THEN h1 ELSE h2]

OneDomain == [h \in Harts |-> "root"]
TwoDomains == [h \in Harts |-> IF h = h2 THEN "guest" ELSE "root"]

Platform(domain, device, power_on, services) ==
  [domain |-> domain, device |-> device, power_on |-> power_on, services |-> services]

\* Start and stop, by IPI or through each kind of device.
StartPlatforms ==
  {Platform(OneDomain, "none", "all", {"start", "stop"}),
   Platform(OneDomain, "smu", "all", {"start", "stop"}),
   Platform(OneDomain, "hotplug", "one", {"start", "stop"}),
   Platform(OneDomain, "secondary", "one", {"start", "stop"})}

\* Every service, and the devices, with a second domain to start in one case.
PowerPlatforms ==
  {Platform(OneDomain, "none", "all", {"start", "stop", "suspend", "system_suspend"}),
   Platform(OneDomain, "hotplug", "one", {"start", "stop"}),
   Platform(TwoDomains, "hotplug", "one", {"stop", "suspend"}),
   Platform(OneDomain, "secondary", "one", {"start", "stop"})}

\* A hart starts others while they suspend themselves.
SuspendPlatform == {Platform(OneDomain, "none", "all", {"start", "suspend"})}

\* Addresses are interchangeable, and so are harts if there is one domain: its boot
\* hart is then the cold boot hart, whatever BootHart says.
Symmetry == Permutations(Harts) \cup Permutations(Addrs)
=============================================================================
