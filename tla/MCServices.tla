----------------------------- MODULE MCServices -----------------------------
(***************************************************************************)
(* TLC instance of the services S-mode calls and of the protection they    *)
(* stand on: the ecall dispatcher, the performance counters, the debug     *)
(* triggers, the firmware features, the message proxy, the domains, their  *)
(* PMP entries and the domain contexts.  They share no variable, so a      *)
(* behaviour works on one of them: "part" says on which, and the others    *)
(* rest in a state of their own.                                           *)
(***************************************************************************)
EXTENDS Pmu, Dbtr, Fwft, Mpxy, Pmp, DomainContext, Ecall, TLC

VARIABLE part

serv_vars == <<part, pmu_vars, dbtr_vars, fwft_vars, mpxy_vars, dom_vars, pmp_vars, ctx_vars, ec_vars>>

-----------------------------------------------------------------------------
\* Pmu: counters 3 and 4 are programmable, 5 is the firmware's.  The fourth
\* entry of the event map overlaps the first and ends the setup.
Entry(first, last, ctrs, select, smask) ==
  [first |-> first, last |-> last, ctrs |-> ctrs, select |-> select, smask |-> smask]
NoMask == [d \in {0, 1} |-> 0]
AllMask == [d \in {0, 1} |-> d]
MCEntries == <<Entry(1, 2, {3, 4}, 0, NoMask), Entry(3, 3, {4}, 0, NoMask),
               Entry(32, 48, {3}, 1, AllMask), Entry(0, 1, {3}, 0, NoMask)>>
Platform(irq, inhib, asks) ==
  [irq |-> irq, inhibit |-> inhib, asks |-> asks, entries |-> MCEntries, avail |-> {3, 4}, xlate |-> {1, 3, 32}]
MCPlatforms ==
  {Platform(i, i # "none", "plain") : i \in {"none", "thead", "andes"}}
    \cup {Platform("sscofpmf", TRUE, "hw"), Platform("none", TRUE, "any")}
MCMasks == {{0}, {3, 4}, {4, 5}}
MCFlags == {{"auto", "clear"}, {"skip", "auto"}}

\* Dbtr: two triggers that are taken and one that fires in M-mode.
Config(type, modes, m) == [type |-> type, modes |-> modes, dmode |-> FALSE, m |-> m]
MCConfigs == {Config("mcontrol", {"U"}, FALSE), Config("mcontrol6", {"S", "VS"}, FALSE),
              Config("mcontrol", {"S"}, TRUE)}

\* Mpxy: an identifier registered twice; a channel longer than a page.
Channel(id, ops, maxlen) == [id |-> id, ops |-> ops, maxlen |-> maxlen]
MCChannels ==
  {<<Channel(5, {"withresp", "notify", "switch"}, 8), Channel(3, {"noresp", "switch"}, 16),
     Channel(5, {"noresp"}, 4), Channel(9, {"withresp"}, 12)>>,
   <<Channel(5, {"withresp"}, 8), Channel(3, {"withresp"}, 20), Channel(9, {"noresp"}, 4)>>}

\* Domain: six devices, one at the top of memory, and five device trees.
Dev(addr, size, align, flags) == [addr |-> addr, size |-> size, align |-> align, flags |-> flags]
MCDevs == {Dev(0, 24, 32, MOnlyMmio), Dev(24, 8, 8, SharedSurwMrw), Dev(32, 8, 8, MOnlyMmio),
           Dev(40, 16, 16, MOnlyMmio), Dev(56, 8, 8, MOnlyMmio),
           Dev(112, 16, 16, MOnlyMmio)}
Trusted ==
  [name |-> "tdomain", possible |-> {0}, boot |-> 0, next |-> 96, mode |-> "U", harts |-> {0},
   regions |-> <<Region(96, 4, Flag(Rwx, Rwx, FALSE)), Region(24, 3, Flag(Rwx, Rwx, TRUE)),
                 Region(104, 3, Flag({}, {}, FALSE))>>]
Untrusted ==
  [name |-> "udomain", possible |-> {1, 2}, boot |-> Absent, next |-> 80, mode |-> None, harts |-> {1},
   regions |-> <<Region(96, 4, Flag({}, {}, FALSE)), Region(24, 3, Flag({}, {}, TRUE)),
                 Region(0, 7, Flag(Rwx, Rwx, FALSE))>>]
TopDomain == [Trusted EXCEPT !.name = "vdomain", !.next = 120,
                             !.regions = <<Region(112, 4, Flag(Rwx, Rwx, FALSE)), Region(24, 3, Flag({}, {}, TRUE))>>]
MCTrees == << <<>>, <<Trusted, Untrusted>>, <<Untrusted>>, <<Trusted, [Trusted EXCEPT !.next = 24]>>,
              <<Untrusted, TopDomain>> >>

\* Pmp: the firmware with three kinds of domains around it.
Firmware == <<Region(64, 3, Flag({"r", "x"}, {}, FALSE)), Region(72, 3, Flag({"r", "w"}, {}, FALSE))>>
AllMemory == Region(0, 7, Flag({}, Rwx, FALSE))
MCPmpDomains ==
  {SortRegions(Firmware \o <<AllMemory, Region(0, 3, MOnlyMmio), Region(8, 3, SharedSurwMrw)>>),
   SortRegions(Firmware \o <<Region(96, 4, Flag(Rwx, Rwx, FALSE)), Region(8, 3, Flag(Rwx, Rwx, TRUE)),
                             Region(0, 3, MOnlyMmio)>>),
   SortRegions(Firmware \o <<Region(96, 4, Flag({}, {}, FALSE)), Region(8, 3, Flag({}, Rwx, TRUE)),
                             Region(0, 3, MOnlyMmio), AllMemory>>)}
MCSaddrs == {[addr |-> 96, size |-> 8], [addr |-> 100, size |-> 6], [addr |-> 14, size |-> 4],
             [addr |-> 20, size |-> 12], [addr |-> 88, size |-> 16], [addr |-> 120, size |-> 8]}

\* DomainContext: hart 0 may run in every domain, hart 1 not in b.
MCDomains == <<"root", "a", "b">>
MCPossible == [root |-> {0, 1}, a |-> {0, 1}, b |-> {0}]
MCBoot == [root |-> 0, a |-> 0, b |-> 0]
MCHome == 0 :> "root" @@ 1 :> "a"
MCAsks == 0 :> {"root", "a", "b"} @@ 1 :> {"root", "b"}

\* Ecall: a platform with every device, one with none, one in between.
Plat(c, rs, su, cp, v, h, t, ch) ==
  [console |-> c, resets |-> rs, suspends |-> su, cppc |-> cp, vendor |-> v, h |-> h, triggers |-> t, channels |-> ch]
MCEcPlats == {Plat(TRUE, {0, 1}, {0}, {0, 5, 30}, 6, TRUE, 2, TRUE), Plat(FALSE, {}, {}, {}, -1, FALSE, 0, FALSE),
              Plat(TRUE, {2}, {}, {14}, 1, FALSE, 0, TRUE)}
Args(a, b, c, d, e) == [a0 |-> a, a1 |-> b, a2 |-> c, a3 |-> d, a4 |-> e]
MCEcAnswers == {0, 3, -3, -1000}
MCEcRegs ==
  {Args(0, 1, 0, 4, 5), Args(1, 0, 3, 4, 5), Args(2, 901, 0, 0, 0), Args(900, 2, 0, 6, 7), Args(1000, 0, 0, 0, 0),
   Args(17, 5, 6, 0, 0), Args(25, 0, 0, 0, 0), Args(5, 1, 0, 0, 0), Args(30, 7, 0, 0, 0), Args(14, 1, 0, 0, 0)}

-----------------------------------------------------------------------------
\* A part at rest has one initial state; the domains rest before their boot,
\* so that their invariants are not evaluated over the regions of a boot that
\* goes no further.
DomRest ==
  /\ dom_phase = "hang" /\ dom_list = << >>
  /\ dom_of = [h \in DomHarts |-> None]
  /\ dom_assigned = [n \in DomNames |-> {}]
  /\ dom_granted = {}
  /\ dom_started = [h \in DomHarts |-> NotStarted]

ServInit ==
  /\ part \in {"pmu", "dbtr", "fwft", "mpxy", "domain", "pmp", "context", "ecall"}
  /\ PmuInit /\ (part # "pmu" => pmu_plat = CHOOSE p \in PmuPlatforms : TRUE)
  /\ DbtrInit /\ FwftInit
  /\ MpxyInit /\ (part # "mpxy" => mpxy_toadd = (CHOOSE l \in BootChannels : TRUE) /\ mpxy_client.hart = MpxyBootHart)
  /\ IF part = "domain" THEN DomInit ELSE DomRest
  /\ PmpInit /\ (part # "pmp" => pmp_sme /\ pmp_regs = CHOOSE d \in PmpDomains : TRUE)
  /\ CtxInit
  /\ EcInit /\ (part # "ecall" => ec_plat = CHOOSE p \in EcPlats : TRUE)

\* The boot of the domains ends: the harts have started, or the boot hangs.
DomEnded == dom_phase \in {"up", "hang"} /\ UNCHANGED dom_vars

ServNext ==
  /\ UNCHANGED part
  /\ \/ /\ part = "pmu" /\ PmuNext
        /\ UNCHANGED <<dbtr_vars, fwft_vars, mpxy_vars, dom_vars, pmp_vars, ctx_vars, ec_vars>>
     \/ /\ part = "dbtr" /\ DbtrNext
        /\ UNCHANGED <<pmu_vars, fwft_vars, mpxy_vars, dom_vars, pmp_vars, ctx_vars, ec_vars>>
     \/ /\ part = "fwft" /\ FwftNext
        /\ UNCHANGED <<pmu_vars, dbtr_vars, mpxy_vars, dom_vars, pmp_vars, ctx_vars, ec_vars>>
     \/ /\ part = "mpxy" /\ MpxyNext
        /\ UNCHANGED <<pmu_vars, dbtr_vars, fwft_vars, dom_vars, pmp_vars, ctx_vars, ec_vars>>
     \/ /\ part = "domain" /\ (DomNext \/ DomEnded)
        /\ UNCHANGED <<pmu_vars, dbtr_vars, fwft_vars, mpxy_vars, pmp_vars, ctx_vars, ec_vars>>
     \/ /\ part = "pmp" /\ PmpNext
        /\ UNCHANGED <<pmu_vars, dbtr_vars, fwft_vars, mpxy_vars, dom_vars, ctx_vars, ec_vars>>
     \/ /\ part = "context" /\ CtxNext
        /\ UNCHANGED <<pmu_vars, dbtr_vars, fwft_vars, mpxy_vars, dom_vars, pmp_vars, ec_vars>>
     \/ /\ part = "ecall" /\ EcNext
        /\ UNCHANGED <<pmu_vars, dbtr_vars, fwft_vars, mpxy_vars, dom_vars, pmp_vars, ctx_vars>>

ServSpec == ServInit /\ [][ServNext]_serv_vars

\* What a call never disturbs: the counters another event holds and the overflow a
\* counter has recorded, the features when a set is refused, and the caller to
\* which the exit from a domain returns.
ServKeeps == PmuNoSteal /\ PmuOverflowKept /\ FwftRefusalHarmless /\ CtxExitReturns
=============================================================================
