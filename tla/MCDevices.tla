------------------------------ MODULE MCDevices ------------------------------
(***************************************************************************)
(* TLC instance of the device drivers: the RPMI mailbox transport and the  *)
(* drivers that set up their clients on it, the timers, the console and    *)
(* the interrupt controllers.  They share no variable, so a behaviour      *)
(* works on one of them: "part" says on which, and the others rest in a    *)
(* state in which the fairness of their specification asks for nothing.    *)
(***************************************************************************)
EXTENDS Rpmi, RpmiClients, Timer, Console, Irqchip, TLC

VARIABLE part

dev_vars == <<part, rp_vars, rc_vars, tm_vars, con_vars, ic_vars>>

-----------------------------------------------------------------------------
\* Rpmi: requests of both types, and from one hart some with a length that is refused.
Requests == {<<"normal", "no">>, <<"posted", "no">>}
MCKinds == 0 :> (Requests \cup {<<"normal", "tx">>, <<"normal", "rx">>}) @@ 1 :> Requests

\* RpmiClients: an MPXY channel id used twice, nodes without an id or with the
\* group of another driver, and drivers that are matched twice.
Node(drv, group, id) == [drv |-> drv, group |-> group, id |-> id]
MCRcTrees ==
  {<<Node("hsm", 5, 0), Node("cppc", 6, 0)>>,
   <<Node("clock", 8, 1), Node("sysmsi", 2, 1), Node("clock", 8, 2)>>,
   <<Node("hsm", 5, 0), Node("sysmsi", 2, 0), Node("clock", 2, 1), Node("clock", 8, 1)>>,
   <<Node("susp", 4, 0), Node("reset", 3, 0), Node("susp", 4, 0)>>}

\* Irqchip: PLICs wired in and out of order, with and without saved state;
\* IMSICs with a gap in their files and files in one or two regions; APLICs
\* with delegations in and out of range.
Wire(h, irq) == [hart |-> h, irq |-> irq]
Plics ==
  {<<[kind |-> "plic", wires |-> w, srcs |-> 2, flags |-> fl]>> :
     w \in {<<Wire(0, "m"), Wire(0, "s"), Wire(1, "m"), Wire(1, "s")>>,
            <<Wire(-1, "s"), Wire(1, "s"), Wire(0, "s"), Wire(1, "m")>>},
     fl \in {{}, {"ariane"}, {"pm", "thead"}}}
Imsics ==
  {<<[kind |-> "imsic", wires |-> w, regs |-> r, ids |-> 7, mmode |-> mm]>> :
     w \in {<<Wire(0, "m"), Wire(-1, "m"), Wire(1, "m")>>, <<Wire(1, "m"), Wire(-1, "m"), Wire(0, "m")>>},
     r \in {<<3>>, <<1, 2>>}, mm \in BOOLEAN}
Deleg(first, last, child) == [first |-> first, last |-> last, child |-> child]
Aplics ==
  {<<[kind |-> "aplic", srcs |-> 4, idcs |-> 0, mmode |-> FALSE, msi |-> TRUE, delegs |-> d]>> :
     d \in {<<Deleg(1, 2, 0), Deleg(4, 3, 1)>>, <<Deleg(4, 1, 2), Deleg(2, 2, 1), Deleg(5, 1, 0)>>,
            <<Deleg(1, 1, 0), Deleg(4, 4, 4)>>}}
MCIcMachines == Plics \cup Imsics \cup Aplics

-----------------------------------------------------------------------------
\* The timer rests when the bounded time is over, so that Tick is disabled;
\* the RPMI drivers when no node is left.
TmRest ==
  /\ tm_wide = TRUE /\ tm_kind = "plmt"
  /\ tm_ref = TmMax /\ tm_mt = 0 /\ tm_computed = FALSE /\ tm_slip = 0
  /\ tm_cmp = [h \in TmHarts |-> 0] /\ tm_want = [h \in TmHarts |-> TmNone]
  /\ tm_mie = [h \in TmHarts |-> FALSE] /\ tm_stip = [h \in TmHarts |-> FALSE]
  /\ tm_pc = [h \in TmHarts |-> "off"] /\ tm_l = [h \in TmHarts |-> TmLocals]

RcRest ==
  /\ rc_nodes = << >> /\ rc_ntypes = 0 /\ rc_nharts = 0
  /\ rc_pc = "request" /\ rc_l = NoLocals
  /\ mb_ctl = FALSE /\ mb_chans = {} /\ rc_live = {} /\ rc_hold = [d \in {} |-> 0]
  /\ rc_hsm = {} /\ rc_states = << >> /\ rc_cppc = [h \in RcScratch |-> CppcNone]
  /\ rc_devs = {} /\ rc_ids = {} /\ rc_ret = SBI_OK /\ rc_ranges = {} /\ rc_seen = {}

DevInit ==
  /\ part \in {"rpmi", "clients", "timer", "console", "irqchip"}
  /\ RpInit
  /\ IF part = "clients" THEN RcInit ELSE RcRest
  /\ IF part = "timer" THEN TmInit ELSE TmRest
  /\ ConInit
  /\ IcInit
  /\ part # "irqchip" => /\ ic_m = CHOOSE m \in IcMachines : TRUE
                         /\ \A h \in IcHarts : ic_csr[h].eie \cup ic_csr[h].eip = {}

\* Nothing more happens when the bounded number of calls has been made, when
\* the drivers are initialised, when the time is over, or when a hart hangs
\* (ConReturns then says that the others go on).
DevEnded ==
  CASE part = "rpmi" -> \A h \in RpHarts : rp_call[h].pc = "idle"
    [] part = "clients" -> rc_nodes = << >>
    [] part = "timer" -> tm_ref = TmMax
    [] part = "console" -> (\A h \in ConHarts : con_pc[h] = "idle") \/ (\E h \in ConHarts : con_pc[h] = "hang")
    [] part = "irqchip" -> TRUE

DevNext ==
  /\ UNCHANGED part
  /\ \/ /\ part = "rpmi" /\ RpNext
        /\ UNCHANGED <<rc_vars, tm_vars, con_vars, ic_vars>>
     \/ /\ part = "clients" /\ RcNext
        /\ UNCHANGED <<rp_vars, tm_vars, con_vars, ic_vars>>
     \/ /\ part = "timer" /\ TmNext
        /\ UNCHANGED <<rp_vars, rc_vars, con_vars, ic_vars>>
     \/ /\ part = "console" /\ ConNext
        /\ UNCHANGED <<rp_vars, rc_vars, tm_vars, ic_vars>>
     \/ /\ part = "irqchip" /\ IcNext
        /\ UNCHANGED <<rp_vars, rc_vars, tm_vars, con_vars>>
     \/ DevEnded /\ UNCHANGED dev_vars

DevSpec == DevInit /\ [][DevNext]_dev_vars /\ RpFair /\ RcFair /\ TmFair /\ ConFair /\ IcFair

\* What was asked of a driver comes to an end: a transfer returns, the boot gets
\* through the drivers, a deadline that has passed fires, a print returns, and an
\* IPI sent through the IMSIC is processed.
DriversEnd == RpCallReturns /\ RcBootEnds /\ TmFires /\ ConReturns /\ IcIpiProcessed
=============================================================================
