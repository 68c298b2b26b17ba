--------------------------- MODULE DomainContext ----------------------------
(***************************************************************************)
(* The domain contexts of the harts (sbi_domain_context.c): a hart leaves  *)
(* its domain for another one and comes back, saving and restoring its     *)
(* S-mode state. The contexts are allocated at the first exit.             *)
(*                                                                         *)
(* The S-mode CSRs and the trap context of a hart are each one value: the  *)
(* domain whose state it is, or Fresh for the zeroed memory of a context   *)
(* nothing was saved in.                                                   *)
(***************************************************************************)
EXTENDS SbiDefs, FiniteSets, Functions, Sequences

CONSTANTS
    CtxHarts,         \* harts
    CtxDomains,       \* domains in the order of domain_list, the first is root
    CtxPossible,      \* domain -> possible_harts
    CtxBoot,          \* domain -> boot_hartid
    CtxHome,          \* hart -> the domain it is assigned to at boot
    CtxAsks,          \* hart -> domains it asks to enter
    CtxAllocs         \* bound: contexts the heap can still hold

VARIABLES
    ctx_pc,           \* hart -> "run", "left", "moved" (within a switch), "stopped", "fault"
    ctx_of,           \* sbi_hartindex_to_domain
    ctx_assigned,     \* domain -> assigned_harts
    ctx_tab,          \* domain -> hart -> context: [prev, init, saved] or NoCtx
    ctx_to,           \* hart -> target of the switch under way
    ctx_regs,         \* hart -> [csr, trap]: whose state its registers hold
    ctx_free,         \* allocations that will still succeed
    ctx_ret,          \* hart -> result of its last call
    ctx_calls,        \* hart -> domains whose calls are open, the last first
    ctx_seen          \* events so far: "nomem", "self", "reenter"

ctx_vars == <<ctx_pc, ctx_of, ctx_assigned, ctx_tab, ctx_to, ctx_regs, ctx_free, ctx_ret, ctx_calls, ctx_seen>>

NoDom == "none"
Fresh == "fresh"
Regs(c, t) == [csr |-> c, trap |-> t]
CtxDomSet == {CtxDomains[i] : i \in DOMAIN CtxDomains}
CtxRoot == CtxDomains[1]
NoCtx == [here |-> FALSE, prev |-> NoDom, init |-> FALSE, saved |-> Regs(Fresh, Fresh)]

\* Bug: a new context counts as run.
NewCtxRun == [NoCtx EXCEPT !.here = TRUE, !.init = TRUE]

NewCtx == [NoCtx EXCEPT !.here = TRUE]

CtxInit ==
    /\ ctx_pc = [h \in CtxHarts |-> "run"]
    /\ ctx_of = CtxHome
    /\ ctx_assigned = [d \in CtxDomSet |-> {h \in CtxHarts : CtxHome[h] = d}]
    /\ ctx_tab = [d \in CtxDomSet |-> [h \in CtxHarts |-> NoCtx]]
    /\ ctx_to = [h \in CtxHarts |-> NoDom]
    /\ ctx_regs = [h \in CtxHarts |-> Regs(CtxHome[h], CtxHome[h])]
    /\ ctx_free = CtxAllocs
    /\ ctx_ret = [h \in CtxHarts |-> SBI_OK]
    /\ ctx_calls = [h \in CtxHarts |-> <<>>]
    /\ ctx_seen = {}

\* Bug: the hart stays among the harts of the domain it leaves.
SwitchStartsKept(h, to) ==
    /\ UNCHANGED ctx_assigned
    /\ ctx_to' = [ctx_to EXCEPT ![h] = to]
    /\ ctx_pc' = [ctx_pc EXCEPT ![h] = "left"]

\* switch_to_next_domain_context() until the first unlock: the hart is taken
\* out of the assigned harts of the domain it leaves.
SwitchStarts(h, to) ==
    /\ ctx_assigned' = [ctx_assigned EXCEPT ![ctx_of[h]] = @ \ {h}]
    /\ ctx_to' = [ctx_to EXCEPT ![h] = to]
    /\ ctx_pc' = [ctx_pc EXCEPT ![h] = "left"]

\* sbi_domain_context_enter(); ctx->dom is read in the switch, so a hart
\* without a context of its own faults there.
CtxEnter(h, dom) ==
    /\ ctx_pc[h] = "run"
    /\ IF ~ctx_tab[dom][h].here
       THEN /\ ctx_ret' = [ctx_ret EXCEPT ![h] = SBI_EINVAL]
            /\ UNCHANGED <<ctx_tab, ctx_assigned, ctx_to, ctx_pc, ctx_calls, ctx_seen>>
       ELSE /\ ctx_tab' = [ctx_tab EXCEPT ![dom][h].prev = IF ctx_tab[ctx_of[h]][h].here THEN ctx_of[h] ELSE NoDom]
            /\ UNCHANGED ctx_ret
            /\ IF ~ctx_tab[ctx_of[h]][h].here
               THEN /\ ctx_pc' = [ctx_pc EXCEPT ![h] = "fault"]
                    /\ UNCHANGED <<ctx_assigned, ctx_to, ctx_calls, ctx_seen>>
               ELSE /\ SwitchStarts(h, dom)
                    /\ LET self == IF dom = ctx_of[h] THEN {"self"} ELSE {}
                       IN  IF "reenter" \in ctx_seen \/ dom \in {ctx_of[h]} \cup Range(ctx_calls[h])
                           THEN /\ ctx_seen' = ctx_seen \cup self \cup {"reenter"}
                                /\ ctx_calls' = [g \in CtxHarts |-> <<>>]
                           ELSE /\ ctx_calls' = [ctx_calls EXCEPT ![h] = <<ctx_of[h]>> \o @]
                                /\ UNCHANGED ctx_seen
    /\ UNCHANGED <<ctx_of, ctx_regs, ctx_free>>

\* The allocations of sbi_domain_context_exit(): in list order, for every
\* domain the hart is possible in, until the heap has no more.
AllocRank(h, i) == Cardinality({k \in 1 .. i : h \in CtxPossible[CtxDomains[k]]})
AllocCount(h) == AllocRank(h, Len(CtxDomains))

\* Bug: the last domain of the list gets no context.
CtxAllocatedShort(h, n) ==
    [d \in CtxDomSet |->
       LET i == CHOOSE k \in DOMAIN CtxDomains : CtxDomains[k] = d
       IN  IF h \in CtxPossible[d] /\ AllocRank(h, i) < n THEN [ctx_tab[d] EXCEPT ![h] = NewCtx] ELSE ctx_tab[d]]

CtxAllocated(h, n) ==
    [d \in CtxDomSet |->
       LET i == CHOOSE k \in DOMAIN CtxDomains : CtxDomains[k] = d
       IN  IF h \in CtxPossible[d] /\ AllocRank(h, i) =< n THEN [ctx_tab[d] EXCEPT ![h] = NewCtx] ELSE ctx_tab[d]]

\* Bug: the caller is not asked.
ExitTargetFresh(tab, h) ==
    LET fresh == {i \in 2 .. Len(CtxDomains) :
                    LET d == CtxDomains[i] IN d # ctx_of[h] /\ tab[d][h].here /\ ~tab[d][h].init}
    IN  IF fresh # {} THEN CtxDomains[CHOOSE i \in fresh : \A k \in fresh : i =< k] ELSE CtxRoot

\* The target of an exit: the caller, the first domain never run on this hart,
\* the root domain.
ExitTarget(tab, h) ==
    LET own == tab[ctx_of[h]][h]
        fresh == {i \in 2 .. Len(CtxDomains) :
                    LET d == CtxDomains[i] IN d # ctx_of[h] /\ tab[d][h].here /\ ~tab[d][h].init}
    IN  IF own.prev # NoDom THEN own.prev
        ELSE IF fresh # {} THEN CtxDomains[CHOOSE i \in fresh : \A k \in fresh : i =< k]
        ELSE CtxRoot

\* sbi_domain_context_exit()
CtxExit(h) ==
    /\ ctx_pc[h] = "run"
    /\ LET first == ~ctx_tab[ctx_of[h]][h].here
           n == IF ctx_free < AllocCount(h) THEN ctx_free ELSE AllocCount(h)
           tab == IF first THEN CtxAllocated(h, n) ELSE ctx_tab
           to == ExitTarget(tab, h)
       IN  /\ ctx_free' = IF first THEN ctx_free - n ELSE ctx_free
           /\ ctx_tab' = tab
           /\ IF first /\ n < AllocCount(h)
              THEN /\ ctx_ret' = [ctx_ret EXCEPT ![h] = SBI_ENOMEM]
                   /\ ctx_seen' = ctx_seen \cup {"nomem"}
                   /\ UNCHANGED <<ctx_assigned, ctx_to, ctx_pc, ctx_calls>>
              ELSE /\ SwitchStarts(h, to)
                   /\ ctx_calls' = [ctx_calls EXCEPT ![h] = IF @ = <<>> THEN @ ELSE Tail(@)]
                   /\ ctx_seen' = IF to = ctx_of[h] THEN ctx_seen \cup {"self"} ELSE ctx_seen
                   /\ UNCHANGED ctx_ret
    /\ UNCHANGED <<ctx_of, ctx_regs>>

\* sbi_update_hartindex_to_domain()
SwitchMoves(h) ==
    /\ ctx_pc[h] = "left"
    /\ ctx_of' = [ctx_of EXCEPT ![h] = ctx_to[h]]
    /\ ctx_to' = [ctx_to EXCEPT ![h] = ctx_of[h]]      \* the domain it came from
    /\ ctx_pc' = [ctx_pc EXCEPT ![h] = "moved"]
    /\ UNCHANGED <<ctx_assigned, ctx_tab, ctx_regs, ctx_free, ctx_ret, ctx_calls, ctx_seen>>

\* The rest of the switch: the hart joins the target, its CSRs are swapped with
\* those of the target's context, then the trap context is saved and replaced.
\* A target that never ran is booted on its boot hart and left stopped on any
\* other; the context that is left counts as run from here on.
SwitchEnds(h) ==
    /\ ctx_pc[h] = "moved"
    /\ LET from == ctx_to[h]
           to == ctx_of[h]
           new == ctx_tab[to][h]
           runs == new.init \/ from = to
           boots == ~runs /\ CtxBoot[to] = h
       IN  /\ ctx_assigned' = [ctx_assigned EXCEPT ![to] = @ \cup {h}]
           /\ ctx_tab' = [ctx_tab EXCEPT ![from][h] = [@ EXCEPT !.saved = ctx_regs[h], !.init = TRUE]]
           /\ ctx_regs' = [ctx_regs EXCEPT ![h] = IF boots THEN Regs(to, to)
                              ELSE Regs(new.saved.csr, IF from = to THEN @.trap ELSE new.saved.trap)]
           /\ ctx_pc' = [ctx_pc EXCEPT ![h] = IF runs \/ boots THEN "run" ELSE "stopped"]
           /\ ctx_ret' = [ctx_ret EXCEPT ![h] = SBI_OK]
    /\ ctx_to' = [ctx_to EXCEPT ![h] = NoDom]
    /\ UNCHANGED <<ctx_of, ctx_free, ctx_calls, ctx_seen>>

\* A stopped hart is started in its domain by an HSM call from that domain.
CtxHartStart(h) ==
    /\ ctx_pc[h] = "stopped"
    /\ ctx_pc' = [ctx_pc EXCEPT ![h] = "run"]
    /\ ctx_regs' = [ctx_regs EXCEPT ![h] = Regs(ctx_of[h], ctx_of[h])]
    /\ UNCHANGED <<ctx_of, ctx_assigned, ctx_tab, ctx_to, ctx_free, ctx_ret, ctx_calls, ctx_seen>>

CtxNext ==
    \E h \in CtxHarts :
       \/ \E d \in CtxAsks[h] : CtxEnter(h, d)
       \/ CtxExit(h)
       \/ SwitchMoves(h)
       \/ SwitchEnds(h)
       \/ CtxHartStart(h)
-----------------------------------------------------------------------------
\* Type invariant of the contexts.
CtxTypeOK ==
    /\ ctx_pc \in [CtxHarts -> {"run", "left", "moved", "stopped", "fault"}]
    /\ ctx_of \in [CtxHarts -> CtxDomSet]
    /\ ctx_free \in 0 .. CtxAllocs
    /\ \A d \in CtxDomSet, h \in CtxHarts : ctx_tab[d][h].here => h \in CtxPossible[d]

\* docs/domain_support.md: at any time a hart runs in exactly one domain. The
\* assigned masks agree with the hart's domain outside of a switch, and within
\* one the hart is in no mask, never in two.
CtxOneDomain ==
    \A h \in CtxHarts :
       LET in == {d \in CtxDomSet : h \in ctx_assigned[d]}
       IN  IF ctx_pc[h] \in {"left", "moved"} THEN in = {} ELSE in = {ctx_of[h]}

\* A running hart has the CSRs and the trap state of the domain it is in, all
\* of them, over any sequence of enters and exits in which no hart enters or exits
\* from a domain to itself, when its CSRs become those of the switch before.
CtxStateOwn ==
    "self" \notin ctx_seen =>
       \A h \in CtxHarts : ctx_pc[h] = "run" => ctx_regs[h] = Regs(ctx_of[h], ctx_of[h])

\* A hart faults on a missing context only after an allocation has failed, and
\* without such a failure the first exit leaves it a context in every domain
\* it may run in.
CtxComplete ==
    "nomem" \notin ctx_seen =>
       \A h \in CtxHarts :
          /\ ctx_pc[h] # "fault"
          /\ (\E d \in CtxDomSet : ctx_tab[d][h].here) =>
                \A d \in CtxDomSet : h \in CtxPossible[d] => ctx_tab[d][h].here

\* An exit goes back to the domain whose enter is the last one still open, as
\* long as no domain was entered by itself or while a call of its own was open.
CtxExitReturns ==
    [][\A h \in CtxHarts :
         (ctx_pc[h] = "run" /\ ctx_pc'[h] = "left" /\ Len(ctx_calls'[h]) < Len(ctx_calls[h])
            /\ "reenter" \notin ctx_seen') => ctx_to'[h] = Head(ctx_calls[h])]_ctx_vars

\* After any switches, nested, crossed or failed half-way, a hart is in one domain,
\* runs with the state that domain left behind, and no domain misses its context, with
\* the exceptions of CtxStateOwn and CtxComplete.
CtxSound == CtxTypeOK /\ CtxOneDomain /\ CtxStateOwn /\ CtxComplete
=============================================================================
