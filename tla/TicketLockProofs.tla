-------------------------- MODULE TicketLockProofs --------------------------
(***************************************************************************)
(* Mutual exclusion of the ticket spinlock for every set of harts smaller  *)
(* than the number of tickets.  The argument: the tickets from owner to    *)
(* next - 1 are in one-to-one correspondence with the contending harts, so *)
(* there are fewer of them than ticket values and "next" can never catch   *)
(* up with "owner" from behind.                                            *)
(***************************************************************************)
EXTENDS TicketLock, FiniteSetTheorems, TLAPS

\* Every distance below TicketMod is the distance of a ticket.
LEMMA TicketAt ==
  ASSUME LockTypeOK, NEW d \in 0 .. TicketMod - 1
  PROVE  \E t \in Tickets : Distance(t) = d
<1>1. CASE owner + d < TicketMod
  <2>1. /\ owner + d \in Tickets
        /\ Distance(owner + d) = d
    BY <1>1, TicketAssumption DEF LockTypeOK, Tickets, Distance
  <2> QED BY <2>1
<1>2. CASE owner + d >= TicketMod
  <2>1. /\ owner + d - TicketMod \in Tickets
        /\ Distance(owner + d - TicketMod) = d
    BY <1>2, TicketAssumption DEF LockTypeOK, Tickets, Distance
  <2> QED BY <2>1
<1> QED BY <1>1, <1>2, TicketAssumption DEF LockTypeOK, Tickets

\* spin_lock() on a hart outside finds at least one ticket value unused: there
\* are at most as many outstanding tickets as other harts.
LEMMA RoomForOneMore ==
  ASSUME LockTypeOK, TicketsOutstanding, NEW h \in LockHarts, h \notin Contenders
  PROVE  Distance(next) + 1 < TicketMod
<1> DEFINE d == Distance(next)
           f == [i \in 1 .. d |-> CHOOSE g \in Contenders : Distance(ticket[g]) = i - 1]
<1>1. d \in 0 .. TicketMod - 1
  BY TicketAssumption DEF LockTypeOK, Tickets, Distance
<1>2. ASSUME NEW i \in 1 .. d
      PROVE  f[i] \in Contenders /\ Distance(ticket[f[i]]) = i - 1
  <2>1. i - 1 \in 0 .. TicketMod - 1 /\ i - 1 < d
    BY <1>1, TicketAssumption
  <2>2. PICK t \in Tickets : Distance(t) = i - 1
    BY <2>1, TicketAt
  <2>3. \E g \in Contenders : ticket[g] = t
    BY <2>1, <2>2 DEF TicketsOutstanding
  <2>4. \E g \in Contenders : Distance(ticket[g]) = i - 1
    BY <2>2, <2>3
  <2> QED BY <2>4
<1>3. f \in Injection(1 .. d, Contenders)
  <2>1. f \in [1 .. d -> Contenders]
    BY <1>2
  <2>2. ASSUME NEW i \in 1 .. d, NEW j \in 1 .. d, f[i] = f[j]
        PROVE  i = j
    <3>1. i - 1 = j - 1
      BY <1>2, <2>2
    <3> QED BY <3>1, <1>1
  <2> QED BY <2>1, <2>2 DEF Injection, IsInjective
<1>4. /\ IsFiniteSet(LockHarts \ {h})
      /\ Cardinality(LockHarts \ {h}) = Cardinality(LockHarts) - 1
  BY FS_RemoveElement, TicketAssumption
<1>5. Contenders \in SUBSET (LockHarts \ {h})
  BY DEF Contenders
<1>6. IsFiniteSet(Contenders) /\ Cardinality(Contenders) <= Cardinality(LockHarts) - 1
  BY <1>4, <1>5, FS_Subset
<1>7. Cardinality(1 .. d) = d
  BY <1>1, FS_Interval
<1>8. d <= Cardinality(Contenders)
  BY <1>3, <1>6, <1>7, FS_Injection
<1>9. Cardinality(LockHarts) \in Nat /\ Cardinality(Contenders) \in Nat
  BY <1>6, FS_CardinalityType, TicketAssumption
<1> QED BY <1>1, <1>6, <1>8, <1>9, TicketAssumption

\* Type correctness of the lock word, the ticket registers and the reservations.
THEOREM TypeCorrect == LockSpec => []LockTypeOK
<1>1. LockInit => LockTypeOK
  <2>1. Cardinality(LockHarts) \in Nat
    BY FS_CardinalityType, TicketAssumption
  <2> QED BY <2>1, TicketAssumption DEF LockInit, LockTypeOK, Tickets
<1>2. LockTypeOK /\ [LockNext]_lock_vars => LockTypeOK'
  BY TicketAssumption DEF LockTypeOK, Tickets, Succ, LockNext, lock_vars, SpinLock, SpinReload,
     TryLoadReserved, TryStoreConditional, TryRetry, TryFail, SpinUnlock
<1> QED BY <1>1, <1>2, PTL DEF LockSpec

\* Drawing a ticket keeps the correspondence between tickets and contenders.
LEMMA DrawTicket ==
  ASSUME TicketInv, NEW h \in LockHarts, h \notin Contenders,
         next' = Succ(next), owner' = owner,
         ticket' = [ticket EXCEPT ![h] = next],
         Contenders' = Contenders \cup {h}
  PROVE  TicketsOutstanding'
<1> USE TicketAssumption DEF TicketInv, LockTypeOK
<1>1. Distance(next) + 1 < TicketMod
  BY RoomForOneMore
<1>2. \A t \in Tickets : Distance(t)' = Distance(t)
  BY DEF Distance
<1>3. Distance(next)' = Distance(next) + 1
  BY <1>1 DEF Distance, Succ, Tickets
<1>4. \A s, t \in Tickets : Distance(s) = Distance(t) => s = t
  BY DEF Distance, Tickets
<1>5. Contenders \subseteq LockHarts
  BY DEF Contenders
<1>6. \A t \in Tickets : Distance(t) \in 0 .. TicketMod - 1
  BY DEF Distance, Tickets
<1>7. ASSUME NEW g \in Contenders'
      PROVE  Distance(ticket[g])' < Distance(next)'
  <2>1. CASE g = h
    <3>1. ticket'[g] = next
      BY <2>1
    <3> QED BY <3>1, <1>2, <1>3, <1>6 DEF Distance
  <2>2. CASE g # h
    <3>1. g \in Contenders /\ ticket'[g] = ticket[g] /\ ticket[g] \in Tickets
      BY <1>5, <1>7, <2>2
    <3>2. Distance(ticket[g]) < Distance(next)
      BY <3>1 DEF TicketsOutstanding
    <3> QED BY <3>1, <3>2, <1>2, <1>3, <1>6 DEF Distance
  <2> QED BY <2>1, <2>2
<1>8. ASSUME NEW g \in Contenders', NEW k \in Contenders', ticket'[g] = ticket'[k]
      PROVE  g = k
  <2>1. \A x \in Contenders : Distance(ticket[x]) < Distance(next)
    BY DEF TicketsOutstanding
  <2>2. \A x \in Contenders : ticket[x] # next
    BY <2>1, <1>5, <1>6
  <2> QED BY <2>2, <1>5, <1>8 DEF TicketsOutstanding
<1>9. ASSUME NEW t \in Tickets, Distance(t)' < Distance(next)'
      PROVE  \E g \in Contenders' : ticket'[g] = t
  <2>1. Distance(t) < Distance(next) \/ Distance(t) = Distance(next)
    BY <1>2, <1>3, <1>6, <1>9
  <2>2. CASE Distance(t) < Distance(next)
    <3>1. PICK g \in Contenders : ticket[g] = t
      BY <2>2 DEF TicketsOutstanding
    <3>2. g # h /\ ticket'[g] = ticket[g] /\ g \in Contenders'
      BY <3>1, <1>5
    <3> QED BY <3>1, <3>2
  <2>3. CASE Distance(t) = Distance(next)
    <3>1. t = next
      BY <2>3, <1>4
    <3>2. h \in Contenders' /\ ticket'[h] = next
      OBVIOUS
    <3> QED BY <3>1, <3>2
  <2> QED BY <2>1, <2>2, <2>3
<1> QED BY <1>7, <1>8, <1>9 DEF TicketsOutstanding

\* Serving the next ticket keeps the correspondence: the hart that leaves held
\* the ticket that "owner" steps over.
LEMMA ServeNext ==
  ASSUME TicketInv, NEW h \in LockHarts, lock_pc[h] = "held",
         owner' = Succ(owner), next' = next, ticket' = ticket,
         Contenders' = Contenders \ {h}
  PROVE  TicketsOutstanding'
<1> USE TicketAssumption DEF TicketInv, LockTypeOK
<1>1. h \in Contenders /\ ticket[h] = owner
  BY DEF Contenders, ServedAndReserved
<1>2. Distance(owner) = 0 /\ Distance(owner) < Distance(next)
  BY <1>1 DEF Distance, TicketsOutstanding, Tickets
<1>3. \A t \in Tickets : t # owner => Distance(t)' = Distance(t) - 1
  BY DEF Distance, Succ, Tickets
<1>4. Distance(next)' = Distance(next) - 1
  BY <1>2, <1>3 DEF Distance
<1>5. Contenders \subseteq LockHarts
  BY DEF Contenders
<1>6. \A t \in Tickets : t = owner => Distance(t)' = TicketMod - 1
  <2>1. owner' # owner
    BY <1>2 DEF Succ, Distance, Tickets
  <2> QED BY <2>1 DEF Distance, Succ, Tickets
<1>7. \A t \in Tickets : Distance(t) \in 0 .. TicketMod - 1
  BY DEF Distance, Tickets
<1>8. ASSUME NEW g \in Contenders'
      PROVE  Distance(ticket[g])' < Distance(next)'
  <2>1. g \in Contenders /\ ticket[g] # owner /\ ticket[g] \in Tickets
    BY <1>1, <1>5, <1>8 DEF TicketsOutstanding
  <2>2. Distance(ticket[g]) < Distance(next)
    BY <2>1 DEF TicketsOutstanding
  <2> QED BY <2>1, <2>2, <1>3, <1>4, <1>7 DEF Distance
<1>9. \A g, k \in Contenders' : ticket'[g] = ticket'[k] => g = k
  BY DEF TicketsOutstanding
<1>10. ASSUME NEW t \in Tickets, Distance(t)' < Distance(next)'
       PROVE  \E g \in Contenders' : ticket'[g] = t
  <2>1. t # owner
    BY <1>4, <1>6, <1>7, <1>10 DEF Distance
  <2>2. Distance(t) < Distance(next)
    BY <2>1, <1>3, <1>4, <1>7, <1>10
  <2>3. PICK g \in Contenders : ticket[g] = t
    BY <2>2 DEF TicketsOutstanding
  <2>4. g # h
    BY <1>1, <2>1, <2>3
  <2> QED BY <2>3, <2>4
<1> QED BY <1>8, <1>9, <1>10 DEF TicketsOutstanding

\* A step that leaves the counters, the tickets and the contenders alone.
LEMMA SameContenders ==
  ASSUME TicketsOutstanding, owner' = owner, next' = next,
         Contenders' = Contenders, \A h \in Contenders : ticket'[h] = ticket[h]
  PROVE  TicketsOutstanding'
BY DEF TicketsOutstanding, Distance

\* TicketInv is inductive.
LEMMA TicketInvStep == TicketInv /\ [LockNext]_lock_vars => TicketInv'
<1> SUFFICES ASSUME TicketInv, [LockNext]_lock_vars PROVE TicketInv'
  OBVIOUS
<1>0. LockTypeOK'
  BY TicketAssumption DEF TicketInv, LockTypeOK, Tickets, Succ, LockNext, lock_vars, SpinLock,
     SpinReload, TryLoadReserved, TryStoreConditional, TryRetry, TryFail, SpinUnlock
<1>1. ASSUME NEW h \in LockHarts, SpinLock(h) PROVE TicketInv'
  <2>1. h \notin Contenders /\ Contenders' = Contenders \cup {h}
    BY <1>1 DEF SpinLock, Contenders, TicketInv, LockTypeOK
  <2>2. TicketsOutstanding'
    BY <1>1, <2>1, DrawTicket DEF SpinLock
  <2>3. ServedAndReserved'
    BY <1>1 DEF SpinLock, ServedAndReserved, Unlocked, TicketInv, LockTypeOK
  <2> QED BY <1>0, <2>2, <2>3 DEF TicketInv
<1>2. ASSUME NEW h \in LockHarts, SpinReload(h) PROVE TicketInv'
  <2>1. Contenders' = Contenders
    BY <1>2 DEF SpinReload, Contenders, TicketInv, LockTypeOK
  <2>2. TicketsOutstanding'
    BY <1>2, <2>1, SameContenders DEF SpinReload, TicketInv
  <2>3. ServedAndReserved'
    BY <1>2 DEF SpinReload, ServedAndReserved, Unlocked, TicketInv, LockTypeOK
  <2> QED BY <1>0, <2>2, <2>3 DEF TicketInv
<1>3. ASSUME NEW h \in LockHarts, TryLoadReserved(h) PROVE TicketInv'
  <2>1. Contenders' = Contenders /\ h \notin Contenders
    BY <1>3 DEF TryLoadReserved, Contenders, TicketInv, LockTypeOK
  <2>2. \A g \in Contenders : ticket'[g] = ticket[g]
    BY <1>3, <2>1 DEF TryLoadReserved, Contenders, TicketInv, LockTypeOK
  <2>3. TicketsOutstanding'
    BY <1>3, <2>1, <2>2, SameContenders DEF TryLoadReserved, TicketInv
  <2>4. ServedAndReserved'
    BY <1>3 DEF TryLoadReserved, ServedAndReserved, Unlocked, TicketInv, LockTypeOK
  <2> QED BY <1>0, <2>3, <2>4 DEF TicketInv
<1>4. ASSUME NEW h \in LockHarts, TryStoreConditional(h) PROVE TicketInv'
  <2>1. h \notin Contenders /\ Contenders' = Contenders \cup {h}
    BY <1>4 DEF TryStoreConditional, Contenders, TicketInv, LockTypeOK
  <2>2. ticket[h] = next /\ owner = next
    BY <1>4 DEF TryStoreConditional, ServedAndReserved, Unlocked, TicketInv
  <2>3. ticket' = [ticket EXCEPT ![h] = next]
    BY <1>4, <2>2 DEF TryStoreConditional, TicketInv, LockTypeOK
  <2>4. TicketsOutstanding'
    BY <1>4, <2>1, <2>2, <2>3, DrawTicket DEF TryStoreConditional
  <2>5. ServedAndReserved'
    BY <1>4, <2>2 DEF TryStoreConditional, ServedAndReserved, Unlocked, TicketInv, LockTypeOK
  <2> QED BY <1>0, <2>4, <2>5 DEF TicketInv
<1>5. ASSUME NEW h \in LockHarts, TryRetry(h) \/ TryFail(h) PROVE TicketInv'
  <2>1. Contenders' = Contenders
    BY <1>5 DEF TryRetry, TryFail, Contenders, TicketInv, LockTypeOK
  <2>2. TicketsOutstanding'
    BY <1>5, <2>1, SameContenders DEF TryRetry, TryFail, TicketInv
  <2>3. ServedAndReserved'
    BY <1>5 DEF TryRetry, TryFail, ServedAndReserved, Unlocked, TicketInv, LockTypeOK
  <2> QED BY <1>0, <2>2, <2>3 DEF TicketInv
<1>6. ASSUME NEW h \in LockHarts, SpinUnlock(h) PROVE TicketInv'
  <2>1. Contenders' = Contenders \ {h}
    BY <1>6 DEF SpinUnlock, Contenders, TicketInv, LockTypeOK
  <2>2. TicketsOutstanding'
    BY <1>6, <2>1, ServeNext DEF SpinUnlock
  <2>3. \A g \in LockHarts : lock_pc[g] = "held" => g = h
    BY <1>6 DEF SpinUnlock, ServedAndReserved, TicketsOutstanding, Contenders, TicketInv
  <2>4. ServedAndReserved'
    BY <1>6, <2>3 DEF SpinUnlock, ServedAndReserved, Unlocked, TicketInv, LockTypeOK
  <2> QED BY <1>0, <2>2, <2>4 DEF TicketInv
<1>7. CASE UNCHANGED lock_vars
  BY <1>7 DEF lock_vars, TicketInv, LockTypeOK, TicketsOutstanding, ServedAndReserved,
     Contenders, Distance, Unlocked
<1> QED BY <1>1, <1>2, <1>3, <1>4, <1>5, <1>6, <1>7 DEF LockNext

\* The tickets outstanding are exactly the contending harts, in every execution.
THEOREM TicketsCorrect == LockSpec => []TicketsOutstanding
<1>1. LockInit => TicketInv
  <2>1. Cardinality(LockHarts) \in Nat
    BY FS_CardinalityType, TicketAssumption
  <2> QED BY <2>1, TicketAssumption DEF LockInit, TicketInv, LockTypeOK, Tickets,
             TicketsOutstanding, ServedAndReserved, Contenders, Distance, Unlocked
<1>2. TicketInv => TicketsOutstanding
  BY DEF TicketInv
<1> QED BY <1>1, <1>2, TicketInvStep, PTL DEF LockSpec

\* Mutual exclusion: two harts never run between spin_lock()/spin_trylock() and
\* spin_unlock() at once.
THEOREM LockIsExclusive == LockSpec => []MutualExclusion
<1>1. LockInit => TicketInv
  <2>1. Cardinality(LockHarts) \in Nat
    BY FS_CardinalityType, TicketAssumption
  <2> QED BY <2>1, TicketAssumption DEF LockInit, TicketInv, LockTypeOK, Tickets,
             TicketsOutstanding, ServedAndReserved, Contenders, Distance, Unlocked
<1>2. TicketInv => MutualExclusion
  BY DEF TicketInv, TicketsOutstanding, ServedAndReserved, Contenders, MutualExclusion
<1> QED BY <1>1, <1>2, TicketInvStep, PTL DEF LockSpec
=============================================================================
