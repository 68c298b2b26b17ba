----------------------------- MODULE FifoProofs -----------------------------
(***************************************************************************)
(* Proof that the ring buffer of sbi_fifo.c is a bounded queue, for every  *)
(* number of entries, every kind of data and every callback.               *)
(***************************************************************************)
EXTENDS Fifo, TLAPS

\* Ring positions stay in the ring, and different entries have different ones.
LEMMA SlotsDistinct ==
  ASSUME tail \in 0..(NumEntries - 1), avail \in 0..NumEntries
  PROVE  /\ \A i \in 0..(NumEntries - 1) : Slot(i) \in 0..(NumEntries - 1)
         /\ \A i, j \in 0..(NumEntries - 1) : Slot(i) = Slot(j) => i = j
         /\ Slot(0) = tail
BY FifoAssumption DEF Slot

\* After the oldest entry is dropped, the i-th entry is the one that was (i+1)-st,
\* and the slot given up is the one behind the newest entry.
LEMMA SlotAdvances ==
  ASSUME tail \in 0..(NumEntries - 1), tail' = Advance
  PROVE  /\ tail' \in 0..(NumEntries - 1)
         /\ \A i \in 0..(NumEntries - 2) : Slot(i)' = Slot(i + 1)
         /\ Slot(NumEntries - 1)' = tail
BY FifoAssumption DEF Slot, Advance

\* The slots do not move while tail does not.
LEMMA SlotStays ==
  ASSUME tail' = tail
  PROVE  \A i : Slot(i)' = Slot(i)
BY DEF Slot

\* Ring indices and entries keep their types.
LEMMA TypeStep == FifoTypeOK /\ [FifoNext]_fifo_vars => FifoTypeOK'
<1> SUFFICES ASSUME FifoTypeOK, [FifoNext]_fifo_vars PROVE FifoTypeOK'
  OBVIOUS
<1> USE FifoAssumption DEF FifoTypeOK, Entries
<1>1. ASSUME NEW data \in Data, NEW force \in BOOLEAN, Enqueue(data, force)
      PROVE  FifoTypeOK'
  <2>1. CASE IsFull /\ ~force
    BY <1>1, <2>1, SlotStays DEF Enqueue, IsFull
  <2>2. CASE IsFull /\ force
    <3>1. /\ queue' = [queue EXCEPT ![tail] = data] /\ tail' = Advance
          /\ avail' = avail /\ avail = NumEntries
      BY <1>1, <2>2 DEF Enqueue, IsFull
    <3>2. \A i \in 0..(avail' - 1) : queue'[Slot(i)'] \in Data
      <4> SUFFICES ASSUME NEW i \in 0..(NumEntries - 1) PROVE queue'[Slot(i)'] \in Data
        BY <3>1
      <4>1. CASE i = NumEntries - 1
        BY <3>1, <4>1, SlotAdvances
      <4>2. CASE i \in 0..(NumEntries - 2)
        <5>1. i + 1 \in 0..(avail - 1) /\ Slot(i)' = Slot(i + 1)
          BY <3>1, <4>2, SlotAdvances
        <5> QED BY <3>1, <5>1, SlotsDistinct
      <4> QED BY <4>1, <4>2
    <3> QED BY <3>1, <3>2, SlotAdvances
  <2>3. CASE ~IsFull
    <3>1. /\ queue' = [queue EXCEPT ![Slot(avail)] = data] /\ tail' = tail
          /\ avail' = avail + 1 /\ avail \in 0..(NumEntries - 1)
      BY <1>1, <2>3 DEF Enqueue, IsFull
    <3> QED BY <3>1, SlotStays, SlotsDistinct
  <2> QED BY <2>1, <2>2, <2>3
<1>2. ASSUME Dequeue PROVE FifoTypeOK'
  <2>1. CASE IsEmpty
    BY <1>2, <2>1, SlotStays DEF Dequeue, IsEmpty
  <2>2. CASE ~IsEmpty
    <3>1. queue' = queue /\ tail' = Advance /\ avail' = avail - 1 /\ avail \in 1..NumEntries
      BY <1>2, <2>2 DEF Dequeue, IsEmpty
    <3>2. \A i \in 0..(avail' - 1) : i \in 0..(NumEntries - 2) /\ i + 1 \in 0..(avail - 1)
      BY <3>1
    <3> QED BY <3>1, <3>2, SlotAdvances
  <2> QED BY <2>1, <2>2
<1>3. ASSUME NEW in \in Data, InplaceUpdate(in) PROVE FifoTypeOK'
  <2>1. CASE UNCHANGED <<queue, avail, tail>>
    BY <2>1, SlotStays
  <2>2. ASSUME NEW i \in 0..(avail - 1),
               queue' = [queue EXCEPT ![Slot(i)] = Merge(in, @)],
               UNCHANGED <<avail, tail>>
        PROVE  FifoTypeOK'
    BY <2>2, SlotStays, SlotsDistinct
  <2> QED BY <1>3, <2>1, <2>2 DEF InplaceUpdate
<1>4. CASE Reset
  BY <1>4 DEF Reset, Cleared
<1>5. CASE Query \/ UNCHANGED fifo_vars
  BY <1>5, SlotStays DEF Query, fifo_vars
<1> QED BY <1>1, <1>2, <1>3, <1>4, <1>5 DEF FifoNext

\* The ring indices never leave the ring.
THEOREM RingTyped == FifoSpec => []FifoTypeOK
<1>1. FifoInit => FifoTypeOK
  BY FifoAssumption DEF FifoInit, FifoTypeOK, Cleared, Entries
<1> QED BY <1>1, TypeStep, PTL DEF FifoSpec

\* What Contents is: a sequence of avail data.
LEMMA ContentsSeq ==
  ASSUME FifoTypeOK
  PROVE  /\ Contents \in Seq(Data)
         /\ Len(Contents) = avail
         /\ DOMAIN Contents = 1..avail
         /\ \A i \in 1..avail : Contents[i] = queue[Slot(i - 1)]
BY FifoAssumption DEF FifoTypeOK, Contents

\* Dropping the oldest ring entry is Tail on the queue.
LEMMA ContentsTail ==
  ASSUME FifoTypeOK, FifoTypeOK', avail # 0, tail' = Advance, avail' = avail - 1,
         queue' = queue
  PROVE  Contents' = Tail(Contents)
<1> USE FifoAssumption DEF FifoTypeOK
<1>1. /\ Contents' \in Seq(Data) /\ Len(Contents)' = avail - 1
      /\ \A i \in 1..(avail - 1) : Contents'[i] = queue[Slot(i - 1)']
  BY ContentsSeq DEF Contents
<1>2. /\ Tail(Contents) \in Seq(Data) /\ Len(Tail(Contents)) = avail - 1
      /\ \A i \in 1..(avail - 1) : Tail(Contents)[i] = Contents[i + 1]
  BY ContentsSeq
<1>3. \A i \in 1..(avail - 1) : Slot(i - 1)' = Slot(i)
  BY SlotAdvances
<1>4. \A i \in 1..(avail - 1) : Contents'[i] = Tail(Contents)[i]
  BY <1>1, <1>2, <1>3, ContentsSeq
<1> QED BY <1>1, <1>2, <1>4

\* Every call on the ring is the same call on the bounded queue.
LEMMA RefinementStep ==
  FifoTypeOK /\ FifoTypeOK' /\ [FifoNext]_fifo_vars => [Q!Next]_(Q!vars)
<1> SUFFICES ASSUME FifoTypeOK, FifoTypeOK', [FifoNext]_fifo_vars PROVE [Q!Next]_(Q!vars)
  OBVIOUS
<1> USE FifoAssumption DEF FifoTypeOK
<1>0. ASSUME UNCHANGED <<queue, avail, tail>> PROVE Contents' = Contents
  BY <1>0, SlotStays DEF Contents
<1>1. ASSUME NEW data \in Data, NEW force \in BOOLEAN, Enqueue(data, force)
      PROVE  Q!Put(data) \/ Q!PushOut(data) \/ Q!Refuse
  <2>1. CASE IsFull /\ ~force
    BY <1>0, <1>1, <2>1, ContentsSeq DEF Enqueue, IsFull, Q!Refuse
  <2>2. CASE IsFull /\ force
    <3>1. /\ queue' = [queue EXCEPT ![tail] = data] /\ tail' = Advance
          /\ avail' = avail /\ avail = NumEntries /\ ret' = <<"OK">>
      BY <1>1, <2>2 DEF Enqueue, IsFull
    <3> DEFINE New == Append(Tail(Contents), data)
    <3>2. /\ New \in Seq(Data) /\ Len(New) = avail
          /\ \A i \in 1..(avail - 1) : New[i] = Contents[i + 1]
          /\ New[avail] = data
      BY <3>1, ContentsSeq
    <3>3. /\ Contents' \in Seq(Data) /\ Len(Contents') = avail
          /\ \A i \in 1..avail : Contents'[i] = queue'[Slot(i - 1)']
      BY <3>1, ContentsSeq DEF Contents
    <3>a. avail \in 1..avail /\ avail - 1 = NumEntries - 1
      BY <3>1
    <3>b. Slot(avail - 1)' = tail
      BY <3>1, SlotAdvances
    <3>4. Contents'[avail] = data
      <4>1. Contents'[avail] = queue'[Slot(avail - 1)']
        BY <3>1, <3>3, <3>a
      <4> QED BY <3>1, <3>b, <4>1
    <3>5. \A i \in 1..(avail - 1) : Contents'[i] = New[i]
      <4> SUFFICES ASSUME NEW i \in 1..(avail - 1) PROVE Contents'[i] = New[i]
        OBVIOUS
      <4>1. /\ i - 1 \in 0..(NumEntries - 2) /\ (i - 1) + 1 = i
            /\ i \in 0..(NumEntries - 1) /\ 0 \in 0..(NumEntries - 1) /\ i # 0
        BY <3>1
      <4>2. Slot(i - 1)' = Slot((i - 1) + 1)
        BY <3>1, <4>1, SlotAdvances
      <4>3. Slot(i) # tail /\ Slot(i) \in 0..(NumEntries - 1)
        BY <4>1, SlotsDistinct
      <4>4. Contents'[i] = queue'[Slot(i)]
        BY <3>3, <4>1, <4>2
      <4>5. queue'[Slot(i)] = queue[Slot(i)]
        BY <3>1, <4>3
      <4>6. Contents[i + 1] = queue[Slot(i)]
        <5>1. i + 1 \in 1..avail /\ (i + 1) - 1 = i
          OBVIOUS
        <5>2. Contents[i + 1] = queue[Slot((i + 1) - 1)]
          BY <5>1, ContentsSeq
        <5> QED BY <5>1, <5>2
      <4> QED BY <3>2, <4>4, <4>5, <4>6
    <3>6. Contents' = New
      BY <3>2, <3>3, <3>4, <3>5
    <3> QED BY <3>1, <3>6, ContentsSeq DEF Q!PushOut
  <2>3. CASE ~IsFull
    <3>1. /\ queue' = [queue EXCEPT ![Slot(avail)] = data] /\ tail' = tail
          /\ avail' = avail + 1 /\ avail \in 0..(NumEntries - 1) /\ ret' = <<"OK">>
      BY <1>1, <2>3 DEF Enqueue, IsFull
    <3> DEFINE New == Append(Contents, data)
    <3>2. /\ New \in Seq(Data) /\ Len(New) = avail + 1
          /\ \A i \in 1..avail : New[i] = Contents[i]
          /\ New[avail + 1] = data
      BY <3>1, ContentsSeq
    <3>3. /\ Contents' \in Seq(Data) /\ Len(Contents') = avail + 1
          /\ \A i \in 1..(avail + 1) : Contents'[i] = queue'[Slot(i - 1)]
      BY <3>1, ContentsSeq, SlotStays DEF Contents
    <3>4. Contents'[avail + 1] = data
      BY <3>1, <3>3, SlotsDistinct
    <3>5. \A i \in 1..avail : Contents'[i] = Contents[i]
      <4> SUFFICES ASSUME NEW i \in 1..avail PROVE Contents'[i] = Contents[i]
        OBVIOUS
      <4>1. i - 1 \in 0..(NumEntries - 1) /\ avail \in 0..(NumEntries - 1) /\ i - 1 # avail
        BY <3>1
      <4>2. Slot(i - 1) \in 0..(NumEntries - 1) /\ Slot(i - 1) # Slot(avail)
        BY <4>1, SlotsDistinct
      <4>3. Contents'[i] = queue'[Slot(i - 1)] /\ Contents[i] = queue[Slot(i - 1)]
        BY <3>1, <3>3, ContentsSeq
      <4> QED BY <3>1, <4>2, <4>3
    <3>6. Contents' = New
      BY <3>2, <3>3, <3>4, <3>5
    <3> QED BY <3>1, <3>6, ContentsSeq DEF Q!Put
  <2> QED BY <2>1, <2>2, <2>3
<1>2. ASSUME Dequeue PROVE Q!Get
  <2>1. CASE IsEmpty
    <3>1. Contents = << >>
      BY <2>1, ContentsSeq DEF IsEmpty
    <3> QED BY <1>0, <1>2, <2>1, <3>1 DEF Dequeue, IsEmpty, Q!Get
  <2>2. CASE ~IsEmpty
    <3>1. /\ queue' = queue /\ tail' = Advance /\ avail' = avail - 1 /\ avail # 0
          /\ ret' = <<"data", queue[tail]>>
      BY <1>2, <2>2 DEF Dequeue, IsEmpty
    <3>2. Contents' = Tail(Contents)
      BY <3>1, ContentsTail
    <3>3. Contents # << >> /\ Head(Contents) = queue[tail]
      BY <3>1, ContentsSeq, SlotsDistinct
    <3> QED BY <3>1, <3>2, <3>3 DEF Q!Get
  <2> QED BY <2>1, <2>2
<1>3. ASSUME NEW in \in Data, InplaceUpdate(in) PROVE Q!Edit(in)
  <2>1. CASE /\ \A i \in 0..(avail - 1) : Verdict(in, queue[Slot(i)]) = "UNCHANGED"
             /\ ret' = <<"UNCHANGED">> /\ UNCHANGED <<queue, avail, tail>>
    <3>1. \A i \in 1..Len(Contents) : Verdict(in, Contents[i]) = "UNCHANGED"
      BY <2>1, ContentsSeq
    <3> QED BY <1>0, <2>1, <3>1 DEF Q!Edit
  <2>2. ASSUME NEW k \in 0..(avail - 1),
               Verdict(in, queue[Slot(k)]) # "UNCHANGED",
               \A j \in 0..(k - 1) : Verdict(in, queue[Slot(j)]) = "UNCHANGED",
               queue' = [queue EXCEPT ![Slot(k)] = Merge(in, @)],
               ret' = <<Verdict(in, queue[Slot(k)])>>,
               UNCHANGED <<avail, tail>>
        PROVE  Q!Edit(in)
    <3> DEFINE i == k + 1
               New == [Contents EXCEPT ![i] = Merge(in, @)]
    <3>1. i \in 1..Len(Contents) /\ Contents[i] = queue[Slot(k)] /\ Contents[i] \in Data
      BY <2>2, ContentsSeq
    <3>2. \A j \in 1..(i - 1) : Verdict(in, Contents[j]) = "UNCHANGED"
      <4> SUFFICES ASSUME NEW j \in 1..k PROVE Verdict(in, Contents[j]) = "UNCHANGED"
        OBVIOUS
      <4>1. j \in 1..avail /\ j - 1 \in 0..(k - 1)
        OBVIOUS
      <4>2. Contents[j] = queue[Slot(j - 1)]
        BY <4>1, ContentsSeq
      <4> QED BY <2>2, <4>1, <4>2
    <3>3. /\ Contents' \in Seq(Data) /\ Len(Contents') = avail
          /\ \A j \in 1..avail : Contents'[j] = queue'[Slot(j - 1)]
      BY <2>2, ContentsSeq, SlotStays DEF Contents
    <3>4. \A j \in 1..avail : Contents'[j] = New[j]
      <4> SUFFICES ASSUME NEW j \in 1..avail PROVE Contents'[j] = New[j]
        OBVIOUS
      <4>1. j - 1 \in 0..(NumEntries - 1) /\ k \in 0..(NumEntries - 1)
        OBVIOUS
      <4>2. /\ Slot(j - 1) \in 0..(NumEntries - 1)
            /\ Slot(j - 1) = Slot(k) => j - 1 = k
        BY <4>1, SlotsDistinct
      <4>3. Contents'[j] = queue'[Slot(j - 1)] /\ Contents[j] = queue[Slot(j - 1)]
        BY <3>3, ContentsSeq
      <4>4. New[j] = IF j = i THEN Merge(in, Contents[i]) ELSE Contents[j]
        BY ContentsSeq
      <4>5. CASE j = i
        BY <2>2, <3>1, <4>2, <4>3, <4>4, <4>5
      <4>6. CASE j # i
        BY <2>2, <4>2, <4>3, <4>4, <4>6
      <4> QED BY <4>5, <4>6
    <3>5. New \in Seq(Data) /\ Len(New) = avail
      BY <3>1, ContentsSeq
    <3>6. Contents' = New
      BY <3>3, <3>4, <3>5
    <3> QED BY <2>2, <3>1, <3>2, <3>6 DEF Q!Edit
  <2> QED BY <1>3, <2>1, <2>2 DEF InplaceUpdate
<1>4. ASSUME Reset PROVE Q!Clear
  BY <1>4 DEF Reset, Q!Clear, Contents
<1>5. ASSUME Query PROVE Q!Look
  BY <1>0, <1>5, ContentsSeq DEF Query, IsFull, IsEmpty, Q!Look
<1>6. CASE UNCHANGED fifo_vars
  BY <1>0, <1>6 DEF fifo_vars, Q!vars
<1> QED BY <1>1, <1>2, <1>3, <1>4, <1>5, <1>6 DEF FifoNext, Q!Next

\* The ring buffer implements the bounded queue its users rely on.
THEOREM RingIsAQueue == FifoSpec => ImplementsBoundedQueue
<1>1. FifoInit => Q!Init
  BY DEF FifoInit, Q!Init, Contents
<1>2. FifoTypeOK /\ FifoTypeOK' /\ [FifoNext]_fifo_vars => [Q!Next]_(Q!vars)
  BY RefinementStep
<1> QED BY <1>1, <1>2, RingTyped, PTL DEF FifoSpec, ImplementsBoundedQueue, Q!Spec
=============================================================================
