--------------------------------- MODULE Rpmi ---------------------------------
(***************************************************************************)
(* The RPMI shared memory mailbox (fdt_mailbox_rpmi_shmem.c) under the      *)
(* mailbox core (mailbox.c).  Harts put requests into the A2P_REQ ring,     *)
(* the platform microcontroller (PuC, external) takes them out, and answers *)
(* into the P2A_ACK ring, late or never.  A hart finds its answer by the    *)
(* token, the low bits of the controller's sequence number.                 *)
(*                                                                         *)
(* rp_req, rp_ack  the rings: head, tail and the slots                      *)
(* rp_seq          xfer_next_seq of the controller                          *)
(* rp_call         what each hart is doing: the attempt it is at            *)
(* rp_puc          requests that the PuC holds                              *)
(* rp_out          history: requests a client was told have timed out       *)
(* rp_sent, rp_taken       history: requests that entered and left A2P_REQ  *)
(* rp_answered, rp_got     history: answers that entered and left P2A_ACK   *)
(***************************************************************************)
EXTENDS SbiDefs, SequencesExt

CONSTANTS RpHarts,      \* harts that call
          NumSlots,     \* num_slots of both rings
          TokenMod,     \* number of tokens (RPMI_MSG_TOKEN_MASK + 1)
          TxTimeout,    \* attempts of smq_tx()
          RxTimeout,    \* attempts of smq_rx()
          RpKinds,      \* hart -> requests it sends: <<type, direction of a bad length or "no">>
          RpCalls       \* bound: calls made in a behaviour

ASSUME RpAssumption == /\ NumSlots \in Nat /\ NumSlots >= 2
                       /\ TokenMod \in Nat /\ TokenMod >= 2
                       /\ RpHarts \subseteq 0 .. 9

VARIABLES rp_req, rp_ack, rp_seq, rp_call, rp_puc, rp_out, rp_sent, rp_taken, rp_answered, rp_got

rp_vars == <<rp_req, rp_ack, rp_seq, rp_call, rp_puc, rp_out, rp_sent, rp_taken, rp_answered, rp_got>>

RpSlots == 0 .. NumSlots - 1

(* A message: the sequence number of the request that it is, or answers,   *)
(* and its type.  Of the number the rings carry the token only.            *)
RpMsg(seq, type) == [seq |-> seq, type |-> type]
NoMsg == RpMsg(0, "none")
Token(m) == m.seq % TokenMod

EmptyRing == [head |-> 0, tail |-> 0, slots |-> [s \in RpSlots |-> NoMsg]]
IdleCall == [pc |-> "idle", seq |-> 0, type |-> "none", bad |-> "no", tries |-> 0, ret |-> SBI_OK, got |-> 0]

\* Bug: a full ring is not noticed.
NeverFull(q) == FALSE

(* __smq_queue_full(), __smq_queue_empty() *)
RingFull(q) == (q.tail + 1) % NumSlots = q.head
RingEmpty(q) == q.head = q.tail

RingPut(q, m) == [q EXCEPT !.slots[q.tail] = m, !.tail = (@ + 1) % NumSlots]

(* the positions of the messages, oldest first, and the messages *)
RingLen(q) == (q.tail - q.head + NumSlots) % NumSlots
RingPos(q) == [i \in 1 .. RingLen(q) |-> (q.head + i - 1) % NumSlots]
RingMsgs(q) == {q.slots[RingPos(q)[i]].seq : i \in 1 .. RingLen(q)}

\* Bug: whatever is at the head is taken for the answer.
RxMatchesHead(q, seq) == {i \in 1 .. RingLen(q) : i = 1}

(* __smq_rx(): the first message from head to tail with the token is       *)
(* swapped with the message at head, copied out, and head moves.           *)
RxMatches(q, seq) == {i \in 1 .. RingLen(q) : Token(q.slots[RingPos(q)[i]]) = seq % TokenMod}
RxPos(q, seq) == RingPos(q)[Min(RxMatches(q, seq))]

\* Bug: the message that was taken stays in the ring.
RxTakeKept(q, pos) == q

RxTake(q, pos) ==
    [head |-> (q.head + 1) % NumSlots, tail |-> q.tail,
     slots |-> [q.slots EXCEPT ![pos] = q.slots[q.head], ![q.head] = q.slots[pos]]]
-------------------------------------------------------------------------------
RpInit ==
    /\ rp_req = EmptyRing /\ rp_ack = EmptyRing
    /\ rp_seq = 0
    /\ rp_call = [h \in RpHarts |-> IdleCall]
    /\ rp_puc = {}
    /\ rp_out = {} /\ rp_sent = {} /\ rp_taken = {} /\ rp_answered = {} /\ rp_got = {}

(* rpmi_normal_request_with_status() and rpmi_posted_request(), up to the  *)
(* first attempt of smq_tx(): the controller gives the next sequence       *)
(* number.  Other harts do not use up all the tokens (65536 in the code)   *)
(* while one call waits for its few milliseconds.  bad: the direction      *)
(* whose endian words are more than the message or a slot has.             *)
ChanXfer(h, type, bad) ==
    /\ rp_call[h].pc = "idle" /\ rp_seq < RpCalls
    /\ \A g \in RpHarts : rp_call[g].pc # "idle" => rp_seq + 1 - rp_call[g].seq < TokenMod
    /\ rp_seq' = rp_seq + 1
    /\ rp_call' = [rp_call EXCEPT ![h] =
                      [IdleCall EXCEPT !.pc = "tx", !.seq = rp_seq + 1, !.type = type, !.bad = bad]]
    /\ UNCHANGED <<rp_req, rp_ack, rp_puc, rp_out, rp_sent, rp_taken, rp_answered, rp_got>>

(* mbox_chan_xfer() refuses a message longer than a slot carries *)
ChanXferRefused(h) ==
    /\ rp_call[h].pc = "idle" /\ rp_call[h].ret # SBI_EINVAL
    /\ rp_call' = [rp_call EXCEPT ![h] = [IdleCall EXCEPT !.ret = SBI_EINVAL]]
    /\ UNCHANGED <<rp_req, rp_ack, rp_seq, rp_puc, rp_out, rp_sent, rp_taken, rp_answered, rp_got>>

(* The call returns to its client. *)
Returned(h, ret, got) == [IdleCall EXCEPT !.ret = ret, !.got = got, !.seq = rp_call[h].seq]

\* Bug: the attempts are not counted.
RetryForever(h, timeout) == UNCHANGED <<rp_call, rp_out>>

\* Bug: one attempt too many.
RetryOnceMore(h, timeout) ==
    IF rp_call[h].tries < timeout
    THEN /\ rp_call' = [rp_call EXCEPT ![h].tries = @ + 1]
         /\ UNCHANGED rp_out
    ELSE /\ rp_call' = [rp_call EXCEPT ![h] = Returned(h, SBI_ETIMEDOUT, 0)]
         /\ rp_out' = rp_out \cup {rp_call[h].seq}

(* an attempt failed: mdelay(1) and again, or SBI_ETIMEDOUT *)
Retry(h, timeout) ==
    IF rp_call[h].tries + 1 < timeout
    THEN /\ rp_call' = [rp_call EXCEPT ![h].tries = @ + 1]
         /\ UNCHANGED rp_out
    ELSE /\ rp_call' = [rp_call EXCEPT ![h] = Returned(h, SBI_ETIMEDOUT, 0)]
         /\ rp_out' = rp_out \cup {rp_call[h].seq}

(* One attempt of smq_tx(), under the queue lock.  A posted request has    *)
(* no receive phase.  A message that fails the sanity checks of __smq_tx() *)
(* or __smq_rx() is tried again like one that finds no room or no answer.  *)
SmqTx(h) ==
    /\ rp_call[h].pc = "tx"
    /\ \/ /\ ~RingFull(rp_req) /\ rp_call[h].bad # "tx"
          /\ rp_req' = RingPut(rp_req, RpMsg(rp_call[h].seq, rp_call[h].type))
          /\ rp_sent' = rp_sent \cup {rp_call[h].seq}
          /\ rp_call' = [rp_call EXCEPT ![h] =
                            IF @.type = "posted" THEN Returned(h, SBI_OK, 0)
                            ELSE [@ EXCEPT !.pc = "rx", !.tries = 0]]
          /\ UNCHANGED rp_out
       \/ /\ RingFull(rp_req) \/ rp_call[h].bad = "tx"
          /\ Retry(h, TxTimeout)
          /\ UNCHANGED <<rp_req, rp_sent>>
    /\ UNCHANGED <<rp_ack, rp_seq, rp_puc, rp_taken, rp_answered, rp_got>>

(* One attempt of smq_rx(). *)
SmqRx(h) ==
    /\ rp_call[h].pc = "rx"
    /\ \/ /\ RxMatches(rp_ack, rp_call[h].seq) # {} /\ rp_call[h].bad # "rx"
          /\ LET pos == RxPos(rp_ack, rp_call[h].seq)
                 m == rp_ack.slots[pos].seq
             IN /\ rp_ack' = RxTake(rp_ack, pos)
                /\ rp_call' = [rp_call EXCEPT ![h] = Returned(h, SBI_OK, m)]
                /\ rp_got' = rp_got \cup {m}
          /\ UNCHANGED rp_out
       \/ /\ RxMatches(rp_ack, rp_call[h].seq) = {} \/ rp_call[h].bad = "rx"
          /\ Retry(h, RxTimeout)
          /\ UNCHANGED <<rp_ack, rp_got>>
    /\ UNCHANGED <<rp_req, rp_seq, rp_puc, rp_sent, rp_taken, rp_answered>>

(* The PuC takes the oldest request, and answers a normal request when it  *)
(* has finished and P2A_ACK has room; requests overtake each other there.  *)
PucTakes ==
    /\ ~RingEmpty(rp_req)
    /\ LET m == rp_req.slots[rp_req.head] IN
          rp_puc' = IF m.type = "normal" THEN rp_puc \cup {m.seq} ELSE rp_puc
    /\ rp_req' = [rp_req EXCEPT !.head = (@ + 1) % NumSlots]
    /\ rp_taken' = rp_taken \cup {rp_req.slots[rp_req.head].seq}
    /\ UNCHANGED <<rp_ack, rp_seq, rp_call, rp_out, rp_sent, rp_answered, rp_got>>

PucAnswers(m) ==
    /\ m \in rp_puc /\ ~RingFull(rp_ack)
    /\ rp_puc' = rp_puc \ {m}
    /\ rp_ack' = RingPut(rp_ack, RpMsg(m, "ack"))
    /\ rp_answered' = rp_answered \cup {m}
    /\ UNCHANGED <<rp_req, rp_seq, rp_call, rp_out, rp_sent, rp_taken, rp_got>>

PucDrops(m) ==
    /\ m \in rp_puc
    /\ rp_puc' = rp_puc \ {m}
    /\ UNCHANGED <<rp_req, rp_ack, rp_seq, rp_call, rp_out, rp_sent, rp_taken, rp_answered, rp_got>>

RpStep(h) == SmqTx(h) \/ SmqRx(h)

RpNext ==
    \/ \E h \in RpHarts : \/ \E c \in RpKinds[h] : ChanXfer(h, c[1], c[2])
                          \/ ChanXferRefused(h)
                          \/ RpStep(h)
    \/ PucTakes
    \/ \E m \in rp_puc : PucAnswers(m) \/ PucDrops(m)

(* The retry loops of a hart do not stop before their bound. *)
RpFair == \A h \in RpHarts : WF_rp_vars(RpStep(h))
-------------------------------------------------------------------------------
RpCallType == [pc : {"idle", "tx", "rx"}, seq : 0 .. RpCalls,
               type : {"none", "normal", "posted"}, bad : {"no", "tx", "rx"}, tries : 0 .. TxTimeout + RxTimeout,
               ret : {SBI_OK, SBI_EINVAL, SBI_ETIMEDOUT}, got : 0 .. RpCalls]
RingType == [head : RpSlots, tail : RpSlots, slots : [RpSlots -> [seq : 0 .. RpCalls, type : {"none", "normal", "posted", "ack"}]]]

(* Every variable has its type; the attempts of a call stay below its      *)
(* timeout.                                                                *)
RpTypeOK ==
    /\ rp_req \in RingType /\ rp_ack \in RingType
    /\ rp_seq \in 0 .. RpCalls
    /\ rp_call \in [RpHarts -> RpCallType]
    /\ \A h \in RpHarts : rp_call[h].tries = 0 \/ rp_call[h].tries < (IF rp_call[h].pc = "tx" THEN TxTimeout ELSE RxTimeout)
    /\ rp_puc \subseteq 1 .. RpCalls

(* No ring overwrites a message: a request that smq_tx() accepted is in    *)
(* A2P_REQ until the PuC takes it, and an answer that the PuC wrote is in  *)
(* P2A_ACK until a hart takes it, whatever the swaps of __smq_rx() did to  *)
(* the order of the slots.                                                 *)
RpNothingLost ==
    /\ rp_sent \ rp_taken = RingMsgs(rp_req)
    /\ rp_answered \ rp_got = RingMsgs(rp_ack)
    /\ rp_got \subseteq rp_answered

(* What smq_rx() hands to a client is the answer to the request of this    *)
(* very call, or to one that timed out a whole number of token cycles      *)
(* earlier: callers never receive each other's answers.                    *)
RpAnswerIsMine ==
    \A h \in RpHarts :
       LET c == rp_call[h] IN
       c.got # 0 =>
         \/ c.got = c.seq
         \/ c.got < c.seq /\ (c.seq - c.got) % TokenMod = 0 /\ c.got \in rp_out

(* P2A_ACK holds no more answers than there are harts that wait and calls  *)
(* that timed out: only timeouts use its slots up.                         *)
RpAckRoom ==
    RingLen(rp_ack) + Cardinality(rp_puc) <=
       Cardinality({h \in RpHarts : rp_call[h].pc = "rx"}) + Cardinality(rp_out)

(* mbox_chan_xfer() returns: with an answer or after the retries of its    *)
(* two phases, also when the PuC takes and answers nothing.                *)
RpCallReturns == \A h \in RpHarts : []<>(rp_call[h].pc = "idle")

(* The queues shared with the PuC carry every message to the one caller it *)
(* is for: none is overwritten, none is handed to another, and only calls  *)
(* that timed out leave answers behind.                                    *)
RpSound == RpTypeOK /\ RpNothingLost /\ RpAnswerIsMine /\ RpAckRoom
===============================================================================
