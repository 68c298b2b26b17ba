-------------------------------- MODULE Console --------------------------------
(***************************************************************************)
(* Console output (sbi_console.c): printing through the shared buffer       *)
(* console_tbuf under console_out_lock, the unlocked sbi_putc(), the early  *)
(* FIFO that keeps what is printed before there is a device, and the debug  *)
(* console calls that use them (sbi_ecall_dbcn.c).  A character is the call *)
(* that prints it, its position, and whether it is a newline (the last one  *)
(* of every string is).                                                    *)
(*                                                                         *)
(* con_dev   console_dev: none, one with console_puts, one with putc only   *)
(* con_fifo  console_early_fifo           con_out   what the device got     *)
(* con_lock  holder of console_out_lock   con_tbuf  console_tbuf, unsent    *)
(* con_pc, con_str, con_cr, con_call   per hart: where it is, what it has   *)
(*           still to print, whether the '\r' is out, number of its call    *)
(* con_log   history: kind and length of every call and the count its       *)
(*           caller was told (-1 until it returns)                          *)
(* con_early history: what was printed while there was no device            *)
(***************************************************************************)
EXTENDS Integers, SequencesExt

CONSTANTS ConHarts, ConBoot,   \* harts; the cold boot hart
          TbufMax,             \* CONSOLE_TBUF_MAX
          EarlyMax,            \* CONSOLE_EARLY_BUFFER_SIZE
          ConLens,             \* lengths of strings
          ConDevs,             \* kinds of device: "puts", "putc"
          ConCalls             \* bound: calls in a behaviour

VARIABLES con_dev, con_fifo, con_out, con_lock, con_tbuf, con_pc, con_str, con_cr, con_call,
          con_log, con_early

con_vars == <<con_dev, con_fifo, con_out, con_lock, con_tbuf, con_pc, con_str, con_cr, con_call,
              con_log, con_early>>

ConNoHart == -1
CR == <<0, 0, FALSE>>
ConText(c, n) == [k \in 1 .. n |-> <<c, k, k = n>>]

ConInit ==
    /\ con_dev = "none" /\ con_fifo = <<>> /\ con_out = <<>> /\ con_lock = ConNoHart /\ con_tbuf = <<>>
    /\ con_pc = [h \in ConHarts |-> "idle"] /\ con_cr = [h \in ConHarts |-> FALSE]
    /\ con_str = [h \in ConHarts |-> <<>>] /\ con_call = [h \in ConHarts |-> 0]
    /\ con_log = <<>> /\ con_early = <<>>
-------------------------------------------------------------------------------
(* A call starts.  Before the device is there and flushed, only the cold   *)
(* boot hart runs this far.                                                *)
ConCall(h, what, n) ==
    /\ con_pc[h] = "idle" /\ Len(con_log) < ConCalls
    /\ (con_dev = "none" => h = ConBoot) /\ con_pc[ConBoot] # "early"
    /\ con_log' = Append(con_log, [kind |-> what, len |-> n, told |-> -1])
    /\ con_call' = [con_call EXCEPT ![h] = Len(con_log) + 1]
    /\ con_str' = [con_str EXCEPT ![h] = ConText(Len(con_log) + 1, n)]
    /\ con_pc' = [con_pc EXCEPT ![h] = what]
    /\ UNCHANGED <<con_dev, con_fifo, con_out, con_lock, con_tbuf, con_cr, con_early>>

\* Bug: the lock is not waited for.
ConLockFreeAlways == TRUE

(* spin_lock(&console_out_lock): everyone but sbi_putc() *)
ConLockFree == con_lock = ConNoHart
ConLock(h) ==
    /\ con_pc[h] \in {"printf", "panic", "puts", "nputs"} /\ ConLockFree
    /\ con_lock' = h
    /\ con_pc' = [con_pc EXCEPT ![h] = IF @ \in {"printf", "panic"} THEN "fill" ELSE "send"]
    /\ UNCHANGED <<con_dev, con_fifo, con_out, con_tbuf, con_str, con_cr, con_call, con_log, con_early>>

(* print() through printc(): characters go into console_tbuf until only    *)
(* the terminator fits, or the string ends.                                *)
TbufRoom == TbufMax - 1
TbufFill(s) == SubSeq(s, 1, Min({Len(s), TbufRoom}))

\* Bug: the character that did not fit is lost.
TbufLeftSkip(s) == SubSeq(s, Min({Len(s), TbufMax}) + 1, Len(s))

TbufLeft(s) == SubSeq(s, Min({Len(s), TbufRoom}) + 1, Len(s))
Fill(h) ==
    /\ con_pc[h] = "fill" /\ con_tbuf = <<>> /\ con_str[h] # <<>>
    /\ con_tbuf' = TbufFill(con_str[h])
    /\ con_str' = [con_str EXCEPT ![h] = TbufLeft(@)]
    /\ UNCHANGED <<con_dev, con_fifo, con_out, con_lock, con_pc, con_cr, con_call, con_log, con_early>>

\* Bug: a full FIFO drops the new character.
EarlyPutDrop(q, ch) == IF Len(q) = EarlyMax THEN q ELSE Append(q, ch)

(* sbi_fifo_enqueue(.., force): the oldest entry makes room *)
EarlyPut(q, ch) == Append(IF Len(q) = EarlyMax THEN Tail(q) ELSE q, ch)

(* nputs(): one character into the early FIFO or, a newline after its      *)
(* '\r', to console_putc(); as many as it takes to console_puts().  n is   *)
(* how many of s are dealt with.                                           *)
Nputs(h, s, n) ==
    CASE con_dev = "none" ->
           /\ n = 1 /\ con_fifo' = EarlyPut(con_fifo, s[1]) /\ con_early' = Append(con_early, s[1])
           /\ UNCHANGED <<con_out, con_cr>>
      [] con_dev = "puts" ->
           /\ n \in 1 .. Len(s) /\ con_out' = con_out \o SubSeq(s, 1, n)
           /\ UNCHANGED <<con_fifo, con_early, con_cr>>
      [] con_dev = "putc" ->
           /\ IF s[1][3] /\ ~con_cr[h]
              THEN n = 0 /\ con_out' = Append(con_out, CR) /\ con_cr' = [con_cr EXCEPT ![h] = TRUE]
              ELSE n = 1 /\ con_out' = Append(con_out, s[1]) /\ con_cr' = [con_cr EXCEPT ![h] = FALSE]
           /\ UNCHANGED <<con_fifo, con_early>>

(* nputs_all() of console_tbuf *)
FlushTbuf(h) ==
    /\ con_pc[h] = "fill" /\ con_tbuf # <<>>
    /\ \E n \in 0 .. Len(con_tbuf) :
         Nputs(h, con_tbuf, n) /\ con_tbuf' = SubSeq(con_tbuf, n + 1, Len(con_tbuf))
    /\ UNCHANGED <<con_dev, con_lock, con_pc, con_str, con_call, con_log>>

(* sbi_puts() and sbi_putc() repeat nputs(), sbi_nputs() calls it once: a  *)
(* console_puts() that took less than everything ends it                   *)
SendAgain(h) == con_log[con_call[h]].kind # "nputs" \/ con_dev # "puts"
Send(h) ==
    /\ con_pc[h] \in {"send", "putc"} /\ con_str[h] # <<>>
    /\ \E n \in 0 .. Len(con_str[h]) :
         /\ Nputs(h, con_str[h], n)
         /\ con_str' = [con_str EXCEPT ![h] = SubSeq(@, n + 1, Len(@))]
         /\ con_pc' = [con_pc EXCEPT ![h] = IF SendAgain(h) THEN @ ELSE "sent"]
    /\ UNCHANGED <<con_dev, con_lock, con_tbuf, con_call, con_log>>

\* Bug: sbi_panic() hangs its hart with the lock held.
LockAfterPanic(h) ==
    IF con_pc[h] = "putc" \/ con_log[con_call[h]].kind = "panic" THEN con_lock ELSE ConNoHart

(* spin_unlock() and the return; after sbi_panic() the hart hangs *)
Told(h) == con_log[con_call[h]].len - Len(con_str[h])
LockAfter(h) == IF con_pc[h] = "putc" THEN con_lock ELSE ConNoHart

ConReturn(h) ==
    /\ \/ con_pc[h] \in {"fill", "send", "putc"} /\ con_str[h] = <<>> /\ (con_pc[h] = "fill" => con_tbuf = <<>>)
       \/ con_pc[h] = "sent"
    /\ con_lock' = LockAfter(h)
    /\ con_log' = [con_log EXCEPT ![con_call[h]].told = Told(h)]
    /\ con_pc' = [con_pc EXCEPT ![h] = IF con_log[con_call[h]].kind = "panic" THEN "hang" ELSE "idle"]
    /\ con_str' = [con_str EXCEPT ![h] = <<>>]
    /\ UNCHANGED <<con_dev, con_fifo, con_out, con_tbuf, con_cr, con_call, con_early>>

(* sbi_console_set_device(): from now on the device is used; the first one *)
(* is sent what the early FIFO holds, through sbi_putc().                  *)
SetDevice(d) ==
    /\ con_dev = "none" /\ con_pc[ConBoot] = "idle"
    /\ con_dev' = d
    /\ con_pc' = [con_pc EXCEPT ![ConBoot] = "early"]
    /\ UNCHANGED <<con_fifo, con_out, con_lock, con_tbuf, con_str, con_cr, con_call, con_log, con_early>>

EarlyHead(q) == q[1]
FlushEarly ==
    /\ con_pc[ConBoot] = "early"
    /\ IF con_fifo = <<>>
       THEN /\ con_pc' = [con_pc EXCEPT ![ConBoot] = "idle"]
            /\ UNCHANGED <<con_fifo, con_out, con_cr>>
       ELSE /\ con_out' = con_out \o (IF con_dev = "putc" /\ EarlyHead(con_fifo)[3]
                                      THEN <<CR, EarlyHead(con_fifo)>> ELSE <<EarlyHead(con_fifo)>>)
            /\ con_fifo' = Tail(con_fifo)
            /\ UNCHANGED <<con_pc, con_cr>>
    /\ UNCHANGED <<con_dev, con_lock, con_tbuf, con_str, con_call, con_log, con_early>>

ConStep(h) == ConLock(h) \/ Fill(h) \/ FlushTbuf(h) \/ Send(h) \/ ConReturn(h)

ConNext ==
    \/ \E h \in ConHarts : \/ \E n \in ConLens, what \in {"printf", "panic", "puts", "nputs"} : ConCall(h, what, n)
                           \/ ConCall(h, "putc", 1)
                           \/ ConStep(h)
    \/ \E d \in ConDevs : SetDevice(d)
    \/ FlushEarly

(* Harts run, and the ticket lock serves every waiter (module TicketLock). *)
ConFair == /\ \A h \in ConHarts : SF_con_vars(ConLock(h)) /\ WF_con_vars(ConStep(h))
           /\ WF_con_vars(FlushEarly)
-------------------------------------------------------------------------------
(* Calls are numbered, the buffer and the early FIFO stay within their     *)
(* sizes, and the lock has one holder.                                     *)
ConTypeOK ==
    /\ con_dev \in {"none", "puts", "putc"} /\ con_lock \in ConHarts \cup {ConNoHart}
    /\ Len(con_tbuf) < TbufMax /\ Len(con_fifo) <= EarlyMax /\ Len(con_log) <= ConCalls
    /\ \A h \in ConHarts : con_pc[h] \in {"idle", "hang", "early", "printf", "panic", "puts", "nputs", "putc",
                                          "fill", "send", "sent"}

Sent == SelectSeq(con_out, LAMBDA ch : ch # CR)
SentOf(c) == SelectSeq(con_out, LAMBDA ch : ch[1] = c)
LastOf(s, n) == SubSeq(s, IF Len(s) > n THEN Len(s) - n + 1 ELSE 1, Len(s))

(* Messages are not mixed: between two characters of one locked call       *)
(* (sbi_printf(), sbi_puts(), sbi_nputs(), sbi_panic()) there is nothing   *)
(* of another locked call, however many times console_tbuf was flushed in  *)
(* between and whatever order the harts ran in.                            *)
ConWhole ==
    \A i, j, k \in 1 .. Len(con_out) :
        i < j /\ j < k /\ con_out[i][1] = con_out[k][1] /\ con_out[i] # CR /\ con_out[j] # CR
        /\ con_log[con_out[i][1]].kind # "putc"
        => \/ con_out[j][1] = con_out[i][1]
           \/ con_log[con_out[j][1]].kind = "putc"

(* Messages are complete: when a call returns, the device has got, in      *)
(* order and once, exactly the characters its caller was told of, and only *)
(* sbi_nputs() may tell of fewer than it was given.                        *)
ConComplete ==
    \A c \in 1 .. Len(con_log) :
        con_log[c].told >= 0 /\ ~(\E i \in 1 .. Len(con_early) : con_early[i][1] = c)
        => /\ SentOf(c) = SubSeq(ConText(c, con_log[c].len), 1, con_log[c].told)
           /\ con_log[c].kind = "nputs" \/ con_log[c].told = con_log[c].len

(* What was printed before there was a device comes out first when there   *)
(* is one: the last CONSOLE_EARLY_BUFFER_SIZE characters, in order.        *)
ConEarlyKept ==
    IF con_dev = "none" THEN con_fifo = LastOf(con_early, EarlyMax)
    ELSE SubSeq(Sent \o con_fifo, 1, Min({Len(con_early), EarlyMax})) = LastOf(con_early, EarlyMax)

(* Every print returns, or hangs its hart in sbi_panic() with the lock     *)
(* free: a hart that waits for the console gets it.                        *)
ConReturns == \A h \in ConHarts : []<>(con_pc[h] \in {"idle", "hang"})

(* The console shows every message once, in order, complete and in one     *)
(* piece, also the ones printed before there was a device.                 *)
ConSound == ConTypeOK /\ ConWhole /\ ConComplete /\ ConEarlyKept
===============================================================================
