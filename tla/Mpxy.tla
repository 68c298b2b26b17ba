-------------------------------- MODULE Mpxy --------------------------------
(***************************************************************************)
(* The message proxy (sbi_mpxy.c): the list of channels registered at      *)
(* boot, the shared memory of each hart, the enumeration of channels,      *)
(* attribute writes and messages.  A client on one hart enumerates the     *)
(* channels page by page as the extension intends: start_index advances by *)
(* the number of identifiers returned until none remain.  RV64.            *)
(*                                                                         *)
(* Sizes are in bytes of a small page; addresses are model values.         *)
(***************************************************************************)
EXTENDS SbiDefs, Sequences, SequencesExt, FiniteSets

CONSTANTS
    MpxyHarts, MpxyBootHart,
    PageSize,       \* PAGE_SIZE
    BootChannels,   \* lists of channels the drivers may register, in order
    ShmemAddrs,     \* pages S-mode may use
    MsgLens         \* lengths of messages and responses

VARIABLES
    mpxy_list,      \* mpxy_channel_list
    mpxy_toadd,     \* channels the drivers have yet to register
    mpxy_shmem_size,
    mpxy_shmem,     \* hart -> "invalid", "zero" or an address
    mpxy_client,    \* the enumerating client: [hart, start, got, remaining]
    mpxy_wrote,     \* history: identifiers the last call wrote, [addr, bytes]
    mpxy_reply      \* result of the last call, if a message: [ret, len, max]

mpxy_vars == <<mpxy_list, mpxy_toadd, mpxy_shmem_size, mpxy_shmem,
               mpxy_client, mpxy_wrote, mpxy_reply>>

ATTR_MSI_CONTROL == 7
ATTR_MSI_DATA == 10
ATTR_EVENTS_STATE == 11
ATTR_STD_MAX == 12
INVALID_ADDR == "ones32"    \* (-1U)
NewClient(h) == [hart |-> h, start |-> 0, got |-> <<>>, remaining |-> -1]
NoReply == [ret |-> SBI_EFAIL, len |-> 0, max |-> 0]
NoIds == [addr |-> "invalid", bytes |-> 0]

\* sbi_mpxy_init() runs on the boot hart only; the scratch space of the other
\* harts is zero.
MpxyInit ==
    /\ mpxy_list = <<>> /\ mpxy_toadd \in BootChannels
    /\ mpxy_shmem_size = PageSize
    /\ mpxy_shmem = [h \in MpxyHarts |-> IF h = MpxyBootHart THEN "invalid" ELSE "zero"]
    /\ mpxy_client \in {NewClient(h) : h \in MpxyHarts} /\ mpxy_reply = NoReply
    /\ mpxy_wrote = NoIds

\* Bug: the search starts behind the first channel.
ChannelAtLater(id) == {i \in DOMAIN mpxy_list : i > 1 /\ mpxy_list[i].id = id}

ChannelAt(id) == {i \in DOMAIN mpxy_list : mpxy_list[i].id = id}

\* mpxy_shmem_enabled(): the zero a hart finds that has set nothing yet counts.
ShmemEnabled(h) == mpxy_shmem[h] # "invalid"

\* mpxy_std_attrs_init(): the capabilities follow from the callbacks.
StdAttrs(ch) ==
    [id |-> ch.id, ops |-> ch.ops, maxlen |-> ch.maxlen, eventsstate |-> 0,
     cap |-> {op \in ch.ops : op = "switch" => "notify" \in ch.ops}]

\* sbi_mpxy_register_channel(): the size of the shared memory becomes a number
\* of pages when a channel needs more than one.
RegisterChannel ==
    /\ mpxy_toadd # <<>>
    /\ mpxy_toadd' = Tail(mpxy_toadd)
    /\ LET ch == Head(mpxy_toadd)
           new == ChannelAt(ch.id) = {}
       IN  /\ mpxy_list' = IF new THEN Append(mpxy_list, StdAttrs(ch)) ELSE mpxy_list
           /\ mpxy_shmem_size' = IF new /\ mpxy_shmem_size < ch.maxlen
                                 THEN (ch.maxlen + PageSize - 1) \div PageSize
                                 ELSE mpxy_shmem_size
    /\ UNCHANGED <<mpxy_shmem, mpxy_client, mpxy_wrote, mpxy_reply>>

\* sbi_mpxy_set_shmem() with an address that passes its checks, or with a pair of
\* all ones: INVALID_ADDR has 32 bits, so that of 64 bits is refused as unaligned.
MpxySetShmem(h, addr) ==
    /\ mpxy_toadd = <<>> /\ addr # "ones64"
    /\ mpxy_shmem' = [mpxy_shmem EXCEPT ![h] = IF addr = INVALID_ADDR THEN "invalid" ELSE addr]
    /\ mpxy_client' = IF h = mpxy_client.hart THEN NewClient(h) ELSE mpxy_client
    /\ mpxy_wrote' = NoIds /\ mpxy_reply' = NoReply
    /\ UNCHANGED <<mpxy_list, mpxy_toadd, mpxy_shmem_size>>

\* Bug: the two fields in front are not taken off.
ChannelPageWide(start) ==
    LET count == Len(mpxy_list)
        room == mpxy_shmem_size \div 4
        returned == IF count - start > room THEN room ELSE count - start
    IN  [ids |-> [i \in 1 .. returned |-> mpxy_list[start + i].id],
         remaining |-> count - (start + returned)]

\* Bug: what earlier pages returned is counted as remaining.
ChannelPageAll(start) ==
    LET count == Len(mpxy_list)
        room == mpxy_shmem_size \div 4 - 2
        returned == IF room >= 0 /\ count - start > room THEN room ELSE count - start
    IN  [ids |-> [i \in 1 .. returned |-> mpxy_list[start + i].id],
         remaining |-> count - returned]

\* sbi_mpxy_get_channel_ids(): what the memory holds after the call.  The room is
\* unsigned: with less than eight bytes it is huge.
ChannelPage(start) ==
    LET count == Len(mpxy_list)
        room == mpxy_shmem_size \div 4 - 2
        returned == IF room >= 0 /\ count - start > room THEN room ELSE count - start
    IN  [ids |-> [i \in 1 .. returned |-> mpxy_list[start + i].id],
         remaining |-> count - (start + returned)]

\* The client asks for the next page.
ClientGetIds ==
    /\ mpxy_toadd = <<>> /\ ShmemEnabled(mpxy_client.hart)
    /\ mpxy_client.remaining # 0
    /\ mpxy_client.start =< Len(mpxy_list)
    /\ LET page == ChannelPage(mpxy_client.start)
       IN  /\ mpxy_client' = [mpxy_client EXCEPT !.start = @ + Len(page.ids),
                                                !.got = @ \o page.ids,
                                                !.remaining = page.remaining]
           /\ mpxy_wrote' = [addr |-> mpxy_shmem[mpxy_client.hart], bytes |-> 4 * (2 + Len(page.ids))]
    /\ mpxy_reply' = NoReply
    /\ UNCHANGED <<mpxy_list, mpxy_toadd, mpxy_shmem_size, mpxy_shmem>>

\* mpxy_check_write_std_attr(): msi_addr is never all ones here, no MSI exists.
WriteAllowed(attr, val) ==
    CASE attr \in {ATTR_MSI_CONTROL, ATTR_EVENTS_STATE} -> val =< 1
      [] attr \in ATTR_MSI_CONTROL + 1 .. ATTR_MSI_DATA -> TRUE
      [] OTHER -> FALSE

\* sbi_mpxy_write_attrs() on standard attributes: the whole range is checked
\* before the first write; the MSI attributes are not written without MSI.
WriteAttrs(h, id, base, vals) ==
    LET last == base + Len(vals) - 1
    IN  /\ mpxy_toadd = <<>> /\ ShmemEnabled(h) /\ ChannelAt(id) # {}
        /\ vals # <<>> /\ Len(vals) =< mpxy_shmem_size \div 4 /\ last < ATTR_STD_MAX
        /\ \A a \in base .. last : WriteAllowed(a, vals[a - base + 1])
        /\ mpxy_list' = [i \in DOMAIN mpxy_list |->
              IF i \in ChannelAt(id) /\ last = ATTR_EVENTS_STATE /\ "switch" \in mpxy_list[i].ops
              THEN [mpxy_list[i] EXCEPT !.eventsstate = vals[Len(vals)]] ELSE mpxy_list[i]]
        /\ mpxy_wrote' = NoIds /\ mpxy_reply' = NoReply
        /\ UNCHANGED <<mpxy_toadd, mpxy_shmem_size, mpxy_shmem, mpxy_client>>

\* Bug: the message length of the channel is not asked.
ReplyRetShmem(len, max) == IF len > mpxy_shmem_size THEN SBI_EFAIL ELSE SBI_OK

\* The check of the length a driver reports.
ReplyRet(len, max) == IF len > mpxy_shmem_size \/ len > max THEN SBI_EFAIL ELSE SBI_OK

\* sbi_mpxy_send_message() with and without a response: the driver answers with
\* drv, an error or the length of the response.
SendMessage(h, id, resp, len, drv) ==
    /\ mpxy_toadd = <<>> /\ ShmemEnabled(h)
    /\ \E i \in ChannelAt(id) :
          LET max == mpxy_list[i].maxlen
              op == IF resp THEN "withresp" ELSE "noresp"
              ret == CASE op \notin mpxy_list[i].ops -> SBI_ENOTSUPP
                       [] op \in mpxy_list[i].ops /\ (len > mpxy_shmem_size \/ len > max) -> SBI_EINVAL
                       [] OTHER -> CASE drv \in {SBI_ETIMEOUT, SBI_EIO} -> drv
                                     [] drv < 0 /\ drv \notin {SBI_ETIMEOUT, SBI_EIO} -> SBI_EFAIL
                                     [] OTHER -> IF resp THEN ReplyRet(drv, max) ELSE SBI_OK
          IN  mpxy_reply' = IF ret = SBI_OK /\ resp THEN [ret |-> ret, len |-> drv, max |-> max]
                                                   ELSE [NoReply EXCEPT !.ret = ret]
    /\ mpxy_wrote' = NoIds
    /\ UNCHANGED <<mpxy_list, mpxy_toadd, mpxy_shmem_size, mpxy_shmem, mpxy_client>>

MpxyIds == UNION {{list[i].id : i \in DOMAIN list} : list \in BootChannels}

MpxyNext ==
    \/ RegisterChannel
    \/ \E h \in MpxyHarts, addr \in ShmemAddrs \cup {"ones32", "ones64"} : MpxySetShmem(h, addr)
    \/ ClientGetIds
    \/ \E h \in MpxyHarts, id \in MpxyIds, base \in {6, 7, 10, 11}, vals \in {<<0>>, <<1, 1>>, <<2>>, <<0, 2>>} :
          WriteAttrs(h, id, base, vals)
    \/ \E h \in MpxyHarts, id \in MpxyIds, len \in MsgLens,
         drv \in MsgLens \cup {SBI_ETIMEOUT, SBI_EIO, SBI_EINVAL}, resp \in BOOLEAN :
          SendMessage(h, id, resp, len, drv)

(***************************************************************************)
(* Properties.                                                             *)
(***************************************************************************)
MpxyTypeOK ==
    /\ mpxy_shmem \in [MpxyHarts -> {"invalid", "zero"} \cup ShmemAddrs]
    /\ mpxy_client.start \in 0 .. Len(mpxy_list)

\* A client that follows the protocol gets every channel exactly once, in the
\* order of registration, whatever the number of channels and the room in a
\* page; the call always makes progress.
MpxyEnumeratesAll ==
    /\ mpxy_client.got = SubSeq([i \in DOMAIN mpxy_list |-> mpxy_list[i].id], 1, mpxy_client.start)
    /\ mpxy_client.remaining >= 0 => mpxy_client.remaining + mpxy_client.start = Len(mpxy_list)
    /\ mpxy_toadd = <<>> /\ mpxy_client.start < Len(mpxy_list) =>
          ChannelPage(mpxy_client.start).ids # <<>>

\* Channel identifiers are unique, so the channel a call names is the one that
\* was registered first under it.
MpxyChannelsUnique == \A i, j \in DOMAIN mpxy_list : mpxy_list[i].id = mpxy_list[j].id => i = j

\* A response reported as successful fits the channel's message length and the
\* shared memory.
MpxyReplyFits == mpxy_reply.ret = SBI_OK => mpxy_reply.len =< mpxy_reply.max /\ mpxy_reply.len =< mpxy_shmem_size

\* Channels longer than a page: sbi_mpxy_register_channel() then sets the size of
\* the shared memory to a number of pages, which everyone takes for bytes.
PagesForBytes == \E i \in DOMAIN mpxy_list : mpxy_list[i].maxlen > PageSize

\* Identifiers are written to memory that S-mode has set for this purpose, and
\* no further than its size, which sbi_mpxy_get_channel_ids() leaves room for
\* ("adjusting for remaining and returned fields").  Two exceptions: a hart other than
\* the boot hart that has set no memory is served at address 0, because
\* sbi_mpxy_init() disables the memory of the boot hart only; and with PagesForBytes
\* the room wraps around and all identifiers are written.
MpxyWritesInside ==
    /\ mpxy_wrote.addr = "zero" => mpxy_client.hart # MpxyBootHart
    /\ mpxy_wrote.bytes =< mpxy_shmem_size \/ PagesForBytes

\* What S-mode relies on at the message proxy: reading page by page it learns every
\* channel, an id means one channel, what is written and answered fits where it is
\* written; with the exceptions of MpxyWritesInside.
MpxySound == MpxyTypeOK /\ MpxyEnumeratesAll /\ MpxyChannelsUnique /\ MpxyReplyFits /\ MpxyWritesInside
=============================================================================
