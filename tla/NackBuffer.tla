----------------------------- MODULE NackBuffer -----------------------------
(***************************************************************************)
(* The NACK responder of one outgoing RTP stream: the ring buffer of sent  *)
(* packets over wrapping sequence numbers, the reference counts that keep  *)
(* a packet's pooled memory while a resend writes it without the lock, and *)
(* the limits on resends.                                                  *)
(***************************************************************************)
EXTENDS Integers, FiniteSets

CONSTANTS
    uint16SizeHalf,   \* half of the sequence numbers, 2^15 in the code
    Size,         \* slots of the ring buffer
    Packet,       \* retainablePacket objects
    Resender,     \* goroutines started for NACKs
    MaxRetries,   \* 0 for no limit
    NoPacket      \* the nil pointer

\* newRTPBuffer takes the powers of two up to 2^15.  Slots and goroutines are told
\* apart, so that Holders can hold both.
ASSUME NackAssumption ==
    /\ uint16SizeHalf \in Nat \ {0} /\ Size \in 1 .. uint16SizeHalf /\ uint16SizeHalf % Size = 0
    /\ NoPacket \notin Packet /\ MaxRetries \in Nat
    /\ IsFiniteSet(Resender) /\ Resender \cap (0 .. Size - 1) = {}

SeqNo == 0 .. 2 * uint16SizeHalf - 1

\* a - b in the arithmetic of the sequence numbers.
seqDiff(a, b) == (a - b) % (2 * uint16SizeHalf)

VARIABLES
    bound,         \* the stream is in n.streams
    slots,         \* rtpBuffer.packets
    highestAdded,
    started,
    packet,        \* the retainablePackets, each with its memory from the pools
    fresh,       \* a packet made by NewPacket and not yet added
    resending,     \* what each resender writes: a packet, for a sequence number
    current        \* history: what was added and neither left the window nor was evicted

ringVars == <<slots, highestAdded, started, current>>
nackVars == <<bound, ringVars, packet, fresh, resending>>

Idle == [pkt |-> NoPacket, seq |-> 0]

\* A packet whose memory is in the pools.
Free == [count |-> 0, seq |-> 0, resends |-> 0]

NackTypeOK ==
    /\ bound \in BOOLEAN /\ started \in BOOLEAN
    /\ slots \in [0 .. Size - 1 -> Packet \cup {NoPacket}]
    /\ highestAdded \in SeqNo
    /\ packet \in [Packet -> [count : Nat, seq : SeqNo, resends : 0 .. MaxRetries]]
    /\ fresh \in Packet \cup {NoPacket}
    /\ resending \in [Resender -> [pkt : Packet \cup {NoPacket}, seq : SeqNo]]
    /\ current \subseteq SeqNo

\* NewInterceptor and BindLocalStream.
NackInit ==
    /\ bound = TRUE /\ started = FALSE
    /\ slots = [i \in 0 .. Size - 1 |-> NoPacket] /\ highestAdded = 0
    /\ packet = [p \in Packet |-> Free]
    /\ fresh = NoPacket /\ resending = [r \in Resender |-> Idle] /\ current = {}

\* Who refers to a packet.
Holders(p) ==
    {i \in 0 .. Size - 1 : slots[i] = p} \cup {r \in Resender : resending[r].pkt = p}

-----------------------------------------------------------------------------
(* Writing. *)

\* The copy is made into memory from the pools, without the lock; which free
\* memory it is makes no difference.
NewPacket(s) ==
    /\ fresh = NoPacket /\ \E p \in Packet : packet[p] = Free
    /\ LET p == CHOOSE p \in Packet : packet[p] = Free IN
        /\ packet' = [packet EXCEPT ![p] = [Free EXCEPT !.count = 1, !.seq = s]]
        /\ fresh' = p
    /\ UNCHANGED <<bound, ringVars, resending>>

\* Release; the memory goes back to the pools when the count reaches zero.
Release(ps) ==
    packet' = [p \in Packet |->
        IF p \notin ps THEN packet[p]
        ELSE IF packet[p].count = 1 THEN Free ELSE [packet[p] EXCEPT !.count = @ - 1]]

\* Mutant: one slot of the gap is forgotten.
skippedButOne(s) == {i \in SeqNo : seqDiff(i, highestAdded) \in 1 .. seqDiff(s, highestAdded) - 2}

\* The sequence numbers a packet ahead of the highest one jumps over.
skipped(s) == {i \in SeqNo : seqDiff(i, highestAdded) \in 1 .. seqDiff(s, highestAdded) - 1}

isNewer(s) == seqDiff(s, highestAdded) < uint16SizeHalf

\* The slots Add empties: those of the gap, and the packet's own.
emptied(s) == {i % Size : i \in (IF isNewer(s) THEN skipped(s) ELSE {}) \cup {s}}

\* rtpBuffer.Add under rtpBufferMutex.  A duplicate of the highest one is
\* neither stored nor released.
Add ==
    /\ fresh # NoPacket /\ fresh' = NoPacket
    /\ LET s == packet[fresh].seq IN
       \/ /\ started /\ s = highestAdded
          /\ UNCHANGED <<ringVars, packet>>
       \/ /\ ~started
          /\ slots' = [slots EXCEPT ![s % Size] = fresh]
          /\ highestAdded' = s /\ started' = TRUE /\ current' = {s}
          /\ UNCHANGED packet
       \/ /\ started /\ s # highestAdded
          /\ slots' = [i \in 0 .. Size - 1 |->
                        IF i = s % Size THEN fresh
                        ELSE IF i \in emptied(s) THEN NoPacket ELSE slots[i]]
          /\ Release({slots[i] : i \in emptied(s)})
          /\ highestAdded' = IF isNewer(s) THEN s ELSE highestAdded
          /\ current' = {c \in current : c % Size \notin emptied(s)}
                            \cup (IF seqDiff(highestAdded', s) < Size THEN {s} ELSE {})
          /\ UNCHANGED started
    /\ UNCHANGED <<bound, resending>>

\* A packet that nothing refers to, having been refused by Add or left in a
\* stream that is gone, is garbage.
Collect(p) ==
    /\ packet[p] # Free /\ fresh # p /\ Holders(p) = {}
    /\ packet' = [packet EXCEPT ![p] = Free]
    /\ UNCHANGED <<bound, ringVars, fresh, resending>>

-----------------------------------------------------------------------------
(* Resending. *)

\* rtpBuffer.Get, but for the Retain.
Get(s) ==
    IF \/ seqDiff(highestAdded, s) >= uint16SizeHalf \/ seqDiff(highestAdded, s) >= Size
       \/ slots[s % Size] = NoPacket
    THEN NoPacket
    ELSE IF packet[slots[s % Size]].seq = s /\ packet[slots[s % Size]].count # 0 THEN slots[s % Size] ELSE NoPacket

\* What keeps a packet from being resent, but for its age and the time since
\* it was last resent: those may or may not, and a resend that they refuse
\* leaves everything as it was.
mayResend(p) == MaxRetries = 0 \/ packet[p].resends < MaxRetries

\* Retained by Get, and its retransmission tracking updated.
retained(pkt) ==
    [pkt EXCEPT !.count = @ + 1, !.resends = IF MaxRetries = 0 THEN 0 ELSE @ + 1]

\* One sequence number of a NACK, up to the Unlock: found and allowed.  Otherwise
\* the lookup leaves everything as it was.
resendPackets(r, s) ==
    /\ bound /\ resending[r] = Idle
    /\ LET p == Get(s) IN
       /\ p # NoPacket /\ mayResend(p)
       /\ packet' = [packet EXCEPT ![p] = retained(@)]
       /\ resending' = [resending EXCEPT ![r] = [pkt |-> p, seq |-> s]]
    /\ UNCHANGED <<bound, ringVars, fresh>>

\* The write, without a lock, is over and the packet released.
ResendDone(r) ==
    /\ resending[r] # Idle
    /\ Release({resending[r].pkt})
    /\ resending' = [resending EXCEPT ![r] = Idle]
    /\ UNCHANGED <<bound, ringVars, fresh>>

\* The buffer goes with the last goroutine that still uses it.
UnbindLocalStream == bound /\ bound' = FALSE /\ UNCHANGED <<ringVars, packet, fresh, resending>>

NackNext ==
    \/ \E s \in SeqNo : NewPacket(s)
    \/ Add \/ UnbindLocalStream
    \/ \E r \in Resender : ResendDone(r) \/ \E s \in SeqNo : resendPackets(r, s)
    \/ \E p \in Packet : Collect(p)

NackSpec == NackInit /\ [][NackNext]_nackVars

-----------------------------------------------------------------------------
\* A resend writes the bytes of the packet that was asked for, although the ring
\* buffer evicts it and new packets take memory from the pools meanwhile.
ResendsWhatWasAsked ==
    \A r \in Resender : resending[r] # Idle =>
        packet[resending[r].pkt].count > 0 /\ packet[resending[r].pkt].seq = resending[r].seq

\* Memory goes back to the pools exactly when the last holder lets go: every
\* packet in use counts its slot and its resenders.
CountsMatchHolders ==
    \A p \in Packet : Holders(p) # {} => packet[p].count = Cardinality(Holders(p))

\* Across gaps, late packets and the wrap of the sequence numbers, the buffer
\* serves exactly the packets of the last Size sequence numbers that were added
\* and not evicted by a late packet: none is missing, and no packet of an earlier
\* round of the sequence numbers is served for a newer one.
ServesTheWindow ==
    started => \A s \in SeqNo :
        s \in current <=> seqDiff(highestAdded, s) < uint16SizeHalf /\ Get(s) # NoPacket

\* Resends serve the right packets, and memory is neither leaked nor reused early.
NackSound == NackTypeOK /\ ResendsWhatWasAsked /\ CountsMatchHolders /\ ServesTheWindow
=============================================================================
