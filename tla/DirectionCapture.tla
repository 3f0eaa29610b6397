-------------------------- MODULE DirectionCapture --------------------------
(***************************************************************************)
(* One sender's stream of StreamLen bytes, captured as TCP segments in any *)
(* order, with any losses, retransmissions, re-segmentations and duplicate *)
(* captures, and fed to one DirectionBuffer (dpkt/stream.py) whose owner   *)
(* calls get_data whenever it likes.                                       *)
(*                                                                         *)
(* A byte is <<position, version>>: the position in the sender's stream,   *)
(* and a version that tells apart copies of a byte that differ.  Sequence  *)
(* numbers are SeqSpace-bit-wide naturals, as in the TCP header.           *)
(***************************************************************************)
EXTENDS DirectionBuffer

CONSTANTS StreamLen,   \* bytes the sender writes
          SeqSpace,    \* sequence numbers are taken modulo this (2^32)
          ISNs,        \* initial sequence numbers the sender may choose
          Versions,    \* distinct contents a (re)transmitted byte may have
          MaxSegment,  \* longest payload
          MaxPulled    \* bound: bytes handed out, or ready when a SYN is repeated

ASSUME CaptureAssumption ==
  /\ StreamLen \in Nat
  /\ SeqSpace \in Nat \ {0}
  /\ ISNs \subseteq 0 .. SeqSpace - 1
  /\ MaxSegment \in Nat
  /\ MaxPulled \in Nat

VARIABLES sender_isn,  \* the sender's initial sequence number
          buf,         \* the DirectionBuffer
          pulled,      \* everything get_data has returned
          seen         \* stream positions captured since the SYN

vars == <<sender_isn, buf, pulled, seen>>

Positions == 1 .. StreamLen

(* The payload of n bytes from stream position p on.                       *)
Text(p, n, v) == [i \in 1 .. n |-> <<p + i - 1, v>>]

SeqOf(p) == (sender_isn + p) % SeqSpace

Init ==
  /\ sender_isn \in ISNs
  /\ buf = NewBuffer
  /\ pulled = NoBytes
  /\ seen = {}

(* A captured SYN, with or without data (TCP fast open).                   *)
Syn(n, v) ==
  /\ n <= StreamLen
  /\ Len(pulled) + Len(buf.contiguous) + n <= MaxPulled
  /\ buf' = Feed(buf, sender_isn, Text(1, n, v), TRUE, FALSE)
  /\ seen' = seen \cup 1 .. n
  /\ UNCHANGED <<sender_isn, pulled>>

(* A captured segment of n bytes from position p on; the sender sets FIN   *)
(* on (or right after) its last byte.  Bytes fed before any SYN are not    *)
(* counted as seen: the buffer cannot place them.                          *)
Data(p, n, v, fin) ==
  /\ p + n - 1 <= StreamLen
  /\ fin => p + n - 1 = StreamLen
  /\ buf' = Feed(buf, SeqOf(p), Text(p, n, v), FALSE, fin)
  /\ seen' = IF buf.isn = None THEN seen ELSE seen \cup p .. p + n - 1
  /\ UNCHANGED <<sender_isn, pulled>>

(* get_data(fill_gaps) *)
GetData(fill_gaps) ==
  /\ Len(pulled) + Len(DataOf(buf, fill_gaps)) <= MaxPulled
  /\ DataOf(buf, fill_gaps) # NoBytes
  /\ pulled' = pulled \o DataOf(buf, fill_gaps)
  /\ buf' = AfterGetData(buf, fill_gaps)
  /\ UNCHANGED <<sender_isn, seen>>

Segment ==
  \E p \in 1 .. StreamLen + 1, n \in 0 .. MaxSegment, v \in Versions,
     fin \in BOOLEAN : Data(p, n, v, fin)

(* A SYN copy captured before any byte of the stream: the handshake, with  *)
(* the SYN retransmitted or captured twice.                                *)
Handshake ==
  /\ seen = {}
  /\ \E n \in 0 .. MaxSegment, v \in Versions : Syn(n, v)

(* The sender's sequence numbers do not wrap.                              *)
NoWrap == sender_isn + StreamLen + 1 < SeqSpace

InitNoWrap == Init /\ NoWrap

(* Any capture, SYN copies at any time, any use of get_data.               *)
Next ==
  \/ \E n \in 0 .. MaxSegment, v \in Versions : Syn(n, v)
  \/ Segment
  \/ \E fill_gaps \in BOOLEAN : GetData(fill_gaps)

Spec == Init /\ [][Next]_vars

(* Captures whose SYN copies precede the data and whose owner only takes   *)
(* contiguous data; the sender's sequence numbers do not wrap.             *)
OrderlyNext == Handshake \/ Segment \/ GetData(FALSE)

OrderlySpec == InitNoWrap /\ [][OrderlyNext]_vars
-----------------------------------------------------------------------------
Bytes == Positions \X Versions

HeldBytes == UNION {[held -> Bytes] : held \in SUBSET Positions}

BufferType ==
  [ isn            : {None} \cup Nat,
    next_seq       : 0 .. StreamLen + 1,
    fin_seq        : {None} \cup Nat,
    syn_received   : BOOLEAN,
    fin_received   : BOOLEAN,
    contiguous     : Seq(Bytes),
    segments       : HeldBytes,
    total_buffered : Nat ]

(* Every field keeps the type DirectionBuffer.__init__ and feed give it,   *)
(* the flags agree with the sequence numbers they stand for, and no byte   *)
(* outside the sender's stream is ever ready or held.                      *)
TypeOK ==
  /\ sender_isn \in ISNs
  /\ seen \subseteq Positions
  /\ buf \in BufferType
  /\ buf.isn \in {None, sender_isn}
  /\ buf.isn # None => buf.next_seq >= 1
  /\ buf.syn_received <=> buf.isn # None
  /\ buf.fin_received <=> buf.fin_seq # None

(* Accounting: total_buffered, which the reassembler's memory limit and    *)
(* eviction read, is the number of bytes held, after any sequence of       *)
(* overlapping feeds, repeated SYNs and get_data calls.                    *)
TotalBufferedExact ==
  buf.total_buffered = Len(buf.contiguous) + Cardinality(DOMAIN buf.segments)

(* What the owner has got or can get at once.                              *)
Available == pulled \o buf.contiguous

(* In-order exactly-once delivery: whatever the order, overlap and         *)
(* repetition of the captured segments, the bytes handed out plus those    *)
(* ready are the sender's bytes 1, 2, ... next_seq - 1, each once.         *)
InOrder ==
  /\ Len(Available) = IF buf.isn = None THEN 0 ELSE buf.next_seq - 1
  /\ \A i \in 1 .. Len(Available) : Available[i][1] = i

(* No captured byte is lost or kept back: every captured position is       *)
(* either delivered or held, and the next missing byte is really missing.  *)
NothingLost ==
  IF buf.isn = None THEN seen = {} /\ DOMAIN buf.segments = {}
  ELSE /\ seen = (1 .. buf.next_seq - 1) \cup DOMAIN buf.segments
       /\ \A p \in DOMAIN buf.segments : p > buf.next_seq

(* Out-of-order bytes stay at the position they were sent at, whichever    *)
(* copies overlap and win the overlay of the merge loop.                   *)
HeldInPlace ==
  \A p \in DOMAIN buf.segments : buf.segments[p][1] = p

(* is_complete is right both ways: it holds exactly when a FIN and every   *)
(* byte of the stream have been captured.                                  *)
CompleteIffAllSeen ==
  IsComplete(buf) <=> buf.fin_received /\ seen = Positions

(* get_data(fill_gaps=True) called now would return the stream from the    *)
(* first byte not yet handed out to exactly the last byte captured: what   *)
(* it returns reaches every captured byte and ends with one, every         *)
(* captured byte is at its own offset, and zeros stand for exactly the     *)
(* bytes not captured.                                                     *)
FlushAligned ==
  LET out  == DataOf(buf, TRUE)
      base == Len(pulled)
  IN  /\ \A p \in seen : p <= base + Len(out)
      /\ out # NoBytes => base + Len(out) \in seen
      /\ \A i \in 1 .. Len(out) :
           IF base + i \in seen THEN out[i][1] = base + i ELSE out[i] = Zero

(* Whatever the owner flushed before, with gaps filled or not, and however *)
(* often the SYN is repeated, a captured byte has been handed out, is      *)
(* ready or is held: get_data leaves next_seq behind what it flushed so    *)
(* that bytes missing then still find a place.  The bytes whose sequence   *)
(* number has wrapped are not promised.                                    *)
FlushLosesNothing ==
  \A p \in seen :
    \/ sender_isn + p >= SeqSpace
    \/ p \in DOMAIN buf.segments
    \/ \E i \in 1 .. Len(Available) : Available[i][1] = p

(* Refinement: the direction implements the abstract byte stream.          *)
Stream == INSTANCE ByteStream
            WITH out <- [i \in 1 .. Len(Available) |-> Available[i][1]]
ImplementsByteStream == Stream!Spec
==============================================================================
