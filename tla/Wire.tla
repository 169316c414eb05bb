-------------------------------- MODULE Wire --------------------------------
(***************************************************************************)
(* The length-prefixed framing of rickynet-wire, and its incremental       *)
(* FrameDecoder under every stream of frames, every chunking of it and     *)
(* every interleaving of push and next_frame.                              *)
(*                                                                         *)
(* Bytes are known by their position in the stream.  The buffer holds the  *)
(* bytes from position base on; start is the decoder's cursor inside it.   *)
(* head is where the next undelivered frame really begins and due its      *)
(* packet's length, any length up to MaxFrame for each frame: a cursor     *)
(* anywhere else would read bytes of a packet as a prefix.                 *)
(***************************************************************************)
EXTENDS Integers

CONSTANTS
    MaxFrame,    \* MAX_FRAME: 65535
    CompactAt,   \* 4096: consumed bytes worth moving the rest for
    MaxChunk,    \* largest chunk pushed at once
    MaxBytes     \* bound on the bytes pushed

Prefix == 2  \* LEN_PREFIX

ASSUME WireAssumption ==
    /\ MaxFrame \in Nat /\ MaxFrame < 65536
    /\ CompactAt \in Nat \ {0}
    /\ MaxChunk \in Nat /\ MaxBytes \in Nat

(* The u16 prefix, big-endian. *)
ToBeBytes(n) == <<n \div 256, n % 256>>
FromBeBytes(b) == b[1] * 256 + b[2]

VARIABLES
    pushed,     \* bytes pushed so far: buf ends at this position
    base,       \* position of buf[0]
    start,      \* FrameDecoder.start
    head, due,  \* where the next undelivered frame begins, and its length
    drained     \* the last call was a next_frame that returned None

vars == <<pushed, base, start, head, due, drained>>

Init == /\ pushed = 0 /\ base = 0 /\ start = 0
        /\ head = 0 /\ due \in 0..MaxFrame /\ drained = TRUE

BufLen == pushed - base
Avail  == BufLen - start

(* What the cursor finds as a prefix: the due frame's if it stands there,   *)
(* bytes of some packet otherwise.                                          *)
PrefixRead(n) ==
    IF base + start = head THEN n = FromBeBytes(ToBeBytes(due))
                           ELSE n \in 0..MaxFrame

Push(n) ==
    /\ pushed + n <= MaxBytes
    /\ pushed' = pushed + n
    /\ drained' = FALSE
    /\ UNCHANGED <<base, start, head, due>>

(* compact: keeps the buffer, or, when all or enough of it is consumed,     *)
(* drains the consumed bytes from its front.                                *)
WorthMoving == start > 0 /\ (start = BufLen \/ start >= CompactAt)

CompactKeepingCursor ==  \* mutant: the bytes go and the cursor stays
    /\ base' = IF WorthMoving THEN base + start ELSE base
    /\ UNCHANGED start
CompactTooFar ==         \* mutant: the unread prefix goes too
    /\ base' = IF WorthMoving THEN base + start + Prefix ELSE base
    /\ start' = IF WorthMoving THEN 0 ELSE start
CompactEmptyOnly ==      \* mutant: only an emptied buffer is cleared
    /\ base' = IF start = BufLen THEN base + start ELSE base
    /\ start' = IF start = BufLen THEN 0 ELSE start

Compact ==
    /\ base' = IF WorthMoving THEN base + start ELSE base
    /\ start' = IF WorthMoving THEN 0 ELSE start

NeedMoreOrEmpty == Avail <= Prefix  \* mutant: an empty frame has to wait
NeedMorePrefix == Avail < Prefix

(* next_frame finds no complete frame. *)
NextNone ==
    /\ \/ NeedMorePrefix
       \/ \E n \in 0..MaxFrame : PrefixRead(n) /\ Avail < Prefix + n
    /\ Compact
    /\ drained' = TRUE
    /\ UNCHANGED <<pushed, head, due>>

(* next_frame returns a packet; an emptied buffer is cleared.               *)
NextSome ==
    /\ ~NeedMorePrefix
    /\ \E n \in 0..MaxFrame :
        /\ PrefixRead(n) /\ Avail >= Prefix + n
        /\ IF start + Prefix + n = BufLen
             THEN base' = pushed /\ start' = 0
             ELSE start' = start + Prefix + n /\ UNCHANGED base
    /\ head' = head + Prefix + due
    /\ due' \in 0..MaxFrame
    /\ drained' = FALSE
    /\ UNCHANGED pushed

Next == (\E n \in 0..MaxChunk : Push(n)) \/ NextNone \/ NextSome

Spec == Init /\ [][Next]_vars

-----------------------------------------------------------------------------
(* Types; the buffer never starts beyond what was pushed (lib.rs 134-145).  *)
TypeOK ==
    /\ pushed \in Nat /\ base \in 0..pushed /\ start \in Nat
    /\ head \in Nat /\ due \in 0..MaxFrame
    /\ drained \in BOOLEAN

(* The decoder stands where the next frame begins, inside its buffer: every *)
(* packet it returned was the stream's next one, whatever chunks the stream *)
(* came in and whenever the buffer was compacted (lib.rs 97-145).           *)
InStep == base + start = head /\ start <= BufLen

(* next_frame returns None only when no complete frame is buffered: no      *)
(* packet is held back until more bytes come (lib.rs 109-119).              *)
NothingHeldBack == drained => pushed < head + Prefix + due

(* A caller that drains the decoder after each push keeps the buffer below  *)
(* one frame and the compaction threshold (lib.rs 81-82, 131-145).          *)
BoundedWhenDrained == drained => BufLen <= CompactAt + MaxFrame
=============================================================================
