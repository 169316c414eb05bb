----------------------------- MODULE WireProofs -----------------------------
(***************************************************************************)
(* What Wire promises, for every stream of frames, every chunking, and     *)
(* every value of the constants.  InStep is inductive with the types: each *)
(* Compact and each packet move base + start and head alike.               *)
(***************************************************************************)
EXTENDS Wire, TLAPS

(* The prefix encode_frame writes is the length next_frame reads, for every *)
(* length a u16 holds (lib.rs 59-66, 115).                                  *)
LEMMA PrefixRoundTrip ==
    ASSUME NEW n \in Nat, n < 65536
    PROVE  /\ FromBeBytes(ToBeBytes(n)) = n
           /\ ToBeBytes(n)[1] < 256 /\ ToBeBytes(n)[2] < 256
  <1>1. n = 256 * (n \div 256) + (n % 256) /\ n % 256 < 256
    OBVIOUS
  <1>2. n \div 256 < 256
    OBVIOUS
  <1>3. n \div 256 \in Int /\ n % 256 \in Int
    OBVIOUS
  <1> QED BY <1>1, <1>2, <1>3 DEF FromBeBytes, ToBeBytes

(* A cursor in step reads the due frame's length and no other (lib.rs 115). *)
LEMMA CursorReadsDue ==
    ASSUME TypeOK, InStep, NEW n \in 0..MaxFrame
    PROVE  PrefixRead(n) <=> n = due
  <1>1. due \in Nat /\ due < 65536
    BY WireAssumption DEF TypeOK
  <1>2. FromBeBytes(ToBeBytes(due)) = due
    BY <1>1, PrefixRoundTrip
  <1> QED BY <1>2 DEF PrefixRead, InStep

(* compact keeps the byte under the cursor, and with less than a frame      *)
(* unread leaves a bounded buffer (lib.rs 134-145).                         *)
LEMMA CompactKeepsPlace ==
    ASSUME TypeOK, InStep, Compact
    PROVE  /\ base' \in 0..pushed /\ start' \in Nat
           /\ base' + start' = head
           /\ start' <= pushed - base'
  BY WireAssumption DEF TypeOK, InStep, Compact, WorthMoving, BufLen

LEMMA CompactBounds ==
    ASSUME TypeOK, InStep, Compact, pushed < head + Prefix + due
    PROVE  pushed - base' <= CompactAt + MaxFrame
  BY WireAssumption DEF TypeOK, InStep, Compact, WorthMoving, BufLen, Prefix

(* The cursor moves over one whole frame (lib.rs 120-127).                  *)
LEMMA PacketMovesCursor ==
    ASSUME TypeOK, InStep, Avail >= Prefix + due,
           IF start + Prefix + due = BufLen
             THEN base' = pushed /\ start' = 0
             ELSE start' = start + Prefix + due /\ base' = base
    PROVE  /\ base' \in 0..pushed /\ start' \in Nat
           /\ base' + start' = head + Prefix + due
           /\ start' <= pushed - base'
           /\ head + Prefix + due \in Nat
  BY WireAssumption DEF TypeOK, InStep, Avail, BufLen, Prefix

IInv == TypeOK /\ InStep /\ NothingHeldBack /\ BoundedWhenDrained

LEMMA InitEstablishes == Init => IInv
  BY WireAssumption DEF Init, IInv, TypeOK, InStep, NothingHeldBack,
        BoundedWhenDrained, BufLen, Prefix

LEMMA NextPreserves == IInv /\ [Next]_vars => IInv'
  <1> SUFFICES ASSUME IInv, [Next]_vars PROVE IInv'
    OBVIOUS
  <1>1. CASE UNCHANGED vars
    BY <1>1 DEF IInv, vars, TypeOK, InStep, NothingHeldBack,
        BoundedWhenDrained, BufLen
  <1>2. ASSUME NEW n \in 0..MaxChunk, Push(n) PROVE IInv'
    <2>1. drained' = FALSE
      BY <1>2 DEF Push
    <2>2. drained' \in BOOLEAN
      BY <2>1, Zenon
    <2>3. /\ pushed' = pushed + n /\ base' = base /\ start' = start
          /\ head' = head /\ due' = due
      BY <1>2 DEF Push
    <2>4. n \in Nat
      BY WireAssumption
    <2>5. TypeOK' /\ InStep'
      BY <2>2, <2>3, <2>4 DEF IInv, TypeOK, InStep, BufLen
    <2>6. NothingHeldBack' /\ BoundedWhenDrained'
      BY <2>1, Zenon DEF NothingHeldBack, BoundedWhenDrained
    <2> QED BY <2>5, <2>6 DEF IInv
  <1>3. CASE NextNone
    <2>1. drained' = TRUE
      BY <1>3 DEF NextNone
    <2>2. drained' \in BOOLEAN
      BY <2>1, Zenon
    <2>3. pushed < head + Prefix + due
      <3>1. CASE NeedMorePrefix
        BY <3>1 DEF IInv, NeedMorePrefix, Avail, BufLen, InStep, TypeOK, Prefix
      <3>2. CASE \E n \in 0..MaxFrame : PrefixRead(n) /\ Avail < Prefix + n
        BY <3>2, CursorReadsDue DEF IInv, Avail, BufLen, InStep, TypeOK, Prefix
      <3> QED BY <1>3, <3>1, <3>2 DEF NextNone
    <2>4. /\ base' \in 0..pushed /\ start' \in Nat
          /\ base' + start' = head
          /\ start' <= pushed - base'
      BY <1>3, CompactKeepsPlace DEF IInv, NextNone
    <2>5. pushed' = pushed /\ head' = head /\ due' = due
      BY <1>3 DEF NextNone
    <2>6. TypeOK' /\ InStep'
      BY <2>2, <2>4, <2>5, Zenon DEF IInv, TypeOK, InStep, BufLen
    <2>7. pushed' < head' + Prefix + due'
      BY <2>3, <2>5
    <2>8. BufLen' <= CompactAt + MaxFrame
      BY <1>3, <2>3, <2>5, CompactBounds, Zenon DEF IInv, NextNone, BufLen
    <2>9. NothingHeldBack' /\ BoundedWhenDrained'
      BY <2>7, <2>8, Zenon DEF NothingHeldBack, BoundedWhenDrained
    <2> QED BY <2>6, <2>9 DEF IInv
  <1>4. CASE NextSome
    <2>1. drained' = FALSE
      BY <1>4 DEF NextSome
    <2>2. drained' \in BOOLEAN
      BY <2>1, Zenon
    <2>3. /\ Avail >= Prefix + due
          /\ IF start + Prefix + due = BufLen
               THEN base' = pushed /\ start' = 0
               ELSE start' = start + Prefix + due /\ base' = base
      BY <1>4, CursorReadsDue DEF IInv, NextSome
    <2>4. pushed' = pushed /\ head' = head + Prefix + due /\ due' \in 0..MaxFrame
      BY <1>4 DEF NextSome
    <2>5. /\ base' \in 0..pushed /\ start' \in Nat
          /\ base' + start' = head + Prefix + due
          /\ start' <= pushed - base'
          /\ head + Prefix + due \in Nat
      BY <2>3, PacketMovesCursor DEF IInv
    <2>6. TypeOK' /\ InStep'
      BY <2>2, <2>4, <2>5, Zenon DEF IInv, TypeOK, InStep, BufLen
    <2>7. NothingHeldBack' /\ BoundedWhenDrained'
      BY <2>1, Zenon DEF NothingHeldBack, BoundedWhenDrained
    <2> QED BY <2>6, <2>7 DEF IInv
  <1> QED BY <1>1, <1>2, <1>3, <1>4 DEF Next

(* The invariant of the decoder (lib.rs 84-146).                            *)
LEMMA Inductive == Spec => []IInv
  BY InitEstablishes, NextPreserves, PTL DEF Spec

(* The cursor and the buffer's front stay where bytes are (lib.rs 134-145). *)
THEOREM TypeCorrect == Spec => []TypeOK
  BY Inductive, PTL DEF IInv

(* next_frame never returns bytes that are not the next frame's packet, on  *)
(* any stream in any chunks (lib.rs 97-145).                                *)
THEOREM StaysInStep == Spec => []InStep
  BY Inductive, PTL DEF IInv

(* A complete frame is never kept back by next_frame (lib.rs 109-119).      *)
THEOREM DeliversWhatItHas == Spec => []NothingHeldBack
  BY Inductive, PTL DEF IInv

(* The buffer of a drained decoder holds less than one frame and CompactAt  *)
(* consumed bytes, however long the stream (lib.rs 131-145).                *)
THEOREM MemoryStaysBounded == Spec => []BoundedWhenDrained
  BY Inductive, PTL DEF IInv
=============================================================================
