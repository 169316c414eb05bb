----------------------------- MODULE LinkProofs -----------------------------
(***************************************************************************)
(* Link implements Tunnel, for any sizes, buffers, queues and faults.      *)
(*                                                                         *)
(* Of the packets a direction accepted, the first ones are out (Out); the  *)
(* reader may hold one, whole or in part; and of the others, those up to   *)
(* some packet `to` lie as frames in the stream, at positions w, and the   *)
(* rest wait at places v of the queue.  Between two of those frames there  *)
(* can only be empty ones.  A reader that is at the head of a frame is at  *)
(* a prefix, then, and this is what every step must keep.                  *)
(***************************************************************************)
EXTENDS Link, SequenceTheorems, TLAPS

Tokens == [kind : {"len", "body"}, value : Nat]

TypesOK ==
    /\ LinkTypeOK
    /\ tcp \in [Direction -> Seq(Tokens)]
    /\ writer \in [Direction -> [at : {"take", "write", "done"}, left : Seq(Tokens)]]
    /\ reader \in [Direction -> [at : {"head", "body", "put", "done"}, need : Nat,
                                 frame : Seq(Tokens)]]
    /\ offered \in [Direction -> Nat]
    /\ incoming \in Seq(Seq(Tokens))
    /\ taken \in [Direction -> Seq(Seq(Tokens))]
    /\ given \in [Direction -> Seq(Seq(Tokens))]

(* What the writers take is never empty and always fits a prefix.           *)
SizesOK ==
    /\ \A i \in 1..Len(ring) : ring[i].size = 1
    /\ \A d \in Direction : \A i \in 1..Len(taken[d]) : Len(taken[d][i]) \in 1..MaxFrame

(* A joined thread has ended, and a writer holds tokens only while it       *)
(* writes.                                                                  *)
EndsOK ==
    /\ main = "done" => writer["up"].at = "done" /\ reader["down"].at = "done"
    /\ \A d \in Direction : writer[d].at # "write" => writer[d].left = <<>>

-----------------------------------------------------------------------------
(* Token j of the frame of a payload, its prefix being token 0. *)
Token(p, j) == IF j = 0 THEN Prefix(Len(p)) ELSE p[j]

(* Frames f+1..to of t lie in s behind its first c tokens.  The last may be *)
(* cut short by the end of s.                                               *)
Laid(d, s, t, f, to, c, w) ==
    /\ w \in [(f + 1)..to -> Nat]
    /\ \A m \in (f + 1)..to :
        /\ c < w[m]
        /\ \A n \in (f + 1)..to : m < n => w[m] + Len(t[m]) < w[n]
        /\ \A j \in 0..Len(t[m]) : w[m] + j <= Len(s) => s[w[m] + j] = Token(t[m], j)
    /\ \A i \in 1..Len(s) : c < i =>
        \/ d = "down" /\ s[i] = Prefix(0)
        \/ \E m \in (f + 1)..to : w[m] <= i /\ i <= w[m] + Len(t[m])

Whole(s, t, f, to, c, w) ==
    c <= Len(s) /\ \A m \in (f + 1)..to : w[m] + Len(t[m]) <= Len(s)

(* The packets of t after the first f wait in q, among some that will not   *)
(* be framed or whose frame is empty.                                       *)
Fits(p) == p.size \in 1..MaxFrame
Queued(q, t, f, v) ==
    /\ v \in [(f + 1)..Len(t) -> 1..Len(q)]
    /\ \A m \in (f + 1)..Len(t) :
        /\ Fits(q[v[m]]) /\ t[m] = Payload(q[v[m]])
        /\ \A n \in (f + 1)..Len(t) : m < n => v[m] < v[n]
    /\ \A i \in 1..Len(q) : Fits(q[i]) => \E m \in (f + 1)..Len(t) : v[m] = i

-----------------------------------------------------------------------------
Stream(d) == tcp[d] \o writer[d].left
Queue(d)  == IF d = "up" THEN <<>> ELSE outgoing
Live(d)   == d = "down" \/ bridge = "up"

Out(d) == IF d = "up" THEN given["up"] \o incoming ELSE given["down"]
Due(d) == Len(Out(d)) + 1
Holds(d) == reader[d].at = "body" \/ (reader[d].at = "put" /\ reader[d].frame # <<>>)
Begun(d) == IF Holds(d) THEN Due(d) ELSE Len(Out(d))
Rest(d) == IF reader[d].at = "body" THEN reader[d].need - Len(reader[d].frame) ELSE 0

OutOK(d) ==
    /\ Len(Out(d)) <= Len(taken[d])
    /\ \A i \in 1..Len(Out(d)) : Out(d)[i] = taken[d][i]

ReaderOK(d) == Live(d) =>
    /\ reader[d].at = "put" =>
        \/ d = "down" /\ reader[d].frame = <<>>
        \/ Due(d) <= Len(taken[d]) /\ reader[d].frame = taken[d][Due(d)]
    /\ reader[d].at = "body" =>
        /\ Due(d) <= Len(taken[d])
        /\ reader[d].need = Len(taken[d][Due(d)])
        /\ Len(reader[d].frame) < reader[d].need
        /\ \A j \in 1..Len(reader[d].frame) : reader[d].frame[j] = taken[d][Due(d)][j]

(* The tokens the reader lacks come first in the stream. *)
RestOK(d) ==
    \A j \in 1..Rest(d) : j <= Len(Stream(d)) =>
        Stream(d)[j] = taken[d][Due(d)][Len(reader[d].frame) + j]

InFlight(d, to, w) ==
    /\ to \in Begun(d)..Len(taken[d])
    /\ Laid(d, Stream(d), taken[d], Begun(d), to, Rest(d), w)
    /\ writer[d].at # "done" =>
        /\ Whole(Stream(d), taken[d], Begun(d), to, Rest(d), w)
        /\ \E v : Queued(Queue(d), taken[d], to, v)

FlowOK(d) ==
    Live(d) /\ ~cut /\ reader[d].at # "done" =>
        RestOK(d) /\ \E to, w : InFlight(d, to, w)

PipeOK(d) == OutOK(d) /\ ReaderOK(d) /\ FlowOK(d)
PipesOK == \A d \in Direction : PipeOK(d)

Inv == TypesOK /\ SizesOK /\ EndsOK /\ PipesOK
-----------------------------------------------------------------------------
(* Prefixes, payloads and frames.                                           *)
LEMMA PrefixTyped == \A n \in Nat : Prefix(n) \in Tokens
  BY LinkAssumption DEF Prefix, Tokens

LEMMA PrefixReads ==
    ASSUME NEW n \in 0..MaxFrame
    PROVE  AsLength(Prefix(n)) = n
  <1>1. n % (MaxFrame + 1) = n
    BY LinkAssumption
  <1> QED BY <1>1 DEF AsLength, Prefix

LEMMA PrefixDistinct ==
    ASSUME NEW n \in 1..MaxFrame
    PROVE  Prefix(n) # Prefix(0)
  <1>1. AsLength(Prefix(n)) = n /\ AsLength(Prefix(0)) = 0
    BY PrefixReads, LinkAssumption
  <1> QED BY <1>1

LEMMA PayloadTyped ==
    ASSUME NEW p \in Packet
    PROVE  /\ p.size \in Nat /\ Payload(p) \in Seq(Tokens) /\ Len(Payload(p)) = p.size
  <1>1. p.size \in Nat /\ p.id \in Nat
    <2>1. p.size \in DownSizes \cup {1} /\ p.id \in 1..MaxPackets
      BY DEF Packet
    <2>2. DownSizes \cup {1} \subseteq Nat /\ 1..MaxPackets \subseteq Nat
      BY LinkAssumption
    <2> HIDE DEF Packet
    <2> QED BY <2>1, <2>2
  <1>2. \A i \in 1..p.size : [kind |-> "body", value |-> p.id] \in Tokens
    BY <1>1 DEF Tokens
  <1>3. Payload(p) \in [1..p.size -> Tokens]
    BY <1>2 DEF Payload
  <1> HIDE DEF Tokens
  <1>4. Payload(p) \in Seq(Tokens)
    BY <1>1, <1>3, SeqDef
  <1> QED BY <1>1, <1>3, <1>4, LenProperties

LEMMA FrameTyped ==
    ASSUME NEW p \in Seq(Tokens)
    PROVE  LET f == <<Prefix(Len(p))>> \o p IN
           /\ f \in Seq(Tokens) /\ Len(f) = Len(p) + 1 /\ Len(p) \in Nat
           /\ \A j \in 0..Len(p) : f[j + 1] = Token(p, j)
  <1>1. Len(p) \in Nat /\ Prefix(Len(p)) \in Tokens
    BY PrefixTyped, LenProperties
  <1> HIDE DEF Tokens
  <1>2. <<Prefix(Len(p))>> \in Seq(Tokens) /\ Len(<<Prefix(Len(p))>>) = 1
    BY <1>1
  <1> QED BY <1>1, <1>2, ConcatProperties DEF Token

-----------------------------------------------------------------------------
(* A frame more at the end of the stream. *)
LEMMA LaidFrame ==
    ASSUME NEW d, NEW s \in Seq(Tokens), NEW t, NEW f \in Nat, NEW to \in Nat, f <= to,
           NEW c \in Nat, NEW w,
           Laid(d, s, t, f, to, c, w), Whole(s, t, f, to, c, w),
           t[to + 1] \in Seq(Tokens), \A m \in (f + 1)..to : Len(t[m]) \in Nat
    PROVE  LET r == s \o (<<Prefix(Len(t[to + 1]))>> \o t[to + 1])
               x == [m \in (f + 1)..(to + 1) |-> IF m = to + 1 THEN Len(s) + 1 ELSE w[m]]
           IN Laid(d, r, t, f, to + 1, c, x) /\ Whole(r, t, f, to + 1, c, x)
  <1> DEFINE p == t[to + 1]
             a == <<Prefix(Len(p))>> \o p
             r == s \o a
             x == [m \in (f + 1)..(to + 1) |-> IF m = to + 1 THEN Len(s) + 1 ELSE w[m]]
  <1>1. /\ a \in Seq(Tokens) /\ Len(a) = Len(p) + 1 /\ Len(p) \in Nat
        /\ \A j \in 0..Len(p) : a[j + 1] = Token(p, j)
    BY FrameTyped
  <1> HIDE DEF a
  <1>2. /\ Len(s) \in Nat /\ Len(r) = Len(s) + Len(p) + 1
        /\ \A i \in 1..Len(s) : r[i] = s[i]
        /\ \A j \in 0..Len(p) : r[Len(s) + 1 + j] = Token(p, j)
    <2>1. /\ Len(s) \in Nat /\ Len(r) = Len(s) + Len(a)
          /\ \A i \in 1..Len(s) + Len(a) : r[i] = IF i <= Len(s) THEN s[i] ELSE a[i - Len(s)]
      BY <1>1, ConcatProperties, LenProperties
    <2>2. ASSUME NEW j \in 0..Len(p) PROVE r[Len(s) + 1 + j] = Token(p, j)
      <3>1. /\ Len(s) + 1 + j \in 1..Len(s) + Len(a) /\ ~(Len(s) + 1 + j <= Len(s))
            /\ Len(s) + 1 + j - Len(s) = j + 1
        BY <1>1, <2>1
      <3> QED BY <1>1, <2>1, <3>1
    <2>3. \A i \in 1..Len(s) : r[i] = s[i]
      <3>1. \A i \in 1..Len(s) : i \in 1..Len(s) + Len(a) /\ i <= Len(s)
        BY <1>1, <2>1
      <3> QED BY <2>1, <3>1
    <2>4. Len(r) = Len(s) + Len(p) + 1
      BY <1>1, <2>1
    <2> QED BY <2>1, <2>2, <2>3, <2>4
  <1> HIDE DEF r, p
  <1>3. /\ \A m \in (f + 1)..to : x[m] = w[m] /\ x[m] \in Nat /\ w[m] \in Nat
        /\ x[to + 1] = Len(s) + 1
        /\ x \in [(f + 1)..(to + 1) -> Nat]
    BY <1>2 DEF Laid
  <1>4. t[to + 1] = p
    BY DEF p
  <1> HIDE DEF x
  <1>5. \A m \in (f + 1)..to : w[m] + Len(t[m]) <= Len(s) /\ c <= Len(s) /\ c < w[m]
    BY DEF Whole, Laid
  <1>6. ASSUME NEW m \in (f + 1)..(to + 1)
        PROVE  /\ c < x[m] /\ x[m] + Len(t[m]) <= Len(r)
               /\ \A n \in (f + 1)..(to + 1) : m < n => x[m] + Len(t[m]) < x[n]
               /\ \A j \in 0..Len(t[m]) : x[m] + j <= Len(r) => r[x[m] + j] = Token(t[m], j)
    <2>1. CASE m = to + 1
      <3>1. x[m] = Len(s) + 1 /\ t[m] = p
        BY <1>3, <1>4, <2>1
      <3>2. \A n \in (f + 1)..(to + 1) : ~(m < n)
        BY <2>1
      <3>3. c < x[m] /\ x[m] + Len(p) <= Len(r)
        BY <1>1, <1>2, <1>5, <3>1 DEF Whole
      <3> QED BY <1>2, <3>1, <3>2, <3>3
    <2>2. CASE m \in (f + 1)..to
      <3>1. /\ w[m] \in Nat /\ Len(t[m]) \in Nat /\ x[m] = w[m]
            /\ c < w[m] /\ w[m] + Len(t[m]) <= Len(s)
        BY <1>3, <1>5, <2>2
      <3>2. ASSUME NEW n \in (f + 1)..(to + 1), m < n PROVE x[m] + Len(t[m]) < x[n]
        <4>1. CASE n = to + 1
          <5>1. x[n] = Len(s) + 1 /\ x[m] + Len(t[m]) <= Len(s)
            BY <1>3, <3>1, <4>1
          <5>2. x[m] + Len(t[m]) \in Nat
            BY <3>1
          <5>3. Len(s) \in Nat
            BY <1>2
          <5> QED BY <5>1, <5>2, <5>3
        <4>2. CASE n \in (f + 1)..to
          BY <1>3, <2>2, <3>1, <3>2, <4>2 DEF Laid
        <4> QED BY <4>1, <4>2
      <3>3. ASSUME NEW j \in 0..Len(t[m]) PROVE r[x[m] + j] = Token(t[m], j)
        <4>1. w[m] + j \in 1..Len(s)
          <5>1. \A i, l, n \in Nat : 0 < i /\ i + l <= n /\ j <= l => i + j \in 1..n
            OBVIOUS
          <5>2. 0 < w[m] /\ j <= Len(t[m])
            BY <3>1
          <5> QED BY <1>2, <3>1, <5>1, <5>2
        <4>2. w[m] + j <= Len(s)
          BY <1>2, <3>1, <4>1
        <4>3. s[w[m] + j] = Token(t[m], j)
          BY <2>2, <4>2 DEF Laid
        <4>4. r[w[m] + j] = s[w[m] + j]
          BY <1>2, <4>1
        <4> QED BY <3>1, <4>3, <4>4
      <3>4. x[m] + Len(t[m]) <= Len(r)
        BY <1>1, <1>2, <3>1
      <3> QED BY <3>1, <3>2, <3>3, <3>4
    <2> QED BY <2>1, <2>2
  <1>7. ASSUME NEW i \in 1..Len(r), c < i
        PROVE  \/ d = "down" /\ r[i] = Prefix(0)
               \/ \E m \in (f + 1)..(to + 1) : x[m] <= i /\ i <= x[m] + Len(t[m])
    <2>1. CASE i <= Len(s)
      <3>1. i \in 1..Len(s)
        BY <1>2, <2>1
      <3>2. \/ d = "down" /\ s[i] = Prefix(0)
            \/ \E m \in (f + 1)..to : w[m] <= i /\ i <= w[m] + Len(t[m])
        BY <1>7, <3>1 DEF Laid
      <3> QED BY <1>2, <1>3, <3>1, <3>2
    <2>2. CASE ~(i <= Len(s))
      <3>1. to + 1 \in (f + 1)..(to + 1)
        OBVIOUS
      <3>2. x[to + 1] <= i /\ i <= x[to + 1] + Len(p)
        BY <1>1, <1>2, <1>3, <2>2
      <3> QED BY <1>4, <3>1, <3>2
    <2> QED BY <2>1, <2>2
  <1>8. Laid(d, r, t, f, to + 1, c, x)
    BY <1>3, <1>6, <1>7 DEF Laid
  <1>9. Whole(r, t, f, to + 1, c, x)
    <2>1. c <= Len(s)
      BY DEF Whole
    <2>2. c <= Len(r)
      BY <1>1, <1>2, <2>1
    <2> QED BY <1>6, <2>2 DEF Whole
  <1> QED BY <1>8, <1>9 DEF r, x, a, p

(* An empty frame more: only a prefix. *)
LEMMA LaidEmpty ==
    ASSUME NEW s \in Seq(Tokens), NEW t, NEW f \in Nat, NEW to \in Nat, f <= to,
           NEW c \in Nat, NEW w,
           Laid("down", s, t, f, to, c, w), Whole(s, t, f, to, c, w),
           \A m \in (f + 1)..to : Len(t[m]) \in Nat
    PROVE  LET r == s \o <<Prefix(0)>> IN
           Laid("down", r, t, f, to, c, w) /\ Whole(r, t, f, to, c, w)
  <1> DEFINE r == s \o <<Prefix(0)>>
  <1>1. /\ Len(s) \in Nat /\ Len(r) = Len(s) + 1
        /\ \A i \in 1..Len(s) : r[i] = s[i]
        /\ r[Len(s) + 1] = Prefix(0)
    <2> HIDE DEF Tokens
    <2>1. <<Prefix(0)>> \in Seq(Tokens) /\ Len(<<Prefix(0)>>) = 1
      BY PrefixTyped
    <2> QED BY <2>1, ConcatProperties, LenProperties
  <1> HIDE DEF r
  <1>2. ASSUME NEW m \in (f + 1)..to
        PROVE  /\ w[m] + Len(t[m]) <= Len(r)
               /\ \A j \in 0..Len(t[m]) : r[w[m] + j] = Token(t[m], j)
    <2>1. /\ w[m] \in Nat /\ Len(t[m]) \in Nat
          /\ c < w[m] /\ w[m] + Len(t[m]) <= Len(s)
      BY DEF Laid, Whole
    <2>2. ASSUME NEW j \in 0..Len(t[m]) PROVE r[w[m] + j] = Token(t[m], j)
      <3>1. w[m] + j \in 1..Len(s) /\ w[m] + j <= Len(s)
        BY <1>1, <2>1
      <3>2. s[w[m] + j] = Token(t[m], j)
        BY <3>1 DEF Laid
      <3> QED BY <1>1, <3>1, <3>2
    <2>3. w[m] + Len(t[m]) <= Len(r)
      BY <1>1, <2>1
    <2> QED BY <2>2, <2>3
  <1>3. ASSUME NEW i \in 1..Len(r), c < i
        PROVE  \/ r[i] = Prefix(0)
               \/ \E m \in (f + 1)..to : w[m] <= i /\ i <= w[m] + Len(t[m])
    <2>1. CASE i \in 1..Len(s)
      BY <1>1, <1>3, <2>1 DEF Laid
    <2>2. CASE i = Len(s) + 1
      BY <1>1, <2>2
    <2>3. i \in 1..Len(s) \/ i = Len(s) + 1
      BY <1>1
    <2> QED BY <2>1, <2>2, <2>3
  <1>4. c <= Len(r)
    <2>1. c <= Len(s)
      BY DEF Whole
    <2> QED BY <1>1, <2>1
  <1> QED BY <1>2, <1>3, <1>4 DEF Laid, Whole, r

(* The first token leaves the stream.  Back(f, to, w) is where the frames   *)
(* that have not begun lie afterwards.                                      *)
Back(f, to, w) == [m \in (f + 1)..to |-> w[m] - 1]

LEMMA TailOf ==
    ASSUME NEW s \in Seq(Tokens), s # <<>>
    PROVE  /\ Tail(s) \in Seq(Tokens) /\ Len(s) \in Nat /\ Len(s) >= 1
           /\ Len(Tail(s)) = Len(s) - 1 /\ Head(s) = s[1]
           /\ \A i \in 1..(Len(s) - 1) : Tail(s)[i] = s[i + 1]
  <1>1. /\ Tail(s) \in Seq(Tokens) /\ Len(Tail(s)) = Len(s) - 1
        /\ \A i \in 1..Len(Tail(s)) : Tail(s)[i] = s[i + 1]
    BY HeadTailProperties
  <1>2. Len(s) \in Nat /\ Len(s) # 0
    BY EmptySeq, LenProperties
  <1> QED BY <1>1, <1>2

(* Frames g+1..to are those the first token is not part of. *)
LEMMA LaidTail ==
    ASSUME NEW d, NEW s \in Seq(Tokens), s # <<>>, NEW t,
           NEW f \in Nat, NEW g \in Nat, f <= g, NEW to \in Nat,
           NEW c \in Nat, NEW b \in Nat, c <= b + 1, NEW w,
           Laid(d, s, t, f, to, c, w),
           \A m \in (f + 1)..to : Len(t[m]) \in Nat,
           \A m \in (g + 1)..to : w[m] > b + 1,
           \A m \in (f + 1)..g : w[m] + Len(t[m]) <= b + 1
    PROVE  /\ Laid(d, Tail(s), t, g, to, b, Back(g, to, w))
           /\ Whole(s, t, f, to, c, w) /\ b < Len(s)
                => Whole(Tail(s), t, g, to, b, Back(g, to, w))
  <1> DEFINE x == Back(g, to, w)
  <1>1. /\ Tail(s) \in Seq(Tokens) /\ Len(s) \in Nat /\ Len(s) >= 1
        /\ Len(Tail(s)) = Len(s) - 1
        /\ \A i \in 1..(Len(s) - 1) : Tail(s)[i] = s[i + 1]
    BY TailOf
  <1>2. \A m \in (g + 1)..to : m \in (f + 1)..to
    OBVIOUS
  <1>3. \A m \in (g + 1)..to :
            /\ w[m] \in Nat /\ w[m] > b + 1 /\ x[m] = w[m] - 1 /\ x[m] \in Nat
            /\ Len(t[m]) \in Nat
    BY <1>2 DEF Laid, Back
  <1>4. x \in [(g + 1)..to -> Nat]
    BY <1>3 DEF Back
  <1> HIDE DEF x
  <1>5. ASSUME NEW m \in (g + 1)..to
        PROVE  /\ b < x[m]
               /\ \A n \in (g + 1)..to : m < n => x[m] + Len(t[m]) < x[n]
               /\ \A j \in 0..Len(t[m]) : x[m] + j <= Len(Tail(s))
                      => Tail(s)[x[m] + j] = Token(t[m], j)
    <2>1. /\ w[m] \in Nat /\ w[m] > b + 1 /\ x[m] = w[m] - 1
          /\ Len(t[m]) \in Nat
      BY <1>3
    <2>2. ASSUME NEW n \in (g + 1)..to, m < n PROVE x[m] + Len(t[m]) < x[n]
      <3>1. w[n] \in Nat /\ x[n] = w[n] - 1
        BY <1>3
      <3>2. w[m] + Len(t[m]) < w[n]
        BY <1>2, <2>2 DEF Laid
      <3>3. \A i, j, l \in Nat : i + l < j => i - 1 + l < j - 1
        OBVIOUS
      <3> QED BY <2>1, <3>1, <3>2, <3>3
    <2>3. ASSUME NEW j \in 0..Len(t[m]), x[m] + j <= Len(Tail(s))
          PROVE  Tail(s)[x[m] + j] = Token(t[m], j)
      <3>1. /\ x[m] + j \in 1..(Len(s) - 1) /\ x[m] + j + 1 = w[m] + j
            /\ w[m] + j <= Len(s)
        BY <1>1, <2>1, <2>3
      <3>2. s[w[m] + j] = Token(t[m], j)
        BY <1>2, <3>1 DEF Laid
      <3> QED BY <1>1, <3>1, <3>2
    <2>4. b < x[m]
      BY <2>1
    <2> QED BY <2>2, <2>3, <2>4
  <1>6. ASSUME NEW i \in 1..Len(Tail(s)), b < i
        PROVE  \/ d = "down" /\ Tail(s)[i] = Prefix(0)
               \/ \E m \in (g + 1)..to : x[m] <= i /\ i <= x[m] + Len(t[m])
    <2>1. i + 1 \in 1..Len(s) /\ c < i + 1 /\ Tail(s)[i] = s[i + 1]
      BY <1>1, <1>6
    <2>2. CASE d = "down" /\ s[i + 1] = Prefix(0)
      BY <2>1, <2>2
    <2>3. ASSUME NEW m \in (f + 1)..to, w[m] <= i + 1, i + 1 <= w[m] + Len(t[m])
          PROVE  \E n \in (g + 1)..to : x[n] <= i /\ i <= x[n] + Len(t[n])
      <3>1. m \notin (f + 1)..g
        BY <1>6, <2>3 DEF Laid
      <3>2. m \in (g + 1)..to
        BY <3>1
      <3>3. x[m] <= i /\ i <= x[m] + Len(t[m])
        <4>1. w[m] \in Nat /\ x[m] = w[m] - 1 /\ Len(t[m]) \in Nat
          BY <1>3, <3>2
        <4>2. \A k, j, l \in Nat : k <= j + 1 /\ j + 1 <= k + l => k - 1 <= j /\ j <= k - 1 + l
          OBVIOUS
        <4> QED BY <2>3, <4>1, <4>2
      <3> QED BY <3>2, <3>3
    <2> QED BY <2>1, <2>2, <2>3 DEF Laid
  <1>7. ASSUME Whole(s, t, f, to, c, w), b < Len(s)
        PROVE  Whole(Tail(s), t, g, to, b, x)
    <2>1. b <= Len(Tail(s))
      BY <1>1, <1>7
    <2>2. ASSUME NEW m \in (g + 1)..to PROVE x[m] + Len(t[m]) <= Len(Tail(s))
      <3>1. w[m] + Len(t[m]) <= Len(s)
        BY <1>2, <1>7 DEF Whole
      <3> QED BY <1>1, <1>3, <3>1
    <2> QED BY <2>1, <2>2 DEF Whole
  <1> QED BY <1>4, <1>5, <1>6, <1>7 DEF Laid, x

(* A reader at the head of a frame finds the next packet's prefix, or on    *)
(* the way down that of an empty frame.                                     *)
AtPrefix(d, s, t, f, to, w) ==
    \/ /\ d = "down" /\ Head(s) = Prefix(0)
       /\ \A m \in (f + 1)..to : w[m] > 1
    \/ f + 1 <= to /\ w[f + 1] = 1 /\ Head(s) = Prefix(Len(t[f + 1]))

LEMMA HeadOfLaid ==
    ASSUME NEW d, NEW s \in Seq(Tokens), s # <<>>, NEW t, NEW f \in Nat, NEW to \in Nat, NEW w,
           Laid(d, s, t, f, to, 0, w),
           \A m \in (f + 1)..to : Len(t[m]) \in 1..MaxFrame
    PROVE  AtPrefix(d, s, t, f, to, w)
  <1>1. 1 \in 1..Len(s) /\ Head(s) = s[1]
    BY TailOf
  <1>2. \A m \in (f + 1)..to : w[m] \in Nat /\ w[m] >= 1 /\ Len(t[m]) \in Nat
    BY LinkAssumption DEF Laid
  <1>3. \A m \in (f + 1)..to : w[m] = 1 => s[1] = Prefix(Len(t[m]))
    <2>1. ASSUME NEW m \in (f + 1)..to, w[m] = 1 PROVE s[1] = Prefix(Len(t[m]))
      <3>1. 0 \in 0..Len(t[m]) /\ w[m] + 0 = 1 /\ w[m] + 0 <= Len(s)
        BY <1>1, <1>2, <2>1
      <3>2. s[w[m] + 0] = Token(t[m], 0)
        BY <3>1 DEF Laid
      <3> QED BY <3>1, <3>2 DEF Token
    <2> QED BY <2>1
  <1>4. CASE \E m \in (f + 1)..to : w[m] = 1
    <2>1. PICK m \in (f + 1)..to : w[m] = 1
      BY <1>4
    <2>2. f + 1 \in (f + 1)..to
      OBVIOUS
    <2>3. f + 1 < m => w[f + 1] + Len(t[f + 1]) < w[m]
      BY <2>2 DEF Laid
    <2>4. m = f + 1
      BY <1>2, <2>1, <2>2, <2>3
    <2> QED BY <1>1, <1>3, <2>1, <2>2, <2>4 DEF AtPrefix
  <1>5. CASE \A m \in (f + 1)..to : w[m] # 1
    <2>1. \A m \in (f + 1)..to : w[m] > 1
      BY <1>2, <1>5
    <2>2. d = "down" /\ s[1] = Prefix(0)
      BY <1>1, <2>1 DEF Laid
    <2> QED BY <1>1, <2>1, <2>2 DEF AtPrefix
  <1> QED BY <1>4, <1>5

LEMMA StartOfConcat ==
    ASSUME NEW S, NEW r \in Seq(S), NEW u \in Seq(S)
    PROVE  /\ Len(r) \in Nat /\ Len(r \o u) \in Nat /\ Len(r) <= Len(r \o u)
           /\ \A i \in 1..Len(r) : (r \o u)[i] = r[i]
  BY ConcatProperties, LenProperties

(* The stream cut short behind a token. *)
LEMMA LaidShort ==
    ASSUME NEW d, NEW r \in Seq(Tokens), NEW u \in Seq(Tokens), NEW t,
           NEW f \in Nat, NEW to \in Nat, NEW c \in Nat, NEW w,
           Laid(d, r \o u, t, f, to, c, w),
           \A m \in (f + 1)..to : Len(t[m]) \in Nat
    PROVE  Laid(d, r, t, f, to, c, w)
  <1> DEFINE s == r \o u
  <1>1. /\ Len(r) \in Nat /\ Len(s) \in Nat /\ Len(r) <= Len(s)
        /\ \A i \in 1..Len(r) : s[i] = r[i]
    BY StartOfConcat
  <1>2. Laid(d, s, t, f, to, c, w)
    OBVIOUS
  <1> HIDE DEF s
  <1>3. ASSUME NEW m \in (f + 1)..to, NEW j \in 0..Len(t[m]), w[m] + j <= Len(r)
        PROVE  r[w[m] + j] = Token(t[m], j)
    <2>1. w[m] \in Nat /\ w[m] > c /\ Len(t[m]) \in Nat
      BY <1>2 DEF Laid
    <2>2. w[m] + j \in 1..Len(r) /\ w[m] + j <= Len(s)
      BY <1>1, <1>3, <2>1
    <2>3. s[w[m] + j] = Token(t[m], j)
      BY <1>2, <2>2 DEF Laid
    <2> QED BY <1>1, <2>2, <2>3
  <1>4. ASSUME NEW i \in 1..Len(r), c < i
        PROVE  \/ d = "down" /\ r[i] = Prefix(0)
               \/ \E m \in (f + 1)..to : w[m] <= i /\ i <= w[m] + Len(t[m])
    <2>1. i \in 1..Len(s) /\ s[i] = r[i]
      BY <1>1
    <2> QED BY <1>2, <1>4, <2>1 DEF Laid
  <1> QED BY <1>2, <1>3, <1>4 DEF Laid

(* A packet more is taken. *)
LEMMA LaidTaken ==
    ASSUME NEW d, NEW s, NEW t, NEW p, NEW f, NEW to, NEW c, NEW w,
           \A m \in (f + 1)..to : p[m] = t[m]
    PROVE  /\ Laid(d, s, t, f, to, c, w) => Laid(d, s, p, f, to, c, w)
           /\ Whole(s, t, f, to, c, w) => Whole(s, p, f, to, c, w)
  BY DEF Laid, Whole

-----------------------------------------------------------------------------
(* The queue. *)
LEMMA NothingQueued ==
    ASSUME NEW t, Len(t) \in Nat, NEW f \in Nat
    PROVE  /\ f = Len(t) => \E v : Queued(<<>>, t, f, v)
           /\ \A v : Queued(<<>>, t, f, v) => f >= Len(t)
  <1>1. ASSUME f = Len(t) PROVE Queued(<<>>, t, f, [m \in (f + 1)..Len(t) |-> 0])
    BY <1>1 DEF Queued
  <1>2. ASSUME NEW v, Queued(<<>>, t, f, v), f < Len(t) PROVE FALSE
    <2>1. f + 1 \in (f + 1)..Len(t)
      BY <1>2
    <2>2. v[f + 1] \in 1..Len(<<>>)
      BY <1>2, <2>1 DEF Queued
    <2> QED BY <2>2
  <1> QED BY <1>1, <1>2

LEMMA QueuedMore ==
    ASSUME NEW q \in Seq(Packet), NEW t \in Seq(Seq(Tokens)), NEW f \in Nat, f <= Len(t),
           NEW v, Queued(q, t, f, v), NEW p \in Packet
    PROVE  \E x : Queued(Append(q, p), IF Fits(p) THEN Append(t, Payload(p)) ELSE t, f, x)
  <1> DEFINE r == Append(q, p)
             u == Append(t, Payload(p))
  <1>1. /\ Len(q) \in Nat /\ Len(r) = Len(q) + 1 /\ r[Len(q) + 1] = p
        /\ \A i \in 1..Len(q) : r[i] = q[i]
    BY AppendProperties, LenProperties
  <1>2. /\ Len(t) \in Nat /\ Len(u) = Len(t) + 1 /\ u[Len(t) + 1] = Payload(p)
        /\ \A m \in 1..Len(t) : u[m] = t[m]
    BY PayloadTyped, AppendProperties, LenProperties
  <1> HIDE DEF r, u
  <1>3. CASE Fits(p)
    <2> DEFINE x == [m \in (f + 1)..Len(u) |-> IF m = Len(u) THEN Len(r) ELSE v[m]]
    <2>1. \A m \in (f + 1)..Len(t) : m \in (f + 1)..Len(u) /\ m # Len(u) /\ m \in 1..Len(t)
      BY <1>2
    <2>2. \A m \in (f + 1)..Len(t) : x[m] = v[m] /\ v[m] \in 1..Len(q)
      BY <1>2, <2>1 DEF Queued
    <2>3. x[Len(u)] = Len(r) /\ Len(u) \in (f + 1)..Len(u)
      BY <1>2
    <2>4. \A m \in (f + 1)..Len(u) : m = Len(u) \/ m \in (f + 1)..Len(t)
      BY <1>2
    <2>5. x \in [(f + 1)..Len(u) -> 1..Len(r)]
      <3>1. \A m \in (f + 1)..Len(t) : x[m] \in 1..Len(r)
        <4>1. 1..Len(q) \subseteq 1..Len(r)
          BY <1>1
        <4> QED BY <2>2, <4>1
      <3>2. x[Len(u)] \in 1..Len(r)
        BY <1>1, <2>3
      <3>3. \A m \in (f + 1)..Len(u) : x[m] \in 1..Len(r)
        BY <2>4, <3>1, <3>2
      <3> QED BY <3>3
    <2> HIDE DEF x
    <2>6. ASSUME NEW m \in (f + 1)..Len(u)
          PROVE  /\ Fits(r[x[m]]) /\ u[m] = Payload(r[x[m]])
                 /\ \A n \in (f + 1)..Len(u) : m < n => x[m] < x[n]
      <3>1. CASE m = Len(u)
        BY <1>1, <1>2, <1>3, <2>3, <3>1
      <3>2. CASE m \in (f + 1)..Len(t)
        <4>1. r[x[m]] = q[v[m]] /\ u[m] = t[m]
          BY <1>1, <1>2, <2>1, <2>2, <3>2
        <4>2. Fits(q[v[m]]) /\ t[m] = Payload(q[v[m]])
          BY <3>2 DEF Queued
        <4>3. ASSUME NEW n \in (f + 1)..Len(u), m < n PROVE x[m] < x[n]
          <5>1. CASE n = Len(u)
            <6>1. x[m] \in 1..Len(q) /\ x[n] = Len(q) + 1
              BY <1>1, <2>2, <2>3, <3>2, <5>1
            <6> QED BY <1>1, <6>1
          <5>2. CASE n \in (f + 1)..Len(t)
            BY <2>2, <3>2, <4>3, <5>2 DEF Queued
          <5> QED BY <2>4, <5>1, <5>2
        <4> QED BY <4>1, <4>2, <4>3
      <3> QED BY <2>4, <3>1, <3>2
    <2>7. ASSUME NEW i \in 1..Len(r), Fits(r[i])
          PROVE  \E m \in (f + 1)..Len(u) : x[m] = i
      <3>1. CASE i = Len(r)
        BY <2>3, <3>1
      <3>2. CASE i \in 1..Len(q)
        <4>1. Fits(q[i])
          BY <1>1, <2>7, <3>2
        <4>2. PICK m \in (f + 1)..Len(t) : v[m] = i
          BY <3>2, <4>1 DEF Queued
        <4> QED BY <2>1, <2>2, <4>2
      <3> QED BY <1>1, <3>1, <3>2
    <2>8. Queued(r, u, f, x)
      BY <2>5, <2>6, <2>7 DEF Queued
    <2> QED BY <1>3, <2>8 DEF r, u
  <1>4. CASE ~Fits(p)
    <2>1. Queued(r, t, f, v)
      <3>1. v \in [(f + 1)..Len(t) -> 1..Len(q)]
        BY DEF Queued
      <3>2. \A m \in (f + 1)..Len(t) : v[m] \in 1..Len(q) /\ v[m] \in 1..Len(r)
        <4>1. 1..Len(q) \subseteq 1..Len(r)
          BY <1>1
        <4> QED BY <3>1, <4>1
      <3>3. v \in [(f + 1)..Len(t) -> 1..Len(r)]
        BY <3>1, <3>2
      <3>4. \A m \in (f + 1)..Len(t) : r[v[m]] = q[v[m]]
        BY <1>1, <3>2
      <3>5. \A i \in 1..Len(r) : Fits(r[i]) => i \in 1..Len(q) /\ Fits(q[i])
        BY <1>1, <1>4
      <3> QED BY <3>3, <3>4, <3>5 DEF Queued
    <2> QED BY <1>4, <2>1 DEF r
  <1> QED BY <1>3, <1>4

LEMMA QueuedLess ==
    ASSUME NEW q \in Seq(Packet), q # <<>>, NEW t, Len(t) \in Nat, NEW f \in Nat,
           NEW v, Queued(q, t, f, v)
    PROVE  IF Fits(Head(q))
             THEN /\ f + 1 <= Len(t) /\ t[f + 1] = Payload(Head(q))
                  /\ \E x : Queued(Tail(q), t, f + 1, x)
             ELSE \E x : Queued(Tail(q), t, f, x)
  <1> DEFINE r == Tail(q)
             Less(g) == [m \in (g + 1)..Len(t) |-> v[m] - 1]
  <1>1. /\ Len(q) \in Nat /\ Len(q) >= 1 /\ Len(r) = Len(q) - 1 /\ Head(q) = q[1]
        /\ \A i \in 1..Len(r) : r[i] = q[i + 1]
    <2>1. Len(q) \in Nat /\ Len(q) # 0
      BY EmptySeq, LenProperties
    <2> QED BY <2>1, HeadTailProperties
  <1> HIDE DEF r
  <1>2. \A m \in (f + 1)..Len(t) : v[m] \in 1..Len(q)
    BY DEF Queued
  <1>3. ASSUME NEW g \in {f, f + 1}, \A m \in (g + 1)..Len(t) : v[m] > 1,
               \A m \in (f + 1)..Len(t) : v[m] > 1 => m \in (g + 1)..Len(t)
        PROVE  Queued(r, t, g, Less(g))
    <2> DEFINE x == Less(g)
    <2>1. \A m \in (g + 1)..Len(t) : m \in (f + 1)..Len(t)
      OBVIOUS
    <2>2. \A m \in (g + 1)..Len(t) :
            /\ v[m] \in Nat /\ v[m] > 1 /\ x[m] = v[m] - 1 /\ x[m] \in 1..Len(r)
            /\ r[x[m]] = q[v[m]]
      <3>1. ASSUME NEW m \in (g + 1)..Len(t)
            PROVE  /\ v[m] \in Nat /\ v[m] > 1 /\ x[m] = v[m] - 1 /\ x[m] \in 1..Len(r)
                   /\ r[x[m]] = q[v[m]]
        <4>1. v[m] \in 1..Len(q) /\ v[m] > 1 /\ x[m] = v[m] - 1
          BY <1>2, <1>3, <2>1
        <4>2. x[m] \in 1..Len(r) /\ x[m] + 1 = v[m]
          BY <1>1, <4>1
        <4> QED BY <1>1, <4>1, <4>2
      <3> QED BY <3>1
    <2>3. x \in [(g + 1)..Len(t) -> 1..Len(r)]
      BY <2>2
    <2> HIDE DEF x
    <2>4. ASSUME NEW m \in (g + 1)..Len(t)
          PROVE  /\ Fits(r[x[m]]) /\ t[m] = Payload(r[x[m]])
                 /\ \A n \in (g + 1)..Len(t) : m < n => x[m] < x[n]
      <3>1. Fits(q[v[m]]) /\ t[m] = Payload(q[v[m]])
        BY <2>1 DEF Queued
      <3>2. ASSUME NEW n \in (g + 1)..Len(t), m < n PROVE x[m] < x[n]
        <4>1. v[m] < v[n]
          BY <2>1, <3>2 DEF Queued
        <4> QED BY <2>2, <4>1
      <3> QED BY <2>2, <3>1, <3>2
    <2>5. ASSUME NEW i \in 1..Len(r), Fits(r[i])
          PROVE  \E m \in (g + 1)..Len(t) : x[m] = i
      <3>1. i + 1 \in 1..Len(q) /\ Fits(q[i + 1])
        BY <1>1, <2>5
      <3>2. PICK m \in (f + 1)..Len(t) : v[m] = i + 1
        BY <3>1 DEF Queued
      <3>3. m \in (g + 1)..Len(t)
        BY <1>3, <3>2
      <3> QED BY <2>2, <3>2, <3>3
    <2>6. Queued(r, t, g, x)
      BY <2>3, <2>4, <2>5 DEF Queued
    <2> QED BY <2>6 DEF x
  <1> HIDE DEF Less
  <1>4. CASE Fits(Head(q))
    <2>1. 1 \in 1..Len(q) /\ Fits(q[1])
      BY <1>1, <1>4
    <2>2. PICK m \in (f + 1)..Len(t) : v[m] = 1
      BY <2>1 DEF Queued
    <2>3. f + 1 \in (f + 1)..Len(t)
      OBVIOUS
    <2>4. f + 1 < m => v[f + 1] < v[m]
      BY <2>3 DEF Queued
    <2>5. m = f + 1
      BY <1>2, <2>2, <2>3, <2>4
    <2>6. t[f + 1] = Payload(Head(q))
      BY <1>1, <2>2, <2>5 DEF Queued
    <2>7. ASSUME NEW n \in (f + 1 + 1)..Len(t) PROVE v[n] > 1
      <3>1. n \in (f + 1)..Len(t) /\ f + 1 < n
        OBVIOUS
      <3>2. v[f + 1] < v[n]
        BY <2>3, <3>1 DEF Queued
      <3> QED BY <1>2, <2>2, <2>5, <3>1, <3>2
    <2>8. \A n \in (f + 1)..Len(t) : v[n] > 1 => n \in (f + 1 + 1)..Len(t)
      BY <2>2, <2>5
    <2>9. Queued(r, t, f + 1, Less(f + 1))
      BY <1>3, <2>7, <2>8
    <2> QED BY <1>4, <2>3, <2>6, <2>9 DEF r
  <1>5. CASE ~Fits(Head(q))
    <2>1. ASSUME NEW m \in (f + 1)..Len(t) PROVE v[m] > 1
      <3>1. Fits(q[v[m]]) /\ v[m] \in 1..Len(q)
        BY <1>2 DEF Queued
      <3>2. v[m] # 1
        BY <1>1, <1>5, <3>1
      <3> QED BY <3>1, <3>2
    <2>2. Queued(r, t, f, Less(f))
      BY <1>3, <2>1
    <2> QED BY <1>5, <2>2 DEF r
  <1> QED BY <1>4, <1>5

-----------------------------------------------------------------------------
(* What one direction is made of. *)
LEMMA HeadTailConcat ==
    ASSUME NEW S, NEW a \in Seq(S), a # <<>>, NEW b \in Seq(S)
    PROVE  /\ a \o b \in Seq(S) /\ a \o b # <<>>
           /\ Head(a \o b) = Head(a) /\ Tail(a \o b) = Tail(a) \o b
  <1>1. /\ a = <<Head(a)>> \o Tail(a) /\ Head(a) \in S /\ Tail(a) \in Seq(S)
        /\ <<Head(a)>> \in Seq(S)
    OBVIOUS
  <1>2. a \o b = <<Head(a)>> \o (Tail(a) \o b)
    BY <1>1, ConcatAssociative
  <1>3. Tail(a) \o b \in Seq(S)
    BY <1>1, ConcatProperties
  <1>4. \A h \in S, u \in Seq(S) :
            /\ <<h>> \o u \in Seq(S) /\ <<h>> \o u # <<>>
            /\ Head(<<h>> \o u) = h /\ Tail(<<h>> \o u) = u
    OBVIOUS
  <1> QED BY <1>1, <1>2, <1>3, <1>4

LEMMA ConcatAppend ==
    ASSUME NEW S, NEW a \in Seq(S), NEW b \in Seq(S), NEW e \in S
    PROVE  a \o Append(b, e) = Append(a \o b, e)
  <1>1. <<e>> \in Seq(S) /\ a \o b \in Seq(S)
    BY ConcatProperties
  <1>2. Append(b, e) = b \o <<e>> /\ Append(a \o b, e) = (a \o b) \o <<e>>
    BY <1>1, AppendIsConcat
  <1> QED BY <1>1, <1>2, ConcatAssociative

LEMMA MoveHead ==
    ASSUME NEW S, NEW a \in Seq(S), NEW b \in Seq(S), b # <<>>
    PROVE  Append(a, Head(b)) \o Tail(b) = a \o b
  <1>1. /\ Head(b) \in S /\ Tail(b) \in Seq(S) /\ <<Head(b)>> \in Seq(S)
        /\ b = <<Head(b)>> \o Tail(b)
    OBVIOUS
  <1>2. Append(a, Head(b)) = a \o <<Head(b)>>
    BY <1>1, AppendIsConcat
  <1> QED BY <1>1, <1>2, ConcatAssociative

LEMMA PipeTyped ==
    ASSUME TypesOK, NEW d \in Direction
    PROVE  /\ tcp[d] \in Seq(Tokens) /\ writer[d].left \in Seq(Tokens)
           /\ Stream(d) \in Seq(Tokens) /\ Len(Stream(d)) \in Nat
           /\ reader[d].at \in {"head", "body", "put", "done"}
           /\ reader[d].need \in Nat /\ reader[d].frame \in Seq(Tokens)
           /\ Len(reader[d].frame) \in Nat
           /\ taken[d] \in Seq(Seq(Tokens)) /\ Len(taken[d]) \in Nat
           /\ Out(d) \in Seq(Seq(Tokens)) /\ Len(Out(d)) \in Nat
           /\ Due(d) \in Nat /\ Begun(d) \in Nat
  <1> HIDE DEF Tokens
  <1>1. /\ tcp[d] \in Seq(Tokens) /\ writer[d].left \in Seq(Tokens)
        /\ reader[d].at \in {"head", "body", "put", "done"}
        /\ reader[d].need \in Nat /\ reader[d].frame \in Seq(Tokens)
    BY DEF TypesOK
  <1>2. taken[d] \in Seq(Seq(Tokens)) /\ given[d] \in Seq(Seq(Tokens))
          /\ incoming \in Seq(Seq(Tokens))
    BY DEF TypesOK
  <1>3. Stream(d) \in Seq(Tokens) /\ Out(d) \in Seq(Seq(Tokens))
    BY <1>1, <1>2, ConcatProperties DEF Stream, Out, Direction
  <1>4. Len(Stream(d)) \in Nat /\ Len(reader[d].frame) \in Nat /\ Len(taken[d]) \in Nat
          /\ Len(Out(d)) \in Nat
    BY <1>1, <1>2, <1>3, LenProperties
  <1> QED BY <1>1, <1>2, <1>3, <1>4 DEF Due, Begun

LEMMA TakenTyped ==
    ASSUME TypesOK, SizesOK, NEW d \in Direction
    PROVE  \A m \in 1..Len(taken[d]) :
             /\ taken[d][m] \in Seq(Tokens) /\ Len(taken[d][m]) \in 1..MaxFrame
             /\ Len(taken[d][m]) \in Nat
  <1>1. \A m \in 1..Len(taken[d]) : taken[d][m] \in Seq(Tokens)
    BY PipeTyped, ElementOfSeq
  <1>2. \A n \in 1..MaxFrame : n \in Nat
    BY LinkAssumption
  <1> QED BY <1>1, <1>2 DEF SizesOK

LEMMA RestTyped ==
    ASSUME TypesOK, NEW d \in Direction, PipeOK(d), Live(d)
    PROVE  Rest(d) \in Nat
  <1>1. reader[d].need \in Nat /\ Len(reader[d].frame) \in Nat
    BY PipeTyped
  <1>2. reader[d].at = "body" => Len(reader[d].frame) < reader[d].need
    BY DEF PipeOK, ReaderOK
  <1> QED BY <1>1, <1>2 DEF Rest

(* A direction nothing has been read from, taken in or put out in.          *)
LEMMA SamePipe ==
    ASSUME NEW d \in Direction, PipeOK(d),
           Out(d)' = Out(d), taken[d]' = taken[d], reader[d]' = reader[d],
           Live(d)' => Live(d),
           Live(d)' /\ ~cut' =>
               /\ ~cut /\ Stream(d)' = Stream(d)
               /\ writer[d].at' # "done" => writer[d].at # "done" /\ Queue(d)' = Queue(d)
    PROVE  PipeOK(d)'
  <1>1. /\ Begun(d)' = Begun(d) /\ Rest(d)' = Rest(d) /\ Due(d)' = Due(d)
    BY DEF Begun, Rest, Due, Holds
  <1>2. OutOK(d)' /\ ReaderOK(d)'
    BY <1>1 DEF PipeOK, OutOK, ReaderOK
  <1>3. ASSUME Live(d)', ~cut', reader[d].at' # "done"
        PROVE  RestOK(d)' /\ \E to, w : InFlight(d, to, w)'
    <2>1. RestOK(d) /\ \E to, w : InFlight(d, to, w)
      BY <1>3 DEF PipeOK, FlowOK
    <2>2. RestOK(d)'
      BY <1>1, <1>3, <2>1 DEF RestOK
    <2>3. \A to, w : InFlight(d, to, w) => InFlight(d, to, w)'
      BY <1>1, <1>3 DEF InFlight
    <2> QED BY <2>1, <2>2, <2>3
  <1>4. FlowOK(d)'
    BY <1>3 DEF FlowOK
  <1> QED BY <1>2, <1>4 DEF PipeOK

(* A direction whose reader has ended. *)
LEMMA EndedPipe ==
    ASSUME NEW d \in Direction, PipeOK(d),
           Out(d)' = Out(d), taken[d]' = taken[d], reader[d].at' = "done"
    PROVE  PipeOK(d)'
  BY DEF PipeOK, OutOK, ReaderOK, FlowOK, Due

(* A direction whose writer ends, maybe in the middle of a frame.           *)
LEMMA CutShortPipe ==
    ASSUME NEW d \in Direction, TypesOK, SizesOK, PipeOK(d),
           Out(d)' = Out(d), taken[d]' = taken[d], reader[d]' = reader[d],
           Live(d)' => Live(d), ~cut' => ~cut,
           tcp[d]' = tcp[d], writer[d]' = [at |-> "done", left |-> <<>>]
    PROVE  PipeOK(d)'
  <1>1. /\ Begun(d)' = Begun(d) /\ Rest(d)' = Rest(d) /\ Due(d)' = Due(d)
    BY DEF Begun, Rest, Due, Holds
  <1>2. OutOK(d)' /\ ReaderOK(d)'
    BY <1>1 DEF PipeOK, OutOK, ReaderOK
  <1>3. /\ tcp[d] \in Seq(Tokens) /\ writer[d].left \in Seq(Tokens)
        /\ Stream(d)' = tcp[d]
        /\ writer[d].at' = "done"
    <2>1. tcp[d] \in Seq(Tokens) /\ writer[d].left \in Seq(Tokens)
      BY PipeTyped
    <2> HIDE DEF Tokens
    <2> QED BY <2>1, ConcatEmptySeq DEF Stream
  <1>4. ASSUME Live(d)', ~cut', reader[d].at' # "done"
        PROVE  RestOK(d)' /\ \E to, w : InFlight(d, to, w)'
    <2>1. RestOK(d) /\ \E to, w : InFlight(d, to, w)
      BY <1>4 DEF PipeOK, FlowOK
    <2>2. /\ Len(tcp[d]) \in Nat /\ Len(Stream(d)) \in Nat /\ Len(tcp[d]) <= Len(Stream(d))
          /\ \A i \in 1..Len(tcp[d]) : Stream(d)[i] = tcp[d][i]
      BY <1>3, StartOfConcat DEF Stream
    <2>3. Rest(d) \in Int
      BY PipeTyped DEF Rest
    <2>4. RestOK(d)'
      <3>1. ASSUME NEW j \in 1..Rest(d), j <= Len(tcp[d])
            PROVE  tcp[d][j] = taken[d][Due(d)][Len(reader[d].frame) + j]
        <4>1. j \in 1..Len(tcp[d]) /\ j <= Len(Stream(d))
          BY <2>2, <2>3, <3>1
        <4> QED BY <2>1, <2>2, <4>1 DEF RestOK
      <3> QED BY <1>1, <1>3, <3>1 DEF RestOK
    <2>5. PICK to, w : InFlight(d, to, w)
      BY <2>1
    <2>6. /\ to \in Begun(d)..Len(taken[d]) /\ to \in Nat /\ Begun(d) \in Nat
          /\ \A m \in (Begun(d) + 1)..to : Len(taken[d][m]) \in Nat
      <3>1. to \in Begun(d)..Len(taken[d]) /\ Begun(d) \in Nat /\ Len(taken[d]) \in Nat
        BY <2>5, PipeTyped DEF InFlight
      <3>2. \A m \in (Begun(d) + 1)..to : m \in 1..Len(taken[d])
        BY <3>1
      <3> QED BY <3>1, <3>2, TakenTyped
    <2>7. Rest(d) \in Nat
      BY <1>4, RestTyped
    <2>8. Laid(d, tcp[d], taken[d], Begun(d), to, Rest(d), w)
      BY <1>3, <2>5, <2>6, <2>7, LaidShort DEF InFlight, Stream
    <2>9. InFlight(d, to, w)'
      BY <1>1, <1>3, <2>6, <2>8 DEF InFlight
    <2> QED BY <2>4, <2>9
  <1>5. FlowOK(d)'
    BY <1>4 DEF FlowOK
  <1> QED BY <1>2, <1>5 DEF PipeOK

-----------------------------------------------------------------------------
(* A token leaves the stream of a direction and enters the frame the reader *)
(* is at.                                                                   *)
LEMMA ReadPipe ==
    ASSUME NEW d \in Direction, TypesOK, SizesOK, EndsOK, PipeOK(d), ReadToken(d)
    PROVE  PipeOK(d)'
  <1> DEFINE s == Stream(d)
             t == taken[d]
             f == Begun(d)
             c == Rest(d)
  <1>1. /\ reader[d].at \in {"head", "body"} /\ ~cut /\ tcp[d] # <<>>
        /\ tcp' = [tcp EXCEPT ![d] = Tail(@)]
        /\ UNCHANGED <<desktopVars, cut, writer, phoneVars, historyVars>>
    BY DEF ReadToken, ReadFails
  <1>2. /\ Out(d)' = Out(d) /\ taken[d]' = taken[d] /\ writer[d]' = writer[d]
        /\ Live(d)' = Live(d) /\ Queue(d)' = Queue(d) /\ cut' = cut
        /\ Due(d)' = Due(d)
    BY <1>1 DEF historyVars, phoneVars, Out, Live, Queue, Due
  <1>3. /\ s \in Seq(Tokens) /\ s # <<>> /\ Head(s) = Head(tcp[d])
        /\ Stream(d)' = Tail(s)
    <2>1. tcp[d] \in Seq(Tokens) /\ writer[d].left \in Seq(Tokens)
      BY PipeTyped
    <2>2. tcp'[d] = Tail(tcp[d])
      BY <1>1 DEF TypesOK
    <2>3. Stream(d)' = Tail(tcp[d]) \o writer[d].left
      BY <1>2, <2>2 DEF Stream
    <2>4. s = tcp[d] \o writer[d].left
      BY DEF Stream
    <2> HIDE DEF Tokens, s
    <2>5. /\ tcp[d] \o writer[d].left \in Seq(Tokens) /\ tcp[d] \o writer[d].left # <<>>
          /\ Head(tcp[d] \o writer[d].left) = Head(tcp[d])
          /\ Tail(tcp[d] \o writer[d].left) = Tail(tcp[d]) \o writer[d].left
      <3> DEFINE a == tcp[d]
                 b == writer[d].left
      <3>1. a \in Seq(Tokens) /\ b \in Seq(Tokens) /\ a # <<>>
        BY <1>1, <2>1
      <3> HIDE DEF a, b
      <3>2. /\ a \o b \in Seq(Tokens) /\ a \o b # <<>>
            /\ Head(a \o b) = Head(a) /\ Tail(a \o b) = Tail(a) \o b
        BY <3>1, HeadTailConcat
      <3> QED BY <3>2 DEF a, b
    <2> QED BY <2>3, <2>4, <2>5
  <1>4. /\ Len(s) \in Nat /\ Len(s) >= 1 /\ Len(Tail(s)) = Len(s) - 1 /\ Head(s) = s[1]
        /\ \A i \in 1..(Len(s) - 1) : Tail(s)[i] = s[i + 1]
    BY <1>3, TailOf
  <1>5. OutOK(d)'
    BY <1>2 DEF PipeOK, OutOK
  <1>6. CASE ~Live(d)
    BY <1>2, <1>5, <1>6 DEF PipeOK, ReaderOK, FlowOK
  <1>7. ASSUME Live(d) PROVE ReaderOK(d)' /\ FlowOK(d)'
    <2>1. /\ RestOK(d) /\ \E to, w : InFlight(d, to, w)
      BY <1>1, <1>7 DEF PipeOK, FlowOK
    <2>2. PICK to, w : InFlight(d, to, w)
      BY <2>1
    <2>3. /\ to \in f..Len(t) /\ to \in Nat /\ f \in Nat /\ f <= to /\ Len(t) \in Nat
          /\ Len(Out(d)) \in Nat /\ Due(d) = Len(Out(d)) + 1
      BY <2>2, PipeTyped DEF InFlight, Due
    <2>4. \A m \in (f + 1)..to : Len(t[m]) \in 1..MaxFrame /\ Len(t[m]) \in Nat
      BY <2>3, TakenTyped
    <2>5. Laid(d, s, t, f, to, c, w)
      BY <2>2 DEF InFlight
    <2>6. writer[d].at # "done" =>
            Whole(s, t, f, to, c, w) /\ \E v : Queued(Queue(d), t, to, v)
      BY <2>2 DEF InFlight
    <2>7. reader' = [reader EXCEPT ![d] =
              IF reader[d].at = "head" THEN AfterPrefix(AsLength(Head(s)))
              ELSE [reader[d] EXCEPT !.frame = Append(reader[d].frame, Head(s)),
                             !.at = IF Len(Append(reader[d].frame, Head(s))) = reader[d].need
                                      THEN "put" ELSE "body"]]
      BY <1>3 DEF ReadToken
    <2>8. ASSUME NEW g \in Nat, g \in f..to, NEW b \in Nat, c <= b + 1,
                 Begun(d)' = g, Rest(d)' = b,
                 \A m \in (g + 1)..to : w[m] > b + 1,
                 \A m \in (f + 1)..g : w[m] + Len(t[m]) <= b + 1,
                 writer[d].at # "done" => b < Len(s),
                 RestOK(d)'
          PROVE  FlowOK(d)'
      <3>1. /\ Laid(d, Tail(s), t, g, to, b, Back(g, to, w))
            /\ Whole(s, t, f, to, c, w) /\ b < Len(s)
                => Whole(Tail(s), t, g, to, b, Back(g, to, w))
        <4>1. c \in Nat /\ f <= g
          BY <1>7, <2>3, <2>8, RestTyped
        <4> HIDE DEF s, t, f, c
        <4> QED BY <1>3, <2>3, <2>4, <2>5, <2>8, <4>1, LaidTail
      <3>2. InFlight(d, to, Back(g, to, w))'
        BY <1>2, <1>3, <2>3, <2>6, <2>8, <3>1 DEF InFlight
      <3> QED BY <2>8, <3>2 DEF FlowOK
    <2>9. CASE reader[d].at = "head"
      <3>1. f = Len(Out(d)) /\ c = 0
        BY <2>9 DEF Begun, Holds, Rest
      <3>2. reader[d]' = AfterPrefix(AsLength(Head(s)))
        BY <2>7, <2>9 DEF TypesOK
      <3>3. AtPrefix(d, s, t, f, to, w)
        <4>1. Laid(d, s, t, f, to, 0, w)
          BY <2>5, <3>1
        <4>2. \A m \in (f + 1)..to : Len(t[m]) \in 1..MaxFrame
          BY <2>4
        <4>3. s \in Seq(Tokens) /\ s # <<>> /\ f \in Nat /\ to \in Nat
          BY <1>3, <2>3
        <4> HIDE DEF s, t, f, c
        <4> QED BY <4>1, <4>2, <4>3, HeadOfLaid
      <3>4. CASE /\ d = "down" /\ Head(s) = Prefix(0)
                 /\ \A m \in (f + 1)..to : w[m] > 1
        <4>1. reader[d]' = [at |-> "put", need |-> 0, frame |-> <<>>]
          BY <3>2, <3>4, PrefixReads, LinkAssumption DEF AfterPrefix
        <4>2. Begun(d)' = f /\ Rest(d)' = 0
          BY <1>2, <3>1, <4>1 DEF Begun, Holds, Rest
        <4>3. ReaderOK(d)'
          BY <3>4, <4>1 DEF ReaderOK
        <4>4. RestOK(d)'
          BY <4>2 DEF RestOK
        <4>5. FlowOK(d)'
          <5>1. \A m \in (f + 1)..to : w[m] > 0 + 1
            BY <3>4
          <5>2. \A m \in (f + 1)..f : w[m] + Len(t[m]) <= 0 + 1
            BY <2>3
          <5> QED BY <1>4, <2>3, <2>8, <3>1, <4>2, <4>4, <5>1, <5>2
        <4> QED BY <4>3, <4>5
      <3>5. CASE f + 1 <= to /\ w[f + 1] = 1 /\ Head(s) = Prefix(Len(t[f + 1]))
        <4> DEFINE L == Len(t[f + 1])
        <4>1. /\ f + 1 \in (f + 1)..to /\ L \in 1..MaxFrame /\ L \in 0..MaxFrame
              /\ L \in Nat /\ L >= 1
          BY <2>3, <2>4, <3>5, LinkAssumption
        <4>2. AsLength(Head(s)) = L
          BY <3>5, <4>1, PrefixReads
        <4>3. reader[d]' = [at |-> "body", need |-> L, frame |-> <<>>]
          BY <3>2, <4>1, <4>2 DEF AfterPrefix
        <4>4. Begun(d)' = f + 1 /\ Rest(d)' = L /\ Len(reader[d].frame)' = 0
          BY <1>2, <3>1, <4>1, <4>3 DEF Begun, Holds, Rest, Due
        <4>5. ReaderOK(d)'
          BY <1>2, <2>3, <3>1, <3>5, <4>1, <4>3 DEF ReaderOK, Due
        <4>6. RestOK(d)'
          <5>1. ASSUME NEW j \in 1..L, j <= Len(Tail(s)) PROVE Tail(s)[j] = t[f + 1][j]
            <6>1. j \in 1..(Len(s) - 1) /\ w[f + 1] + j <= Len(s) /\ j \in 0..L
              BY <1>4, <3>5, <4>1, <5>1
            <6>2. s[w[f + 1] + j] = Token(t[f + 1], j)
              BY <2>5, <4>1, <6>1 DEF Laid
            <6>3. w[f + 1] + j = j + 1 /\ j # 0
              BY <3>5
            <6> QED BY <1>4, <6>1, <6>2, <6>3 DEF Token
          <5>2. Due(d)' = f + 1
            BY <1>2, <2>3, <3>1
          <5>3. \A j \in 1..L : Len(reader[d].frame)' + j = j
            BY <4>4
          <5> QED BY <1>2, <1>3, <4>4, <5>1, <5>2, <5>3 DEF RestOK
        <4>7. FlowOK(d)'
          <5>1. ASSUME NEW m \in (f + 1 + 1)..to PROVE w[m] > L + 1
            <6>1. m \in (f + 1)..to /\ f + 1 < m
              BY <2>3
            <6>2. w[f + 1] + L < w[m]
              BY <2>5, <4>1, <6>1 DEF Laid
            <6>3. w[m] \in Nat
              BY <2>5, <6>1 DEF Laid
            <6> QED BY <3>5, <4>1, <6>2, <6>3
          <5>2. \A m \in (f + 1)..(f + 1) : w[m] + Len(t[m]) <= L + 1
            BY <2>3, <3>5, <4>1
          <5>3. writer[d].at # "done" => L < Len(s)
            BY <1>4, <2>6, <3>5, <4>1 DEF Whole
          <5> HIDE DEF L
          <5> QED BY <2>3, <2>8, <3>1, <4>1, <4>4, <4>6, <5>1, <5>2, <5>3
        <4> QED BY <4>5, <4>7
      <3> QED BY <3>3, <3>4, <3>5 DEF AtPrefix
    <2>10. CASE reader[d].at = "body"
      <3> DEFINE F == reader[d].frame
                 G == Append(F, Head(s))
                 n == reader[d].need
      <3>1. /\ f = Due(d) /\ c = n - Len(F) /\ n = Len(t[f]) /\ Len(F) < n
            /\ \A j \in 1..Len(F) : F[j] = t[f][j]
        BY <1>7, <2>10 DEF Begun, Holds, Rest, PipeOK, ReaderOK
      <3>2. /\ n \in Nat /\ F \in Seq(Tokens) /\ Len(F) \in Nat
            /\ t[f] \in Seq(Tokens) /\ f \in 1..Len(t)
        <4>1. f \in 1..Len(t)
          BY <2>3, <3>1
        <4> QED BY <4>1, PipeTyped, TakenTyped
      <3>3. Head(s) = t[f][Len(F) + 1] /\ Head(s) \in Tokens
        <4>1. 1 \in 1..c /\ 1 <= Len(s)
          BY <1>4, <3>1, <3>2
        <4>2. Head(s) \in Tokens
          BY <1>3, HeadTailProperties
        <4> QED BY <1>4, <2>1, <3>1, <4>1, <4>2 DEF RestOK
      <3>4. /\ G \in Seq(Tokens) /\ Len(G) = Len(F) + 1
            /\ \A j \in 1..Len(G) : G[j] = t[f][j]
        <4>1. /\ G \in Seq(Tokens) /\ Len(G) = Len(F) + 1
              /\ \A j \in 1..Len(F) : G[j] = F[j]
              /\ G[Len(F) + 1] = Head(s)
          BY <3>2, <3>3, AppendProperties
        <4>2. \A j \in 1..Len(F) : F[j] = t[f][j]
          BY <3>1
        <4>3. Len(F) \in Nat /\ Head(s) = t[f][Len(F) + 1]
          BY <3>2, <3>3
        <4> HIDE DEF G, F, s, t, f
        <4> QED BY <4>1, <4>2, <4>3
      <3>5. /\ reader[d].frame' = G /\ reader[d].need' = n
            /\ reader[d].at' = IF Len(G) = n THEN "put" ELSE "body"
        <4>1. reader[d]' = [reader[d] EXCEPT !.frame = G,
                             !.at = IF Len(G) = n THEN "put" ELSE "body"]
          BY <2>7, <2>10 DEF TypesOK
        <4>2. reader[d] \in [at : {"head", "body", "put", "done"}, need : Nat,
                             frame : Seq(Tokens)]
          BY DEF TypesOK
        <4> QED BY <4>1, <4>2
      <3>6. G # <<>>
        BY <3>2, <3>3, AppendProperties
      <3>7. Begun(d)' = f /\ Rest(d)' = c - 1 /\ c - 1 \in Nat
        <4>1. Len(G) \in Nat /\ c \in Nat /\ c >= 1 /\ c - 1 = n - Len(G) /\ Len(G) <= n
          <5>1. Len(G) = Len(F) + 1 /\ c = n - Len(F) /\ Len(F) < n /\ n \in Nat /\ Len(F) \in Nat
            BY <3>1, <3>2, <3>4
          <5> HIDE DEF G, F, n, c
          <5> QED BY <5>1
        <4>2. Holds(d)' /\ Begun(d)' = f
          BY <1>2, <3>1, <3>5, <3>6 DEF Begun, Holds
        <4>3. Rest(d)' = c - 1
          <5>1. Rest(d)' = IF Len(G) = n THEN 0 ELSE n - Len(G)
            BY <3>5 DEF Rest
          <5> HIDE DEF G, n, c
          <5> QED BY <4>1, <5>1
        <4> HIDE DEF c
        <4> QED BY <4>1, <4>2, <4>3
      <3>8. ReaderOK(d)'
        <4>1. CASE Len(G) = n
          <5>1. G = t[f]
            BY <3>1, <3>2, <3>4, <4>1, SeqEqual
          <5> QED BY <1>2, <3>1, <3>2, <3>5, <4>1, <5>1 DEF ReaderOK
        <4>2. CASE Len(G) # n
          <5> HIDE DEF G
          <5>1. Len(G) < n
            BY <3>1, <3>2, <3>4, <4>2
          <5>2. /\ reader[d].at' = "body" /\ Due(d)' = f /\ taken'[d] = t
                /\ reader[d].frame' = G /\ reader[d].need' = n /\ f <= Len(t)
            BY <1>2, <3>1, <3>2, <3>5, <4>2
          <5> QED BY <3>1, <3>4, <5>1, <5>2 DEF ReaderOK
        <4> QED BY <4>1, <4>2
      <3>9. RestOK(d)'
        <4>1. ASSUME NEW j \in 1..(c - 1), j <= Len(Tail(s))
              PROVE  Tail(s)[j] = t[f][Len(G) + j]
          <5>1. j \in 1..(Len(s) - 1) /\ j + 1 \in 1..c /\ j + 1 <= Len(s)
            <6>1. c \in Nat
              BY <1>7, RestTyped
            <6> HIDE DEF c, s
            <6> QED BY <1>4, <4>1, <6>1
          <5>2. s[j + 1] = t[f][Len(F) + (j + 1)]
            BY <2>1, <3>1, <5>1 DEF RestOK
          <5>3. Len(F) + (j + 1) = Len(G) + j
            <6>1. Len(G) = Len(F) + 1 /\ Len(F) \in Nat /\ j \in Nat
              BY <3>2, <3>4, <5>1
            <6> HIDE DEF G, F
            <6> QED BY <6>1
          <5> QED BY <1>4, <5>1, <5>2, <5>3
        <4> HIDE DEF G
        <4> QED BY <1>2, <1>3, <3>1, <3>5, <3>7, <4>1 DEF RestOK
      <3>10. FlowOK(d)'
        <4>1. c \in Nat /\ c <= (c - 1) + 1 /\ (c - 1) + 1 = c
          <5>1. c \in Nat
            BY <1>7, RestTyped
          <5> HIDE DEF c
          <5> QED BY <5>1
        <4>2. \A m \in (f + 1)..to : w[m] > (c - 1) + 1
          BY <2>5, <4>1 DEF Laid
        <4>3. \A m \in (f + 1)..f : w[m] + Len(t[m]) <= (c - 1) + 1
          BY <2>3
        <4>4. writer[d].at # "done" => c - 1 < Len(s)
          BY <1>4, <2>6, <4>1 DEF Whole
        <4> HIDE DEF c, s, t, f
        <4> QED BY <2>3, <2>8, <3>7, <3>9, <4>1, <4>2, <4>3, <4>4
      <3> QED BY <3>8, <3>10
    <2> QED BY <1>1, <2>9, <2>10
  <1> QED BY <1>5, <1>6, <1>7 DEF PipeOK

-----------------------------------------------------------------------------
(* The stream, the queue or what was taken grows at its end. *)
LEMMA GrowPipe ==
    ASSUME NEW d \in Direction, TypesOK, SizesOK, PipeOK(d),
           Out(d)' = Out(d), reader[d]' = reader[d], Live(d)' => Live(d), cut' = cut,
           NEW n \in Nat, Len(taken[d])' = n, Len(taken[d]) <= n,
           \A m \in 1..Len(taken[d]) : taken'[d][m] = taken[d][m],
           writer[d].at # "done",
           NEW u \in Seq(Tokens), Stream(d)' = Stream(d) \o u,
           \A to, w : Live(d) /\ InFlight(d, to, w) =>
              \E too \in to..n : \E x :
                 /\ Laid(d, Stream(d)', taken'[d], Begun(d), too, Rest(d), x)
                 /\ Whole(Stream(d)', taken'[d], Begun(d), too, Rest(d), x)
                 /\ \E v : Queued(Queue(d)', taken'[d], too, v)
    PROVE  PipeOK(d)'
  <1>1. /\ Begun(d)' = Begun(d) /\ Rest(d)' = Rest(d) /\ Due(d)' = Due(d)
        /\ Holds(d)' = Holds(d)
    BY DEF Begun, Rest, Due, Holds
  <1>2. /\ Len(taken[d]) \in Nat /\ Len(Out(d)) \in Nat /\ Due(d) = Len(Out(d)) + 1
        /\ Stream(d) \in Seq(Tokens) /\ Begun(d) \in Nat
    BY PipeTyped DEF Due
  <1>3. OutOK(d)'
    <2>1. Len(Out(d)) <= n
      BY <1>2 DEF PipeOK, OutOK
    <2>2. \A i \in 1..Len(Out(d)) : i \in 1..Len(taken[d]) /\ Out(d)[i] = taken'[d][i]
      BY <1>2 DEF PipeOK, OutOK
    <2> QED BY <2>1, <2>2 DEF OutOK
  <1>4. ReaderOK(d)'
    <2>1. Due(d) <= Len(taken[d]) => Due(d) <= n /\ taken'[d][Due(d)] = taken[d][Due(d)]
      <3>1. Due(d) <= Len(taken[d]) => Due(d) \in 1..Len(taken[d]) /\ Due(d) <= n
        BY <1>2
      <3> QED BY <3>1
    <2> QED BY <1>1, <2>1 DEF PipeOK, ReaderOK
  <1>5. ASSUME Live(d)', ~cut', reader[d].at' # "done"
        PROVE  RestOK(d)' /\ \E to, w : InFlight(d, to, w)'
    <2>1. RestOK(d) /\ \E to, w : InFlight(d, to, w)
      BY <1>5 DEF PipeOK, FlowOK
    <2>2. PICK to, w : InFlight(d, to, w)
      BY <2>1
    <2>3. PICK too \in to..n : \E x :
                 /\ Laid(d, Stream(d)', taken'[d], Begun(d), too, Rest(d), x)
                 /\ Whole(Stream(d)', taken'[d], Begun(d), too, Rest(d), x)
                 /\ \E v : Queued(Queue(d)', taken'[d], too, v)
      BY <1>5, <2>2
    <2>4. PICK x :
                 /\ Laid(d, Stream(d)', taken'[d], Begun(d), too, Rest(d), x)
                 /\ Whole(Stream(d)', taken'[d], Begun(d), too, Rest(d), x)
                 /\ \E v : Queued(Queue(d)', taken'[d], too, v)
      BY <2>3
    <2>5. to \in Begun(d)..Len(taken[d]) /\ Rest(d) <= Len(Stream(d))
      BY <2>2 DEF InFlight, Whole
    <2>6. too \in Begun(d)..n
      BY <1>2, <2>5
    <2>7. InFlight(d, too, x)'
      BY <1>1, <2>4, <2>6 DEF InFlight
    <2>8. RestOK(d)'
      <3>1. /\ Len(Stream(d)) \in Nat
            /\ \A i \in 1..Len(Stream(d)) : Stream(d)'[i] = Stream(d)[i]
        BY <1>2, StartOfConcat
      <3>2. Rest(d) \in Nat
        BY <1>5, RestTyped
      <3>3. ASSUME NEW j \in 1..Rest(d)
            PROVE  Stream(d)'[j] = taken'[d][Due(d)][Len(reader[d].frame) + j]
        <4>1. j \in 1..Len(Stream(d)) /\ j <= Len(Stream(d))
          BY <2>5, <3>1, <3>2
        <4>2. Stream(d)[j] = taken[d][Due(d)][Len(reader[d].frame) + j]
          BY <2>1, <4>1 DEF RestOK
        <4>3. reader[d].at = "body"
          BY <3>2, <3>3 DEF Rest
        <4>4. Due(d) \in 1..Len(taken[d])
          BY <1>2, <1>5, <4>3 DEF PipeOK, ReaderOK
        <4> QED BY <3>1, <4>1, <4>2, <4>4
      <3> QED BY <1>1, <3>3 DEF RestOK
    <2> QED BY <2>7, <2>8
  <1>6. FlowOK(d)'
    BY <1>5 DEF FlowOK
  <1> QED BY <1>3, <1>4, <1>6 DEF PipeOK

(* The frame the reader holds comes out, unless it is an empty one.         *)
LEMMA PutPipe ==
    ASSUME NEW d \in Direction, TypesOK, SizesOK, PipeOK(d), Live(d), reader[d].at = "put",
           reader[d]' = NextFrame,
           Out(d)' = IF reader[d].frame = <<>> THEN Out(d) ELSE Append(Out(d), reader[d].frame),
           taken[d]' = taken[d], Live(d)' = Live(d), cut' = cut, Stream(d)' = Stream(d),
           writer[d]' = writer[d], Queue(d)' = Queue(d)
    PROVE  PipeOK(d)'
  <1> DEFINE F == reader[d].frame
  <1>1. /\ Len(taken[d]) \in Nat /\ Len(Out(d)) \in Nat /\ Due(d) = Len(Out(d)) + 1
        /\ Out(d) \in Seq(Seq(Tokens)) /\ F \in Seq(Tokens)
    BY PipeTyped DEF Due
  <1>2. /\ reader[d]'.at = "head" /\ Rest(d)' = 0 /\ Rest(d) = 0
        /\ Begun(d)' = Len(Out(d)')
    BY DEF NextFrame, Rest, Begun, Holds
  <1>3. F # <<>> => Due(d) <= Len(taken[d]) /\ F = taken[d][Due(d)]
    BY DEF PipeOK, ReaderOK
  <1>4. OutOK(d)' /\ Len(Out(d)') = Begun(d)
    <2>1. CASE F = <<>>
      BY <2>1 DEF PipeOK, OutOK, Begun, Holds
    <2>2. CASE F # <<>>
      <3>1. /\ Len(Out(d)') = Len(Out(d)) + 1
            /\ \A i \in 1..Len(Out(d)) : Out(d)'[i] = Out(d)[i]
            /\ Out(d)'[Len(Out(d)) + 1] = F
        <4>1. Out(d)' = Append(Out(d), F)
          BY <2>2
        <4> HIDE DEF F, Tokens
        <4> QED BY <1>1, <4>1, AppendProperties
      <3>2. \A i \in 1..Len(Out(d)) : Out(d)[i] = taken[d][i]
        BY DEF PipeOK, OutOK
      <3>3. \A i \in 1..(Len(Out(d)) + 1) : i \in 1..Len(Out(d)) \/ i = Len(Out(d)) + 1
        BY <1>1
      <3>4. OutOK(d)'
        <4> HIDE DEF F
        <4> QED BY <1>1, <1>3, <2>2, <3>1, <3>2, <3>3 DEF OutOK
      <3>5. Begun(d) = Len(Out(d)) + 1
        BY <1>1, <2>2 DEF Begun, Holds
      <3> QED BY <3>1, <3>4, <3>5
    <2> QED BY <2>1, <2>2
  <1>5. ReaderOK(d)'
    BY <1>2 DEF ReaderOK
  <1>6. ASSUME ~cut' PROVE RestOK(d)' /\ \E to, w : InFlight(d, to, w)'
    <2>1. \E to, w : InFlight(d, to, w)
      BY <1>6 DEF PipeOK, FlowOK
    <2>2. \A to, w : InFlight(d, to, w) => InFlight(d, to, w)'
      BY <1>2, <1>4 DEF InFlight
    <2>3. RestOK(d)'
      BY <1>2 DEF RestOK
    <2> QED BY <2>1, <2>2, <2>3
  <1>7. FlowOK(d)'
    BY <1>6 DEF FlowOK
  <1> QED BY <1>4, <1>5, <1>7 DEF PipeOK

-----------------------------------------------------------------------------
(* The steps that touch the pipes. *)
Pipes ==
    <<cut, tcp, writer, reader, incoming, outgoing, bridge, taken, given>>

LEMMA IdlePipes == ASSUME PipesOK, UNCHANGED Pipes PROVE PipesOK'
  <1>1. ASSUME NEW d \in Direction PROVE PipeOK(d)'
    <2>1. PipeOK(d)
      BY DEF PipesOK
    <2>2. /\ Out(d)' = Out(d) /\ taken[d]' = taken[d] /\ reader[d]' = reader[d]
          /\ Live(d)' = Live(d) /\ cut' = cut /\ Stream(d)' = Stream(d)
          /\ writer[d]' = writer[d] /\ Queue(d)' = Queue(d)
      BY DEF Pipes, Out, Live, Stream, Queue
    <2> QED BY <2>1, <2>2, SamePipe
  <1> QED BY <1>1 DEF PipesOK

(* Nothing of the other direction changes. *)
Aside(d) ==
    /\ tcp[d]' = tcp[d] /\ writer[d]' = writer[d] /\ reader[d]' = reader[d]
    /\ taken[d]' = taken[d] /\ given[d]' = given[d] /\ cut' = cut
    /\ d = "up" => incoming' = incoming /\ bridge' = bridge
    /\ d = "down" => outgoing' = outgoing

LEMMA AsidePipe ==
    ASSUME NEW d \in Direction, PipeOK(d), Aside(d)
    PROVE  PipeOK(d)'
  <1>1. /\ Out(d)' = Out(d) /\ taken[d]' = taken[d] /\ reader[d]' = reader[d]
        /\ Live(d)' = Live(d) /\ cut' = cut /\ Stream(d)' = Stream(d)
        /\ writer[d]' = writer[d] /\ Queue(d)' = Queue(d)
    BY DEF Aside, Out, Live, Stream, Queue, Direction
  <1> QED BY <1>1, SamePipe

(* FramedDevice is dropped: the way up leads nowhere any more. *)
LEMMA DroppedPipe ==
    ASSUME TypesOK, PipeOK("up"), bridge' = "down", incoming' = <<>>,
           given["up"]' = given["up"], taken["up"]' = taken["up"]
    PROVE  PipeOK("up")'
  <1>1. /\ given["up"] \in Seq(Seq(Tokens)) /\ incoming \in Seq(Seq(Tokens))
        /\ Len(taken["up"]) \in Nat
    BY PipeTyped DEF TypesOK, Direction
  <1>2. /\ Len(given["up"]) \in Nat /\ Len(Out("up")) \in Nat
        /\ Len(given["up"]) <= Len(Out("up"))
        /\ \A i \in 1..Len(given["up"]) : Out("up")[i] = given["up"][i]
    BY <1>1, StartOfConcat DEF Out
  <1>3. Out("up")' = given["up"]
    <2>1. Out("up")' = given["up"] \o <<>>
      BY DEF Out
    <2> HIDE DEF Tokens
    <2> QED BY <1>1, <2>1, ConcatEmptySeq
  <1>4. OutOK("up")'
    <2>1. Len(given["up"]) <= Len(taken["up"])
      BY <1>1, <1>2 DEF PipeOK, OutOK
    <2>2. \A i \in 1..Len(given["up"]) : i \in 1..Len(Out("up"))
      BY <1>2
    <2>3. \A i \in 1..Len(given["up"]) : given["up"][i] = taken["up"][i]
      BY <1>2, <2>2 DEF PipeOK, OutOK
    <2> QED BY <1>3, <2>1, <2>3 DEF OutOK
  <1>5. ~Live("up")'
    BY DEF Live
  <1> QED BY <1>4, <1>5 DEF PipeOK, ReaderOK, FlowOK

LEMMA WriteTokenPipes ==
    ASSUME TypesOK, PipesOK, NEW d \in Direction, WriteToken(d)
    PROVE  PipesOK'
  <1>1. /\ writer[d].at = "write" /\ writer[d].left # <<>>
        /\ tcp' = [tcp EXCEPT ![d] = Append(@, Head(writer[d].left))]
        /\ writer' = [writer EXCEPT ![d].left = Tail(@),
                                ![d].at = IF Len(writer[d].left) = 1 THEN "take" ELSE @]
        /\ UNCHANGED <<cut, reader, incoming, outgoing, bridge, taken, given>>
    BY DEF WriteToken, phoneVars, historyVars
  <1>2. PipeOK(d)'
    <2>1. /\ tcp[d] \in Seq(Tokens) /\ writer[d].left \in Seq(Tokens)
      BY PipeTyped
    <2>2. /\ tcp'[d] = Append(tcp[d], Head(writer[d].left))
          /\ writer'[d].left = Tail(writer[d].left)
      BY <1>1 DEF TypesOK
    <2>3. Stream(d)' = Stream(d)
      <3>1. Stream(d)' = Append(tcp[d], Head(writer[d].left)) \o Tail(writer[d].left)
        BY <2>2 DEF Stream
      <3> QED BY <1>1, <2>1, <3>1, MoveHead DEF Stream
    <2>4. /\ Out(d)' = Out(d) /\ Live(d)' = Live(d) /\ Queue(d)' = Queue(d)
      BY <1>1 DEF Out, Live, Queue
    <2> QED BY <1>1, <2>3, <2>4, SamePipe DEF PipesOK
  <1>3. ASSUME NEW e \in Direction, e # d PROVE PipeOK(e)'
    <2>1. tcp[e]' = tcp[e] /\ writer[e]' = writer[e]
      BY <1>1, <1>3 DEF TypesOK
    <2>2. Aside(e)
      BY <1>1, <2>1 DEF Aside
    <2> QED BY <2>2, AsidePipe DEF PipesOK
  <1> QED BY <1>2, <1>3 DEF PipesOK

LEMMA WriterFailsPipes ==
    ASSUME TypesOK, SizesOK, PipesOK, NEW d \in Direction, WriterFails(d)
    PROVE  PipesOK'
  <1>1. /\ writer' = [writer EXCEPT ![d] = [at |-> "done", left |-> <<>>]]
        /\ UNCHANGED <<cut, tcp, reader, incoming, outgoing, bridge, taken, given>>
    BY DEF WriterFails, wireVars, phoneVars, historyVars
  <1>2. PipeOK(d)'
    <2>1. /\ Out(d)' = Out(d) /\ Live(d)' = Live(d)
          /\ writer[d]' = [at |-> "done", left |-> <<>>]
      BY <1>1 DEF Out, Live, TypesOK
    <2> QED BY <1>1, <2>1, CutShortPipe DEF PipesOK
  <1>3. ASSUME NEW e \in Direction, e # d PROVE PipeOK(e)'
    <2>1. Aside(e)
      BY <1>1, <1>3 DEF Aside, TypesOK
    <2> QED BY <2>1, AsidePipe DEF PipesOK
  <1> QED BY <1>2, <1>3 DEF PipesOK

LEMMA ReadTokenPipes ==
    ASSUME TypesOK, SizesOK, EndsOK, PipesOK, NEW d \in Direction, ReadToken(d)
    PROVE  PipesOK'
  <1>1. PipeOK(d)'
    BY ReadPipe DEF PipesOK
  <1>2. ASSUME NEW e \in Direction, e # d PROVE PipeOK(e)'
    <2>1. Aside(e)
      BY <1>2 DEF ReadToken, phoneVars, historyVars, Aside, TypesOK
    <2> QED BY <2>1, AsidePipe DEF PipesOK
  <1> QED BY <1>1, <1>2 DEF PipesOK

(* A reader gives up: reading, injecting, or forwarding to a dropped device.*)
LEMMA ReaderEndsPipes ==
    ASSUME TypesOK, PipesOK, NEW d \in Direction,
           reader' = [reader EXCEPT ![d] = ReaderDone],
           UNCHANGED <<cut, tcp, writer, incoming, outgoing, bridge, taken, given>>
    PROVE  PipesOK'
  <1>1. PipeOK(d)'
    <2>1. Out(d)' = Out(d) /\ reader[d]'.at = "done"
      BY DEF Out, ReaderDone, TypesOK
    <2> QED BY <2>1, EndedPipe DEF PipesOK
  <1>2. ASSUME NEW e \in Direction, e # d PROVE PipeOK(e)'
    <2>1. Aside(e)
      BY <1>2 DEF Aside, TypesOK
    <2> QED BY <2>1, AsidePipe DEF PipesOK
  <1> QED BY <1>1, <1>2 DEF PipesOK

(* A thread that writes nothing ends; the connection is cut. *)
LEMMA WriterEndsPipes ==
    ASSUME TypesOK, PipesOK, NEW d \in Direction,
           writer' = [writer EXCEPT ![d].at = "done"],
           UNCHANGED <<cut, tcp, reader, incoming, outgoing, bridge, taken, given>>
    PROVE  PipesOK'
  <1>1. PipeOK(d)'
    <2>1. writer'[d].at = "done" /\ writer'[d].left = writer[d].left
      BY DEF TypesOK
    <2>2. Out(d)' = Out(d) /\ Live(d)' = Live(d) /\ Stream(d)' = Stream(d)
      BY <2>1 DEF Out, Live, Stream
    <2> QED BY <2>1, <2>2, SamePipe DEF PipesOK
  <1>2. ASSUME NEW e \in Direction, e # d PROVE PipeOK(e)'
    <2>1. Aside(e)
      BY <1>2 DEF Aside, TypesOK
    <2> QED BY <2>1, AsidePipe DEF PipesOK
  <1> QED BY <1>1, <1>2 DEF PipesOK

LEMMA CutPipes == ASSUME PipesOK, Cut PROVE PipesOK'
  <1>1. ASSUME NEW d \in Direction PROVE PipeOK(d)'
    <2>1. /\ Out(d)' = Out(d) /\ taken[d]' = taken[d] /\ reader[d]' = reader[d]
          /\ Live(d)' = Live(d) /\ cut' = TRUE
      BY DEF Cut, phoneVars, historyVars, Out, Live
    <2> QED BY <2>1, SamePipe DEF PipesOK
  <1> QED BY <1>1 DEF PipesOK

(* A reader's frame is put out, and the reader turns to the next. *)
LEMMA InjectPipes == ASSUME TypesOK, SizesOK, PipesOK, Inject PROVE PipesOK'
  <1> DEFINE F == reader["down"].frame
  <1>1. /\ reader["down"].at = "put" /\ reader' = [reader EXCEPT !["down"] = NextFrame]
        /\ given' = IF F = <<>> THEN given
                    ELSE [given EXCEPT !["down"] = Append(@, F)]
        /\ UNCHANGED <<cut, tcp, writer, incoming, outgoing, bridge, taken>>
    BY DEF Inject, wireVars, phoneVars
  <1>2. "down" \in Direction /\ "up" \in Direction
    BY DEF Direction
  <1>3. PipeOK("down")'
    <2>1. reader["down"]' = NextFrame
      BY <1>1, <1>2 DEF TypesOK
    <2>2. Out("down")' = IF F = <<>> THEN Out("down") ELSE Append(Out("down"), F)
      BY <1>1, <1>2 DEF Out, TypesOK
    <2>3. /\ Live("down") /\ Live("down")' = Live("down")
          /\ Stream("down")' = Stream("down") /\ Queue("down")' = Queue("down")
      BY <1>1 DEF Live, Stream, Queue
    <2> QED BY <1>1, <1>2, <2>1, <2>2, <2>3, PutPipe DEF PipesOK
  <1>4. PipeOK("up")'
    <2>1. Aside("up")
      BY <1>1, <1>2 DEF Aside, TypesOK
    <2> QED BY <1>2, <2>1, AsidePipe DEF PipesOK
  <1> QED BY <1>3, <1>4 DEF PipesOK, Direction

LEMMA ForwardPipes ==
    ASSUME TypesOK, SizesOK, PipesOK, Forward, bridge = "up"
    PROVE  PipesOK'
  <1> DEFINE F == reader["up"].frame
  <1>1. /\ reader["up"].at = "put" /\ reader' = [reader EXCEPT !["up"] = NextFrame]
        /\ incoming' = Append(incoming, F)
        /\ UNCHANGED <<cut, tcp, writer, outgoing, bridge, taken, given>>
    BY DEF Forward, wireVars, historyVars
  <1>2. "down" \in Direction /\ "up" \in Direction
    BY DEF Direction
  <1>3. PipeOK("up")'
    <2>1. reader["up"]' = NextFrame
      BY <1>1, <1>2 DEF TypesOK
    <2>2. F \in Seq(Tokens) /\ given["up"] \in Seq(Seq(Tokens)) /\ incoming \in Seq(Seq(Tokens))
      BY <1>2, PipeTyped DEF TypesOK
    <2>3. Out("up")' = Append(Out("up"), F)
      <3>1. Out("up")' = given["up"] \o Append(incoming, F)
        BY <1>1 DEF Out
      <3>2. given["up"] \o Append(incoming, F) = Append(given["up"] \o incoming, F)
        <4> DEFINE T == Seq(Tokens)
        <4>1. given["up"] \in Seq(T) /\ incoming \in Seq(T) /\ F \in T
          BY <2>2
        <4> HIDE DEF F, T
        <4>2. \A a, b \in Seq(T), e \in T : a \o Append(b, e) = Append(a \o b, e)
          BY ConcatAppend
        <4>3. \A a : a \in Seq(T) => a \o Append(incoming, F) = Append(a \o incoming, F)
          BY <4>1, <4>2, Zenon
        <4> QED BY <4>1, <4>3, Zenon
      <3> QED BY <3>1, <3>2 DEF Out
    <2>4. F # <<>>
      <3>1. Due("up") \in 1..Len(taken["up"]) /\ F = taken["up"][Due("up")]
        <4>1. Due("up") <= Len(taken["up"]) /\ F = taken["up"][Due("up")]
          BY <1>1, <1>2 DEF PipesOK, PipeOK, ReaderOK, Live
        <4> QED BY <1>2, <4>1, PipeTyped DEF Due
      <3>2. Len(F) \in 1..MaxFrame
        BY <1>2, <3>1, TakenTyped
      <3>3. F = <<>> => Len(F) = 0
        OBVIOUS
      <3> HIDE DEF F
      <3> QED BY <3>2, <3>3
    <2>5. /\ Live("up") /\ Live("up")' = Live("up")
          /\ Stream("up")' = Stream("up") /\ Queue("up")' = Queue("up")
      BY <1>1 DEF Live, Stream, Queue
    <2> QED BY <1>1, <1>2, <2>1, <2>3, <2>4, <2>5, PutPipe DEF PipesOK
  <1>4. PipeOK("down")'
    <2>1. Aside("down")
      BY <1>1, <1>2 DEF Aside, TypesOK
    <2> QED BY <1>2, <2>1, AsidePipe DEF PipesOK
  <1> QED BY <1>3, <1>4 DEF PipesOK, Direction

(* ipstack takes a packet from the queue: it counts as out already. *)
LEMMA StackReadsPipes == ASSUME TypesOK, PipesOK, StackReads PROVE PipesOK'
  <1>1. /\ incoming # <<>> /\ incoming' = Tail(incoming)
        /\ given' = [given EXCEPT !["up"] = Append(@, Head(incoming))]
        /\ UNCHANGED <<cut, tcp, writer, reader, outgoing, bridge, taken>>
    BY DEF StackReads, wireVars
  <1>2. "down" \in Direction /\ "up" \in Direction
    BY DEF Direction
  <1>3. PipeOK("up")'
    <2>1. given["up"] \in Seq(Seq(Tokens)) /\ incoming \in Seq(Seq(Tokens))
      BY <1>2 DEF TypesOK
    <2>2. given'["up"] = Append(given["up"], Head(incoming))
      BY <1>1, <1>2 DEF TypesOK
    <2>3. Out("up")' = Out("up")
      <3>1. Out("up")' = Append(given["up"], Head(incoming)) \o Tail(incoming)
        BY <1>1, <2>2 DEF Out
      <3> QED BY <1>1, <2>1, <3>1, MoveHead DEF Out
    <2>4. /\ Live("up")' = Live("up") /\ Stream("up")' = Stream("up")
          /\ Queue("up")' = Queue("up")
      BY <1>1 DEF Live, Stream, Queue
    <2> QED BY <1>1, <1>2, <2>3, <2>4, SamePipe DEF PipesOK
  <1>4. PipeOK("down")'
    <2>1. Aside("down")
      BY <1>1, <1>2 DEF Aside, TypesOK
    <2> QED BY <1>2, <2>1, AsidePipe DEF PipesOK
  <1> QED BY <1>3, <1>4 DEF PipesOK, Direction

LEMMA DropDevicePipes ==
    ASSUME TypesOK, PipesOK, DropDevice,
           UNCHANGED <<cut, tcp, writer, reader, outgoing, taken, given>>
    PROVE  PipesOK'
  <1>1. "down" \in Direction /\ "up" \in Direction
    BY DEF Direction
  <1>2. PipeOK("up")'
    BY <1>1, DroppedPipe DEF DropDevice, PipesOK
  <1>3. PipeOK("down")'
    <2>1. Aside("down")
      BY DEF Aside
    <2> QED BY <1>1, <2>1, AsidePipe DEF PipesOK
  <1> QED BY <1>2, <1>3 DEF PipesOK, Direction

LEMMA CoreStopsPipes == ASSUME TypesOK, SizesOK, PipesOK, CoreStops PROVE PipesOK'
  <1>1. /\ bridge' = "down" /\ incoming' = <<>>
        /\ reader' = [reader EXCEPT !["up"] = ReaderDone]
        /\ writer' = [writer EXCEPT !["down"] = [at |-> "done", left |-> <<>>]]
        /\ UNCHANGED <<cut, tcp, taken, given>>
    BY DEF CoreStops, DropDevice, wireVars, historyVars
  <1>2. "down" \in Direction /\ "up" \in Direction
    BY DEF Direction
  <1>3. PipeOK("up")'
    BY <1>1, <1>2, DroppedPipe DEF PipesOK
  <1>4. PipeOK("down")'
    <2>1. /\ reader["down"]' = reader["down"]
          /\ writer["down"]' = [at |-> "done", left |-> <<>>]
      BY <1>1, <1>2 DEF TypesOK
    <2>2. Out("down")' = Out("down") /\ Live("down")' = Live("down")
      BY <1>1 DEF Out, Live
    <2> QED BY <1>1, <1>2, <2>1, <2>2, CutShortPipe DEF PipesOK
  <1> QED BY <1>3, <1>4 DEF PipesOK, Direction

(* A packet is taken and framed in one step on the way up; on the way down  *)
(* it is taken when it is queued and framed when it leaves the queue.       *)
LEMMA ReceivePipes == ASSUME TypesOK, SizesOK, EndsOK, PipesOK, Receive PROVE PipesOK'
  <1> DEFINE P == Payload(Head(ring))
             u == <<Prefix(Len(P))>> \o P
             t == taken["up"]
             r == Append(t, P)
  <1>1. /\ writer["up"].at = "take" /\ ring # <<>>
        /\ writer' = [writer EXCEPT !["up"] =
              [at |-> "write", left |-> <<Prefix(Head(ring).size)>> \o P]]
        /\ taken' = [taken EXCEPT !["up"] = r]
        /\ UNCHANGED <<cut, tcp, reader, incoming, outgoing, bridge, given>>
    BY DEF Receive, wireVars, phoneVars
  <1>2. "down" \in Direction /\ "up" \in Direction
    BY DEF Direction
  <1>3. /\ Head(ring) \in Packet /\ P \in Seq(Tokens) /\ Len(P) = Head(ring).size
    <2>1. Head(ring) \in Packet
      BY <1>1, HeadTailProperties DEF TypesOK, LinkTypeOK
    <2> QED BY <2>1, PayloadTyped
  <1>4. u \in Seq(Tokens) /\ writer'["up"] = [at |-> "write", left |-> u]
    <2>1. u \in Seq(Tokens)
      BY <1>3, FrameTyped
    <2> QED BY <1>1, <1>2, <1>3, <2>1 DEF TypesOK
  <1>5. /\ t \in Seq(Seq(Tokens)) /\ Len(t) \in Nat /\ tcp["up"] \in Seq(Tokens)
        /\ taken'["up"] = r
    BY <1>1, <1>2, PipeTyped DEF TypesOK
  <1>6. /\ Len(r) = Len(t) + 1 /\ r[Len(t) + 1] = P
        /\ \A m \in 1..Len(t) : r[m] = t[m]
    <2> HIDE DEF P, t, Tokens
    <2> QED BY <1>3, <1>5, AppendProperties
  <1>7. Stream("up") = tcp["up"] /\ Stream("up")' = Stream("up") \o u
    <2>1. Stream("up") = tcp["up"] \o <<>>
      BY <1>1, <1>2 DEF Stream, EndsOK
    <2>2. Stream("up") = tcp["up"]
      <3> HIDE DEF Tokens
      <3> QED BY <1>5, <2>1, ConcatEmptySeq
    <2>3. Stream("up")' = tcp["up"] \o u
      <3>1. writer'["up"].left = u /\ tcp'["up"] = tcp["up"]
        BY <1>1, <1>4
      <3> HIDE DEF u
      <3> QED BY <3>1 DEF Stream
    <2> QED BY <2>2, <2>3
  <1>8. ASSUME NEW to, NEW w, InFlight("up", to, w),
               Live("up")
        PROVE  \E too \in to..(Len(t) + 1) : \E x :
                 /\ Laid("up", Stream("up")', r, Begun("up"), too, Rest("up"), x)
                 /\ Whole(Stream("up")', r, Begun("up"), too, Rest("up"), x)
                 /\ \E v : Queued(Queue("up")', r, too, v)
    <2> DEFINE s == Stream("up")
               f == Begun("up")
               c == Rest("up")
    <2>1. /\ to \in f..Len(t) /\ to \in Nat /\ f \in Nat /\ f <= to
          /\ Laid("up", s, t, f, to, c, w) /\ Whole(s, t, f, to, c, w)
          /\ \E v : Queued(<<>>, t, to, v)
      BY <1>1, <1>2, <1>5, <1>8, PipeTyped DEF InFlight, Queue
    <2>2. to = Len(t)
      BY <1>5, <2>1, NothingQueued
    <2>3. \A m \in (f + 1)..to : r[m] = t[m] /\ Len(r[m]) \in Nat
      BY <1>2, <1>6, <2>1, TakenTyped
    <2>4. Laid("up", s, r, f, to, c, w) /\ Whole(s, r, f, to, c, w)
      <3> HIDE DEF s, f, c, r, t
      <3> QED BY <2>1, <2>3, LaidTaken
    <2>5. c \in Nat /\ s \in Seq(Tokens)
      <3>1. PipeOK("up")
        BY <1>2 DEF PipesOK
      <3> QED BY <1>2, <1>8, <3>1, RestTyped, PipeTyped
    <2>6. r[to + 1] = P /\ r[to + 1] \in Seq(Tokens)
      BY <1>3, <1>6, <2>2
    <2>7. \E x : Laid("up", s \o u, r, f, to + 1, c, x) /\ Whole(s \o u, r, f, to + 1, c, x)
      <3>1. u = <<Prefix(Len(r[to + 1]))>> \o r[to + 1]
        BY <2>6
      <3> HIDE DEF s, f, c, r, t, u
      <3> QED BY <2>1, <2>3, <2>4, <2>5, <2>6, <3>1, LaidFrame
    <2>8. \E v : Queued(<<>>, r, to + 1, v)
      <3>1. to + 1 = Len(r) /\ Len(r) \in Nat
        BY <1>5, <1>6, <2>2
      <3> HIDE DEF r
      <3> QED BY <3>1, NothingQueued
    <2>9. to + 1 \in to..(Len(t) + 1)
      BY <1>5, <2>1
    <2>10. Stream("up")' = s \o u /\ Queue("up")' = <<>>
      BY <1>7 DEF Queue
    <2> HIDE DEF s, f, c, r, t, u
    <2> QED BY <2>7, <2>8, <2>9, <2>10 DEF f, c
  <1>9. PipeOK("up")'
    <2>1. /\ Out("up")' = Out("up") /\ Live("up")' = Live("up")
          /\ Len(t) + 1 \in Nat /\ Len(taken["up"])' = Len(t) + 1
          /\ Len(t) <= Len(t) + 1
          /\ \A m \in 1..Len(t) : taken'["up"][m] = t[m]
          /\ writer["up"].at # "done"
      BY <1>1, <1>5, <1>6 DEF Out, Live
    <2>2. /\ u \in Seq(Tokens) /\ Stream("up")' = Stream("up") \o u
          /\ reader["up"]' = reader["up"] /\ cut' = cut /\ PipeOK("up")
          /\ taken["up"]' = r
      BY <1>1, <1>2, <1>4, <1>5, <1>7 DEF PipesOK
    <2> HIDE DEF r, u
    <2>3. \A to, w : Live("up") /\ InFlight("up", to, w) =>
              \E too \in to..(Len(t) + 1) : \E x :
                 /\ Laid("up", Stream("up")', taken'["up"], Begun("up"), too, Rest("up"), x)
                 /\ Whole(Stream("up")', taken'["up"], Begun("up"), too, Rest("up"), x)
                 /\ \E v : Queued(Queue("up")', taken'["up"], too, v)
      BY <1>5, <1>8
    <2> QED BY <1>2, <2>1, <2>2, <2>3, GrowPipe
  <1>10. PipeOK("down")'
    <2>1. Aside("down")
      BY <1>1, <1>2 DEF Aside, TypesOK
    <2> QED BY <1>2, <2>1, AsidePipe DEF PipesOK
  <1> QED BY <1>9, <1>10 DEF PipesOK, Direction

(* A packet leaves the queue: it is framed, or has nothing to frame, or is  *)
(* too large to.                                                            *)
LEMMA DequeuePipes == ASSUME TypesOK, SizesOK, EndsOK, PipesOK, Dequeue PROVE PipesOK'
  <1> DEFINE p == Head(outgoing)
             u == IF CanFrame(p) THEN <<Prefix(p.size)>> \o Payload(p) ELSE <<>>
             t == taken["down"]
  <1>1. /\ writer["down"].at = "take" /\ outgoing # <<>> /\ outgoing' = Tail(outgoing)
        /\ writer' = IF CanFrame(p)
                     THEN [writer EXCEPT !["down"] =
                             [at |-> "write", left |-> <<Prefix(p.size)>> \o Payload(p)]]
                     ELSE writer
        /\ UNCHANGED <<cut, tcp, reader, incoming, bridge, taken, given>>
    BY DEF Dequeue, wireVars, historyVars
  <1>2. "down" \in Direction /\ "up" \in Direction
    BY DEF Direction
  <1>3. /\ outgoing \in Seq(Packet) /\ p \in Packet /\ p.size \in Nat
        /\ Payload(p) \in Seq(Tokens) /\ Len(Payload(p)) = p.size
    <2>1. outgoing \in Seq(Packet) /\ p \in Packet
      BY <1>1, HeadTailProperties DEF TypesOK, LinkTypeOK
    <2> QED BY <2>1, PayloadTyped
  <1>4. u \in Seq(Tokens) /\ writer'["down"].left = u
    <2>1. <<Prefix(p.size)>> \o Payload(p) \in Seq(Tokens)
      BY <1>3, FrameTyped
    <2>2. writer["down"].left = <<>>
      BY <1>1, <1>2 DEF EndsOK
    <2> QED BY <1>1, <1>2, <2>1, <2>2 DEF TypesOK
  <1>5. /\ t \in Seq(Seq(Tokens)) /\ Len(t) \in Nat /\ tcp["down"] \in Seq(Tokens)
        /\ taken'["down"] = t
    BY <1>1, <1>2, PipeTyped DEF TypesOK
  <1>6. Stream("down") = tcp["down"] /\ Stream("down")' = Stream("down") \o u
    <2>1. Stream("down") = tcp["down"] \o <<>>
      BY <1>1, <1>2 DEF Stream, EndsOK
    <2>2. Stream("down") = tcp["down"]
      <3> HIDE DEF Tokens
      <3> QED BY <1>5, <2>1, ConcatEmptySeq
    <2>3. Stream("down")' = tcp["down"] \o u
      <3>1. writer'["down"].left = u /\ tcp'["down"] = tcp["down"]
        BY <1>1, <1>4
      <3> HIDE DEF u
      <3> QED BY <3>1 DEF Stream
    <2> QED BY <2>2, <2>3
  <1>7. ASSUME NEW to, NEW w, InFlight("down", to, w)
        PROVE  \E too \in to..Len(t) : \E x :
                 /\ Laid("down", Stream("down")', t, Begun("down"), too, Rest("down"), x)
                 /\ Whole(Stream("down")', t, Begun("down"), too, Rest("down"), x)
                 /\ \E v : Queued(Queue("down")', t, too, v)
    <2> DEFINE s == Stream("down")
               f == Begun("down")
               c == Rest("down")
    <2>1. /\ to \in f..Len(t) /\ to \in Nat /\ f \in Nat /\ f <= to
          /\ Laid("down", s, t, f, to, c, w) /\ Whole(s, t, f, to, c, w)
          /\ \E v : Queued(outgoing, t, to, v)
      BY <1>1, <1>2, <1>5, <1>7, PipeTyped DEF InFlight, Queue
    <2>2. \A m \in (f + 1)..to : Len(t[m]) \in Nat
      <3>1. \A m \in (f + 1)..to : m \in 1..Len(t)
        BY <1>5, <2>1
      <3> QED BY <1>2, <3>1, TakenTyped
    <2>3. c \in Nat /\ s \in Seq(Tokens)
      <3>1. PipeOK("down") /\ Live("down")
        BY <1>2 DEF PipesOK, Live
      <3> QED BY <1>2, <3>1, RestTyped, PipeTyped
    <2>4. Queue("down")' = Tail(outgoing) /\ Stream("down")' = s \o u
      BY <1>1, <1>6 DEF Queue
    <2>5. PICK v : Queued(outgoing, t, to, v)
      BY <2>1
    <2>6. IF Fits(p)
            THEN /\ to + 1 <= Len(t) /\ t[to + 1] = Payload(p)
                 /\ \E x : Queued(Tail(outgoing), t, to + 1, x)
            ELSE \E x : Queued(Tail(outgoing), t, to, x)
      <3> HIDE DEF t
      <3> QED BY <1>1, <1>3, <1>5, <2>1, <2>5, QueuedLess
    <2>7. CASE Fits(p)
      <3>1. u = <<Prefix(Len(t[to + 1]))>> \o t[to + 1] /\ t[to + 1] \in Seq(Tokens)
        BY <1>3, <2>6, <2>7 DEF Fits, CanFrame
      <3>2. \E x : Laid("down", s \o u, t, f, to + 1, c, x) /\ Whole(s \o u, t, f, to + 1, c, x)
        <4> HIDE DEF s, f, c, t, u
        <4> QED BY <2>1, <2>2, <2>3, <3>1, LaidFrame
      <3>3. to + 1 \in to..Len(t)
        BY <1>5, <2>1, <2>6, <2>7
      <3> HIDE DEF s, f, c, t, u
      <3> QED BY <2>4, <2>6, <2>7, <3>2, <3>3 DEF f, c
    <2>8. CASE ~Fits(p)
      <3>1. to \in to..Len(t)
        BY <1>5, <2>1
      <3>2. Laid("down", s \o u, t, f, to, c, w) /\ Whole(s \o u, t, f, to, c, w)
        <4>1. CASE CanFrame(p)
          <5>1. p.size = 0
            BY <1>3, <2>8, <4>1, LinkAssumption DEF Fits, CanFrame
          <5>2. u = <<Prefix(0)>>
            <6>1. Payload(p) = <<>>
              BY <1>3, <5>1, EmptySeq
            <6>2. <<Prefix(0)>> \in Seq(Tokens)
              BY PrefixTyped DEF Tokens
            <6>3. <<Prefix(0)>> \o <<>> = <<Prefix(0)>>
              <7> HIDE DEF Tokens
              <7> QED BY <6>2, ConcatEmptySeq
            <6> QED BY <4>1, <5>1, <6>1, <6>3
          <5> HIDE DEF s, f, c, t, u
          <5> QED BY <2>1, <2>2, <2>3, <5>2, LaidEmpty
        <4>2. CASE ~CanFrame(p)
          <5>1. u = <<>>
            BY <4>2
          <5>2. s \o u = s
            <6> HIDE DEF Tokens, s, u
            <6> QED BY <2>3, <5>1, ConcatEmptySeq
          <5> HIDE DEF s, f, c, t, u
          <5> QED BY <2>1, <5>2
        <4> QED BY <4>1, <4>2
      <3> HIDE DEF s, f, c, t, u
      <3> QED BY <2>4, <2>6, <2>8, <3>1, <3>2 DEF f, c
    <2> QED BY <2>7, <2>8
  <1>8. PipeOK("down")'
    <2>1. /\ Out("down")' = Out("down") /\ Live("down")' = Live("down")
          /\ Len(taken["down"])' = Len(t) /\ Len(t) <= Len(t)
          /\ \A m \in 1..Len(t) : taken'["down"][m] = t[m]
          /\ writer["down"].at # "done"
          /\ reader["down"]' = reader["down"] /\ cut' = cut /\ PipeOK("down")
      BY <1>1, <1>2, <1>5 DEF Out, Live, PipesOK
    <2> HIDE DEF u
    <2> QED BY <1>2, <1>4, <1>5, <1>6, <1>7, <2>1, GrowPipe
  <1>9. PipeOK("up")'
    <2>1. Aside("up")
      BY <1>1, <1>2 DEF Aside, TypesOK
    <2> QED BY <1>2, <2>1, AsidePipe DEF PipesOK
  <1> QED BY <1>8, <1>9 DEF PipesOK, Direction

LEMMA StackWritesPipes ==
    ASSUME TypesOK, SizesOK, PipesOK, NEW size \in DownSizes, StackWrites(size)
    PROVE  PipesOK'
  <1> DEFINE p == [id |-> offered'["down"], size |-> size]
             t == taken["down"]
             r == IF Fits(p) THEN Append(t, Payload(p)) ELSE t
  <1>1. UNCHANGED <<cut, tcp, writer, reader, given>>
    BY DEF StackWrites, wireVars
  <1>2. "down" \in Direction /\ "up" \in Direction
    BY DEF Direction
  <1>3. CASE writer["down"].at = "done"
    <2>1. DropDevice /\ UNCHANGED <<outgoing, taken>>
      BY <1>3 DEF StackWrites
    <2> QED BY <1>1, <2>1, DropDevicePipes
  <1>4. CASE writer["down"].at # "done"
    <2>1. /\ outgoing' = Append(outgoing, p)
          /\ taken' = IF size \in 1..MaxFrame THEN [taken EXCEPT !["down"] = Append(@, Payload(p))]
                      ELSE taken
          /\ UNCHANGED <<bridge, incoming>>
      BY <1>4 DEF StackWrites
    <2>2. /\ p \in Packet /\ Payload(p) \in Seq(Tokens)
          /\ Fits(p) <=> size \in 1..MaxFrame
      <3>1. offered'["down"] \in 1..MaxPackets
        <4>1. /\ offered["down"] \in Nat /\ offered["down"] < MaxPackets
              /\ offered'["down"] = offered["down"] + 1
          BY <1>2 DEF StackWrites, TypesOK
        <4> QED BY <4>1, LinkAssumption
      <3>2. p \in Packet
        BY <3>1 DEF Packet
      <3> QED BY <3>2, PayloadTyped DEF Fits
    <2>3. /\ t \in Seq(Seq(Tokens)) /\ Len(t) \in Nat /\ tcp["down"] \in Seq(Tokens)
          /\ outgoing \in Seq(Packet) /\ taken'["down"] = r
      BY <1>2, <2>1, <2>2, PipeTyped DEF TypesOK, LinkTypeOK
    <2>4. /\ Len(r) \in Nat /\ Len(t) <= Len(r) /\ \A m \in 1..Len(t) : r[m] = t[m]
      <3>1. CASE Fits(p)
        <4>1. r = Append(t, Payload(p))
          BY <3>1
        <4> HIDE DEF r, p, t, Tokens
        <4> QED BY <2>2, <2>3, <4>1, AppendProperties
      <3>2. CASE ~Fits(p)
        BY <2>3, <3>2
      <3> QED BY <3>1, <3>2
    <2>5. /\ <<>> \in Seq(Tokens) /\ Stream("down")' = Stream("down") \o <<>>
          /\ Stream("down")' = Stream("down")
      <3>1. Stream("down")' = Stream("down") /\ Stream("down") \in Seq(Tokens)
        BY <1>1, <1>2, PipeTyped DEF Stream
      <3> HIDE DEF Tokens
      <3> QED BY <3>1, ConcatEmptySeq
    <2>6. ASSUME NEW to, NEW w, InFlight("down", to, w)
          PROVE  \E too \in to..Len(r) : \E x :
                   /\ Laid("down", Stream("down")', r, Begun("down"), too, Rest("down"), x)
                   /\ Whole(Stream("down")', r, Begun("down"), too, Rest("down"), x)
                   /\ \E v : Queued(Queue("down")', r, too, v)
      <3> DEFINE s == Stream("down")
                 f == Begun("down")
                 c == Rest("down")
      <3>1. /\ to \in f..Len(t) /\ to \in Nat /\ f \in Nat /\ to <= Len(t)
            /\ Laid("down", s, t, f, to, c, w) /\ Whole(s, t, f, to, c, w)
            /\ \E v : Queued(outgoing, t, to, v)
        BY <1>2, <1>4, <2>3, <2>6, PipeTyped DEF InFlight, Queue
      <3>2. \A m \in (f + 1)..to : r[m] = t[m]
        <4>1. \A m \in (f + 1)..to : m \in 1..Len(t)
          BY <2>3, <3>1
        <4> QED BY <2>4, <4>1
      <3>3. Laid("down", s, r, f, to, c, w) /\ Whole(s, r, f, to, c, w)
        <4> HIDE DEF s, f, c, r, t
        <4> QED BY <3>1, <3>2, LaidTaken
      <3>4. PICK v : Queued(outgoing, t, to, v)
        BY <3>1
      <3>5. \E x : Queued(Append(outgoing, p), r, to, x)
        <4> HIDE DEF t, p
        <4> QED BY <2>2, <2>3, <3>1, <3>4, QueuedMore
      <3>6. /\ to \in to..Len(r) /\ Queue("down")' = Append(outgoing, p)
            /\ Stream("down")' = s
        BY <2>1, <2>3, <2>4, <2>5, <3>1 DEF Queue
      <3> HIDE DEF s, f, c, r, t, p
      <3> QED BY <3>3, <3>5, <3>6 DEF f, c
    <2>7. PipeOK("down")'
      <3>1. /\ Out("down")' = Out("down") /\ Live("down")' = Live("down")
            /\ reader["down"]' = reader["down"] /\ cut' = cut /\ PipeOK("down")
        BY <1>1, <1>2 DEF Out, Live, PipesOK
      <3> HIDE DEF r
      <3> QED BY <1>2, <1>4, <2>3, <2>4, <2>5, <2>6, <3>1, GrowPipe
    <2>8. PipeOK("up")'
      <3>1. Aside("up")
        BY <1>1, <1>2, <2>1 DEF Aside, TypesOK
      <3> QED BY <1>2, <3>1, AsidePipe DEF PipesOK
    <2> QED BY <2>7, <2>8 DEF PipesOK, Direction
  <1> QED BY <1>3, <1>4

-----------------------------------------------------------------------------
(* Types, sizes and ends. *)
Shape == TypesOK /\ SizesOK /\ EndsOK

LEMMA WriteTokenShape == ASSUME Shape, NEW d \in Direction, WriteToken(d) PROVE Shape'
  <1> USE DEF Shape
  <1> DEFINE l == writer[d].left
             h == IF Len(l) = 1 THEN "take" ELSE writer[d].at
  <1>1. /\ writer[d].at = "write" /\ l # <<>> /\ Len(tcp[d]) < TcpCap
        /\ tcp' = [tcp EXCEPT ![d] = Append(@, Head(l))]
        /\ writer' = [writer EXCEPT ![d].left = Tail(@), ![d].at = h]
        /\ UNCHANGED <<desktopVars, cut, reader, phoneVars, historyVars>>
    BY DEF WriteToken
  <1>2. tcp[d] \in Seq(Tokens) /\ l \in Seq(Tokens)
    BY PipeTyped
  <1>3. /\ Head(l) \in Tokens /\ Tail(l) \in Seq(Tokens)
        /\ Len(l) = 1 => Tail(l) = <<>>
        /\ Append(tcp[d], Head(l)) \in Seq(Tokens)
        /\ Len(Append(tcp[d], Head(l))) = Len(tcp[d]) + 1 /\ Len(tcp[d]) \in Nat
    <2> HIDE DEF Tokens, l
    <2>1. /\ Head(l) \in Tokens /\ Tail(l) \in Seq(Tokens) /\ Len(Tail(l)) = Len(l) - 1
      BY <1>1, <1>2, HeadTailProperties
    <2>2. Len(l) = 1 => Tail(l) = <<>>
      <3>1. \A q \in Seq(Tokens) : Len(q) = 0 => q = <<>>
        BY EmptySeq
      <3>2. Len(l) = 1 => Len(Tail(l)) = 0
        BY <2>1
      <3> QED BY <2>1, <3>1, <3>2
    <2> QED BY <1>2, <2>1, <2>2, AppendProperties, LenProperties
  <1> HIDE DEF Tokens
  <1>4. tcp' \in [Direction -> Seq(Tokens)] /\ \A e \in Direction : Len(tcp'[e]) <= TcpCap
    <2> DEFINE a == Append(tcp[d], Head(l))
    <2>1. tcp \in [Direction -> Seq(Tokens)] /\ \A e \in Direction : Len(tcp[e]) <= TcpCap
      BY DEF TypesOK, LinkTypeOK
    <2>2. tcp' = [tcp EXCEPT ![d] = a]
      BY <1>1
    <2>3. a \in Seq(Tokens) /\ Len(a) <= TcpCap
      BY <1>1, <1>3, LinkAssumption
    <2> HIDE DEF a
    <2> QED BY <2>1, <2>2, <2>3
  <1>5. /\ writer' \in [Direction -> [at : {"take", "write", "done"}, left : Seq(Tokens)]]
        /\ \A e \in Direction : e # d => writer'[e] = writer[e]
        /\ writer'[d].at = h /\ writer'[d].left = Tail(l)
    <2> DEFINE W == [at : {"take", "write", "done"}, left : Seq(Tokens)]
    <2>1. writer \in [Direction -> W] /\ h \in {"take", "write", "done"}
      BY <1>1 DEF TypesOK
    <2>2. writer'[d].at = h /\ writer'[d].left = Tail(l)
      BY <1>1, <2>1
    <2>3. writer' \in [Direction -> W] /\ \A e \in Direction : e # d => writer'[e] = writer[e]
      <3>1. writer' = [writer EXCEPT ![d].left = Tail(l), ![d].at = h]
        BY <1>1
      <3> HIDE DEF h, l
      <3> QED BY <1>3, <2>1, <3>1
    <2> QED BY <2>2, <2>3
  <1>6. TypesOK'
    BY <1>1, <1>4, <1>5 DEF TypesOK, LinkTypeOK, desktopVars, phoneVars, historyVars
  <1>7. SizesOK'
    BY <1>1 DEF SizesOK, desktopVars, historyVars
  <1>8. EndsOK'
    BY <1>1, <1>3, <1>5 DEF EndsOK, desktopVars, Direction
  <1> QED BY <1>6, <1>7, <1>8

LEMMA WriterFailsShape == ASSUME Shape, NEW d \in Direction, WriterFails(d) PROVE Shape'
  <1> USE DEF Shape
  <1>1. /\ writer[d].at = "write"
        /\ writer' = [writer EXCEPT ![d] = [at |-> "done", left |-> <<>>]]
        /\ ThreadEnds(d = "up")
        /\ UNCHANGED <<ring, running, main, socket, wireVars, reader, phoneVars, historyVars>>
    BY DEF WriterFails
  <1>2. <<>> \in Seq(Tokens)
    OBVIOUS
  <1>3. alive' \in BOOLEAN
    <2>1. alive \in BOOLEAN /\ ThreadEnds(d = "up")
      BY <1>1 DEF TypesOK, LinkTypeOK
    <2>2. CASE d = "up"
      BY <2>1, <2>2 DEF ThreadEnds
    <2>3. CASE d # "up"
      BY <2>1, <2>3 DEF ThreadEnds
    <2> QED BY <2>2, <2>3
  <1> HIDE DEF Tokens
  <1>4. /\ writer' \in [Direction -> [at : {"take", "write", "done"}, left : Seq(Tokens)]]
        /\ \A e \in Direction : e # d => writer'[e] = writer[e]
        /\ writer'[d].at = "done" /\ writer'[d].left = <<>>
    BY <1>1, <1>2 DEF TypesOK
  <1>5. TypesOK'
    BY <1>1, <1>3, <1>4 DEF TypesOK, LinkTypeOK, wireVars, phoneVars, historyVars
  <1>6. SizesOK'
    BY <1>1 DEF SizesOK, historyVars
  <1>7. EndsOK'
    BY <1>1, <1>4 DEF EndsOK, Direction
  <1> QED BY <1>5, <1>6, <1>7

LEMMA ReadTokenShape == ASSUME Shape, NEW d \in Direction, ReadToken(d) PROVE Shape'
  <1> USE DEF Shape
  <1> DEFINE k == Head(tcp[d])
             r == reader[d]
             g == Append(r.frame, k)
             n == IF r.at = "head" THEN AfterPrefix(AsLength(k))
                  ELSE [r EXCEPT !.frame = g, !.at = IF Len(g) = r.need THEN "put" ELSE "body"]
             R == [at : {"head", "body", "put", "done"}, need : Nat, frame : Seq(Tokens)]
  <1>1. /\ r.at \in {"head", "body"} /\ tcp[d] # <<>>
        /\ reader' = [reader EXCEPT ![d] = n] /\ tcp' = [tcp EXCEPT ![d] = Tail(@)]
        /\ UNCHANGED <<desktopVars, cut, writer, phoneVars, historyVars>>
    BY DEF ReadToken
  <1>2. /\ k \in Tokens /\ Tail(tcp[d]) \in Seq(Tokens)
        /\ Len(Tail(tcp[d])) = Len(tcp[d]) - 1 /\ Len(tcp[d]) \in Nat
    <2>1. tcp[d] \in Seq(Tokens)
      BY PipeTyped
    <2> HIDE DEF Tokens
    <2> QED BY <1>1, <2>1, HeadTailProperties, LenProperties
  <1>3. AsLength(k) \in Nat
    BY <1>2 DEF AsLength, Tokens
  <1> HIDE DEF k, Tokens
  <1>4. n \in R
    <2>1. r \in R /\ r.frame \in Seq(Tokens)
      BY DEF TypesOK
    <2>2. g \in Seq(Tokens) /\ <<>> \in Seq(Tokens)
      BY <1>2, <2>1, AppendProperties
    <2> HIDE DEF g, r
    <2>3. AfterPrefix(AsLength(k)) \in R
      BY <1>3, <2>2 DEF AfterPrefix
    <2>4. [r EXCEPT !.frame = g, !.at = IF Len(g) = r.need THEN "put" ELSE "body"] \in R
      BY <2>1, <2>2
    <2> QED BY <2>3, <2>4
  <1> HIDE DEF n
  <1>5. /\ reader' \in [Direction -> R]
        /\ \A e \in Direction : e # d => reader'[e] = reader[e]
    BY <1>1, <1>4 DEF TypesOK
  <1>6. tcp' \in [Direction -> Seq(Tokens)] /\ \A e \in Direction : Len(tcp'[e]) <= TcpCap
    <2>1. tcp' \in [Direction -> Seq(Tokens)]
      BY <1>1, <1>2 DEF TypesOK
    <2>2. tcp \in [Direction -> Seq(Tokens)] /\ \A e \in Direction : Len(tcp[e]) <= TcpCap
      BY DEF TypesOK, LinkTypeOK
    <2>3. Len(tcp'[d]) <= TcpCap
      BY <1>1, <1>2, <2>2, LinkAssumption
    <2> QED BY <1>1, <2>1, <2>2, <2>3
  <1>7. TypesOK'
    BY <1>1, <1>5, <1>6 DEF TypesOK, LinkTypeOK, desktopVars, phoneVars, historyVars
  <1>8. SizesOK'
    BY <1>1 DEF SizesOK, desktopVars, historyVars
  <1>9. EndsOK'
    BY <1>1, <1>5 DEF EndsOK, desktopVars, Direction
  <1> QED BY <1>7, <1>8, <1>9

(* A reader gives up, or turns to the next frame. *)
LEMMA ReaderShape ==
    ASSUME Shape, NEW d \in Direction, reader[d].at # "done",
           NEW r \in {ReaderDone, NextFrame}, reader' = [reader EXCEPT ![d] = r],
           alive' \in BOOLEAN,
           UNCHANGED <<ring, running, main, socket, wireVars, writer, outgoing, bridge,
                       offered, taken>>
    PROVE  /\ SizesOK' /\ EndsOK'
           /\ incoming' \in Seq(Seq(Tokens)) /\ Len(incoming') <= IncomingCap
              /\ given' \in [Direction -> Seq(Seq(Tokens))] => TypesOK'
  <1> USE DEF Shape
  <1>1. r \in [at : {"head", "body", "put", "done"}, need : Nat, frame : Seq(Tokens)]
    <2>1. <<>> \in Seq(Tokens)
      OBVIOUS
    <2> HIDE DEF Tokens
    <2>2. CASE r = ReaderDone
      BY <2>1, <2>2 DEF ReaderDone
    <2>3. CASE r = NextFrame
      BY <2>1, <2>3 DEF NextFrame
    <2> QED BY <2>2, <2>3
  <1> HIDE DEF Tokens
  <1>2. /\ reader' \in [Direction -> [at : {"head", "body", "put", "done"}, need : Nat,
                                      frame : Seq(Tokens)]]
        /\ \A e \in Direction : e # d => reader'[e] = reader[e]
    BY <1>1 DEF TypesOK
  <1>3. SizesOK'
    BY DEF SizesOK
  <1>4. EndsOK'
    BY <1>2 DEF EndsOK, Direction
  <1>5. ASSUME incoming' \in Seq(Seq(Tokens)), Len(incoming') <= IncomingCap,
               given' \in [Direction -> Seq(Seq(Tokens))]
        PROVE  TypesOK'
    BY <1>2, <1>5 DEF TypesOK, LinkTypeOK, wireVars
  <1> QED BY <1>3, <1>4, <1>5

LEMMA ReaderFailsShape == ASSUME Shape, NEW d \in Direction, ReaderFails(d) PROVE Shape'
  <1> USE DEF Shape
  <1>1. /\ reader[d].at # "done" /\ reader' = [reader EXCEPT ![d] = ReaderDone]
        /\ UNCHANGED <<ring, running, main, socket, wireVars, writer, phoneVars, historyVars>>
    BY DEF ReaderFails
  <1>2. alive' \in BOOLEAN
    <2>1. alive \in BOOLEAN /\ ThreadEnds(d = "down")
      BY DEF ReaderFails, TypesOK, LinkTypeOK
    <2>2. CASE d = "down"
      BY <2>1, <2>2 DEF ThreadEnds
    <2>3. CASE d # "down"
      BY <2>1, <2>3 DEF ThreadEnds
    <2> QED BY <2>2, <2>3
  <1>3. /\ incoming' \in Seq(Seq(Tokens)) /\ Len(incoming') <= IncomingCap
        /\ given' \in [Direction -> Seq(Seq(Tokens))]
    BY <1>1 DEF TypesOK, LinkTypeOK, phoneVars, historyVars
  <1> QED BY <1>1, <1>2, <1>3, ReaderShape DEF phoneVars, historyVars

LEMMA InjectShape == ASSUME Shape, Inject PROVE Shape'
  <1> USE DEF Shape
  <1>1. /\ reader["down"].at # "done" /\ reader' = [reader EXCEPT !["down"] = NextFrame]
        /\ given' = IF reader["down"].frame = <<>> THEN given
                    ELSE [given EXCEPT !["down"] = Append(@, reader["down"].frame)]
        /\ UNCHANGED <<desktopVars, wireVars, writer, phoneVars, offered, taken>>
    BY DEF Inject
  <1>2. "down" \in Direction
    BY DEF Direction
  <1>3. given' \in [Direction -> Seq(Seq(Tokens))]
    <2>1. reader["down"].frame \in Seq(Tokens)
      BY <1>2, PipeTyped
    <2>2. given \in [Direction -> Seq(Seq(Tokens))]
      BY DEF TypesOK
    <2> HIDE DEF Tokens
    <2>3. Append(given["down"], reader["down"].frame) \in Seq(Seq(Tokens))
      BY <1>2, <2>1, <2>2, AppendProperties
    <2> QED BY <1>1, <2>2, <2>3
  <1>4. alive' \in BOOLEAN
    BY <1>1 DEF TypesOK, LinkTypeOK, desktopVars
  <1>5. incoming' \in Seq(Seq(Tokens)) /\ Len(incoming') <= IncomingCap
    BY <1>1 DEF TypesOK, LinkTypeOK, phoneVars
  <1> QED BY <1>1, <1>2, <1>3, <1>4, <1>5, ReaderShape DEF desktopVars, phoneVars

LEMMA InjectFailsShape == ASSUME Shape, InjectFails PROVE Shape'
  <1> USE DEF Shape
  <1>1. /\ reader["down"].at # "done" /\ reader' = [reader EXCEPT !["down"] = ReaderDone]
        /\ alive' = FALSE
        /\ UNCHANGED <<ring, running, main, socket, wireVars, writer, phoneVars, historyVars>>
    BY DEF InjectFails, ThreadEnds
  <1>2. "down" \in Direction /\ alive' \in BOOLEAN
    BY <1>1 DEF Direction
  <1>3. /\ incoming' \in Seq(Seq(Tokens)) /\ Len(incoming') <= IncomingCap
        /\ given' \in [Direction -> Seq(Seq(Tokens))]
    BY <1>1 DEF TypesOK, LinkTypeOK, phoneVars, historyVars
  <1> QED BY <1>1, <1>2, <1>3, ReaderShape DEF phoneVars, historyVars

LEMMA ForwardShape == ASSUME Shape, Forward PROVE Shape'
  <1> USE DEF Shape
  <1> DEFINE F == reader["up"].frame
  <1>1. /\ reader["up"].at # "done"
        /\ UNCHANGED <<desktopVars, wireVars, writer, outgoing, bridge, historyVars>>
    BY DEF Forward
  <1>2. "up" \in Direction /\ alive' \in BOOLEAN
    BY <1>1 DEF Direction, TypesOK, LinkTypeOK, desktopVars
  <1>3. given' \in [Direction -> Seq(Seq(Tokens))]
    BY <1>1 DEF TypesOK, historyVars
  <1>4. incoming \in Seq(Seq(Tokens)) /\ Len(incoming) <= IncomingCap
    BY DEF TypesOK, LinkTypeOK
  <1>5. CASE bridge = "up"
    <2>1. /\ reader' = [reader EXCEPT !["up"] = NextFrame] /\ Len(incoming) < IncomingCap
          /\ incoming' = Append(incoming, F)
      BY <1>5 DEF Forward, HasRoom
    <2>2. F \in Seq(Tokens)
      BY <1>2, PipeTyped
    <2>3. incoming' \in Seq(Seq(Tokens)) /\ Len(incoming') <= IncomingCap
      <3> HIDE DEF F, Tokens
      <3>1. /\ incoming' \in Seq(Seq(Tokens)) /\ Len(incoming') = Len(incoming) + 1
            /\ Len(incoming) \in Nat
        BY <1>4, <2>1, <2>2, AppendProperties, LenProperties
      <3> QED BY <2>1, <3>1, LinkAssumption
    <2> QED BY <1>1, <1>2, <1>3, <2>1, <2>3, ReaderShape DEF desktopVars, historyVars
  <1>6. CASE bridge # "up"
    <2>1. reader' = [reader EXCEPT !["up"] = ReaderDone] /\ incoming' = incoming
      BY <1>6 DEF Forward
    <2> QED BY <1>1, <1>2, <1>3, <1>4, <2>1, ReaderShape DEF desktopVars, historyVars
  <1> QED BY <1>5, <1>6

(* The desktop's steps that change neither the wire nor the phone. *)
LEMMA DesktopShape ==
    ASSUME Shape, AppSends \/ LeaveLoop(TRUE) \/ LeaveLoop(FALSE) \/ StopSession
                    \/ ShutdownSocket \/ Join
    PROVE  Shape' /\ UNCHANGED Pipes
  <1> USE DEF Shape
  <1>1. CASE AppSends
    <2> DEFINE n == offered["up"] + 1
               p == [id |-> n, size |-> 1]
    <2>1. /\ offered["up"] < MaxPackets /\ "up" \in Direction
          /\ offered' = [offered EXCEPT !["up"] = n] /\ ring' = Append(ring, [id |-> offered'["up"], size |-> 1])
          /\ UNCHANGED <<running, alive, main, socket, wireVars, writer, reader,
                         phoneVars, taken, given>>
      BY <1>1 DEF AppSends, Direction
    <2>2. /\ offered["up"] \in Nat /\ n \in Nat /\ n \in 1..MaxPackets
          /\ offered' \in [Direction -> Nat]
          /\ \A d \in Direction : offered'[d] \in 0..MaxPackets
      <3>1. /\ offered \in [Direction -> Nat] /\ offered["up"] \in Nat
            /\ \A d \in Direction : offered[d] \in 0..MaxPackets
        BY <2>1 DEF TypesOK, LinkTypeOK
      <3>2. n \in Nat /\ n \in 1..MaxPackets /\ n \in 0..MaxPackets
        BY <2>1, <3>1, LinkAssumption
      <3> HIDE DEF n
      <3> QED BY <2>1, <3>1, <3>2
    <2>3. ring' = Append(ring, p)
      BY <2>1 DEF TypesOK
    <2>4. p \in Packet
      BY <2>2 DEF Packet
    <2>5. ring \in Seq(Packet)
      BY DEF TypesOK, LinkTypeOK
    <2>6. ring' \in Seq(Packet) /\ \A i \in 1..Len(ring') : ring'[i].size = 1
      <3>1. \A i \in 1..Len(ring) : ring[i].size = 1
        BY DEF SizesOK
      <3>2. p.size = 1
        OBVIOUS
      <3> HIDE DEF p, Packet
      <3>3. /\ ring' \in Seq(Packet) /\ Len(ring') = Len(ring) + 1 /\ Len(ring) \in Nat
            /\ \A i \in 1..Len(ring) : ring'[i] = ring[i]
            /\ ring'[Len(ring) + 1] = p
        BY <2>3, <2>4, <2>5, AppendProperties, LenProperties
      <3>4. \A i \in 1..Len(ring') : i \in 1..Len(ring) \/ i = Len(ring) + 1
        BY <3>3
      <3> QED BY <3>1, <3>2, <3>3, <3>4
    <2>7. TypesOK'
      <3> HIDE DEF Tokens, Packet
      <3> QED BY <2>1, <2>2, <2>6 DEF TypesOK, LinkTypeOK, wireVars, phoneVars
    <2>8. SizesOK' /\ EndsOK'
      BY <2>1, <2>6 DEF SizesOK, EndsOK
    <2> QED BY <2>1, <2>7, <2>8 DEF Pipes, wireVars, phoneVars
  <1>2. ASSUME \/ /\ main' \in {"stop", "shutdown", "join"}
                  /\ running' \in BOOLEAN /\ socket' \in {"open", "shut"}
               \/ Join /\ UNCHANGED <<running, socket>>,
               UNCHANGED <<ring, alive, wireVars, writer, reader, phoneVars, historyVars>>
        PROVE  Shape' /\ UNCHANGED Pipes
    <2> HIDE DEF Tokens, Packet
    <2>1. /\ main' \in {"wait", "stop", "shutdown", "join", "done"}
          /\ running' \in BOOLEAN /\ socket' \in {"open", "shut"}
      BY <1>2 DEF Join, TypesOK, LinkTypeOK
    <2>2. TypesOK'
      BY <1>2, <2>1 DEF TypesOK, LinkTypeOK, wireVars, phoneVars, historyVars
    <2>3. SizesOK'
      BY <1>2 DEF SizesOK, historyVars
    <2>4. EndsOK'
      BY <1>2 DEF EndsOK, Join
    <2> QED BY <1>2, <2>2, <2>3, <2>4 DEF Pipes, wireVars, phoneVars, historyVars
  <1>3. CASE LeaveLoop(TRUE) \/ LeaveLoop(FALSE)
    <2>1. /\ main' = "stop" /\ running' = running /\ socket' = socket
          /\ UNCHANGED <<ring, alive, wireVars, writer, reader, phoneVars, historyVars>>
      BY <1>3 DEF LeaveLoop
    <2>2. running' \in BOOLEAN /\ socket' \in {"open", "shut"}
      BY <2>1 DEF TypesOK, LinkTypeOK
    <2> QED BY <1>2, <2>1, <2>2
  <1>4. CASE StopSession
    <2>1. /\ main' = "shutdown" /\ running' = FALSE /\ socket' = socket
          /\ UNCHANGED <<ring, alive, wireVars, writer, reader, phoneVars, historyVars>>
      BY <1>4 DEF StopSession
    <2>2. running' \in BOOLEAN /\ socket' \in {"open", "shut"}
      BY <2>1 DEF TypesOK, LinkTypeOK
    <2> QED BY <1>2, <2>1, <2>2
  <1>5. CASE ShutdownSocket
    <2>1. /\ main' = "join" /\ running' = running /\ socket' = "shut"
          /\ UNCHANGED <<ring, alive, wireVars, writer, reader, phoneVars, historyVars>>
      BY <1>5 DEF ShutdownSocket
    <2>2. running' \in BOOLEAN /\ socket' \in {"open", "shut"}
      BY <2>1 DEF TypesOK, LinkTypeOK
    <2> QED BY <1>2, <2>1, <2>2
  <1>6. CASE Join
    BY <1>2, <1>6 DEF Join
  <1> QED BY <1>1, <1>3, <1>4, <1>5, <1>6

(* Thread A, and the phone's writer. *)
LEMMA ReceiveShape == ASSUME Shape, Receive PROVE Shape'
  <1> USE DEF Shape
  <1> DEFINE p == Head(ring)
             u == <<Prefix(p.size)>> \o Payload(p)
  <1>1. /\ writer["up"].at = "take" /\ ring # <<>> /\ ring' = Tail(ring)
        /\ writer' = [writer EXCEPT !["up"] = [at |-> "write", left |-> u]]
        /\ taken' = [taken EXCEPT !["up"] = Append(@, Payload(p))]
        /\ UNCHANGED <<running, alive, main, socket, wireVars, reader, phoneVars,
                       offered, given>>
    BY DEF Receive
  <1>2. "up" \in Direction /\ 1 \in 1..MaxFrame
    BY LinkAssumption DEF Direction
  <1>3. /\ p \in Packet /\ p.size = 1 /\ Payload(p) \in Seq(Tokens) /\ Len(Payload(p)) = 1
        /\ ring' \in Seq(Packet) /\ \A i \in 1..Len(ring') : ring'[i].size = 1
    <2>1. ring \in Seq(Packet) /\ \A i \in 1..Len(ring) : ring[i].size = 1
      BY DEF TypesOK, LinkTypeOK, SizesOK
    <2> HIDE DEF Packet
    <2>2. /\ p \in Packet /\ p = ring[1] /\ 1 \in 1..Len(ring) /\ Len(ring) \in Nat
          /\ ring' \in Seq(Packet) /\ Len(ring') = Len(ring) - 1
          /\ \A i \in 1..Len(ring') : ring'[i] = ring[i + 1]
      <3>1. Len(ring) \in Nat /\ Len(ring) # 0
        BY <1>1, <2>1, EmptySeq, LenProperties
      <3> QED BY <1>1, <2>1, <3>1, HeadTailProperties
    <2>3. p.size = 1
      BY <2>1, <2>2
    <2>4. ASSUME NEW i \in 1..Len(ring') PROVE ring'[i].size = 1
      <3>1. i + 1 \in 1..Len(ring)
        BY <2>2
      <3> QED BY <2>1, <2>2, <3>1
    <2> QED BY <2>2, <2>3, <2>4, PayloadTyped
  <1>4. u \in Seq(Tokens)
    BY <1>3, FrameTyped
  <1> HIDE DEF Tokens, Packet, p, u
  <1>5. writer' \in [Direction -> [at : {"take", "write", "done"}, left : Seq(Tokens)]]
    BY <1>1, <1>4 DEF TypesOK
  <1>6. /\ taken' \in [Direction -> Seq(Seq(Tokens))]
        /\ \A d \in Direction : \A i \in 1..Len(taken'[d]) : Len(taken'[d][i]) \in 1..MaxFrame
    <2> DEFINE r == Append(taken["up"], Payload(p))
    <2>1. taken \in [Direction -> Seq(Seq(Tokens))]
      BY DEF TypesOK
    <2>2. /\ r \in Seq(Seq(Tokens)) /\ Len(r) = Len(taken["up"]) + 1
          /\ Len(taken["up"]) \in Nat
          /\ \A i \in 1..Len(taken["up"]) : r[i] = taken["up"][i]
          /\ r[Len(taken["up"]) + 1] = Payload(p)
      BY <1>2, <1>3, <2>1, AppendProperties, LenProperties
    <2> HIDE DEF r
    <2>3. \A i \in 1..Len(r) : Len(r[i]) \in 1..MaxFrame
      <3>1. \A i \in 1..Len(r) : i \in 1..Len(taken["up"]) \/ i = Len(taken["up"]) + 1
        BY <2>2
      <3>2. \A i \in 1..Len(taken["up"]) : Len(taken["up"][i]) \in 1..MaxFrame
        BY <1>2 DEF SizesOK
      <3> QED BY <1>2, <1>3, <2>2, <3>1, <3>2
    <2>4. taken' = [taken EXCEPT !["up"] = r]
      BY <1>1 DEF r
    <2>5. /\ taken' \in [Direction -> Seq(Seq(Tokens))] /\ taken'["up"] = r
          /\ \A d \in Direction : d # "up" => taken'[d] = taken[d]
      BY <1>2, <2>1, <2>2, <2>4
    <2> QED BY <2>3, <2>5 DEF SizesOK
  <1>7. TypesOK'
    BY <1>1, <1>3, <1>5, <1>6 DEF TypesOK, LinkTypeOK, wireVars, phoneVars
  <1>8. SizesOK'
    BY <1>3, <1>6 DEF SizesOK
  <1>9. EndsOK'
    <2>1. main' # "done"
      BY <1>1 DEF EndsOK
    <2>2. \A d \in Direction : writer'[d].at # "write" => writer'[d].left = <<>>
      BY <1>1 DEF EndsOK, TypesOK
    <2> QED BY <2>1, <2>2 DEF EndsOK
  <1> QED BY <1>7, <1>8, <1>9

(* A writer that holds nothing ends. *)
LEMMA WriterEndsShape ==
    ASSUME Shape, NEW d \in Direction, writer[d].at = "take",
           writer' = [writer EXCEPT ![d].at = "done"], alive' \in BOOLEAN,
           UNCHANGED <<ring, running, main, socket, wireVars, reader, phoneVars, historyVars>>
    PROVE  Shape'
  <1> USE DEF Shape
  <1> HIDE DEF Tokens, Packet
  <1>1. /\ writer' \in [Direction -> [at : {"take", "write", "done"}, left : Seq(Tokens)]]
        /\ \A e \in Direction : e # d => writer'[e] = writer[e]
        /\ writer'[d].at = "done" /\ writer'[d].left = writer[d].left
    BY DEF TypesOK
  <1>2. TypesOK'
    BY <1>1 DEF TypesOK, LinkTypeOK, wireVars, phoneVars, historyVars
  <1>3. SizesOK'
    BY DEF SizesOK, historyVars
  <1>4. EndsOK'
    BY <1>1 DEF EndsOK, Direction
  <1> QED BY <1>2, <1>3, <1>4

LEMMA DequeueShape == ASSUME Shape, Dequeue PROVE Shape'
  <1> USE DEF Shape
  <1> DEFINE p == Head(outgoing)
             u == <<Prefix(p.size)>> \o Payload(p)
  <1>1. /\ writer["down"].at = "take" /\ outgoing # <<>> /\ outgoing' = Tail(outgoing)
        /\ writer' = IF CanFrame(p)
                     THEN [writer EXCEPT !["down"] = [at |-> "write", left |-> u]]
                     ELSE writer
        /\ UNCHANGED <<desktopVars, wireVars, reader, incoming, bridge, historyVars>>
    BY DEF Dequeue
  <1>2. p \in Packet /\ outgoing' \in Seq(Packet) /\ "down" \in Direction
    BY <1>1, HeadTailProperties DEF TypesOK, LinkTypeOK, Direction
  <1>3. u \in Seq(Tokens)
    BY <1>2, PayloadTyped, FrameTyped
  <1> HIDE DEF Tokens, Packet, p, u
  <1>4. /\ writer' \in [Direction -> [at : {"take", "write", "done"}, left : Seq(Tokens)]]
        /\ writer'["up"] = writer["up"]
        /\ \A d \in Direction : writer'[d].at # "write" => writer'[d].left = <<>>
    <2>1. /\ writer \in [Direction -> [at : {"take", "write", "done"}, left : Seq(Tokens)]]
          /\ \A d \in Direction : writer[d].at # "write" => writer[d].left = <<>>
      BY DEF TypesOK, EndsOK
    <2>2. CASE CanFrame(p)
      <3>1. writer' = [writer EXCEPT !["down"] = [at |-> "write", left |-> u]]
        BY <1>1, <2>2
      <3> QED BY <1>3, <2>1, <3>1 DEF Direction
    <2>3. CASE ~CanFrame(p)
      BY <1>1, <2>1, <2>3
    <2> QED BY <2>2, <2>3
  <1>5. TypesOK'
    BY <1>1, <1>2, <1>4 DEF TypesOK, LinkTypeOK, desktopVars, wireVars, historyVars
  <1>6. SizesOK'
    BY <1>1 DEF SizesOK, desktopVars, historyVars
  <1>7. EndsOK'
    BY <1>1, <1>4 DEF EndsOK, desktopVars
  <1> QED BY <1>5, <1>6, <1>7

LEMMA StackReadsShape == ASSUME Shape, StackReads PROVE Shape'
  <1> USE DEF Shape
  <1>1. /\ incoming # <<>> /\ incoming' = Tail(incoming)
        /\ given' = [given EXCEPT !["up"] = Append(@, Head(incoming))]
        /\ UNCHANGED <<desktopVars, wireVars, writer, reader, outgoing, bridge, offered, taken>>
    BY DEF StackReads
  <1>2. "up" \in Direction /\ incoming \in Seq(Seq(Tokens)) /\ Len(incoming) <= IncomingCap
        /\ given \in [Direction -> Seq(Seq(Tokens))]
    BY DEF Direction, TypesOK, LinkTypeOK
  <1> HIDE DEF Tokens, Packet
  <1>3. /\ incoming' \in Seq(Seq(Tokens)) /\ Len(incoming') = Len(incoming) - 1
        /\ Head(incoming) \in Seq(Tokens) /\ Len(incoming) \in Nat
    BY <1>1, <1>2, HeadTailProperties, LenProperties
  <1>4. Len(incoming') <= IncomingCap
    BY <1>2, <1>3, LinkAssumption
  <1>5. given' \in [Direction -> Seq(Seq(Tokens))]
    <2>1. Append(given["up"], Head(incoming)) \in Seq(Seq(Tokens))
      BY <1>2, <1>3, AppendProperties
    <2> QED BY <1>1, <1>2, <2>1
  <1>6. TypesOK'
    BY <1>1, <1>3, <1>4, <1>5 DEF TypesOK, LinkTypeOK, desktopVars, wireVars
  <1>7. SizesOK' /\ EndsOK'
    BY <1>1 DEF SizesOK, EndsOK, desktopVars
  <1> QED BY <1>6, <1>7

LEMMA DropDeviceShape ==
    ASSUME Shape, DropDevice,
           UNCHANGED <<desktopVars, wireVars, writer, reader, outgoing, taken, given>>,
           offered' \in [Direction -> Nat], \A d \in Direction : offered'[d] \in 0..MaxPackets
    PROVE  Shape'
  <1> USE DEF Shape
  <1>1. incoming' \in Seq(Seq(Tokens)) /\ Len(incoming') = 0 /\ bridge' = "down"
    BY DEF DropDevice
  <1> HIDE DEF Tokens, Packet
  <1>2. TypesOK'
    <2>1. Len(incoming') <= IncomingCap /\ bridge' \in {"up", "down"}
      BY <1>1, LinkAssumption
    <2> QED BY <1>1, <2>1 DEF TypesOK, LinkTypeOK, desktopVars, wireVars
  <1>3. SizesOK' /\ EndsOK'
    BY DEF SizesOK, EndsOK, desktopVars
  <1> QED BY <1>2, <1>3

LEMMA StackWritesShape ==
    ASSUME Shape, NEW size \in DownSizes, StackWrites(size)
    PROVE  Shape'
  <1> USE DEF Shape
  <1> DEFINE p == [id |-> offered'["down"], size |-> size]
  <1>1. /\ offered["down"] < MaxPackets
        /\ offered' = [offered EXCEPT !["down"] = @ + 1]
        /\ UNCHANGED <<desktopVars, wireVars, writer, reader, given>>
    BY DEF StackWrites
  <1>2. /\ "down" \in Direction
        /\ offered' \in [Direction -> Nat] /\ offered'["down"] \in 1..MaxPackets
        /\ \A d \in Direction : offered'[d] \in 0..MaxPackets
    <2>1. /\ "down" \in Direction /\ offered \in [Direction -> Nat]
          /\ \A d \in Direction : offered[d] \in 0..MaxPackets
      BY DEF TypesOK, LinkTypeOK, Direction
    <2>2. offered["down"] + 1 \in 1..MaxPackets /\ offered["down"] + 1 \in Nat
      BY <1>1, <2>1, LinkAssumption
    <2>3. \A n \in 1..MaxPackets : n \in 0..MaxPackets
      OBVIOUS
    <2>4. offered' = [offered EXCEPT !["down"] = offered["down"] + 1]
      BY <1>1
    <2> QED BY <2>1, <2>2, <2>3, <2>4
  <1>3. CASE writer["down"].at = "done"
    BY <1>1, <1>2, <1>3, DropDeviceShape DEF StackWrites
  <1>4. CASE writer["down"].at # "done"
    <2>1. /\ outgoing' = Append(outgoing, p)
          /\ taken' = IF size \in 1..MaxFrame
                      THEN [taken EXCEPT !["down"] = Append(@, Payload(p))] ELSE taken
          /\ UNCHANGED <<bridge, incoming>>
      BY <1>4 DEF StackWrites
    <2>2. p \in Packet /\ p.size = size
      BY <1>2 DEF Packet
    <2>3. Payload(p) \in Seq(Tokens) /\ Len(Payload(p)) = size
      BY <2>2, PayloadTyped
    <2>4. outgoing \in Seq(Packet)
      BY DEF TypesOK, LinkTypeOK
    <2> HIDE DEF Tokens, Packet, p
    <2>5. outgoing' \in Seq(Packet)
      BY <2>1, <2>2, <2>4, AppendProperties
    <2>6. /\ taken' \in [Direction -> Seq(Seq(Tokens))]
          /\ \A d \in Direction : \A i \in 1..Len(taken'[d]) : Len(taken'[d][i]) \in 1..MaxFrame
      <3>1. taken \in [Direction -> Seq(Seq(Tokens))]
        BY DEF TypesOK
      <3>2. CASE size \notin 1..MaxFrame
        BY <2>1, <3>1, <3>2 DEF SizesOK
      <3>3. CASE size \in 1..MaxFrame
        <4> DEFINE r == Append(taken["down"], Payload(p))
        <4>1. /\ r \in Seq(Seq(Tokens)) /\ Len(r) = Len(taken["down"]) + 1
              /\ Len(taken["down"]) \in Nat
              /\ \A i \in 1..Len(taken["down"]) : r[i] = taken["down"][i]
              /\ r[Len(taken["down"]) + 1] = Payload(p)
          BY <1>2, <2>3, <3>1, AppendProperties, LenProperties
        <4> HIDE DEF r
        <4>2. \A i \in 1..Len(r) : Len(r[i]) \in 1..MaxFrame
          <5>1. \A i \in 1..Len(r) : i \in 1..Len(taken["down"]) \/ i = Len(taken["down"]) + 1
            BY <4>1
          <5>2. \A i \in 1..Len(taken["down"]) : Len(taken["down"][i]) \in 1..MaxFrame
            BY <1>2 DEF SizesOK
          <5> QED BY <2>3, <3>3, <4>1, <5>1, <5>2
        <4>3. taken' = [taken EXCEPT !["down"] = r]
          BY <2>1, <3>3 DEF r
        <4>4. /\ taken' \in [Direction -> Seq(Seq(Tokens))] /\ taken'["down"] = r
              /\ \A d \in Direction : d # "down" => taken'[d] = taken[d]
          BY <1>2, <3>1, <4>1, <4>3
        <4> QED BY <4>2, <4>4 DEF SizesOK
      <3> QED BY <3>2, <3>3
    <2>7. TypesOK'
      BY <1>1, <1>2, <2>1, <2>5, <2>6 DEF TypesOK, LinkTypeOK, desktopVars, wireVars
    <2>8. SizesOK' /\ EndsOK'
      BY <1>1, <2>6 DEF SizesOK, EndsOK, desktopVars
    <2> QED BY <2>7, <2>8
  <1> QED BY <1>3, <1>4

LEMMA CoreStopsShape == ASSUME Shape, CoreStops PROVE Shape'
  <1> USE DEF Shape
  <1>1. /\ bridge' = "down" /\ incoming' = <<>> /\ outgoing' = <<>>
        /\ reader' = [reader EXCEPT !["up"] = ReaderDone]
        /\ writer' = [writer EXCEPT !["down"] = [at |-> "done", left |-> <<>>]]
        /\ UNCHANGED <<desktopVars, wireVars, historyVars>>
    BY DEF CoreStops, DropDevice
  <1>2. /\ incoming' \in Seq(Seq(Tokens)) /\ outgoing' \in Seq(Packet)
        /\ <<>> \in Seq(Tokens) /\ Len(incoming') = 0
    BY <1>1
  <1> HIDE DEF Tokens, Packet
  <1>3. /\ writer' \in [Direction -> [at : {"take", "write", "done"}, left : Seq(Tokens)]]
        /\ writer'["up"] = writer["up"]
        /\ \A d \in Direction : writer'[d].at # "write" => writer'[d].left = <<>>
    BY <1>1, <1>2 DEF TypesOK, EndsOK, Direction
  <1>4. /\ reader' \in [Direction -> [at : {"head", "body", "put", "done"}, need : Nat,
                                      frame : Seq(Tokens)]]
        /\ reader'["down"] = reader["down"]
    BY <1>1, <1>2 DEF TypesOK, Direction, ReaderDone
  <1>5. TypesOK'
    <2>1. Len(incoming') <= IncomingCap /\ bridge' \in {"up", "down"}
      BY <1>1, <1>2, LinkAssumption
    <2> QED BY <1>1, <1>2, <1>3, <1>4, <2>1
        DEF TypesOK, LinkTypeOK, desktopVars, wireVars, historyVars
  <1>6. SizesOK' /\ EndsOK'
    BY <1>1, <1>3, <1>4 DEF SizesOK, EndsOK, desktopVars, historyVars
  <1> QED BY <1>5, <1>6

LEMMA CutShape == ASSUME Shape, Cut PROVE Shape'
  <1> USE DEF Shape
  <1>1. /\ cut' = TRUE /\ tcp' = [d \in Direction |-> <<>>]
        /\ UNCHANGED <<desktopVars, writer, reader, phoneVars, historyVars>>
    BY DEF Cut
  <1>2. tcp' \in [Direction -> Seq(Tokens)] /\ \A d \in Direction : Len(tcp'[d]) <= TcpCap
    BY <1>1, LinkAssumption
  <1> HIDE DEF Tokens, Packet
  <1>3. TypesOK'
    BY <1>1, <1>2 DEF TypesOK, LinkTypeOK, desktopVars, phoneVars, historyVars
  <1>4. SizesOK' /\ EndsOK'
    BY <1>1 DEF SizesOK, EndsOK, desktopVars, historyVars
  <1> QED BY <1>3, <1>4

-----------------------------------------------------------------------------
LEMMA InitInv == LinkInit => Inv
  <1> SUFFICES ASSUME LinkInit PROVE Inv
    OBVIOUS
  <1>1. <<>> \in Seq(Tokens) /\ <<>> \in Seq(Seq(Tokens)) /\ <<>> \in Seq(Packet)
    OBVIOUS
  <1>2. TypesOK
    <2> HIDE DEF Tokens, Packet
    <2>1. Len(<<>>) = 0
      OBVIOUS
    <2>2. /\ tcp \in [Direction -> Seq(Tokens)] /\ \A d \in Direction : Len(tcp[d]) <= TcpCap
          /\ Len(incoming) <= IncomingCap /\ incoming \in Seq(Seq(Tokens))
      BY <1>1, <2>1, LinkAssumption DEF LinkInit
    <2>3. /\ writer \in [Direction -> [at : {"take", "write", "done"}, left : Seq(Tokens)]]
          /\ reader \in [Direction -> [at : {"head", "body", "put", "done"}, need : Nat,
                                       frame : Seq(Tokens)]]
      BY <1>1 DEF LinkInit
    <2>4. /\ taken \in [Direction -> Seq(Seq(Tokens))]
          /\ given \in [Direction -> Seq(Seq(Tokens))]
      BY <1>1 DEF LinkInit
    <2>5. /\ offered \in [Direction -> Nat]
          /\ \A d \in Direction : offered[d] \in 0..MaxPackets
      BY LinkAssumption DEF LinkInit
    <2>6. LinkTypeOK
      BY <1>1, <2>2, <2>3, <2>5 DEF LinkInit, LinkTypeOK
    <2> QED BY <2>2, <2>3, <2>4, <2>5, <2>6 DEF TypesOK
  <1>3. SizesOK /\ EndsOK
    BY DEF LinkInit, SizesOK, EndsOK, Direction
  <1>4. ASSUME NEW d \in Direction PROVE PipeOK(d)
    <2>1. /\ taken[d] = <<>> /\ Out(d) = <<>> /\ Queue(d) = <<>> /\ Stream(d) = <<>>
          /\ reader[d].at = "head" /\ Rest(d) = 0 /\ Begun(d) = 0
      <3>1. <<>> \o <<>> = <<>>
        OBVIOUS
      <3>2. /\ taken[d] = <<>> /\ Out(d) = <<>> /\ Queue(d) = <<>> /\ Stream(d) = <<>>
            /\ reader[d].at = "head"
        BY <3>1 DEF LinkInit, Out, Queue, Stream, Direction
      <3> QED BY <3>2 DEF Rest, Begun, Holds
    <2>2. OutOK(d) /\ ReaderOK(d) /\ RestOK(d)
      BY <2>1 DEF OutOK, ReaderOK, RestOK
    <2>3. Laid(d, <<>>, <<>>, 0, 0, 0, [m \in (0 + 1)..0 |-> 0])
          /\ Whole(<<>>, <<>>, 0, 0, 0, [m \in (0 + 1)..0 |-> 0])
      BY DEF Laid, Whole
    <2>4. \E v : Queued(<<>>, <<>>, 0, v)
      <3>1. Len(<<>>) = 0
        OBVIOUS
      <3> QED BY <3>1, NothingQueued
    <2>5. InFlight(d, 0, [m \in (0 + 1)..0 |-> 0])
      BY <2>1, <2>3, <2>4 DEF InFlight
    <2> QED BY <2>2, <2>5 DEF PipeOK, FlowOK
  <1> QED BY <1>2, <1>3, <1>4 DEF Inv, PipesOK

LEMMA WireInv == ASSUME Inv, NEW d \in Direction, Wire(d) PROVE Inv'
  <1>1. Shape /\ TypesOK /\ SizesOK /\ EndsOK /\ PipesOK
    BY DEF Inv, Shape
  <1>2. Shape' /\ PipesOK' => Inv'
    BY DEF Inv, Shape
  <1>3. CASE WriteToken(d)
    BY <1>1, <1>2, <1>3, WriteTokenShape, WriteTokenPipes
  <1>4. CASE WriterFails(d)
    BY <1>1, <1>2, <1>4, WriterFailsShape, WriterFailsPipes
  <1>5. CASE ReadToken(d)
    BY <1>1, <1>2, <1>5, ReadTokenShape, ReadTokenPipes
  <1>6. CASE ReaderFails(d)
    <2>1. PipesOK'
      BY <1>1, <1>6, ReaderEndsPipes DEF ReaderFails, wireVars, phoneVars, historyVars
    <2> QED BY <1>1, <1>2, <1>6, <2>1, ReaderFailsShape
  <1> QED BY <1>3, <1>4, <1>5, <1>6 DEF Wire

LEMMA DesktopInv == ASSUME Inv, Desktop PROVE Inv'
  <1>1. Shape /\ TypesOK /\ SizesOK /\ EndsOK /\ PipesOK
    BY DEF Inv, Shape
  <1>2. Shape' /\ PipesOK' => Inv'
    BY DEF Inv, Shape
  <1>3. CASE Receive
    BY <1>1, <1>2, <1>3, ReceiveShape, ReceivePipes
  <1>4. CASE ReceiveFails
    <2>1. "up" \in Direction /\ alive' \in BOOLEAN
      BY <1>4 DEF ReceiveFails, ThreadEnds, Direction
    <2>2. PipesOK'
      BY <1>1, <1>4, <2>1, WriterEndsPipes DEF ReceiveFails, wireVars, phoneVars, historyVars
    <2>3. Shape'
      BY <1>1, <1>4, <2>1, WriterEndsShape DEF ReceiveFails
    <2> QED BY <1>2, <2>2, <2>3
  <1>5. CASE Inject
    BY <1>1, <1>2, <1>5, InjectShape, InjectPipes
  <1>6. CASE LeaveLoop(FALSE) \/ StopSession \/ ShutdownSocket \/ Join
    BY <1>1, <1>2, <1>6, DesktopShape, IdlePipes
  <1> QED BY <1>3, <1>4, <1>5, <1>6 DEF Desktop

LEMMA PhoneInv == ASSUME Inv, Phone PROVE Inv'
  <1>1. Shape /\ TypesOK /\ SizesOK /\ EndsOK /\ PipesOK
    BY DEF Inv, Shape
  <1>2. Shape' /\ PipesOK' => Inv'
    BY DEF Inv, Shape
  <1>3. "up" \in Direction /\ "down" \in Direction
    BY DEF Direction
  <1>4. CASE Forward
    <2>1. CASE bridge = "up"
      BY <1>1, <1>2, <1>4, <2>1, ForwardShape, ForwardPipes
    <2>2. CASE bridge # "up"
      <3>1. /\ reader' = [reader EXCEPT !["up"] = ReaderDone]
            /\ UNCHANGED <<cut, tcp, writer, incoming, outgoing, bridge, taken, given>>
        BY <1>4, <2>2 DEF Forward, wireVars, historyVars
      <3>2. PipesOK'
        BY <1>1, <1>3, <3>1, ReaderEndsPipes
      <3> QED BY <1>1, <1>2, <1>4, <3>2, ForwardShape
    <2> QED BY <2>1, <2>2
  <1>5. CASE StackReads
    BY <1>1, <1>2, <1>5, StackReadsShape, StackReadsPipes
  <1>6. CASE Dequeue
    BY <1>1, <1>2, <1>6, DequeueShape, DequeuePipes
  <1>7. CASE QueueClosed
    <2>1. alive' \in BOOLEAN
      BY <1>1, <1>7 DEF QueueClosed, desktopVars, TypesOK, LinkTypeOK
    <2>2. PipesOK'
      BY <1>1, <1>3, <1>7, WriterEndsPipes DEF QueueClosed, wireVars, phoneVars, historyVars
    <2>3. Shape'
      BY <1>1, <1>3, <1>7, <2>1, WriterEndsShape DEF QueueClosed, desktopVars
    <2> QED BY <1>2, <2>2, <2>3
  <1>8. CASE BridgeEnds
    <2>1. /\ DropDevice
          /\ UNCHANGED <<desktopVars, wireVars, writer, reader, outgoing, taken, given>>
          /\ offered' = offered
      BY <1>8 DEF BridgeEnds, historyVars
    <2>2. /\ offered \in [Direction -> Nat]
          /\ \A d \in Direction : offered[d] \in 0..MaxPackets
      BY <1>1 DEF TypesOK, LinkTypeOK
    <2>3. Shape'
      BY <1>1, <2>1, <2>2, DropDeviceShape
    <2>4. PipesOK'
      BY <1>1, <2>1, DropDevicePipes DEF wireVars
    <2> QED BY <1>2, <2>3, <2>4
  <1> QED BY <1>4, <1>5, <1>6, <1>7, <1>8 DEF Phone

LEMMA OutsideInv == ASSUME Inv, Outside PROVE Inv'
  <1>1. Shape /\ TypesOK /\ SizesOK /\ EndsOK /\ PipesOK
    BY DEF Inv, Shape
  <1>2. Shape' /\ PipesOK' => Inv'
    BY DEF Inv, Shape
  <1>3. CASE AppSends \/ LeaveLoop(TRUE)
    BY <1>1, <1>2, <1>3, DesktopShape, IdlePipes
  <1>4. ASSUME NEW size \in DownSizes, StackWrites(size) PROVE Inv'
    BY <1>1, <1>2, <1>4, StackWritesShape, StackWritesPipes
  <1>5. CASE InjectFails
    <2>1. "down" \in Direction
      BY DEF Direction
    <2>2. PipesOK'
      BY <1>1, <1>5, <2>1, ReaderEndsPipes DEF InjectFails, wireVars, phoneVars, historyVars
    <2> QED BY <1>1, <1>2, <1>5, <2>2, InjectFailsShape
  <1>6. CASE CoreStops
    BY <1>1, <1>2, <1>6, CoreStopsShape, CoreStopsPipes
  <1>7. CASE Cut
    BY <1>1, <1>2, <1>7, CutShape, CutPipes
  <1> QED BY <1>3, <1>4, <1>5, <1>6, <1>7 DEF Outside

LEMMA NextInv == Inv /\ [Next]_vars => Inv'
  <1> SUFFICES ASSUME Inv, [Next]_vars PROVE Inv'
    OBVIOUS
  <1>1. CASE UNCHANGED vars
    <2>1. /\ UNCHANGED <<ring, running, alive, main, socket, offered>> /\ UNCHANGED Pipes
      BY <1>1 DEF vars, desktopVars, wireVars, phoneVars, historyVars, Pipes
    <2>2. PipesOK'
      BY <2>1, IdlePipes DEF Inv
    <2> HIDE DEF Tokens, Packet
    <2>3. TypesOK' /\ SizesOK' /\ EndsOK'
      BY <2>1 DEF Inv, TypesOK, LinkTypeOK, SizesOK, EndsOK, Pipes
    <2> QED BY <2>2, <2>3 DEF Inv
  <1>2. CASE Next
    <2>1. Settled => UNCHANGED vars
      BY DEF Settled
    <2> QED BY <1>1, <1>2, <2>1, WireInv, DesktopInv, PhoneInv, OutsideInv DEF Next
  <1> QED BY <1>1, <1>2

(* The inductive invariant of a session: what the writer, the socket        *)
(* buffers, the reader and the phone's queue hold is laid end to end from   *)
(* one stream of packets (worker.rs 88-158, device.rs 67-123).              *)
THEOREM LinkInvariant == LinkSpec => []Inv
  <1> QED BY InitInv, NextInv, PTL DEF LinkSpec

-----------------------------------------------------------------------------
(* The variables of a session keep their types; neither a socket buffer nor *)
(* the phone's queue of 2048 packets overflows (device.rs 31, 90-92).       *)
THEOREM LinkTypeCorrect == LinkSpec => []LinkTypeOK
  <1>1. Inv => LinkTypeOK
    BY DEF Inv, TypesOK
  <1> QED BY <1>1, LinkInvariant, PTL

-----------------------------------------------------------------------------
(* Steps of the promise. *)
Closed == main = "done" /\ bridge = "down"
Kept == [Promise!TunnelNext]_(Promise!tunnelVars)

LEMMA QuietKeeps ==
    ASSUME UNCHANGED <<taken, given>>, Closed => Closed'
    PROVE  Kept
  <1>1. CASE Closed' = Closed
    BY <1>1 DEF Kept, Closed, Promise!tunnelVars
  <1>2. CASE Closed' # Closed
    <2>1. Closed \in BOOLEAN /\ Closed' \in BOOLEAN
      BY DEF Closed
    <2>2. ~Closed /\ Closed' = TRUE
      BY <1>2, <2>1
    <2>3. Promise!Close /\ ~(main = "done" /\ bridge = "down")
      BY <2>2 DEF Closed, Promise!Close
    <2> QED BY <2>3 DEF Kept, Promise!TunnelNext
  <1> QED BY <1>1, <1>2

LEMMA AcceptKeeps ==
    ASSUME NEW d \in Direction, NEW p \in Packet, ~Closed, Closed' = Closed,
           taken' = [taken EXCEPT ![d] = Append(@, Payload(p))], given' = given
    PROVE  Kept
  <1>1. Promise!Accept(d, Payload(p))
    BY DEF Closed, Promise!Accept
  <1> QED BY <1>1 DEF Kept, Closed, Direction, Promise!TunnelNext, Promise!Direction

LEMMA DeliverKeeps ==
    ASSUME NEW d \in Direction, ~Closed, Closed' = Closed, TypesOK,
           Len(given[d]) < Len(taken[d]),
           given' = [given EXCEPT ![d] = Append(@, taken[d][Len(given[d]) + 1])],
           taken' = taken
    PROVE  Kept
  <1>1. Promise!Deliver(d)
    BY DEF Closed, Promise!Deliver
  <1> QED BY <1>1 DEF Kept, Closed, Direction, Promise!TunnelNext, Promise!Direction

(* Windows' packet goes in, the reader's comes out. *)
LEMMA ReceiveKeeps == ASSUME Inv, Receive PROVE Kept
  <1>1. /\ writer["up"].at = "take" /\ ring # <<>>
        /\ taken' = [taken EXCEPT !["up"] = Append(@, Payload(Head(ring)))]
        /\ given' = given /\ main' = main /\ bridge' = bridge
    BY DEF Receive, phoneVars
  <1>2. Head(ring) \in Packet /\ "up" \in Direction
    BY <1>1, HeadTailProperties DEF Inv, TypesOK, LinkTypeOK, Direction
  <1>3. ~Closed /\ Closed' = Closed
    BY <1>1 DEF Inv, EndsOK, Closed
  <1> QED BY <1>1, <1>2, <1>3, AcceptKeeps

LEMMA StackWritesKeeps ==
    ASSUME Inv, NEW size \in DownSizes, StackWrites(size)
    PROVE  Kept
  <1> DEFINE p == [id |-> offered'["down"], size |-> size]
  <1>1. bridge = "up" /\ main' = main /\ given' = given /\ ~Closed
    BY DEF StackWrites, desktopVars, Closed
  <1>2. CASE writer["down"].at = "done"
    BY <1>1, <1>2, QuietKeeps DEF StackWrites
  <1>3. CASE writer["down"].at # "done"
    <2>1. /\ taken' = IF size \in 1..MaxFrame
                      THEN [taken EXCEPT !["down"] = Append(@, Payload(p))] ELSE taken
          /\ bridge' = bridge
      BY <1>3 DEF StackWrites
    <2>2. p \in Packet /\ "down" \in Direction
      <3>1. /\ "down" \in Direction /\ offered \in [Direction -> Nat]
            /\ offered["down"] < MaxPackets
            /\ offered' = [offered EXCEPT !["down"] = offered["down"] + 1]
        BY DEF StackWrites, Inv, TypesOK, Direction
      <3>2. offered["down"] + 1 \in 1..MaxPackets
        BY <3>1, LinkAssumption
      <3> QED BY <3>1, <3>2 DEF Packet
    <2>3. Closed' = Closed
      BY <1>1, <2>1 DEF Closed
    <2>4. CASE size \in 1..MaxFrame
      <3> HIDE DEF p, Packet
      <3> QED BY <1>1, <2>1, <2>2, <2>3, <2>4, AcceptKeeps
    <2>5. CASE size \notin 1..MaxFrame
      BY <1>1, <2>1, <2>3, <2>5, QuietKeeps
    <2> QED BY <2>4, <2>5
  <1> QED BY <1>2, <1>3

LEMMA InjectKeeps == ASSUME Inv, Inject PROVE Kept
  <1> DEFINE F == reader["down"].frame
  <1>1. /\ reader["down"].at = "put" /\ taken' = taken /\ main' = main /\ bridge' = bridge
        /\ given' = IF F = <<>> THEN given ELSE [given EXCEPT !["down"] = Append(@, F)]
    BY DEF Inject, desktopVars, phoneVars
  <1>2. ~Closed /\ Closed' = Closed /\ "down" \in Direction
    BY <1>1 DEF Inv, EndsOK, Closed, Direction
  <1>3. CASE F = <<>>
    BY <1>1, <1>2, <1>3, QuietKeeps
  <1>4. CASE F # <<>>
    <2>1. /\ Len(given["down"]) + 1 <= Len(taken["down"])
          /\ F = taken["down"][Len(given["down"]) + 1]
      BY <1>1, <1>2, <1>4 DEF Inv, PipesOK, PipeOK, ReaderOK, Live, Due, Out
    <2>2. Len(given["down"]) \in Nat /\ Len(taken["down"]) \in Nat
      <3>1. Len(Out("down")) \in Nat /\ Len(taken["down"]) \in Nat
        BY <1>2, PipeTyped DEF Inv
      <3> QED BY <3>1 DEF Out
    <2>3. Len(given["down"]) < Len(taken["down"])
      BY <2>1, <2>2
    <2>4. given' = [given EXCEPT !["down"] = Append(@, taken["down"][Len(given["down"]) + 1])]
      BY <1>1, <1>4, <2>1
    <2> QED BY <1>1, <1>2, <2>3, <2>4, DeliverKeeps DEF Inv
  <1> QED BY <1>3, <1>4

LEMMA StackReadsKeeps == ASSUME Inv, StackReads PROVE Kept
  <1>1. /\ bridge = "up" /\ bridge' = bridge /\ main' = main /\ incoming # <<>>
        /\ given' = [given EXCEPT !["up"] = Append(@, Head(incoming))] /\ taken' = taken
    BY DEF StackReads, desktopVars
  <1>2. ~Closed /\ Closed' = Closed /\ "up" \in Direction
    BY <1>1 DEF Closed, Direction
  <1>3. given["up"] \in Seq(Seq(Tokens)) /\ incoming \in Seq(Seq(Tokens)) /\ OutOK("up")
    BY <1>2 DEF Inv, TypesOK, PipesOK, PipeOK
  <1>4. /\ Len(given["up"]) \in Nat /\ Len(given["up"]) + 1 \in 1..Len(Out("up"))
        /\ Len(Out("up")) \in Nat
        /\ Out("up")[Len(given["up"]) + 1] = Head(incoming)
    <2> DEFINE a == given["up"]
               b == incoming
               T == Seq(Tokens)
    <2>1. a \in Seq(T) /\ b \in Seq(T) /\ b # <<>>
      BY <1>1, <1>3
    <2> HIDE DEF a, b, T
    <2>2. Len(a) \in Nat /\ Len(b) \in Nat /\ Len(b) >= 1 /\ Head(b) = b[1]
      <3>1. Len(b) \in Nat /\ Len(b) # 0 /\ Len(a) \in Nat
        BY <2>1, EmptySeq, LenProperties
      <3> QED BY <2>1, <3>1, HeadTailProperties
    <2>3. /\ Len(a \o b) = Len(a) + Len(b)
          /\ \A i \in 1..Len(a) + Len(b) : (a \o b)[i] = IF i <= Len(a) THEN a[i] ELSE b[i - Len(a)]
      BY <2>1, ConcatProperties
    <2>4. /\ Len(a) + 1 \in 1..Len(a) + Len(b) /\ ~(Len(a) + 1 <= Len(a))
          /\ Len(a) + 1 - Len(a) = 1
      BY <2>2
    <2>5. (a \o b)[Len(a) + 1] = Head(b)
      BY <2>2, <2>3, <2>4
    <2>6. Out("up") = a \o b
      BY DEF Out, a, b
    <2>7. Len(a) \in Nat /\ Len(a) + 1 \in 1..Len(a \o b) /\ Len(a \o b) \in Nat
      BY <2>2, <2>3
    <2> QED BY <2>5, <2>6, <2>7 DEF a, b
  <1>5. /\ Len(given["up"]) < Len(taken["up"])
        /\ Head(incoming) = taken["up"][Len(given["up"]) + 1]
    <2>1. Len(taken["up"]) \in Nat
      BY <1>2, PipeTyped DEF Inv
    <2>2. /\ Len(Out("up")) <= Len(taken["up"])
          /\ Out("up")[Len(given["up"]) + 1] = taken["up"][Len(given["up"]) + 1]
      BY <1>3, <1>4 DEF OutOK
    <2> QED BY <1>4, <2>1, <2>2
  <1>6. given' = [given EXCEPT !["up"] = Append(@, taken["up"][Len(given["up"]) + 1])]
    BY <1>1, <1>5
  <1> QED BY <1>1, <1>2, <1>5, <1>6, DeliverKeeps DEF Inv

LEMMA StepKeeps == Inv /\ [Next]_vars => Kept
  <1> SUFFICES ASSUME Inv, [Next]_vars PROVE Kept
    OBVIOUS
  <1>1. CASE UNCHANGED vars
    <2>1. UNCHANGED <<taken, given>> /\ Closed' = Closed
      BY <1>1 DEF vars, desktopVars, phoneVars, historyVars, Closed
    <2> QED BY <2>1, QuietKeeps
  <1>2. ASSUME NEW d \in Direction, Wire(d) PROVE Kept
    <2>1. UNCHANGED <<taken, given>> /\ Closed' = Closed
      BY <1>2 DEF Wire, WriteToken, WriterFails, ReadToken, ReaderFails, desktopVars,
                  phoneVars, historyVars, Closed
    <2> QED BY <2>1, QuietKeeps
  <1>3. CASE Desktop
    <2>1. CASE ReceiveFails \/ LeaveLoop(FALSE) \/ StopSession \/ ShutdownSocket \/ Join
      <3>1. UNCHANGED <<taken, given>> /\ (Closed => Closed')
        BY <2>1 DEF ReceiveFails, LeaveLoop, StopSession, ShutdownSocket, Join, phoneVars,
                    historyVars, Closed
      <3> QED BY <3>1, QuietKeeps
    <2> QED BY <1>3, <2>1, ReceiveKeeps, InjectKeeps DEF Desktop
  <1>4. CASE Phone
    <2>1. CASE Forward \/ Dequeue \/ QueueClosed \/ BridgeEnds
      <3>1. UNCHANGED <<taken, given>> /\ (Closed => Closed')
        BY <2>1 DEF Forward, Dequeue, QueueClosed, BridgeEnds, DropDevice, desktopVars,
                    phoneVars, historyVars, Closed
      <3> QED BY <3>1, QuietKeeps
    <2> QED BY <1>4, <2>1, StackReadsKeeps DEF Phone
  <1>5. CASE Outside
    <2>1. CASE AppSends \/ InjectFails \/ LeaveLoop(TRUE) \/ CoreStops \/ Cut
      <3>1. UNCHANGED <<taken, given>> /\ (Closed => Closed')
        BY <2>1 DEF AppSends, InjectFails, LeaveLoop, CoreStops, Cut, DropDevice, desktopVars,
                    phoneVars, historyVars, Closed
      <3> QED BY <3>1, QuietKeeps
    <2> QED BY <1>5, <2>1, StackWritesKeeps DEF Outside
  <1> QED BY <1>1, <1>2, <1>3, <1>4, <1>5 DEF Next, Settled

(* For any sizes, buffers, queues and numbers of packets, and through any   *)
(* cut, stop and teardown: each direction of a session delivers exactly the *)
(* packets it accepted, whole, in order and once (worker.rs 88-158,         *)
(* device.rs 67-123, rickynet-wire lib.rs 150-171).                         *)
THEOREM LinkImplementsTunnel == LinkSpec => KeepsPromise
  <1>1. LinkInit => Promise!TunnelInit
    BY DEF LinkInit, Direction, Promise!TunnelInit, Promise!Direction
  <1>2. Inv /\ [Next]_vars => [Promise!TunnelNext]_(Promise!tunnelVars)
    BY StepKeeps DEF Kept
  <1> QED BY <1>1, <1>2, LinkInvariant, PTL DEF LinkSpec, KeepsPromise, Promise!TunnelSpec

=============================================================================
