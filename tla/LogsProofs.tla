----------------------------- MODULE LogsProofs -----------------------------
(***************************************************************************)
(* No line of Logs is lost or doubled, for any threads, any bounds of the  *)
(* ring and of the screen, and any number of lines and clears.             *)
(*                                                                         *)
(* The places of a line partition the lines made: a step moves lines from  *)
(* one place to another, or adds the newest line to one.                   *)
(***************************************************************************)
EXTENDS Logs, FiniteSetTheorems, SequenceTheorems, TLAPS

Elems(s) == {s[i] : i \in 1..Len(s)}

(* No element twice, but for those of W. *)
Once(s, W) == \A i, j \in 1..Len(s) : s[i] = s[j] /\ s[i] \notin W => i = j

Closure == {Flush, Wipe} \cup {Write(l) : l \in Nat}
Block == {Blank} \cup {Show(b) : b \in Seq(Nat)}

LinesIn(q) == {l \in Nat : Write(l) \in Elems(q)}
InBatches(b) == UNION {Elems(b[i].batch) : i \in 1..Len(b)}

(* No line twice in the batches of b. *)
Apart(b) ==
    /\ \A i \in 1..Len(b) : Once(b[i].batch, {})
    /\ \A i, j \in 1..Len(b) : i # j => Elems(b[i].batch) \cap Elems(b[j].batch) = {}

(* The lines threads have in hand, and no line in two threads' hands. *)
Free == <<>>
Line(l) == <<l>>
Hand == {Free} \cup {Line(l) : l \in Nat}
HandedIn(e) == {l \in Nat : \E t \in Threads : e[t] = Line(l)}
Distinct(e) == \A t, u \in Threads : e[t] = e[u] /\ e[t] # Free => t = u

(* What is where. *)
Pending == IF callback THEN {} ELSE Elems(ring)
Handed  == HandedIn(emitting)
Queued  == LinesIn(queue)
Batched == InBatches(mainQueue)
Content ==
    [ring |-> Pending, backlog |-> Elems(backlog), thread |-> Handed, queue |-> Queued,
     buffer |-> Elems(uiBuffer), main |-> Batched, screen |-> Elems(lines), gone |-> dropped]

Partition(P, m) ==
    /\ P \in [Place -> SUBSET (1..m)]
    /\ \A l \in 1..m : \E p \in Place : l \in P[p]
    /\ \A p, q \in Place : p # q => P[p] \cap P[q] = {}

(* From P to Q, the lines X go from one place to another. *)
Shift(P, Q, a, b, X) ==
    /\ a \in Place /\ b \in Place /\ a # b /\ X \subseteq P[a]
    /\ Q \in [Place -> SUBSET Nat] /\ Q[a] = P[a] \ X /\ Q[b] = P[b] \cup X
    /\ \A p \in Place \ {a, b} : Q[p] = P[p]

TypesOK ==
    /\ made \in Nat /\ clears \in 0..MaxClears /\ callback \in BOOLEAN
    /\ ring \in Seq(Nat) /\ Len(ring) <= RingCap
    /\ backlog \in Seq(Nat) /\ Len(backlog) <= RingCap
    /\ emitting \in [Threads -> Hand]
    /\ registering \in {"no", "replay", "tell", "done"}
    /\ queue \in Seq(Closure) /\ timers \in 0..1 /\ mainQueue \in Seq(Block)
    /\ file \in Seq(Nat) /\ uiBuffer \in Seq(Nat) /\ flushScheduled \in BOOLEAN
    /\ lines \in Seq(Nat) /\ Len(lines) <= ScreenCap /\ dropped \subseteq Nat

(* Registration has a line of its own to log. *)
CountOK == made + (IF registering = "done" THEN 0 ELSE 1) <= MaxLines

RegisterOK == registering = "no" => ~callback /\ backlog = <<>>

(* One flush is on its way while the flag is up, and none otherwise. *)
FlushOK ==
    /\ flushScheduled <=> timers = 1 \/ Flush \in Elems(queue)
    /\ timers = 1 => Flush \notin Elems(queue)
    /\ ~flushScheduled => uiBuffer = <<>>

OnceOK ==
    /\ ~callback => Once(ring, {})
    /\ Once(backlog, {}) /\ Once(uiBuffer, {}) /\ Once(lines, {}) /\ Once(file, {})
    /\ Once(queue, {Wipe})
    /\ Distinct(emitting) /\ Apart(mainQueue)

(* The file has only lines that have left the queue. *)
FileOK == Elems(file) \subseteq Elems(uiBuffer) \cup Batched \cup Elems(lines) \cup dropped

Inv ==
    /\ TypesOK /\ CountOK /\ RegisterOK /\ FlushOK /\ OnceOK /\ FileOK
    /\ Partition(Content, made)

-----------------------------------------------------------------------------
(* Sequences. *)
LEMMA ElemsEmpty == Elems(<<>>) = {} /\ \A W : Once(<<>>, W)
  BY DEF Elems, Once

LEMMA ElemsIn ==
    ASSUME NEW S, NEW s \in Seq(S)
    PROVE  Elems(s) \subseteq S
  BY ElementOfSeq DEF Elems

(* An element more: a new one keeps the rest distinct.                     *)
LEMMA ElemsAppend ==
    ASSUME NEW S, NEW s \in Seq(S), NEW e \in S
    PROVE  /\ Append(s, e) \in Seq(S) /\ Elems(Append(s, e)) = Elems(s) \cup {e}
           /\ \A W : Once(s, W) /\ (e \in Elems(s) => e \in W) => Once(Append(s, e), W)
  <1> DEFINE r == Append(s, e)
             n == Len(s)
  <1>1. /\ r \in Seq(S) /\ n \in Nat /\ Len(r) = n + 1 /\ r[n + 1] = e
        /\ \A i \in 1..n : r[i] = s[i]
    BY AppendProperties, LenProperties
  <1> HIDE DEF r, n
  <1>2. \A i \in 1..Len(r) : i \in 1..n \/ i = n + 1
    BY <1>1
  <1>3. n + 1 \in 1..Len(r) /\ \A i \in 1..n : i \in 1..Len(r)
    BY <1>1
  <1>4. Elems(r) = Elems(s) \cup {e}
    BY <1>1, <1>2, <1>3 DEF Elems, n
  <1>5. ASSUME NEW W, Once(s, W), e \in Elems(s) => e \in W
        PROVE  Once(r, W)
    <2> SUFFICES ASSUME NEW i \in 1..Len(r), NEW j \in 1..Len(r), r[i] = r[j], r[i] \notin W
                 PROVE  i = j
      BY DEF Once
    <2>1. CASE i \in 1..n /\ j \in 1..n
      BY <1>1, <1>5, <2>1 DEF Once, n
    <2>2. CASE i \in 1..n /\ j = n + 1
      BY <1>1, <1>5, <2>2 DEF Elems, n
    <2>3. CASE i = n + 1 /\ j \in 1..n
      BY <1>1, <1>5, <2>3 DEF Elems, n
    <2>4. CASE i = n + 1 /\ j = n + 1
      BY <2>4
    <2> QED BY <1>2, <2>1, <2>2, <2>3, <2>4
  <1> QED BY <1>1, <1>4, <1>5 DEF r

(* The first element less.                                                 *)
LEMMA ElemsTail ==
    ASSUME NEW S, NEW s \in Seq(S), s # <<>>
    PROVE  /\ Head(s) \in S /\ Tail(s) \in Seq(S) /\ Len(Tail(s)) <= Len(s)
           /\ Head(s) \in Elems(s) /\ Elems(s) = {Head(s)} \cup Elems(Tail(s))
           /\ \A W : Once(s, W) => /\ Once(Tail(s), W)
                                   /\ Head(s) \notin W => Head(s) \notin Elems(Tail(s))
  <1> DEFINE t == Tail(s)
             n == Len(s)
  <1>1. /\ Head(s) \in S /\ t \in Seq(S) /\ n \in Nat /\ n >= 1 /\ Len(t) = n - 1
        /\ Head(s) = s[1] /\ \A i \in 1..Len(t) : t[i] = s[i + 1]
    BY HeadTailProperties, LenProperties, EmptySeq
  <1> HIDE DEF t, n
  <1>2. /\ 1 \in 1..n /\ \A i \in 1..Len(t) : i + 1 \in 1..n /\ i + 1 # 1
        /\ \A i \in 1..n : i = 1 \/ (i - 1 \in 1..Len(t) /\ (i - 1) + 1 = i)
        /\ Len(t) <= n
    BY <1>1
  <1>3. Head(s) \in Elems(s)
    BY <1>1, <1>2 DEF Elems, n
  <1>4. Elems(t) \subseteq Elems(s)
    BY <1>1, <1>2 DEF Elems, n
  <1>5. Elems(s) \subseteq {Head(s)} \cup Elems(t)
    <2> SUFFICES ASSUME NEW i \in 1..n, s[i] # Head(s) PROVE s[i] \in Elems(t)
      BY DEF Elems, n
    <2>1. i - 1 \in 1..Len(t) /\ t[i - 1] = s[i]
      BY <1>1, <1>2
    <2> QED BY <2>1 DEF Elems
  <1>6. ASSUME NEW W, Once(s, W)
        PROVE  Once(t, W) /\ (Head(s) \notin W => Head(s) \notin Elems(t))
    <2>1. ASSUME NEW i \in 1..Len(t), NEW j \in 1..Len(t), t[i] = t[j], t[i] \notin W
          PROVE  i = j
      <3>1. i + 1 = j + 1
        BY <1>1, <1>2, <1>6, <2>1 DEF Once, n
      <3> QED BY <3>1
    <2>2. ASSUME Head(s) \notin W, NEW i \in 1..Len(t), t[i] = Head(s) PROVE FALSE
      BY <1>1, <1>2, <1>6, <2>2 DEF Once, n
    <2> QED BY <2>1, <2>2 DEF Once, Elems
  <1> QED BY <1>1, <1>2, <1>3, <1>4, <1>5, <1>6 DEF t, n

(* Two sequences with nothing in common, one after the other.              *)
LEMMA ElemsConcat ==
    ASSUME NEW S, NEW s \in Seq(S), NEW t \in Seq(S)
    PROVE  /\ s \o t \in Seq(S) /\ Elems(s \o t) = Elems(s) \cup Elems(t)
           /\ Once(s, {}) /\ Once(t, {}) /\ Elems(s) \cap Elems(t) = {} => Once(s \o t, {})
  <1> DEFINE r == s \o t
             n == Len(s)
             m == Len(t)
  <1>1. /\ r \in Seq(S) /\ n \in Nat /\ m \in Nat /\ Len(r) = n + m
        /\ \A i \in 1..(n + m) : r[i] = IF i <= n THEN s[i] ELSE t[i - n]
    BY ConcatProperties, LenProperties
  <1> HIDE DEF r, n, m
  <1>2. ASSUME NEW i \in 1..Len(r)
        PROVE  \/ i \in 1..n /\ r[i] = s[i]
               \/ i - n \in 1..m /\ r[i] = t[i - n] /\ (i - n) + n = i
    <2>1. i \in 1..(n + m) /\ (i <= n => i \in 1..n)
          /\ (~(i <= n) => i - n \in 1..m) /\ (i - n) + n = i
      BY <1>1
    <2> QED BY <1>1, <2>1
  <1>3. ASSUME NEW i \in 1..n PROVE i \in 1..Len(r) /\ r[i] = s[i]
    <2>1. i \in 1..(n + m) /\ i <= n
      BY <1>1
    <2> QED BY <1>1, <2>1
  <1>4. ASSUME NEW i \in 1..m PROVE i + n \in 1..Len(r) /\ r[i + n] = t[i]
    <2>1. i + n \in 1..(n + m) /\ ~(i + n <= n) /\ (i + n) - n = i
      BY <1>1
    <2> QED BY <1>1, <2>1
  <1>5. Elems(r) = Elems(s) \cup Elems(t)
    <2>1. Elems(r) \subseteq Elems(s) \cup Elems(t)
      BY <1>2 DEF Elems, n, m
    <2>2. Elems(s) \subseteq Elems(r)
      BY <1>3 DEF Elems, n
    <2>3. Elems(t) \subseteq Elems(r)
      BY <1>4 DEF Elems, m
    <2> QED BY <2>1, <2>2, <2>3
  <1>6. ASSUME Once(s, {}), Once(t, {}), Elems(s) \cap Elems(t) = {}
        PROVE  Once(r, {})
    <2> SUFFICES ASSUME NEW i \in 1..Len(r), NEW j \in 1..Len(r), r[i] = r[j]
                 PROVE  i = j
      BY DEF Once
    <2>1. CASE i \in 1..n /\ r[i] = s[i] /\ j \in 1..n /\ r[j] = s[j]
      BY <1>6, <2>1 DEF Once, n
    <2>2. CASE i - n \in 1..m /\ r[i] = t[i - n] /\ j - n \in 1..m /\ r[j] = t[j - n]
      <3>1. i - n = j - n
        BY <1>6, <2>2 DEF Once, m
      <3> QED BY <1>1, <3>1
    <2>3. CASE i \in 1..n /\ r[i] = s[i] /\ j - n \in 1..m /\ r[j] = t[j - n]
      BY <1>6, <2>3 DEF Elems, n, m
    <2>4. CASE j \in 1..n /\ r[j] = s[j] /\ i - n \in 1..m /\ r[i] = t[i - n]
      BY <1>6, <2>4 DEF Elems, n, m
    <2> QED BY <1>2, <2>1, <2>2, <2>3, <2>4
  <1> QED BY <1>1, <1>5, <1>6 DEF r

(* What the screen keeps of its lines. *)
LEMMA NewestOf ==
    ASSUME NEW s \in Seq(Nat)
    PROVE  /\ Newest(s) \in Seq(Nat) /\ Len(Newest(s)) <= ScreenCap
           /\ Elems(Newest(s)) \subseteq Elems(s)
           /\ Once(s, {}) => Once(Newest(s), {})
  <1>1. Len(s) \in Nat /\ ScreenCap \in Nat \ {0}
    BY LenProperties, LogsAssumption
  <1>2. CASE Len(s) <= ScreenCap
    BY <1>2 DEF Newest
  <1>3. CASE ~(Len(s) <= ScreenCap)
    <2> DEFINE k == Len(s) - ScreenCap
               t == SubSeq(s, k + 1, Len(s))
    <2>1. k \in Nat /\ k + ScreenCap = Len(s) /\ Newest(s) = t
      BY <1>1, <1>3 DEF Newest
    <2>2. \A i \in (k + 1)..Len(s) : s[i] \in Nat
      BY <1>1, <2>1, ElementOfSeq
    <2>3. /\ t \in Seq(Nat) /\ Len(t) = ScreenCap
          /\ \A i \in 1..Len(t) : t[i] = s[i + k]
      <3> HIDE DEF k
      <3>1. k + 1 \in 1..Len(s) + 1 /\ Len(s) \in k..Len(s)
        BY <1>1, <2>1
      <3> QED BY <1>1, <2>1, <3>1, SubSeqProperties
    <2> HIDE DEF t, k
    <2>4. \A i \in 1..Len(t) : i + k \in 1..Len(s)
      BY <1>1, <2>1, <2>3
    <2>5. Elems(t) \subseteq Elems(s)
      BY <2>3, <2>4 DEF Elems
    <2>6. ASSUME Once(s, {}) PROVE Once(t, {})
      <3> SUFFICES ASSUME NEW i \in 1..Len(t), NEW j \in 1..Len(t), t[i] = t[j] PROVE i = j
        BY DEF Once
      <3>1. i + k = j + k
        BY <2>3, <2>4, <2>6 DEF Once
      <3> QED BY <2>1, <3>1
    <2> QED BY <1>1, <2>1, <2>3, <2>5, <2>6
  <1> QED BY <1>2, <1>3
-----------------------------------------------------------------------------
(* The store's queue and the main queue. *)
LEMMA Closures ==
    /\ Flush \in Closure /\ Wipe \in Closure /\ Flush # Wipe
    /\ Flush.op = "flush" /\ Wipe.op = "wipe"
    /\ \A l \in Nat : /\ Write(l) \in Closure /\ Write(l) # Flush /\ Write(l) # Wipe
                      /\ Write(l).op = "append" /\ Write(l).line = l
    /\ \A l, k \in Nat : Write(l) = Write(k) => l = k
    /\ \A c \in Closure : c = Flush \/ c = Wipe \/ \E l \in Nat : c = Write(l)
  BY DEF Closure, Flush, Wipe, Write

(* What runs on the main queue.                                            *)
LEMMA Blocks ==
    /\ Blank \in Block /\ Blank.batch = <<>> /\ Blank.op = "blank"
    /\ \A b \in Seq(Nat) : Show(b) \in Block /\ Show(b).batch = b /\ Show(b).op = "show"
    /\ \A c \in Block : c = Blank \/ \E b \in Seq(Nat) : c = Show(b)
    /\ \A c \in Block : c.batch \in Seq(Nat)
  <1>1. <<>> \in Seq(Nat)
    BY EmptySeq
  <1>2. \A b \in Seq(Nat) : Show(b) \in Block /\ Show(b).batch = b /\ Show(b).op = "show"
    BY DEF Block, Show
  <1>3. Blank \in Block /\ Blank.batch = <<>> /\ Blank.op = "blank"
    BY DEF Block, Blank
  <1>4. \A c \in Block : c = Blank \/ \E b \in Seq(Nat) : c = Show(b)
    BY DEF Block
  <1>5. ASSUME NEW c \in Block PROVE c.batch \in Seq(Nat)
    <2>1. CASE c = Blank
      BY <1>1, <1>3, <2>1
    <2>2. CASE \E b \in Seq(Nat) : c = Show(b)
      BY <1>2, <2>2
    <2> QED BY <1>4, <2>1, <2>2
  <1> QED BY <1>2, <1>3, <1>4, <1>5

(* Only a write adds a line to the queue,                                  *)
LEMMA QueueAppend ==
    ASSUME NEW q \in Seq(Closure), NEW c \in Closure
    PROVE  /\ c \in {Flush, Wipe} => LinesIn(Append(q, c)) = LinesIn(q)
           /\ \A l \in Nat : c = Write(l) => LinesIn(Append(q, c)) = LinesIn(q) \cup {l}
  <1>1. Elems(Append(q, c)) = Elems(q) \cup {c}
    BY ElemsAppend
  <1>2. \A l \in Nat : Write(l) # Flush /\ Write(l) # Wipe
    BY Closures
  <1>3. \A l, k \in Nat : Write(l) = Write(k) => l = k
    BY Closures
  <1>4. c \in {Flush, Wipe} => LinesIn(Append(q, c)) = LinesIn(q)
    BY <1>1, <1>2 DEF LinesIn
  <1>5. ASSUME NEW l \in Nat, c = Write(l)
        PROVE  LinesIn(Append(q, c)) = LinesIn(q) \cup {l}
    BY <1>1, <1>3, <1>5 DEF LinesIn
  <1> QED BY <1>4, <1>5

(* and only a write takes its line off it.                                 *)
LEMMA QueueTail ==
    ASSUME NEW q \in Seq(Closure), q # <<>>, Once(q, {Wipe})
    PROVE  /\ Head(q) \in {Flush, Wipe} => LinesIn(Tail(q)) = LinesIn(q)
           /\ \A l \in Nat : Head(q) = Write(l) =>
                l \in LinesIn(q) /\ LinesIn(Tail(q)) = LinesIn(q) \ {l}
  <1>1. /\ Elems(q) = {Head(q)} \cup Elems(Tail(q))
        /\ Head(q) # Wipe => Head(q) \notin Elems(Tail(q))
    BY ElemsTail
  <1>2. \A l \in Nat : Write(l) # Flush /\ Write(l) # Wipe
    BY Closures
  <1>3. \A l, k \in Nat : Write(l) = Write(k) => l = k
    BY Closures
  <1>4. Head(q) \in {Flush, Wipe} => LinesIn(Tail(q)) = LinesIn(q)
    BY <1>1, <1>2 DEF LinesIn
  <1>5. ASSUME NEW l \in Nat, Head(q) = Write(l)
        PROVE  l \in LinesIn(q) /\ LinesIn(Tail(q)) = LinesIn(q) \ {l}
    BY <1>1, <1>2, <1>3, <1>5 DEF LinesIn
  <1> QED BY <1>4, <1>5

(* A batch more on the main queue.                                         *)
LEMMA BatchAppend ==
    ASSUME NEW b \in Seq(Block), NEW c \in Block
    PROVE  /\ InBatches(Append(b, c)) = InBatches(b) \cup Elems(c.batch)
           /\ Apart(b) /\ Once(c.batch, {}) /\ Elems(c.batch) \cap InBatches(b) = {}
                => Apart(Append(b, c))
  <1> DEFINE r == Append(b, c)
             n == Len(b)
  <1>1. /\ n \in Nat /\ Len(r) = n + 1 /\ r[n + 1] = c
        /\ \A i \in 1..n : r[i] = b[i]
    BY AppendProperties, LenProperties
  <1> HIDE DEF r, n
  <1>2. \A i \in 1..Len(r) : i \in 1..n \/ i = n + 1
    BY <1>1
  <1>3. n + 1 \in 1..Len(r) /\ \A i \in 1..n : i \in 1..Len(r)
    BY <1>1
  <1>4. InBatches(r) = InBatches(b) \cup Elems(c.batch)
    BY <1>1, <1>2, <1>3 DEF InBatches, n
  <1>5. ASSUME Apart(b), Once(c.batch, {}), Elems(c.batch) \cap InBatches(b) = {}
        PROVE  Apart(r)
    <2>1. \A i \in 1..n : Elems(c.batch) \cap Elems(b[i].batch) = {}
      BY <1>5 DEF InBatches, n
    <2>2. ASSUME NEW i \in 1..Len(r) PROVE Once(r[i].batch, {})
      BY <1>1, <1>2, <1>5 DEF Apart, n
    <2>3. ASSUME NEW i \in 1..Len(r), NEW j \in 1..Len(r), i # j
          PROVE  Elems(r[i].batch) \cap Elems(r[j].batch) = {}
      <3>1. CASE i \in 1..n /\ j \in 1..n
        BY <1>1, <1>5, <2>3, <3>1 DEF Apart, n
      <3>2. CASE i = n + 1 /\ j \in 1..n
        BY <1>1, <2>1, <3>2
      <3>3. CASE i \in 1..n /\ j = n + 1
        BY <1>1, <2>1, <3>3
      <3> QED BY <1>2, <2>3, <3>1, <3>2, <3>3
    <2> QED BY <2>2, <2>3 DEF Apart
  <1> QED BY <1>4, <1>5 DEF r

(* A batch less: its lines are in none of the others.                      *)
LEMMA BatchTail ==
    ASSUME NEW b \in Seq(Block), b # <<>>
    PROVE  /\ Head(b) \in Block /\ Tail(b) \in Seq(Block)
           /\ InBatches(b) = Elems(Head(b).batch) \cup InBatches(Tail(b))
           /\ Apart(b) => /\ Apart(Tail(b)) /\ Once(Head(b).batch, {})
                          /\ Elems(Head(b).batch) \cap InBatches(Tail(b)) = {}
  <1> DEFINE t == Tail(b)
             h == Head(b)
             n == Len(b)
  <1>1. /\ h \in Block /\ t \in Seq(Block) /\ n \in Nat /\ n >= 1 /\ Len(t) = n - 1
        /\ h = b[1] /\ \A i \in 1..Len(t) : t[i] = b[i + 1]
    BY HeadTailProperties, LenProperties, EmptySeq
  <1> HIDE DEF t, h, n
  <1>2. /\ 1 \in 1..n /\ \A i \in 1..Len(t) : i + 1 \in 1..n /\ i + 1 # 1
        /\ \A i \in 1..n : i = 1 \/ (i - 1 \in 1..Len(t) /\ (i - 1) + 1 = i)
        /\ \A i, j \in 1..Len(t) : i # j => i + 1 # j + 1
    BY <1>1
  <1>3. InBatches(t) \subseteq InBatches(b) /\ Elems(h.batch) \subseteq InBatches(b)
    BY <1>1, <1>2 DEF InBatches, n
  <1>4. InBatches(b) \subseteq Elems(h.batch) \cup InBatches(t)
    <2> SUFFICES ASSUME NEW i \in 1..n, i # 1
                 PROVE  Elems(b[i].batch) \subseteq InBatches(t)
      BY <1>1 DEF InBatches, n
    <2>1. i - 1 \in 1..Len(t) /\ t[i - 1] = b[i]
      BY <1>1, <1>2
    <2> QED BY <2>1 DEF InBatches
  <1>5. ASSUME Apart(b)
        PROVE  Apart(t) /\ Once(h.batch, {}) /\ Elems(h.batch) \cap InBatches(t) = {}
    <2>1. /\ \A i \in 1..n : Once(b[i].batch, {})
          /\ \A i, j \in 1..n : i # j => Elems(b[i].batch) \cap Elems(b[j].batch) = {}
      BY <1>5 DEF Apart, n
    <2>2. ASSUME NEW i \in 1..Len(t)
          PROVE  Once(t[i].batch, {}) /\ Elems(h.batch) \cap Elems(t[i].batch) = {}
      <3>1. i + 1 \in 1..n /\ i + 1 # 1 /\ 1 \in 1..n /\ t[i] = b[i + 1] /\ h = b[1]
        BY <1>1, <1>2
      <3> QED BY <2>1, <3>1
    <2>3. ASSUME NEW i \in 1..Len(t), NEW j \in 1..Len(t), i # j
          PROVE  Elems(t[i].batch) \cap Elems(t[j].batch) = {}
      <3>1. i + 1 \in 1..n /\ j + 1 \in 1..n /\ i + 1 # j + 1
            /\ t[i] = b[i + 1] /\ t[j] = b[j + 1]
        BY <1>1, <1>2, <2>3
      <3> QED BY <2>1, <3>1
    <2>4. Once(h.batch, {})
      BY <1>1, <1>2, <2>1
    <2>5. Elems(h.batch) \cap InBatches(t) = {}
      BY <2>2 DEF InBatches
    <2>6. Apart(t)
      BY <2>2, <2>3 DEF Apart
    <2> QED BY <2>4, <2>5, <2>6
  <1> QED BY <1>1, <1>3, <1>4, <1>5 DEF t, h

-----------------------------------------------------------------------------
(* The places of the lines. *)
LEMMA Hands == \A k, l \in Nat : (Line(k) = Line(l) <=> k = l) /\ Line(k) # Free
  BY DEF Line, Free

(* A thread gets a line in hand,                                           *)
LEMMA HandOver ==
    ASSUME NEW e \in [Threads -> Hand], NEW t \in Threads, NEW l \in Nat, e[t] = Free,
           NEW f, f = [e EXCEPT ![t] = Line(l)]
    PROVE  /\ f \in [Threads -> Hand] /\ HandedIn(f) = HandedIn(e) \cup {l}
           /\ Distinct(e) /\ l \notin HandedIn(e) => Distinct(f)
  <1>1. f \in [Threads -> Hand] /\ f[t] = Line(l) /\ \A u \in Threads \ {t} : f[u] = e[u]
    BY DEF Hand
  <1>2. \A k \in Nat : (Line(k) = Line(l) <=> k = l) /\ Line(k) # Free
    BY Hands
  <1>3. HandedIn(f) = HandedIn(e) \cup {l}
    BY <1>1, <1>2 DEF HandedIn
  <1>4. ASSUME Distinct(e), l \notin HandedIn(e) PROVE Distinct(f)
    <2>1. \A u \in Threads \ {t} : f[u] # Line(l)
      BY <1>1, <1>4 DEF HandedIn
    <2> QED BY <1>1, <1>4, <2>1 DEF Distinct
  <1> QED BY <1>1, <1>3, <1>4

(* and gives it away.                                                      *)
LEMMA HandOff ==
    ASSUME NEW e \in [Threads -> Hand], NEW t \in Threads, NEW l \in Nat, e[t] = Line(l),
           Distinct(e), NEW f, f = [e EXCEPT ![t] = Free]
    PROVE  /\ f \in [Threads -> Hand] /\ Distinct(f)
           /\ l \in HandedIn(e) /\ HandedIn(f) = HandedIn(e) \ {l}
  <1>1. f \in [Threads -> Hand] /\ f[t] = Free /\ \A u \in Threads \ {t} : f[u] = e[u]
    BY DEF Hand
  <1>2. \A k \in Nat : (Line(k) = e[t] <=> k = l) /\ Line(k) # Free
    BY Hands
  <1>3. \A u \in Threads \ {t} : e[u] # e[t]
    BY <1>2 DEF Distinct
  <1>4. l \in HandedIn(e)
    BY DEF HandedIn
  <1>5. HandedIn(f) = HandedIn(e) \ {l}
    BY <1>1, <1>2, <1>3 DEF HandedIn
  <1>6. Distinct(f)
    BY <1>1 DEF Distinct
  <1> QED BY <1>1, <1>4, <1>5, <1>6

LEMMA BatchesAreLines ==
    ASSUME NEW b \in Seq(Block)
    PROVE  InBatches(b) \subseteq Nat
  <1> SUFFICES ASSUME NEW i \in 1..Len(b) PROVE Elems(b[i].batch) \subseteq Nat
    BY DEF InBatches
  <1>1. b[i].batch \in Seq(Nat)
    BY ElementOfSeq, Blocks
  <1> QED BY <1>1, ElemsIn

(* The fields of Content, now                                              *)
LEMMA ContentIs ==
    ASSUME TypesOK
    PROVE  /\ Content \in [Place -> SUBSET Nat]
           /\ Content["ring"] = Pending /\ Content["backlog"] = Elems(backlog)
           /\ Content["thread"] = Handed /\ Content["queue"] = Queued
           /\ Content["buffer"] = Elems(uiBuffer) /\ Content["main"] = Batched
           /\ Content["screen"] = Elems(lines) /\ Content["gone"] = dropped
  <1>1. Handed \in SUBSET Nat /\ Queued \in SUBSET Nat
    BY DEF Handed, HandedIn, Queued, LinesIn
  <1>2. /\ Elems(ring) \in SUBSET Nat /\ Elems(backlog) \in SUBSET Nat
        /\ Elems(uiBuffer) \in SUBSET Nat /\ Elems(lines) \in SUBSET Nat
    BY ElemsIn DEF TypesOK
  <1>3. Batched \in SUBSET Nat
    BY BatchesAreLines DEF TypesOK, Batched
  <1>4. Pending \in SUBSET Nat /\ dropped \in SUBSET Nat
    BY <1>2 DEF Pending, TypesOK
  <1> QED BY <1>1, <1>2, <1>3, <1>4 DEF Content, Place

(* and after a step.                                                       *)
LEMMA ContentNext ==
    ASSUME TypesOK'
    PROVE  /\ Content' \in [Place -> SUBSET Nat]
           /\ Content'["ring"] = Pending' /\ Content'["backlog"] = Elems(backlog')
           /\ Content'["thread"] = Handed' /\ Content'["queue"] = Queued'
           /\ Content'["buffer"] = Elems(uiBuffer') /\ Content'["main"] = Batched'
           /\ Content'["screen"] = Elems(lines') /\ Content'["gone"] = dropped'
  <1>1. Handed' \in SUBSET Nat /\ Queued' \in SUBSET Nat
    BY DEF Handed, HandedIn, Queued, LinesIn
  <1>2. /\ Elems(ring') \in SUBSET Nat /\ Elems(backlog') \in SUBSET Nat
        /\ Elems(uiBuffer') \in SUBSET Nat /\ Elems(lines') \in SUBSET Nat
    BY ElemsIn DEF TypesOK
  <1>3. Batched' \in SUBSET Nat
    BY BatchesAreLines DEF TypesOK, Batched
  <1>4. Pending' \in SUBSET Nat /\ dropped' \in SUBSET Nat
    BY <1>2 DEF Pending, TypesOK
  <1>5. Elems(backlog') = Elems(backlog)' /\ Elems(uiBuffer') = Elems(uiBuffer)'
        /\ Elems(lines') = Elems(lines)'
    BY DEF Elems
  <1> QED BY <1>1, <1>2, <1>3, <1>4, <1>5 DEF Content, Place

(* The places of Inv, one by one. *)
LEMMA PlacesApart ==
    ASSUME TypesOK, Partition(Content, made)
    PROVE  /\ \A p, q \in Place : p # q => Content[p] \cap Content[q] = {}
           /\ \A p \in Place : Content[p] \subseteq 1..made /\ made + 1 \notin Content[p]
           /\ Queued \cap (Elems(uiBuffer) \cup Batched \cup Elems(lines) \cup dropped) = {}
           /\ Elems(uiBuffer) \cap Batched = {} /\ Elems(lines) \cap Batched = {}
  <1>1. \A p, q \in Place : p # q => Content[p] \cap Content[q] = {}
    BY DEF Partition
  <1>2. \A p \in Place : Content[p] \subseteq 1..made
    BY DEF Partition
  <1>3. made + 1 \notin 1..made
    BY DEF TypesOK
  <1> QED BY <1>1, <1>2, <1>3, ContentIs DEF Place

(* A partition survives moving lines from one place to another,            *)
LEMMA Moved ==
    ASSUME NEW P, NEW m \in Nat, Partition(P, m),
           NEW Q, NEW a, NEW b, NEW X, Shift(P, Q, a, b, X)
    PROVE  Partition(Q, m)
  <1> USE DEF Shift
  <1>1. \A p \in Place : Q[p] \subseteq 1..m
    BY DEF Partition
  <1>2. \A l \in 1..m : \E p \in Place : l \in Q[p]
    BY DEF Partition
  <1>3. ASSUME NEW p \in Place, NEW q \in Place, p # q PROVE Q[p] \cap Q[q] = {}
    <2>1. P[p] \cap P[q] = {} /\ P[a] \cap P[b] = {} /\ (p # a => P[p] \cap P[a] = {})
          /\ (q # a => P[q] \cap P[a] = {})
      BY <1>3 DEF Partition
    <2> QED BY <1>3, <2>1
  <1> QED BY <1>1, <1>2, <1>3 DEF Partition

(* and adding the newest line to a place.                                  *)
LEMMA Added ==
    ASSUME NEW P, NEW m \in Nat, Partition(P, m), NEW b \in Place,
           NEW Q, Q \in [Place -> SUBSET Nat],
           Q[b] = P[b] \cup {m + 1}, \A p \in Place \ {b} : Q[p] = P[p]
    PROVE  Partition(Q, m + 1)
  <1>1. \A l \in 1..(m + 1) : l \in 1..m \/ l = m + 1
    OBVIOUS
  <1>2. m + 1 \in 1..(m + 1) /\ m + 1 \notin 1..m /\ 1..m \subseteq 1..(m + 1)
    OBVIOUS
  <1>3. \A p \in Place : Q[p] \subseteq 1..(m + 1)
    BY <1>2 DEF Partition
  <1>4. \A l \in 1..(m + 1) : \E p \in Place : l \in Q[p]
    BY <1>1 DEF Partition
  <1>5. ASSUME NEW p \in Place, NEW q \in Place, p # q PROVE Q[p] \cap Q[q] = {}
    <2>1. /\ P[p] \cap P[q] = {} /\ m + 1 \notin P[p] /\ m + 1 \notin P[q]
      BY <1>2, <1>5 DEF Partition
    <2> QED BY <1>5, <2>1
  <1> QED BY <1>3, <1>4, <1>5 DEF Partition
-----------------------------------------------------------------------------
(* Init. *)
LEMMA InitInv == LogsInit => Inv
  <1> SUFFICES ASSUME LogsInit PROVE Inv
    OBVIOUS
  <1>1. \A S : <<>> \in Seq(S) /\ Len(<<>>) = 0
    BY EmptySeq
  <1>2. RingCap \in Nat /\ ScreenCap \in Nat /\ MaxLines \in Nat \ {0} /\ MaxClears \in Nat
    BY LogsAssumption
  <1>3. emitting \in [Threads -> Hand]
    BY DEF LogsInit, Hand, Free
  <1>4. TypesOK
    <2>1. /\ ring \in Seq(Nat) /\ backlog \in Seq(Nat) /\ uiBuffer \in Seq(Nat)
          /\ file \in Seq(Nat) /\ lines \in Seq(Nat)
          /\ queue \in Seq(Closure) /\ mainQueue \in Seq(Block)
      BY <1>1 DEF LogsInit
    <2>2. Len(ring) <= RingCap /\ Len(backlog) <= RingCap /\ Len(lines) <= ScreenCap
      BY <1>1, <1>2 DEF LogsInit
    <2>3. made \in Nat /\ clears \in 0..MaxClears /\ timers \in 0..1 /\ dropped \subseteq Nat
      BY <1>2 DEF LogsInit
    <2>4. callback \in BOOLEAN /\ flushScheduled \in BOOLEAN
      BY DEF LogsInit
    <2>5. registering \in {"no", "replay", "tell", "done"}
      BY DEF LogsInit
    <2> QED BY <1>3, <2>1, <2>2, <2>3, <2>5, <2>4 DEF TypesOK
  <1>5. CountOK /\ RegisterOK
    BY <1>2 DEF LogsInit, CountOK, RegisterOK
  <1>6. Elems(ring) = {} /\ Elems(backlog) = {} /\ Elems(queue) = {} /\ Elems(uiBuffer) = {}
        /\ Elems(lines) = {} /\ Elems(file) = {} /\ dropped = {}
    BY ElemsEmpty DEF LogsInit
  <1>7. FlushOK /\ FileOK
    BY <1>6 DEF LogsInit, FlushOK, FileOK
  <1>8. \A t \in Threads : emitting[t] = Free
    BY DEF LogsInit, Free
  <1>9. Handed = {} /\ Distinct(emitting)
    BY <1>8, Hands DEF Handed, HandedIn, Distinct
  <1>10. Batched = {} /\ Apart(mainQueue)
    BY <1>1 DEF LogsInit, Batched, InBatches, Apart
  <1>11. OnceOK
    BY <1>9, <1>10, ElemsEmpty DEF LogsInit, OnceOK
  <1>12. Queued = {} /\ Pending = {}
    BY <1>6 DEF Queued, LinesIn, Pending
  <1>13. made = 0
    BY DEF LogsInit
  <1>14. \A p \in Place : Content[p] = {}
    BY <1>4, <1>6, <1>9, <1>10, <1>12, ContentIs DEF Place
  <1>15. Partition(Content, made)
    BY <1>4, <1>13, <1>14, ContentIs DEF Partition
  <1> QED BY <1>4, <1>5, <1>7, <1>11, <1>15 DEF Inv

-----------------------------------------------------------------------------
(* logger.rs. *)

(* Room is made before a line is pushed. *)
LEMMA RingPush ==
    ASSUME TypesOK, NEW l \in Nat, NEW r,
           r = Append(IF Len(ring) >= RingCap THEN Tail(ring) ELSE ring, l)
    PROVE  /\ r \in Seq(Nat) /\ Len(r) <= RingCap
           /\ PushedOut \subseteq Nat /\ PushedOut \subseteq Pending /\ (callback => PushedOut = {})
           /\ ~callback /\ Once(ring, {}) /\ l \notin Elems(ring) =>
                Once(r, {}) /\ Elems(r) = (Elems(ring) \ PushedOut) \cup {l}
  <1>1. Len(ring) \in Nat /\ RingCap \in Nat \ {0} /\ ring \in Seq(Nat) /\ Len(ring) <= RingCap
    BY LenProperties, LogsAssumption DEF TypesOK
  <1>2. CASE Len(ring) >= RingCap
    <2>1. ring # <<>>
      BY <1>1, <1>2, EmptySeq
    <2> DEFINE s == Tail(ring)
    <2>2. /\ Head(ring) \in Nat /\ s \in Seq(Nat) /\ Head(ring) \in Elems(ring)
          /\ Elems(ring) = {Head(ring)} \cup Elems(s)
          /\ Once(ring, {}) => Once(s, {}) /\ Head(ring) \notin Elems(s)
      BY <1>1, <2>1, ElemsTail
    <2>3. Len(s) = Len(ring) - 1
      BY <1>1, <2>1, HeadTailProperties
    <2>4. r = Append(s, l)
      BY <1>2
    <2>5. PushedOut = IF callback THEN {} ELSE {Head(ring)}
      BY <1>2 DEF PushedOut
    <2> HIDE DEF s
    <2> DEFINE a == Append(s, l)
    <2>6. /\ a \in Seq(Nat) /\ Elems(a) = Elems(s) \cup {l}
          /\ \A W : Once(s, W) /\ (l \in Elems(s) => l \in W) => Once(a, W)
      BY <2>2, ElemsAppend
    <2> HIDE DEF a
    <2>7. /\ r \in Seq(Nat) /\ Elems(r) = Elems(s) \cup {l}
          /\ Once(s, {}) /\ l \notin Elems(s) => Once(r, {})
      <3>1. r = a
        BY <2>4 DEF a
      <3> QED BY <2>6, <3>1
    <2>8. Len(r) = Len(s) + 1
      BY <2>2, <2>4, AppendProperties
    <2> QED BY <1>1, <2>2, <2>3, <2>5, <2>7, <2>8 DEF Pending
  <1>3. CASE ~(Len(ring) >= RingCap)
    <2>1. r = Append(ring, l) /\ PushedOut = {}
      BY <1>3 DEF PushedOut
    <2>2. /\ r \in Seq(Nat) /\ Elems(r) = Elems(ring) \cup {l} /\ Len(r) = Len(ring) + 1
          /\ Once(ring, {}) /\ l \notin Elems(ring) => Once(r, {})
      BY <1>1, <2>1, ElemsAppend, AppendProperties
    <2> QED BY <1>1, <1>3, <2>1, <2>2
  <1> QED BY <1>2, <1>3

(* One lemma per action: each preserves Inv.                               *)
LEMMA LogInv == ASSUME Inv, NEW t \in Threads, Log(t) PROVE Inv'
  <1> DEFINE l == made + 1
             v == IF callback THEN Line(l) ELSE Free
  <1>1. /\ TypesOK /\ CountOK /\ RegisterOK /\ FlushOK /\ OnceOK /\ FileOK
        /\ Partition(Content, made)
    BY DEF Inv
  <1>2. /\ made' = l /\ dropped' = dropped \cup PushedOut
        /\ ring' = Append(IF Len(ring) >= RingCap THEN Tail(ring) ELSE ring, l)
        /\ emitting[t] = Free /\ emitting' = [emitting EXCEPT ![t] = v]
        /\ registering' = IF t = MainThread THEN "done" ELSE registering
        /\ t = MainThread => registering = "tell"
        /\ t # MainThread => made + (IF registering = "done" THEN 0 ELSE 1) < MaxLines
        /\ callback' = callback /\ backlog' = backlog /\ queue' = queue /\ timers' = timers
        /\ mainQueue' = mainQueue /\ file' = file /\ uiBuffer' = uiBuffer /\ lines' = lines
        /\ flushScheduled' = flushScheduled /\ clears' = clears
    BY DEF Log, Push, CanLog, storeVars, mainVars, Line, Free
  <1>3. made \in Nat /\ l \in Nat
    BY <1>1 DEF TypesOK
  <1> HIDE DEF l
  <1>4. /\ \A p \in Place : Content[p] \subseteq 1..made /\ l \notin Content[p]
    BY <1>1, PlacesApart DEF l
  <1>5. l \notin Pending /\ l \notin Handed
    BY <1>1, <1>4, ContentIs DEF Place
  <1>6. /\ ring' \in Seq(Nat) /\ Len(ring') <= RingCap
        /\ PushedOut \subseteq Nat /\ PushedOut \subseteq Pending /\ (callback => PushedOut = {})
        /\ ~callback => Once(ring', {}) /\ Elems(ring') = (Elems(ring) \ PushedOut) \cup {l}
    BY <1>1, <1>2, <1>3, <1>5, RingPush DEF OnceOK, Pending
  <1>7. /\ emitting' \in [Threads -> Hand] /\ Distinct(emitting')
        /\ HandedIn(emitting') = IF callback THEN Handed \cup {l} ELSE Handed
    <2>1. emitting \in [Threads -> Hand] /\ Distinct(emitting)
      BY <1>1 DEF TypesOK, OnceOK
    <2>2. CASE callback
      <3>1. emitting[t] = Free
        BY <1>2, <2>2
      <3>2. emitting' = [emitting EXCEPT ![t] = Line(l)] /\ l \notin HandedIn(emitting)
        BY <1>2, <1>5, <2>2 DEF Handed
      <3>3. /\ emitting' \in [Threads -> Hand] /\ HandedIn(emitting') = HandedIn(emitting) \cup {l}
            /\ Distinct(emitting')
        BY <1>3, <2>1, <3>1, <3>2, HandOver
      <3> QED BY <2>2, <3>3 DEF Handed
    <2>3. CASE ~callback
      <3>1. v = emitting[t]
        BY <1>2, <2>3
      <3> HIDE DEF v
      <3>2. emitting' = emitting
        BY <1>2, <2>1, <3>1
      <3> QED BY <2>1, <2>3, <3>2 DEF Handed
    <2> QED BY <2>2, <2>3
  <1>8. TypesOK'
    BY <1>1, <1>2, <1>3, <1>6, <1>7 DEF TypesOK
  <1>9. CountOK'
    BY <1>1, <1>2, <1>3, LogsAssumption DEF CountOK, l
  <1>10. RegisterOK' /\ FlushOK'
    BY <1>1, <1>2 DEF RegisterOK, FlushOK
  <1>11. OnceOK'
    BY <1>1, <1>2, <1>6, <1>7 DEF OnceOK
  <1>12. Batched' = Batched /\ Queued' = Queued
    BY <1>2 DEF Batched, Queued
  <1>13. FileOK'
    BY <1>1, <1>2, <1>12 DEF FileOK
  <1>14. Partition(Content, made)'
    <2> DEFINE P == Content
               Q == Content'
    <2>1. Handed' = HandedIn(emitting')
      BY DEF Handed
    <2>2. CASE callback
      <3>1. Pending' = Pending /\ dropped' = dropped
        BY <1>2, <1>6, <2>2 DEF Pending
      <3>2. Q["thread"] = P["thread"] \cup {made + 1} /\ \A p \in Place \ {"thread"} : Q[p] = P[p]
        BY <1>1, <1>2, <1>7, <1>8, <1>12, <2>1, <2>2, <3>1, ContentIs, ContentNext DEF Place, l
      <3>3. Q \in [Place -> SUBSET Nat] /\ "thread" \in Place
        BY <1>8, ContentNext DEF Place
      <3>4. Partition(Content', made + 1)
        BY <1>1, <1>3, <3>2, <3>3, Added
      <3> QED BY <1>2, <3>4 DEF Partition, l
    <2>3. CASE ~callback
      <3> DEFINE R == [p \in Place |-> IF p = "ring" THEN P[p] \ PushedOut
                                       ELSE IF p = "gone" THEN P[p] \cup PushedOut ELSE P[p]]
      <3>1. Pending' = (Pending \ PushedOut) \cup {l}
        BY <1>2, <1>6, <2>3 DEF Pending
      <3>2. P \in [Place -> SUBSET Nat] /\ P["ring"] = Pending /\ {"ring", "gone"} \subseteq Place
        BY <1>1, ContentIs DEF Place
      <3>3. R \in [Place -> SUBSET Nat] /\ R["ring"] = P["ring"] \ PushedOut
            /\ R["gone"] = P["gone"] \cup PushedOut
            /\ \A p \in Place \ {"ring", "gone"} : R[p] = P[p]
        BY <1>6, <3>2
      <3> HIDE DEF R
      <3>4. Shift(Content, R, "ring", "gone", PushedOut)
        BY <1>6, <3>2, <3>3 DEF Shift
      <3>5. Partition(R, made)
        BY <1>1, <1>3, <3>4, Moved
      <3>6. Q["ring"] = R["ring"] \cup {made + 1} /\ \A p \in Place \ {"ring"} : Q[p] = R[p]
        BY <1>1, <1>2, <1>7, <1>8, <1>12, <2>1, <2>3, <3>1, <3>3, ContentIs, ContentNext
           DEF Place, l
      <3>7. Q \in [Place -> SUBSET Nat]
        BY <1>8, ContentNext
      <3>8. Partition(Content', made + 1)
        BY <1>3, <3>2, <3>5, <3>6, <3>7, Added
      <3> QED BY <1>2, <3>8 DEF Partition, l
    <2> QED BY <2>2, <2>3
  <1> QED BY <1>8, <1>9, <1>10, <1>11, <1>13, <1>14 DEF Inv

(* A line goes to the end of the store's queue. *)
LEMMA QueueLine ==
    ASSUME NEW q \in Seq(Closure), Once(q, {Wipe}), NEW l \in Nat, l \notin LinesIn(q)
    PROVE  /\ Append(q, Write(l)) \in Seq(Closure)
           /\ LinesIn(Append(q, Write(l))) = LinesIn(q) \cup {l}
           /\ Once(Append(q, Write(l)), {Wipe})
           /\ Flush \in Elems(Append(q, Write(l))) <=> Flush \in Elems(q)
  <1>1. Write(l) \in Closure /\ Write(l) # Flush /\ Write(l) \notin Elems(q)
    BY Closures DEF LinesIn
  <1>2. /\ Append(q, Write(l)) \in Seq(Closure)
        /\ Elems(Append(q, Write(l))) = Elems(q) \cup {Write(l)}
        /\ Once(Append(q, Write(l)), {Wipe})
    BY <1>1, ElemsAppend
  <1>3. LinesIn(Append(q, Write(l))) = LinesIn(q) \cup {l}
    BY <1>1, QueueAppend
  <1> QED BY <1>1, <1>2, <1>3

LEMMA EmitInv == ASSUME Inv, NEW t \in Threads, Emit(t) PROVE Inv'
  <1>1. /\ TypesOK /\ CountOK /\ RegisterOK /\ FlushOK /\ OnceOK /\ FileOK
        /\ Partition(Content, made)
    BY DEF Inv
  <1>2. /\ emitting[t] # Free /\ emitting' = [emitting EXCEPT ![t] = Free]
        /\ queue' = Append(queue, Write(emitting[t][1]))
        /\ made' = made /\ ring' = ring /\ callback' = callback /\ registering' = registering
        /\ backlog' = backlog /\ timers' = timers /\ mainQueue' = mainQueue /\ file' = file
        /\ uiBuffer' = uiBuffer /\ flushScheduled' = flushScheduled /\ lines' = lines
        /\ clears' = clears /\ dropped' = dropped
    BY DEF Emit, storeVars, mainVars, Free
  <1>3. emitting \in [Threads -> Hand] /\ Distinct(emitting) /\ queue \in Seq(Closure)
        /\ Once(queue, {Wipe}) /\ made \in Nat
    BY <1>1 DEF TypesOK, OnceOK
  <1>4. PICK l \in Nat : emitting[t] = Line(l)
    BY <1>2, <1>3 DEF Hand
  <1>5. queue' = Append(queue, Write(l))
    BY <1>2, <1>4 DEF Line
  <1>6. /\ emitting' \in [Threads -> Hand] /\ Distinct(emitting')
        /\ l \in HandedIn(emitting) /\ HandedIn(emitting') = HandedIn(emitting) \ {l}
    BY <1>2, <1>3, <1>4, HandOff
  <1>7. l \in Handed /\ Handed' = Handed \ {l}
    BY <1>6 DEF Handed
  <1>8. l \notin Queued
    BY <1>1, <1>7, ContentIs, PlacesApart DEF Place
  <1>9. /\ queue' \in Seq(Closure) /\ LinesIn(queue') = Queued \cup {l}
        /\ Once(queue', {Wipe}) /\ (Flush \in Elems(queue') <=> Flush \in Elems(queue))
    BY <1>3, <1>5, <1>8, QueueLine DEF Queued
  <1>10. TypesOK'
    BY <1>1, <1>2, <1>6, <1>9 DEF TypesOK
  <1>11. CountOK' /\ RegisterOK'
    BY <1>1, <1>2 DEF CountOK, RegisterOK
  <1>12. FlushOK'
    BY <1>1, <1>2, <1>9 DEF FlushOK
  <1>13. OnceOK'
    BY <1>1, <1>2, <1>6, <1>9 DEF OnceOK
  <1>14. Batched' = Batched /\ Pending' = Pending /\ Queued' = Queued \cup {l}
    BY <1>2, <1>9 DEF Batched, Pending, Queued
  <1>15. FileOK'
    BY <1>1, <1>2, <1>14 DEF FileOK
  <1>16. /\ Content'["thread"] = Content["thread"] \ {l} /\ {l} \subseteq Content["thread"]
         /\ Content'["queue"] = Content["queue"] \cup {l}
         /\ \A p \in Place \ {"thread", "queue"} : Content'[p] = Content[p]
    BY <1>1, <1>2, <1>7, <1>10, <1>14, ContentIs, ContentNext DEF Place
  <1>17. Content' \in [Place -> SUBSET Nat] /\ {"thread", "queue"} \subseteq Place
    BY <1>10, ContentNext DEF Place
  <1>18. Shift(Content, Content', "thread", "queue", {l})
    BY <1>16, <1>17 DEF Shift
  <1>19. Partition(Content', made)
    BY <1>1, <1>3, <1>18, Moved
  <1>20. Partition(Content, made)'
    BY <1>2, <1>19 DEF Partition
  <1> QED BY <1>10, <1>11, <1>12, <1>13, <1>15, <1>20 DEF Inv

LEMMA SetCallbackInv == ASSUME Inv, SetCallback PROVE Inv'
  <1>1. /\ TypesOK /\ CountOK /\ RegisterOK /\ FlushOK /\ OnceOK /\ FileOK
        /\ Partition(Content, made)
    BY DEF Inv
  <1>2. /\ registering = "no" /\ callback' = TRUE /\ backlog' = ring /\ registering' = "replay"
        /\ made' = made /\ ring' = ring /\ emitting' = emitting /\ queue' = queue
        /\ timers' = timers /\ mainQueue' = mainQueue /\ file' = file
        /\ uiBuffer' = uiBuffer /\ flushScheduled' = flushScheduled /\ lines' = lines
        /\ clears' = clears /\ dropped' = dropped
    BY DEF SetCallback, storeVars, mainVars
  <1>3. ~callback /\ backlog = <<>> /\ Elems(backlog) = {} /\ made \in Nat
    BY <1>1, <1>2, ElemsEmpty DEF RegisterOK, TypesOK
  <1>4. callback' \in BOOLEAN
    BY <1>2
  <1>5. TypesOK'
    BY <1>1, <1>2, <1>4 DEF TypesOK
  <1>6. CountOK' /\ RegisterOK' /\ FlushOK'
    BY <1>1, <1>2 DEF CountOK, RegisterOK, FlushOK
  <1>7. OnceOK'
    BY <1>1, <1>2, <1>3 DEF OnceOK
  <1>8. /\ Pending = Elems(ring) /\ Pending' = {} /\ Elems(backlog') = Elems(ring)
        /\ Batched' = Batched /\ Handed' = Handed /\ Queued' = Queued
    BY <1>2, <1>3 DEF Batched, Pending, Queued, Handed
  <1>9. FileOK'
    BY <1>1, <1>2, <1>8 DEF FileOK
  <1>10. /\ Content'["ring"] = Content["ring"] \ Content["ring"]
         /\ Content'["backlog"] = Content["backlog"] \cup Content["ring"]
         /\ \A p \in Place \ {"ring", "backlog"} : Content'[p] = Content[p]
    BY <1>1, <1>2, <1>3, <1>5, <1>8, ContentIs, ContentNext DEF Place
  <1>11. Content' \in [Place -> SUBSET Nat] /\ {"ring", "backlog"} \subseteq Place
    BY <1>5, ContentNext DEF Place
  <1>12. Shift(Content, Content', "ring", "backlog", Content["ring"])
    BY <1>10, <1>11 DEF Shift
  <1>13. Partition(Content', made)
    BY <1>1, <1>3, <1>12, Moved
  <1>14. Partition(Content, made)'
    BY <1>2, <1>13 DEF Partition
  <1> QED BY <1>5, <1>6, <1>7, <1>9, <1>14 DEF Inv

LEMMA ReplayInv == ASSUME Inv, Replay PROVE Inv'
  <1>1. /\ TypesOK /\ CountOK /\ RegisterOK /\ FlushOK /\ OnceOK /\ FileOK
        /\ Partition(Content, made)
    BY DEF Inv
  <1>2. /\ registering = "replay"
        /\ made' = made /\ ring' = ring /\ callback' = callback /\ emitting' = emitting
        /\ timers' = timers /\ mainQueue' = mainQueue /\ file' = file
        /\ uiBuffer' = uiBuffer /\ flushScheduled' = flushScheduled /\ lines' = lines
        /\ clears' = clears /\ dropped' = dropped
    BY DEF Replay, storeVars, mainVars
  <1>3. Batched' = Batched /\ Pending' = Pending /\ Handed' = Handed
    BY <1>2 DEF Batched, Pending, Handed
  <1>4. CASE backlog = <<>>
    <2>1. registering' = "tell" /\ backlog' = backlog /\ queue' = queue
      BY <1>4 DEF Replay
    <2>2. TypesOK' /\ CountOK' /\ RegisterOK' /\ FlushOK' /\ OnceOK' /\ FileOK'
      BY <1>1, <1>2, <1>3, <2>1
         DEF TypesOK, CountOK, RegisterOK, FlushOK, OnceOK, FileOK
    <2>3. Content' = Content
      BY <1>2, <1>3, <2>1 DEF Content, Queued
    <2>4. Partition(Content, made)'
      BY <1>1, <1>2, <2>3 DEF Partition
    <2> QED BY <2>2, <2>4 DEF Inv
  <1>5. CASE backlog # <<>>
    <2> DEFINE l == Head(backlog)
    <2>1. registering' = registering /\ backlog' = Tail(backlog) /\ queue' = Append(queue, Write(l))
      BY <1>5 DEF Replay
    <2>2. /\ backlog \in Seq(Nat) /\ Len(backlog) <= RingCap /\ Once(backlog, {})
          /\ queue \in Seq(Closure) /\ Once(queue, {Wipe}) /\ made \in Nat /\ RingCap \in Nat
      BY <1>1, LogsAssumption DEF TypesOK, OnceOK
    <2>3. /\ l \in Nat /\ backlog' \in Seq(Nat) /\ Len(backlog') <= Len(backlog)
          /\ l \in Elems(backlog) /\ Elems(backlog) = {l} \cup Elems(backlog')
          /\ Once(backlog', {}) /\ l \notin Elems(backlog')
      BY <1>5, <2>1, <2>2, ElemsTail
    <2> HIDE DEF l
    <2>4. Len(backlog') <= RingCap
      BY <2>2, <2>3, LenProperties
    <2>5. l \notin Queued
      BY <1>1, <2>3, ContentIs, PlacesApart DEF Place
    <2>6. /\ queue' \in Seq(Closure) /\ LinesIn(queue') = Queued \cup {l}
          /\ Once(queue', {Wipe}) /\ (Flush \in Elems(queue') <=> Flush \in Elems(queue))
      BY <2>1, <2>2, <2>3, <2>5, QueueLine DEF Queued
    <2>7. TypesOK'
      BY <1>1, <1>2, <2>1, <2>3, <2>4, <2>6 DEF TypesOK
    <2>8. CountOK' /\ RegisterOK'
      BY <1>1, <1>2, <2>1 DEF CountOK, RegisterOK
    <2>9. FlushOK'
      BY <1>1, <1>2, <2>6 DEF FlushOK
    <2>10. OnceOK'
      BY <1>1, <1>2, <2>3, <2>6 DEF OnceOK
    <2>11. FileOK'
      BY <1>1, <1>2, <1>3 DEF FileOK
    <2>12. Queued' = Queued \cup {l} /\ Elems(backlog') = Elems(backlog) \ {l}
      BY <2>3, <2>6 DEF Queued
    <2>13. /\ Content'["backlog"] = Content["backlog"] \ {l} /\ {l} \subseteq Content["backlog"]
           /\ Content'["queue"] = Content["queue"] \cup {l}
           /\ \A p \in Place \ {"backlog", "queue"} : Content'[p] = Content[p]
      BY <1>1, <1>2, <1>3, <2>3, <2>7, <2>12, ContentIs, ContentNext DEF Place
    <2>14. Content' \in [Place -> SUBSET Nat] /\ {"backlog", "queue"} \subseteq Place
      BY <2>7, ContentNext DEF Place
    <2>15. Shift(Content, Content', "backlog", "queue", {l})
      BY <2>13, <2>14 DEF Shift
    <2>16. Partition(Content', made)
      BY <1>1, <2>2, <2>15, Moved
    <2>17. Partition(Content, made)'
      BY <1>2, <2>16 DEF Partition
    <2> QED BY <2>7, <2>8, <2>9, <2>10, <2>11, <2>17 DEF Inv
  <1> QED BY <1>4, <1>5

-----------------------------------------------------------------------------
(* LogStore.swift. *)
LEMMA AppLogInv == ASSUME Inv, AppLog PROVE Inv'
  <1> DEFINE l == made + 1
  <1>1. /\ TypesOK /\ CountOK /\ RegisterOK /\ FlushOK /\ OnceOK /\ FileOK
        /\ Partition(Content, made)
    BY DEF Inv
  <1>2. /\ made' = l /\ queue' = Append(queue, Write(l))
        /\ made + (IF registering = "done" THEN 0 ELSE 1) < MaxLines
        /\ ring' = ring /\ callback' = callback /\ emitting' = emitting
        /\ registering' = registering /\ backlog' = backlog
        /\ timers' = timers /\ mainQueue' = mainQueue /\ file' = file
        /\ uiBuffer' = uiBuffer /\ flushScheduled' = flushScheduled /\ lines' = lines
        /\ clears' = clears /\ dropped' = dropped
    BY DEF AppLog, CanLog, coreVars, storeVars, mainVars
  <1>3. made \in Nat /\ l \in Nat /\ queue \in Seq(Closure) /\ Once(queue, {Wipe})
    BY <1>1 DEF TypesOK, OnceOK
  <1> HIDE DEF l
  <1>4. l \notin Queued
    BY <1>1, PlacesApart, ContentIs DEF Place, l
  <1>5. /\ queue' \in Seq(Closure) /\ LinesIn(queue') = Queued \cup {l}
        /\ Once(queue', {Wipe}) /\ (Flush \in Elems(queue') <=> Flush \in Elems(queue))
    BY <1>2, <1>3, <1>4, QueueLine DEF Queued
  <1>6. TypesOK'
    BY <1>1, <1>2, <1>3, <1>5 DEF TypesOK
  <1>7. CountOK'
    BY <1>2, <1>3, LogsAssumption DEF CountOK, l
  <1>8. RegisterOK' /\ FlushOK'
    BY <1>1, <1>2, <1>5 DEF RegisterOK, FlushOK
  <1>9. OnceOK'
    BY <1>1, <1>2, <1>5 DEF OnceOK
  <1>10. Batched' = Batched /\ Pending' = Pending /\ Handed' = Handed /\ Queued' = Queued \cup {l}
    BY <1>2, <1>5 DEF Batched, Pending, Handed, Queued
  <1>11. FileOK'
    BY <1>1, <1>2, <1>10 DEF FileOK
  <1>12. /\ Content'["queue"] = Content["queue"] \cup {made + 1}
         /\ \A p \in Place \ {"queue"} : Content'[p] = Content[p]
    BY <1>1, <1>2, <1>6, <1>10, ContentIs, ContentNext DEF Place, l
  <1>13. Content' \in [Place -> SUBSET Nat] /\ "queue" \in Place
    BY <1>6, ContentNext DEF Place
  <1>14. Partition(Content', made + 1)
    BY <1>1, <1>3, <1>12, <1>13, Added
  <1>15. Partition(Content, made)'
    BY <1>2, <1>14 DEF Partition, l
  <1> QED BY <1>6, <1>7, <1>8, <1>9, <1>11, <1>15 DEF Inv

(* A cleared log's wipe and its new header go to the queue one by one. *)
LEMMA ConcatTwo ==
    ASSUME NEW S, NEW s \in Seq(S), NEW a \in S, NEW b \in S
    PROVE  s \o <<a, b>> = Append(Append(s, a), b)
  <1> DEFINE p == <<a, b>>
             u == Append(s, a)
             n == Len(s)
  <1>1. p \in Seq(S) /\ Len(p) = 2 /\ p[1] = a /\ p[2] = b
    OBVIOUS
  <1> HIDE DEF p
  <1>2. n \in Nat /\ u \in Seq(S) /\ Len(u) = n + 1 /\ u[n + 1] = a /\ \A i \in 1..n : u[i] = s[i]
    BY LenProperties, AppendProperties
  <1> HIDE DEF u
  <1>3. /\ Append(u, b) \in Seq(S) /\ Len(Append(u, b)) = n + 2
        /\ Append(u, b)[n + 2] = b /\ \A i \in 1..(n + 1) : Append(u, b)[i] = u[i]
    <2>1. Len(u) + 1 = n + 2 /\ Len(u) = n + 1
      BY <1>2
    <2> QED BY <1>2, <2>1, AppendProperties
  <1>4. /\ s \o p \in Seq(S) /\ Len(s \o p) = n + 2
        /\ \A i \in 1..(n + 2) : (s \o p)[i] = IF i <= n THEN s[i] ELSE p[i - n]
    <2>1. /\ s \o p \in Seq(S) /\ Len(s \o p) = Len(s) + Len(p)
          /\ \A i \in 1..(Len(s) + Len(p)) :
                (s \o p)[i] = IF i <= Len(s) THEN s[i] ELSE p[i - Len(s)]
      BY <1>1, ConcatProperties
    <2>2. Len(s) + Len(p) = n + 2
      BY <1>1
    <2> QED BY <2>1, <2>2
  <1> HIDE DEF n
  <1>5. n \in Nat /\ \A i \in 1..(n + 2) : i <= n \/ i = n + 1 \/ i = n + 2
    BY <1>2
  <1>6. ASSUME NEW i \in 1..(n + 2) PROVE (s \o p)[i] = Append(u, b)[i]
    <2>1. CASE i <= n
      <3>1. i \in 1..n /\ i \in 1..(n + 1)
        BY <1>2, <2>1
      <3> QED BY <1>2, <1>3, <1>4, <2>1, <3>1
    <2>2. CASE i = n + 1
      <3>1. i \in 1..(n + 1) /\ ~(i <= n) /\ i - n = 1
        BY <1>2, <2>2
      <3> QED BY <1>1, <1>2, <1>3, <1>4, <2>2, <3>1
    <2>3. CASE i = n + 2
      <3>1. ~(i <= n) /\ i - n = 2
        BY <1>2, <2>3
      <3> QED BY <1>1, <1>3, <1>4, <2>3, <3>1
    <2> QED BY <1>5, <2>1, <2>2, <2>3
  <1> QED BY <1>3, <1>4, <1>6, SeqEqual DEF p, u

LEMMA ClearInv == ASSUME Inv, Clear PROVE Inv'
  <1> DEFINE l == made + 1
             q == Append(queue, Wipe)
  <1>1. /\ TypesOK /\ CountOK /\ RegisterOK /\ FlushOK /\ OnceOK /\ FileOK
        /\ Partition(Content, made)
    BY DEF Inv
  <1>2. /\ made' = l /\ queue' = queue \o <<Wipe, Write(l)>>
        /\ clears < MaxClears /\ clears' = clears + 1 /\ mainQueue' = Append(mainQueue, Blank)
        /\ made + (IF registering = "done" THEN 0 ELSE 1) < MaxLines
        /\ ring' = ring /\ callback' = callback /\ emitting' = emitting
        /\ registering' = registering /\ backlog' = backlog
        /\ timers' = timers /\ file' = file
        /\ uiBuffer' = uiBuffer /\ flushScheduled' = flushScheduled /\ lines' = lines
        /\ dropped' = dropped
    BY DEF Clear, CanLog, coreVars, storeVars
  <1>3. /\ made \in Nat /\ l \in Nat /\ queue \in Seq(Closure) /\ Once(queue, {Wipe})
        /\ mainQueue \in Seq(Block) /\ Apart(mainQueue)
    BY <1>1 DEF TypesOK, OnceOK
  <1> HIDE DEF l
  <1>4. l \notin Queued
    BY <1>1, PlacesApart, ContentIs DEF Place, l
  <1>5. Wipe \in Closure /\ Write(l) \in Closure /\ Flush # Wipe
    BY <1>3, Closures
  <1>6. /\ q \in Seq(Closure) /\ Elems(q) = Elems(queue) \cup {Wipe} /\ Once(q, {Wipe})
        /\ LinesIn(q) = LinesIn(queue)
    <2>1. q \in Seq(Closure) /\ Elems(q) = Elems(queue) \cup {Wipe} /\ Once(q, {Wipe})
      BY <1>3, <1>5, ElemsAppend
    <2>2. LinesIn(q) = LinesIn(queue)
      BY <1>3, <1>5, QueueAppend
    <2> QED BY <2>1, <2>2
  <1>7. queue' = Append(q, Write(l))
    BY <1>2, <1>3, <1>5, ConcatTwo
  <1> HIDE DEF q
  <1>8. /\ queue' \in Seq(Closure) /\ LinesIn(queue') = Queued \cup {l}
        /\ Once(queue', {Wipe}) /\ (Flush \in Elems(queue') <=> Flush \in Elems(queue))
    BY <1>3, <1>4, <1>5, <1>6, <1>7, QueueLine DEF Queued
  <1>9. /\ mainQueue' \in Seq(Block) /\ InBatches(mainQueue') = Batched /\ Apart(mainQueue')
    <2>1. Blank \in Block /\ Elems(Blank.batch) = {} /\ Once(Blank.batch, {})
      BY Blocks, ElemsEmpty
    <2>2. mainQueue' \in Seq(Block)
      BY <1>2, <1>3, <2>1, AppendProperties
    <2>3. InBatches(mainQueue') = InBatches(mainQueue) /\ Apart(mainQueue')
      BY <1>2, <1>3, <2>1, BatchAppend
    <2> QED BY <2>2, <2>3 DEF Batched
  <1>10. clears' \in 0..MaxClears
    BY <1>1, <1>2, LogsAssumption DEF TypesOK
  <1>11. TypesOK'
    BY <1>1, <1>2, <1>3, <1>8, <1>9, <1>10 DEF TypesOK
  <1>12. CountOK'
    BY <1>2, <1>3, LogsAssumption DEF CountOK, l
  <1>13. RegisterOK' /\ FlushOK'
    BY <1>1, <1>2, <1>8 DEF RegisterOK, FlushOK
  <1>14. OnceOK'
    BY <1>1, <1>2, <1>8, <1>9 DEF OnceOK
  <1>15. Batched' = Batched /\ Pending' = Pending /\ Handed' = Handed /\ Queued' = Queued \cup {l}
    BY <1>2, <1>8, <1>9 DEF Batched, Pending, Handed, Queued
  <1>16. FileOK'
    BY <1>1, <1>2, <1>15 DEF FileOK
  <1>17. /\ Content'["queue"] = Content["queue"] \cup {made + 1}
         /\ \A p \in Place \ {"queue"} : Content'[p] = Content[p]
    BY <1>1, <1>2, <1>11, <1>15, ContentIs, ContentNext DEF Place, l
  <1>18. Content' \in [Place -> SUBSET Nat] /\ "queue" \in Place
    BY <1>11, ContentNext DEF Place
  <1>19. Partition(Content', made + 1)
    BY <1>1, <1>3, <1>17, <1>18, Added
  <1>20. Partition(Content, made)'
    BY <1>2, <1>19 DEF Partition, l
  <1> QED BY <1>11, <1>12, <1>13, <1>14, <1>16, <1>20 DEF Inv

(* The queue runs its first closure. *)
LEMMA RunsFirst ==
    ASSUME TypesOK, OnceOK, NEW op, Runs(op)
    PROVE  /\ queue' \in Seq(Closure) /\ Once(queue', {Wipe})
           /\ Elems(queue') \subseteq Elems(queue)
           /\ op = "append" => \E l \in Nat : /\ Head(queue) = Write(l) /\ l \in Queued
                                              /\ LinesIn(queue') = Queued \ {l}
           /\ op # "append" => LinesIn(queue') = Queued
           /\ op # "flush" => (Flush \in Elems(queue') <=> Flush \in Elems(queue))
           /\ op = "flush" => Flush \in Elems(queue) /\ Flush \notin Elems(queue')
  <1>1. queue \in Seq(Closure) /\ Once(queue, {Wipe})
    BY DEF TypesOK, OnceOK
  <1>2. queue # <<>> /\ Head(queue).op = op /\ queue' = Tail(queue)
    BY DEF Runs
  <1>3. /\ Head(queue) \in Closure /\ queue' \in Seq(Closure) /\ Once(queue', {Wipe})
        /\ Elems(queue) = {Head(queue)} \cup Elems(queue')
        /\ Head(queue) # Wipe => Head(queue) \notin Elems(queue')
    BY <1>1, <1>2, ElemsTail
  <1>4. /\ Head(queue) \in {Flush, Wipe} => LinesIn(queue') = Queued
        /\ \A l \in Nat : Head(queue) = Write(l) => l \in Queued /\ LinesIn(queue') = Queued \ {l}
    BY <1>1, <1>2, QueueTail DEF Queued
  <1>5. Head(queue) = Flush \/ Head(queue) = Wipe \/ \E l \in Nat : Head(queue) = Write(l)
    BY <1>3, Closures
  <1>6. /\ Flush.op = "flush" /\ Wipe.op = "wipe" /\ Flush # Wipe
        /\ \A l \in Nat : Write(l).op = "append"
    BY Closures
  <1>7. op = "append" => \E l \in Nat : Head(queue) = Write(l)
    BY <1>2, <1>5, <1>6
  <1>8. op # "append" => Head(queue) \in {Flush, Wipe}
    BY <1>2, <1>5, <1>6
  <1>9. op = "flush" <=> Head(queue) = Flush
    BY <1>2, <1>5, <1>6
  <1> QED BY <1>3, <1>4, <1>6, <1>7, <1>8, <1>9

LEMMA RunAppendInv == ASSUME Inv, RunAppend PROVE Inv'
  <1>1. /\ TypesOK /\ CountOK /\ RegisterOK /\ FlushOK /\ OnceOK /\ FileOK
        /\ Partition(Content, made)
    BY DEF Inv
  <1>2. /\ Runs("append")
        /\ file' = Append(file, Head(queue).line) /\ uiBuffer' = Append(uiBuffer, Head(queue).line)
        /\ flushScheduled' = TRUE /\ timers' = IF flushScheduled THEN timers ELSE timers + 1
        /\ made' = made /\ mainQueue' = mainQueue /\ lines' = lines
        /\ ring' = ring /\ callback' = callback /\ emitting' = emitting
        /\ registering' = registering /\ backlog' = backlog
        /\ clears' = clears /\ dropped' = dropped
    BY DEF RunAppend, coreVars
  <1>3. PICK l \in Nat : Head(queue) = Write(l) /\ l \in Queued /\ LinesIn(queue') = Queued \ {l}
    BY <1>1, <1>2, RunsFirst
  <1>4. /\ queue' \in Seq(Closure) /\ Once(queue', {Wipe})
        /\ Flush \in Elems(queue') <=> Flush \in Elems(queue)
    <2>1. "append" # "flush" /\ Runs("append")
      BY <1>2
    <2> QED BY <1>1, <2>1, RunsFirst
  <1>5. file' = Append(file, l) /\ uiBuffer' = Append(uiBuffer, l)
    BY <1>2, <1>3, Closures
  <1>6. /\ made \in Nat /\ file \in Seq(Nat) /\ uiBuffer \in Seq(Nat)
        /\ Once(file, {}) /\ Once(uiBuffer, {}) /\ timers \in 0..1
    BY <1>1 DEF TypesOK, OnceOK
  <1>7. l \notin Elems(uiBuffer) \cup Batched \cup Elems(lines) \cup dropped
    BY <1>1, <1>3, PlacesApart
  <1>8. l \notin Elems(file)
    BY <1>1, <1>7 DEF FileOK
  <1>9. /\ file' \in Seq(Nat) /\ Elems(file') = Elems(file) \cup {l} /\ Once(file', {})
    BY <1>5, <1>6, <1>8, ElemsAppend
  <1>10. /\ uiBuffer' \in Seq(Nat) /\ Elems(uiBuffer') = Elems(uiBuffer) \cup {l}
         /\ Once(uiBuffer', {})
    BY <1>5, <1>6, <1>7, ElemsAppend
  <1>11. /\ timers' \in 0..1 /\ (timers' = 1 => Flush \notin Elems(queue'))
         /\ timers' = 1 \/ Flush \in Elems(queue')
    BY <1>1, <1>2, <1>4, <1>6 DEF FlushOK
  <1>12. flushScheduled' \in BOOLEAN
    BY <1>2
  <1>13. TypesOK'
    BY <1>1, <1>2, <1>4, <1>9, <1>10, <1>11, <1>12 DEF TypesOK
  <1>14. CountOK' /\ RegisterOK'
    BY <1>1, <1>2 DEF CountOK, RegisterOK
  <1>15. FlushOK'
    BY <1>2, <1>11 DEF FlushOK
  <1>16. OnceOK'
    BY <1>1, <1>2, <1>4, <1>9, <1>10 DEF OnceOK
  <1>17. Batched' = Batched /\ Pending' = Pending /\ Handed' = Handed /\ Queued' = Queued \ {l}
    BY <1>2, <1>3 DEF Batched, Pending, Handed, Queued
  <1>18. FileOK'
    BY <1>1, <1>2, <1>9, <1>10, <1>17 DEF FileOK
  <1>19. Content' \in [Place -> SUBSET Nat] /\ {"queue", "buffer"} \subseteq Place
    BY <1>13, ContentNext DEF Place
  <1>20. Shift(Content, Content', "queue", "buffer", {l})
    BY <1>1, <1>2, <1>3, <1>10, <1>13, <1>17, <1>19, ContentIs, ContentNext DEF Place, Shift
  <1>21. Partition(Content', made)
    BY <1>1, <1>6, <1>20, Moved
  <1>22. Partition(Content, made)'
    BY <1>2, <1>21 DEF Partition
  <1> QED BY <1>13, <1>14, <1>15, <1>16, <1>18, <1>22 DEF Inv

(* The model's Range of a sequence is Elems. *)
LEMMA RangeIs == ASSUME NEW S, NEW s \in Seq(S) PROVE Range(s) = Elems(s)
  <1>1. DOMAIN s = 1..Len(s)
    BY LenProperties
  <1> QED BY <1>1 DEF Range, Elems

LEMMA RunFlushInv == ASSUME Inv, RunFlush PROVE Inv'
  <1>1. /\ TypesOK /\ CountOK /\ RegisterOK /\ FlushOK /\ OnceOK /\ FileOK
        /\ Partition(Content, made)
    BY DEF Inv
  <1>2. /\ Runs("flush") /\ flushScheduled' = FALSE /\ uiBuffer' = <<>>
        /\ mainQueue' = IF uiBuffer = <<>> THEN mainQueue ELSE Append(mainQueue, Show(uiBuffer))
        /\ made' = made /\ lines' = lines /\ file' = file /\ timers' = timers
        /\ ring' = ring /\ callback' = callback /\ emitting' = emitting
        /\ registering' = registering /\ backlog' = backlog
        /\ clears' = clears /\ dropped' = dropped
    BY DEF RunFlush, coreVars
  <1>3. /\ queue' \in Seq(Closure) /\ Once(queue', {Wipe}) /\ LinesIn(queue') = Queued
        /\ Flush \in Elems(queue) /\ Flush \notin Elems(queue')
    <2>1. "flush" # "append" /\ Runs("flush")
      BY <1>2
    <2>2. queue' \in Seq(Closure) /\ Once(queue', {Wipe})
      BY <1>1, <2>1, RunsFirst
    <2>3. LinesIn(queue') = Queued
      BY <1>1, <2>1, RunsFirst
    <2>4. Flush \in Elems(queue) /\ Flush \notin Elems(queue')
      BY <1>1, <2>1, RunsFirst
    <2> QED BY <2>2, <2>3, <2>4
  <1>4. /\ made \in Nat /\ uiBuffer \in Seq(Nat) /\ Once(uiBuffer, {}) /\ timers \in 0..1
        /\ mainQueue \in Seq(Block) /\ Apart(mainQueue) /\ Elems(uiBuffer) \cap Batched = {}
    BY <1>1, PlacesApart DEF TypesOK, OnceOK
  <1>5. /\ mainQueue' \in Seq(Block) /\ Apart(mainQueue')
        /\ InBatches(mainQueue') = Batched \cup Elems(uiBuffer)
    <2>1. CASE uiBuffer = <<>>
      <3>1. mainQueue' = mainQueue /\ Elems(uiBuffer) = {}
        BY <1>2, <2>1, ElemsEmpty
      <3> QED BY <1>4, <3>1 DEF Batched
    <2>2. CASE uiBuffer # <<>>
      <3> DEFINE c == Show(uiBuffer)
      <3>1. c \in Block /\ c.batch = uiBuffer /\ mainQueue' = Append(mainQueue, c)
        BY <1>2, <1>4, <2>2, Blocks
      <3> HIDE DEF c
      <3>2. mainQueue' \in Seq(Block)
        BY <1>4, <3>1, AppendProperties
      <3>3. /\ InBatches(mainQueue') = InBatches(mainQueue) \cup Elems(uiBuffer)
            /\ Apart(mainQueue')
        BY <1>4, <3>1, BatchAppend DEF Batched
      <3> QED BY <3>2, <3>3 DEF Batched
    <2> QED BY <2>1, <2>2
  <1>6. uiBuffer' \in Seq(Nat) /\ Elems(uiBuffer') = {} /\ Once(uiBuffer', {})
    BY <1>2, ElemsEmpty, EmptySeq
  <1>7. flushScheduled' \in BOOLEAN
    BY <1>2
  <1>8. TypesOK'
    BY <1>1, <1>2, <1>3, <1>5, <1>6, <1>7 DEF TypesOK
  <1>9. CountOK' /\ RegisterOK'
    BY <1>1, <1>2 DEF CountOK, RegisterOK
  <1>10. FlushOK'
    BY <1>1, <1>2, <1>3, <1>4 DEF FlushOK
  <1>11. OnceOK'
    BY <1>1, <1>2, <1>3, <1>5, <1>6 DEF OnceOK
  <1>12. /\ Batched' = Batched \cup Elems(uiBuffer) /\ Pending' = Pending
         /\ Handed' = Handed /\ Queued' = Queued
    BY <1>2, <1>3, <1>5 DEF Batched, Pending, Handed, Queued
  <1>13. FileOK'
    BY <1>1, <1>2, <1>6, <1>12 DEF FileOK
  <1>14. Content' \in [Place -> SUBSET Nat] /\ {"buffer", "main"} \subseteq Place
    BY <1>8, ContentNext DEF Place
  <1>15. Shift(Content, Content', "buffer", "main", Elems(uiBuffer))
    BY <1>1, <1>2, <1>6, <1>8, <1>12, <1>14, ContentIs, ContentNext DEF Place, Shift
  <1>16. Partition(Content', made)
    BY <1>1, <1>4, <1>15, Moved
  <1>17. Partition(Content, made)'
    BY <1>2, <1>16 DEF Partition
  <1> QED BY <1>8, <1>9, <1>10, <1>11, <1>13, <1>17 DEF Inv

LEMMA RunWipeInv == ASSUME Inv, RunWipe PROVE Inv'
  <1>1. /\ TypesOK /\ CountOK /\ RegisterOK /\ FlushOK /\ OnceOK /\ FileOK
        /\ Partition(Content, made)
    BY DEF Inv
  <1>2. /\ Runs("wipe") /\ file' = <<>> /\ uiBuffer' = <<>>
        /\ dropped' = dropped \cup Range(uiBuffer)
        /\ made' = made /\ lines' = lines /\ timers' = timers /\ mainQueue' = mainQueue
        /\ flushScheduled' = flushScheduled /\ ring' = ring /\ callback' = callback
        /\ emitting' = emitting /\ registering' = registering /\ backlog' = backlog
        /\ clears' = clears
    BY DEF RunWipe, coreVars, mainVars
  <1>3. /\ queue' \in Seq(Closure) /\ Once(queue', {Wipe}) /\ LinesIn(queue') = Queued
        /\ Flush \in Elems(queue') <=> Flush \in Elems(queue)
    <2>1. "wipe" # "append" /\ "wipe" # "flush" /\ Runs("wipe")
      BY <1>2
    <2>2. /\ queue' \in Seq(Closure) /\ Once(queue', {Wipe})
          /\ Flush \in Elems(queue') <=> Flush \in Elems(queue)
      BY <1>1, <2>1, RunsFirst
    <2>3. LinesIn(queue') = Queued
      BY <1>1, <2>1, RunsFirst
    <2> QED BY <2>2, <2>3
  <1>4. /\ uiBuffer' \in Seq(Nat) /\ Elems(uiBuffer') = {} /\ Once(uiBuffer', {})
        /\ file' \in Seq(Nat) /\ Elems(file') = {} /\ Once(file', {})
    BY <1>2, ElemsEmpty, EmptySeq
  <1>5. dropped' = dropped \cup Elems(uiBuffer) /\ Elems(uiBuffer) \subseteq Nat /\ made \in Nat
    BY <1>1, <1>2, RangeIs, ElemsIn DEF TypesOK
  <1>6. TypesOK'
    BY <1>1, <1>2, <1>3, <1>4, <1>5 DEF TypesOK
  <1>7. CountOK' /\ RegisterOK'
    BY <1>1, <1>2 DEF CountOK, RegisterOK
  <1>8. FlushOK'
    BY <1>1, <1>2, <1>3 DEF FlushOK
  <1>9. OnceOK'
    BY <1>1, <1>2, <1>3, <1>4 DEF OnceOK
  <1>10. FileOK'
    BY <1>4 DEF FileOK
  <1>11. Batched' = Batched /\ Pending' = Pending /\ Handed' = Handed /\ Queued' = Queued
    BY <1>2, <1>3 DEF Batched, Pending, Handed, Queued
  <1>12. Content' \in [Place -> SUBSET Nat] /\ {"buffer", "gone"} \subseteq Place
    BY <1>6, ContentNext DEF Place
  <1>13. Shift(Content, Content', "buffer", "gone", Elems(uiBuffer))
    BY <1>1, <1>2, <1>4, <1>5, <1>6, <1>11, <1>12, ContentIs, ContentNext DEF Place, Shift
  <1>14. Partition(Content', made)
    BY <1>1, <1>5, <1>13, Moved
  <1>15. Partition(Content, made)'
    BY <1>2, <1>14 DEF Partition
  <1> QED BY <1>6, <1>7, <1>8, <1>9, <1>10, <1>15 DEF Inv

LEMMA FlushUIInv == ASSUME Inv, FlushUI PROVE Inv'
  <1>1. /\ TypesOK /\ CountOK /\ RegisterOK /\ FlushOK /\ OnceOK /\ FileOK
        /\ Partition(Content, made)
    BY DEF Inv
  <1>2. /\ timers > 0 /\ timers' = timers - 1 /\ queue' = Append(queue, Flush)
        /\ made' = made /\ lines' = lines /\ file' = file /\ uiBuffer' = uiBuffer
        /\ mainQueue' = mainQueue /\ dropped' = dropped
        /\ flushScheduled' = flushScheduled /\ ring' = ring /\ callback' = callback
        /\ emitting' = emitting /\ registering' = registering /\ backlog' = backlog
        /\ clears' = clears
    BY DEF FlushUI, coreVars, storeVars
  <1>3. timers \in 0..1 /\ queue \in Seq(Closure) /\ Once(queue, {Wipe}) /\ Flush \in Closure
    BY <1>1, Closures DEF TypesOK, OnceOK
  <1>4. timers = 1 /\ timers' = 0
    BY <1>2, <1>3
  <1>5. Flush \notin Elems(queue) /\ flushScheduled
    BY <1>1, <1>4 DEF FlushOK
  <1>6. queue' \in Seq(Closure) /\ Once(queue', {Wipe})
    BY <1>2, <1>3, <1>5, ElemsAppend
  <1>7. LinesIn(queue') = Queued
    BY <1>2, <1>3, QueueAppend DEF Queued
  <1>8. TypesOK'
    BY <1>1, <1>2, <1>4, <1>6 DEF TypesOK
  <1>9. CountOK' /\ RegisterOK' /\ FlushOK'
    <2>1. Flush \in Elems(queue')
      BY <1>2, <1>3, ElemsAppend
    <2> QED BY <1>1, <1>2, <1>4, <1>5, <2>1 DEF CountOK, RegisterOK, FlushOK
  <1>10. OnceOK'
    BY <1>1, <1>2, <1>6 DEF OnceOK
  <1>11. Batched' = Batched /\ Pending' = Pending /\ Handed' = Handed /\ Queued' = Queued
    BY <1>2, <1>7 DEF Batched, Pending, Handed, Queued
  <1>12. FileOK'
    BY <1>1, <1>2, <1>11 DEF FileOK
  <1>13. Content' = Content
    BY <1>2, <1>11 DEF Content
  <1>14. Partition(Content, made)'
    BY <1>1, <1>2, <1>13 DEF Partition
  <1> QED BY <1>8, <1>9, <1>10, <1>12, <1>14 DEF Inv

LEMMA MainRunsInv == ASSUME Inv, MainRuns PROVE Inv'
  <1>1. /\ TypesOK /\ CountOK /\ RegisterOK /\ FlushOK /\ OnceOK /\ FileOK
        /\ Partition(Content, made)
    BY DEF Inv
  <1> DEFINE h == Head(mainQueue)
             after == lines \o h.batch
             H == Elems(h.batch)
             X == Elems(after) \ Elems(lines')
  <1>2. /\ mainQueue # <<>> /\ mainQueue' = Tail(mainQueue)
        /\ lines' = (IF h.op = "blank" THEN <<>> ELSE Newest(after))
        /\ dropped' = dropped \cup (Range(after) \ Range(lines'))
        /\ made' = made /\ file' = file /\ uiBuffer' = uiBuffer /\ queue' = queue
        /\ timers' = timers
        /\ flushScheduled' = flushScheduled /\ ring' = ring /\ callback' = callback
        /\ emitting' = emitting /\ registering' = registering /\ backlog' = backlog
        /\ clears' = clears
    BY DEF MainRuns, coreVars, storeVars
  <1>3. /\ mainQueue \in Seq(Block) /\ Apart(mainQueue) /\ lines \in Seq(Nat)
        /\ Once(lines, {}) /\ made \in Nat /\ ScreenCap \in Nat /\ Elems(lines) \cap Batched = {}
    BY <1>1, PlacesApart, LogsAssumption DEF TypesOK, OnceOK
  <1>4. /\ h \in Block /\ mainQueue' \in Seq(Block) /\ Apart(mainQueue') /\ Once(h.batch, {})
        /\ Batched = H \cup InBatches(mainQueue') /\ H \cap InBatches(mainQueue') = {}
    BY <1>2, <1>3, BatchTail DEF Batched
  <1>5. h.batch \in Seq(Nat)
    BY <1>4, Blocks
  <1>6. after \in Seq(Nat) /\ Elems(after) = Elems(lines) \cup H /\ Once(after, {})
    BY <1>3, <1>4, <1>5, ElemsConcat
  <1> HIDE DEF h, after, H
  <1>7. /\ lines' \in Seq(Nat) /\ Len(lines') <= ScreenCap /\ Once(lines', {})
        /\ Elems(lines') \subseteq Elems(after)
    <2>1. CASE h.op = "blank"
      <3>1. lines' = <<>>
        BY <1>2, <2>1
      <3>2. Len(lines') = 0 /\ lines' \in Seq(Nat)
        BY <3>1, EmptySeq
      <3> QED BY <1>3, <3>1, <3>2, ElemsEmpty
    <2>2. CASE h.op # "blank"
      BY <1>2, <1>6, <2>2, NewestOf
    <2> QED BY <2>1, <2>2
  <1>8. /\ dropped' = dropped \cup X /\ X \subseteq Nat
        /\ Elems(lines') = (Elems(lines) \cup H) \ X /\ X \subseteq Elems(lines) \cup H
    <2>1. Range(after) = Elems(after) /\ Range(lines') = Elems(lines')
      BY <1>6, <1>7, RangeIs
    <2>2. Elems(after) \subseteq Nat
      BY <1>6, ElemsIn
    <2> QED BY <1>2, <1>6, <1>7, <2>1, <2>2
  <1> HIDE DEF X
  <1>9. TypesOK'
    BY <1>1, <1>2, <1>4, <1>7, <1>8 DEF TypesOK
  <1>10. CountOK' /\ RegisterOK' /\ FlushOK'
    BY <1>1, <1>2 DEF CountOK, RegisterOK, FlushOK
  <1>11. OnceOK'
    BY <1>1, <1>2, <1>4, <1>7 DEF OnceOK
  <1>12. Batched' = Batched \ H /\ Pending' = Pending /\ Handed' = Handed /\ Queued' = Queued
    BY <1>2, <1>4 DEF Batched, Pending, Handed, Queued
  <1>13. FileOK'
    BY <1>1, <1>2, <1>8, <1>12 DEF FileOK
  <1>14. Partition(Content, made)'
    <2> DEFINE P == Content
               Q == Content'
               R == [p \in Place |-> IF p = "main" THEN P[p] \ H
                                     ELSE IF p = "screen" THEN P[p] \cup H ELSE P[p]]
    <2>1. P \in [Place -> SUBSET Nat] /\ P["main"] = Batched /\ P["screen"] = Elems(lines)
          /\ {"main", "screen", "gone"} \subseteq Place
      BY <1>1, ContentIs DEF Place
    <2>2. H \subseteq Batched /\ Batched \subseteq Nat
      BY <1>3, <1>4, BatchesAreLines DEF Batched
    <2>3. R \in [Place -> SUBSET Nat] /\ R["main"] = P["main"] \ H
          /\ R["screen"] = P["screen"] \cup H /\ \A p \in Place \ {"main", "screen"} : R[p] = P[p]
      BY <2>1, <2>2
    <2> HIDE DEF R
    <2>4. Shift(Content, R, "main", "screen", H)
      BY <2>1, <2>2, <2>3 DEF Shift
    <2>5. Partition(R, made)
      BY <1>1, <1>3, <2>4, Moved
    <2>6. Q \in [Place -> SUBSET Nat]
      BY <1>9, ContentNext
    <2>7. /\ R["main"] = Batched \ H /\ R["screen"] = Elems(lines) \cup H /\ R["gone"] = dropped
          /\ \A p \in Place \ {"main", "screen"} : R[p] = Content[p]
      BY <1>1, <2>1, <2>3, ContentIs
    <2>8. /\ Q["screen"] = R["screen"] \ X /\ Q["gone"] = R["gone"] \cup X
          /\ X \subseteq R["screen"]
          /\ \A p \in Place \ {"screen", "gone"} : Q[p] = R[p]
      BY <1>1, <1>2, <1>8, <1>9, <1>12, <2>7, ContentIs, ContentNext DEF Place
    <2>9. Shift(R, Content', "screen", "gone", X)
      BY <2>1, <2>6, <2>8 DEF Shift
    <2>10. Partition(Content', made)
      BY <1>3, <2>5, <2>9, Moved
    <2> QED BY <1>2, <2>10 DEF Partition
  <1> QED BY <1>9, <1>10, <1>11, <1>13, <1>14 DEF Inv

-----------------------------------------------------------------------------
LEMMA NextInv == ASSUME Inv, [LogsNext]_vars PROVE Inv'
  <1>1. CASE UNCHANGED vars
    <2>1. /\ made' = made /\ lines' = lines /\ file' = file /\ uiBuffer' = uiBuffer
          /\ mainQueue' = mainQueue /\ dropped' = dropped /\ queue' = queue /\ timers' = timers
          /\ flushScheduled' = flushScheduled /\ ring' = ring /\ callback' = callback
          /\ emitting' = emitting /\ registering' = registering /\ backlog' = backlog
          /\ clears' = clears
      BY <1>1 DEF vars, coreVars, storeVars, mainVars
    <2>2. TypesOK' /\ CountOK' /\ RegisterOK' /\ FlushOK' /\ OnceOK'
      BY <2>1 DEF Inv, TypesOK, CountOK, RegisterOK, FlushOK, OnceOK
    <2>3. Batched' = Batched /\ Pending' = Pending /\ Handed' = Handed /\ Queued' = Queued
      BY <2>1 DEF Batched, Pending, Handed, Queued
    <2>4. FileOK' /\ Content' = Content
      BY <2>1, <2>3 DEF Inv, FileOK, Content
    <2>5. Partition(Content, made)'
      BY <2>1, <2>4 DEF Inv, Partition
    <2> QED BY <2>2, <2>4, <2>5 DEF Inv
  <1>2. ASSUME NEW t \in CoreThreads, Log(t) PROVE Inv'
    BY <1>2, LogInv DEF Threads
  <1>3. ASSUME NEW t \in Threads, Emit(t) PROVE Inv'
    BY <1>3, EmitInv
  <1>4. CASE Register
    BY <1>4, SetCallbackInv, ReplayInv, LogInv DEF Register, Threads
  <1>5. CASE AppLog
    BY <1>5, AppLogInv
  <1>6. CASE Clear
    BY <1>6, ClearInv
  <1>7. CASE Queue
    BY <1>7, RunAppendInv, RunFlushInv, RunWipeInv DEF Queue
  <1>8. CASE FlushUI
    BY <1>8, FlushUIInv
  <1>9. CASE MainRuns
    BY <1>9, MainRunsInv
  <1> QED BY <1>1, <1>2, <1>3, <1>4, <1>5, <1>6, <1>7, <1>8, <1>9 DEF LogsNext

(* The inductive invariant of the logs, the strengthening the two theorems  *)
(* below need: the places partition the lines made (logger.rs 47-73,        *)
(* 123-139, LogStore.swift 54-109).                                         *)
THEOREM LogsInvariant == LogsSpec => []Inv
  <1>1. LogsInit => Inv
    BY InitInv
  <1>2. Inv /\ [LogsNext]_vars => Inv'
    BY NextInv
  <1> QED BY <1>1, <1>2, PTL DEF LogsSpec

(* The ring, the backlog and the screen keep to their capacities, a thread  *)
(* has one line in hand, one flush is scheduled (logger.rs RING_CAP,        *)
(* LogStore.swift maxLines and flushScheduled).                             *)
THEOREM LogsTypeCorrect == LogsSpec => []LogsTypeOK
  <1>1. ASSUME Inv PROVE LogsTypeOK
    <2>1. TypesOK /\ CountOK /\ Partition(Content, made)
      BY <1>1 DEF Inv
    <2>2. made \in 0..MaxLines
      BY <2>1, LogsAssumption DEF TypesOK, CountOK
    <2>3. dropped \subseteq 1..made
      BY <2>1, PlacesApart, ContentIs DEF Place
    <2>4. ASSUME NEW t \in Threads PROVE Len(emitting[t]) <= 1
      <3>1. emitting[t] \in Hand
        BY <2>1 DEF TypesOK
      <3>2. Len(Free) = 0 /\ \A l \in Nat : Len(Line(l)) = 1
        BY DEF Free, Line
      <3>3. CASE emitting[t] = Free
        BY <3>2, <3>3
      <3>4. CASE \E l \in Nat : emitting[t] = Line(l)
        <4>1. PICK l \in Nat : emitting[t] = Line(l)
          BY <3>4
        <4>2. Len(Line(l)) = 1
          BY <3>2
        <4> QED BY <4>1, <4>2
      <3> QED BY <3>1, <3>3, <3>4 DEF Hand
    <2> QED BY <2>1, <2>2, <2>3, <2>4 DEF TypesOK, LogsTypeOK
  <1> QED BY <1>1, LogsInvariant, PTL

-----------------------------------------------------------------------------
(* Lines in the buffer have a flush on its way, whatever is appended, flushed *)
(* and cleared meanwhile (LogStore.swift 66-82, 92-98).                     *)
THEOREM NoLineStranded ==
    LogsSpec => [](uiBuffer # <<>> => timers = 1 \/ Flush \in Range(queue))
  <1>1. ASSUME Inv PROVE uiBuffer # <<>> => timers = 1 \/ Flush \in Range(queue)
    <2>1. Range(queue) = Elems(queue)
      BY <1>1, RangeIs DEF Inv, TypesOK
    <2> QED BY <1>1, <2>1 DEF Inv, FlushOK
  <1> QED BY <1>1, LogsInvariant, PTL

-----------------------------------------------------------------------------
(* From a partition to the positions EachLineOnce counts. *)
LEMMA AtOnce ==
    ASSUME NEW S, NEW s \in Seq(S), NEW e, NEW W, Once(s, W), e \notin W
    PROVE  /\ e \in Elems(s) => \E i : At(s, e) = {i}
           /\ e \notin Elems(s) => At(s, e) = {}
  <1>1. ASSUME e \in Elems(s) PROVE \E i : At(s, e) = {i}
    <2>1. PICK i \in 1..Len(s) : s[i] = e
      BY <1>1 DEF Elems
    <2>2. \A j \in 1..Len(s) : s[j] = e => j = i
      BY <2>1 DEF Once
    <2>3. At(s, e) = {i}
      BY <2>1, <2>2 DEF At
    <2> QED BY <2>3
  <1>2. e \notin Elems(s) => At(s, e) = {}
    BY DEF At, Elems
  <1> QED BY <1>1, <1>2

(* A line is at one position of the places its number is in, and at none of *)
(* the others.                                                              *)
Spot(W, C, l) == (l \in C => \E x : W = {x}) /\ (l \notin C => W = {})

(* The positions Where counts are the places of Content.                   *)
LEMMA WhereIs ==
    ASSUME Inv, NEW l \in Nat, NEW p \in Place
    PROVE  Spot(Where(l)[p], Content[p], l)
  <1>1. TypesOK /\ OnceOK
    BY DEF Inv
  <1>2. CASE p = "ring"
    <2>1. Where(l)[p] = IF callback THEN {} ELSE At(ring, l)
      BY <1>2 DEF Where
    <2>2. ring \in Seq(Nat) /\ (~callback => Once(ring, {}))
      BY <1>1 DEF TypesOK, OnceOK
    <2>3. ~callback => Spot(At(ring, l), Elems(ring), l)
      BY <2>2, AtOnce DEF Spot
    <2> QED BY <1>1, <1>2, <2>1, <2>3, ContentIs DEF Spot, Pending
  <1>3. CASE p = "backlog"
    <2>1. Where(l)[p] = At(backlog, l) /\ backlog \in Seq(Nat) /\ Once(backlog, {})
      BY <1>1, <1>3 DEF Where, TypesOK, OnceOK
    <2>2. Spot(At(backlog, l), Elems(backlog), l)
      BY <2>1, AtOnce DEF Spot
    <2> QED BY <1>1, <1>3, <2>1, <2>2, ContentIs
  <1>4. CASE p = "thread"
    <2>1. Where(l)[p] = {t \in Threads : emitting[t] = Line(l)} /\ Distinct(emitting)
      BY <1>1, <1>4 DEF Where, Line, OnceOK
    <2>2. ASSUME l \in Handed PROVE \E x : Where(l)[p] = {x}
      <3>1. PICK t \in Threads : emitting[t] = Line(l)
        BY <2>2 DEF Handed, HandedIn
      <3>2. \A u \in Threads : emitting[u] = Line(l) => u = t
        BY <2>1, <3>1, Hands DEF Distinct
      <3>3. Where(l)[p] = {t}
        BY <2>1, <3>1, <3>2
      <3> QED BY <3>3
    <2>3. l \notin Handed => Where(l)[p] = {}
      BY <2>1 DEF Handed, HandedIn
    <2> QED BY <1>1, <1>4, <2>2, <2>3, ContentIs DEF Spot
  <1>5. CASE p = "queue"
    <2>1. Where(l)[p] = At(queue, Write(l)) /\ queue \in Seq(Closure) /\ Once(queue, {Wipe})
      BY <1>1, <1>5 DEF Where, TypesOK, OnceOK
    <2>2. Write(l) \notin {Wipe}
      BY Closures
    <2>3. Spot(At(queue, Write(l)), Elems(queue), Write(l))
      BY <2>1, <2>2, AtOnce DEF Spot
    <2>4. l \in Queued <=> Write(l) \in Elems(queue)
      BY DEF Queued, LinesIn
    <2> QED BY <1>1, <1>5, <2>1, <2>3, <2>4, ContentIs DEF Spot
  <1>6. CASE p = "buffer"
    <2>1. Where(l)[p] = At(uiBuffer, l) /\ uiBuffer \in Seq(Nat) /\ Once(uiBuffer, {})
      BY <1>1, <1>6 DEF Where, TypesOK, OnceOK
    <2>2. Spot(At(uiBuffer, l), Elems(uiBuffer), l)
      BY <2>1, AtOnce DEF Spot
    <2> QED BY <1>1, <1>6, <2>1, <2>2, ContentIs
  <1>7. CASE p = "main"
    <2> DEFINE n == Len(mainQueue)
               A(i) == At(mainQueue[i].batch, l)
    <2>1. Where(l)[p] = UNION {{i} \X A(i) : i \in 1..n} /\ Apart(mainQueue)
          /\ mainQueue \in Seq(Block)
      BY <1>1, <1>7 DEF Where, TypesOK, OnceOK
    <2>2. ASSUME NEW i \in 1..n PROVE Spot(A(i), Elems(mainQueue[i].batch), l)
      <3>1. mainQueue[i].batch \in Seq(Nat) /\ Once(mainQueue[i].batch, {})
        BY <2>1, ElementOfSeq, Blocks DEF Apart
      <3> QED BY <3>1, AtOnce DEF Spot
    <2>3. ASSUME l \in Batched PROVE \E x : Where(l)[p] = {x}
      <3>1. PICK i \in 1..n : l \in Elems(mainQueue[i].batch)
        BY <2>3 DEF Batched, InBatches
      <3>2. \A j \in 1..n : j # i => l \notin Elems(mainQueue[j].batch)
        BY <2>1, <3>1 DEF Apart
      <3>3. PICK k : A(i) = {k}
        BY <2>2, <3>1 DEF Spot
      <3>4. \A j \in 1..n : j # i => A(j) = {}
        BY <2>2, <3>2 DEF Spot
      <3> HIDE DEF A, n
      <3>5. Where(l)[p] = {<<i, k>>}
        BY <2>1, <3>1, <3>3, <3>4
      <3> QED BY <3>5
    <2>4. ASSUME l \notin Batched PROVE Where(l)[p] = {}
      <3>1. \A i \in 1..n : A(i) = {}
        BY <2>2, <2>4 DEF Batched, InBatches, Spot
      <3> HIDE DEF A, n
      <3> QED BY <2>1, <3>1
    <2> QED BY <1>1, <1>7, <2>3, <2>4, ContentIs DEF Spot
  <1>8. CASE p = "screen"
    <2>1. Where(l)[p] = At(lines, l) /\ lines \in Seq(Nat) /\ Once(lines, {})
      BY <1>1, <1>8 DEF Where, TypesOK, OnceOK
    <2>2. Spot(At(lines, l), Elems(lines), l)
      BY <2>1, AtOnce DEF Spot
    <2> QED BY <1>1, <1>8, <2>1, <2>2, ContentIs
  <1>9. CASE p = "gone"
    <2>1. Where(l)[p] = dropped \cap {l}
      BY <1>9 DEF Where
    <2>2. l \in dropped => Where(l)[p] = {l}
      BY <2>1
    <2>3. l \notin dropped => Where(l)[p] = {}
      BY <2>1
    <2> QED BY <1>1, <1>9, <2>2, <2>3, ContentIs DEF Spot
  <1> QED BY <1>2, <1>3, <1>4, <1>5, <1>6, <1>7, <1>8, <1>9 DEF Place

(* No line is lost or doubled on its way from any thread to the screen, and *)
(* the file has it at most once, whatever threads log while the callback is *)
(* registered and the log cleared (logger.rs 7-8, 60-69, 124-132,           *)
(* LogStore.swift 59-90).                                                   *)
THEOREM EachLineIsOnce == LogsSpec => []EachLineOnce
  <1>1. ASSUME Inv PROVE EachLineOnce
    <2>1. TypesOK /\ OnceOK /\ Partition(Content, made)
      BY <1>1 DEF Inv
    <2>2. ASSUME NEW l \in 1..MaxLines, l <= made
          PROVE  \E p \in Place : /\ Cardinality(Where(l)[p]) = 1
                                  /\ \A q \in Place \ {p} : Where(l)[q] = {}
      <3>1. l \in 1..made /\ l \in Nat
        BY <2>1, <2>2, LogsAssumption DEF TypesOK
      <3>2. PICK p \in Place : l \in Content[p]
        BY <2>1, <3>1 DEF Partition
      <3>3. \A q \in Place \ {p} : l \notin Content[q]
        BY <2>1, <3>2 DEF Partition
      <3>4. \A q \in Place \ {p} : Where(l)[q] = {}
        BY <1>1, <3>1, <3>3, WhereIs DEF Spot
      <3>5. PICK x : Where(l)[p] = {x}
        BY <1>1, <3>1, <3>2, WhereIs DEF Spot
      <3>6. Cardinality(Where(l)[p]) = 1
        BY <3>5, FS_Singleton
      <3> QED BY <3>4, <3>6
    <2>3. ASSUME NEW l \in 1..MaxLines, ~(l <= made)
          PROVE  \A p \in Place : Where(l)[p] = {}
      <3>1. l \notin 1..made /\ l \in Nat
        BY <2>1, <2>3, LogsAssumption DEF TypesOK
      <3>2. \A p \in Place : l \notin Content[p]
        BY <2>1, <3>1, PlacesApart
      <3> QED BY <1>1, <3>1, <3>2, WhereIs DEF Spot
    <2>4. IsInjective(file)
      <3>1. file \in Seq(Nat) /\ Once(file, {})
        BY <2>1 DEF TypesOK, OnceOK
      <3>2. DOMAIN file = 1..Len(file)
        BY <3>1, LenProperties
      <3> QED BY <3>1, <3>2 DEF Once, IsInjective
    <2> QED BY <2>2, <2>3, <2>4 DEF EachLineOnce
  <1> QED BY <1>1, LogsInvariant, PTL
=============================================================================
