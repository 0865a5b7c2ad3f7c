--------------------------- MODULE LifecycleProofs ---------------------------
(***************************************************************************)
(* Proofs about the log and about the daemon that uses it.                 *)
(*                                                                         *)
(* The log (the first part) is proved about for itself: of Lifecycle these *)
(* proofs use neither a variable nor an assumption, so that they hold for  *)
(* any users of a log.  The three places a message can be in are read as   *)
(* one sequence, Trail: what was written, what the writer holds, what is   *)
(* queued.  A message enters at its end, the writer only moves the borders *)
(* within it, and an overflow cuts a piece out of its last part.           *)
(*                                                                         *)
(* The daemon: its threads are joined before what they use goes, a SIGHUP  *)
(* is honoured, and the daemon uses the log as the log expects (it         *)
(* implements LSpec), so that what is shown of the log holds in the        *)
(* daemon, with all its threads, tasks and signals.                        *)
(***************************************************************************)
EXTENDS Lifecycle, FiniteSetTheorems, SequenceTheorems, TLAPS

Trail == written \o batch \o queue

\* Messages come in order, each once, and a shed one does not come back.
Ordered(t, nx, d) == /\ InOrder(t)
                     /\ \A i \in 1..Len(t) : t[i] < nx
                     /\ \A x \in d : x \in Nat \ {0} /\ x < nx /\ ~Holds(t, x)

\* A message is in its place or was shed.
Complete(t, nx, d) == \A n \in 1..(nx - 1) : Holds(t, n) \/ n \in d

\* A warning stands behind everything that went before the loss of x.
Warned(t, x) == \E k \in 1..Len(t) :
                   t[k] = 0 /\ \A j \in 1..Len(t) : t[j] \in 1..x => j < k
Reported == owing # {} \/ \A x \in dropped : Warned(Trail, x)

\* Where the writer and shutdown can be.
Stages == /\ writer # "write" => batch = <<>>
          /\ writer # "none" /\ stage = "up" => open
          /\ open => writer # "none"
          /\ stage # "up" => ~open /\ writer # "none" /\ owing \subseteq {Main}
          /\ stage \in {"flush", "complain", "closed"} => owing = {}
          /\ writer = "done" =>
                /\ stage # "up"
                /\ stage \in {"flush", "complain"} => queue = <<>>
                /\ \A i \in 1..Len(queue) : queue[i] \in {0, complaint}
          /\ stage = "closed" => writer = "done"

IInv == /\ LTypeOK
        /\ Ordered(Trail, next, dropped)
        /\ Complete(Trail, next, dropped)
        /\ Reported /\ Stages /\ QueueIsBounded
-----------------------------------------------------------------------------
(* Sequences *)

LEMMA TrailType == ASSUME LTypeOK PROVE Trail \in Seq(Nat)
  BY DEF LTypeOK, Trail

LEMMA Associate ==
  ASSUME NEW a \in Seq(Nat), NEW b \in Seq(Nat), NEW c \in Seq(Nat)
  PROVE  (a \o b) \o c = a \o (b \o c)
BY ConcatAssociative

\* Moving a border does not change the whole.
LEMMA SplitJoins ==
  ASSUME NEW q \in Seq(Nat), NEW n \in 0..Len(q)
  PROVE  SubSeq(q, 1, n) \o SubSeq(q, n + 1, Len(q)) = q
<1>1. 1 \in 1..Len(q) + 1 /\ n \in (1 - 1)..Len(q) /\ Len(q) \in n..Len(q)
  OBVIOUS
<1>2. SubSeq(q, 1, n) \o SubSeq(q, n + 1, Len(q)) = SubSeq(q, 1, Len(q))
  BY <1>1, ConcatAdjacentSubSeq
<1>3. QED
  BY <1>2, SubSeqFull

\* An entry at the end of the last part is an entry at the end of the whole.
LEMMA AppendToLast ==
  ASSUME NEW r \in Seq(Nat), NEW q \in Seq(Nat), NEW e \in Nat
  PROVE  r \o Append(q, e) = Append(r \o q, e)
<1>1. /\ r \o Append(q, e) \in Seq(Nat) /\ Append(r \o q, e) \in Seq(Nat)
      /\ Len(r \o Append(q, e)) = Len(Append(r \o q, e))
  OBVIOUS
<1>2. \A i \in 1..Len(r \o Append(q, e)) : (r \o Append(q, e))[i] = Append(r \o q, e)[i]
  OBVIOUS
<1>3. QED
  BY <1>1, <1>2, SeqEqual

\* What a sequence keeps when the first n entries of its second part go: the
\* rest keeps its order, and each old entry is kept or was one of those.
Cut(r, q, n) == r \o SubSeq(q, n + 1, Len(q))

LEMMA CutMiddle ==
  ASSUME NEW r \in Seq(Nat), NEW q \in Seq(Nat), NEW n \in 0..Len(q)
  PROVE  /\ Cut(r, q, n) \in Seq(Nat)
         /\ \A i \in 1..Len(Cut(r, q, n)) : \E j \in 1..Len(r \o q) :
               /\ Cut(r, q, n)[i] = (r \o q)[j]
               /\ j = IF i <= Len(r) THEN i ELSE i + n
         /\ \A j \in 1..Len(r \o q) :
               \/ \E i \in 1..Len(Cut(r, q, n)) : Cut(r, q, n)[i] = (r \o q)[j]
               \/ \E k \in 1..n : q[k] = (r \o q)[j]
<1> DEFINE b == SubSeq(q, n + 1, Len(q))
           c == Cut(r, q, n)
<1> HIDE DEF c
<1>0. /\ b \in Seq(Nat) /\ Len(b) = Len(q) - n
      /\ \A i \in 1..Len(b) : b[i] = q[n + i]
  <2>1. n + 1 \in Int /\ Len(q) \in Int /\ \A i \in (n + 1)..Len(q) : q[i] \in Nat
    OBVIOUS
  <2>2. /\ b \in Seq(Nat)
        /\ Len(b) = IF n + 1 <= Len(q) THEN Len(q) - (n + 1) + 1 ELSE 0
        /\ \A i \in 1..(Len(q) - (n + 1) + 1) : b[i] = q[(n + 1) + i - 1]
    BY <2>1, SubSeqProperties
  <2>3. QED
    BY <2>2
<1>1. c \in Seq(Nat) /\ Len(c) = Len(r) + Len(q) - n /\ Len(r \o q) = Len(r) + Len(q)
  BY <1>0, ConcatProperties DEF Cut, c
<1>2. \A i \in 1..Len(c) : c[i] = IF i <= Len(r) THEN r[i] ELSE q[i - Len(r) + n]
  <2>1. \A i \in 1..Len(r) + Len(b) : c[i] = IF i <= Len(r) THEN r[i] ELSE b[i - Len(r)]
    BY <1>0, ConcatProperties DEF Cut, c
  <2>2. ASSUME NEW i \in 1..Len(c)
        PROVE  c[i] = IF i <= Len(r) THEN r[i] ELSE q[i - Len(r) + n]
    <3> HIDE DEF b
    <3>0. Len(c) = Len(r) + Len(b) /\ Len(r) \in Int /\ n \in Int /\ Len(c) \in Nat
      <4>1. Len(r) \in Nat /\ Len(q) \in Nat /\ Len(c) \in Nat /\ n \in Nat
        BY <1>1
      <4>2. Len(b) = Len(q) - n /\ Len(c) = Len(r) + Len(q) - n
        BY <1>0, <1>1
      <4> QED
        BY <4>1, <4>2
    <3>1. /\ i \in 1..Len(r) + Len(b) /\ i \in Int /\ Len(r) \in Int /\ n \in Int
          /\ c[i] = IF i <= Len(r) THEN r[i] ELSE b[i - Len(r)]
      BY <3>0, <2>1
    <3>2. CASE i > Len(r)
      <4>1. i - Len(r) \in 1..Len(b)
        BY <1>0, <3>1, <3>2
      <4>2. b[i - Len(r)] = q[n + (i - Len(r))]
        BY <1>0, <4>1
      <4>3. n + (i - Len(r)) = i - Len(r) + n
        BY <3>1
      <4> QED
        BY <3>1, <3>2, <4>2, <4>3
    <3> QED
      BY <3>1, <3>2
  <2> QED
    BY <2>2
<1>3. \A j \in 1..Len(r \o q) : (r \o q)[j] = IF j <= Len(r) THEN r[j] ELSE q[j - Len(r)]
  BY <1>1, ConcatProperties
<1>4. ASSUME NEW i \in 1..Len(c)
      PROVE  \E j \in 1..Len(r \o q) :
                c[i] = (r \o q)[j] /\ j = IF i <= Len(r) THEN i ELSE i + n
  <2>1. CASE i <= Len(r)
    <3>1. i \in 1..Len(r \o q) /\ c[i] = (r \o q)[i]
      BY <1>1, <1>2, <1>3, <2>1
    <3>2. QED
      BY <2>1, <3>1
  <2>2. CASE ~(i <= Len(r))
    <3>1. i + n \in 1..Len(r \o q) /\ ~(i + n <= Len(r)) /\ (i + n) - Len(r) = i - Len(r) + n
      BY <1>1, <2>2
    <3>2. c[i] = (r \o q)[i + n]
      BY <1>2, <1>3, <2>2, <3>1
    <3>3. QED
      BY <2>2, <3>1, <3>2
  <2>3. QED
    BY <2>1, <2>2
<1>5. ASSUME NEW j \in 1..Len(r \o q)
      PROVE  \/ \E i \in 1..Len(c) : c[i] = (r \o q)[j]
             \/ \E k \in 1..n : q[k] = (r \o q)[j]
  <2>1. CASE j <= Len(r)
    <3>1. j \in 1..Len(c) /\ c[j] = (r \o q)[j]
      BY <1>1, <1>2, <1>3, <2>1
    <3>2. QED
      BY <3>1
  <2>2. CASE j > Len(r) /\ j - Len(r) <= n
    <3>1. j - Len(r) \in 1..n /\ q[j - Len(r)] = (r \o q)[j]
      BY <1>1, <1>3, <2>2
    <3>2. QED
      BY <3>1
  <2>3. CASE j > Len(r) /\ j - Len(r) > n
    <3>0. /\ n \in Nat /\ j \in Nat /\ Len(r) \in Nat /\ Len(q) \in Nat
          /\ j <= Len(r) + Len(q) /\ n <= Len(q)
      BY <1>1
    <3>1. j - n \in 1..Len(c) /\ ~(j - n <= Len(r)) /\ (j - n) - Len(r) + n = j - Len(r)
      BY <3>0, <1>1, <2>3
    <3>2. c[j - n] = q[(j - n) - Len(r) + n]
      BY <1>2, <3>1
    <3>3. (r \o q)[j] = q[j - Len(r)]
      BY <1>3, <2>3, <3>0
    <3>4. c[j - n] = (r \o q)[j]
      BY <3>1, <3>2, <3>3
    <3>5. QED
      BY <3>1, <3>4
  <2>4. j <= Len(r) \/ (j > Len(r) /\ j - Len(r) <= n) \/ (j > Len(r) /\ j - Len(r) > n)
    OBVIOUS
  <2>5. QED
    BY <2>1, <2>2, <2>3, <2>4
<1>6. QED
  BY <1>1, <1>4, <1>5 DEF c
-----------------------------------------------------------------------------
(* What happens to the whole when a message or a warning is appended, and   *)
(* when the oldest part of the queue goes                                   *)

LEMMA AppendMessage ==
  ASSUME NEW t \in Seq(Nat), NEW nx \in Nat \ {0}, NEW d,
         Ordered(t, nx, d), Complete(t, nx, d)
  PROVE  /\ Ordered(Append(t, nx), nx + 1, d)
         /\ Complete(Append(t, nx), nx + 1, d)
         /\ \A x \in d : Warned(t, x) => Warned(Append(t, nx), x)
<1> DEFINE u == Append(t, nx)
<1>1. /\ u \in Seq(Nat) /\ Len(u) = Len(t) + 1 /\ Len(t) \in Nat
      /\ \A i \in 1..Len(u) : u[i] = IF i <= Len(t) THEN t[i] ELSE nx
      /\ \A i \in 1..Len(t) : i \in 1..Len(u) /\ t[i] \in Nat
      /\ Len(u) \in 1..Len(u)
  BY AppendProperties
<1> HIDE DEF u
<1>2. Ordered(u, nx + 1, d)
  <2>1. ASSUME NEW i \in 1..Len(u), NEW j \in 1..Len(u), i < j, u[i] # 0, u[j] # 0
        PROVE  u[i] < u[j]
    <3>1. i \in 1..Len(t) /\ u[i] = t[i] /\ t[i] < nx
      BY <1>1, <2>1 DEF Ordered
    <3>2. CASE j \in 1..Len(t)
      BY <1>1, <2>1, <3>1, <3>2 DEF Ordered, InOrder
    <3>3. CASE j \notin 1..Len(t)
      <4>1. u[j] = nx
        BY <1>1, <3>3
      <4> QED
        BY <2>1, <3>1, <4>1
    <3> QED
      BY <3>2, <3>3
  <2>2. ASSUME NEW i \in 1..Len(u) PROVE u[i] < nx + 1
    <3>1. CASE i \in 1..Len(t)
      <4>1. u[i] = t[i] /\ t[i] \in Nat /\ t[i] < nx
        BY <1>1, <3>1 DEF Ordered
      <4> QED
        BY <4>1
    <3>2. CASE i \notin 1..Len(t)
      BY <1>1, <3>2
    <3> QED
      BY <3>1, <3>2
  <2>3. ASSUME NEW x \in d PROVE x \in Nat \ {0} /\ x < nx + 1 /\ ~Holds(u, x)
    <3>1. x \in Nat \ {0} /\ x < nx /\ \A i \in 1..Len(t) : t[i] # x
      BY DEF Ordered, Holds
    <3>2. \A i \in 1..Len(u) : u[i] # x
      BY <1>1, <3>1
    <3> QED
      BY <3>1, <3>2 DEF Holds
  <2> QED
    BY <2>1, <2>2, <2>3 DEF Ordered, InOrder
<1>3. Complete(u, nx + 1, d)
  <2> SUFFICES ASSUME NEW n \in 1..nx PROVE Holds(u, n) \/ n \in d
    BY DEF Complete
  <2>1. CASE n = nx
    BY <2>1, <1>1 DEF Holds
  <2>2. CASE n # nx
    <3>1. n \in 1..(nx - 1)
      BY <2>2
    <3>2. n \in d \/ \E i \in 1..Len(t) : t[i] = n
      BY <3>1 DEF Holds, Complete
    <3>3. ASSUME NEW i \in 1..Len(t), t[i] = n PROVE i \in 1..Len(u) /\ u[i] = n
      BY <1>1, <3>3
    <3> QED
      BY <3>2, <3>3 DEF Holds
  <2> QED
    BY <2>1, <2>2
<1>4. ASSUME NEW x \in d, Warned(t, x) PROVE Warned(u, x)
  <2>1. PICK k \in 1..Len(t) : t[k] = 0 /\ \A j \in 1..Len(t) : t[j] \in 1..x => j < k
    BY <1>4 DEF Warned
  <2>2. k \in 1..Len(u) /\ u[k] = 0
    BY <1>1, <2>1
  <2>3. ASSUME NEW j \in 1..Len(u), u[j] \in 1..x PROVE j < k
    <3>1. x < nx /\ x \in Nat
      BY DEF Ordered
    <3>2. u[j] # nx
      BY <2>3, <3>1
    <3>3. j \in 1..Len(t) /\ u[j] = t[j]
      BY <1>1, <3>2
    <3> QED
      BY <2>1, <2>3, <3>3
  <2> QED
    BY <2>2, <2>3 DEF Warned
<1> QED
  BY <1>2, <1>3, <1>4 DEF u

LEMMA AppendWarning ==
  ASSUME NEW t \in Seq(Nat), NEW nx \in Nat \ {0}, NEW d,
         Ordered(t, nx, d), Complete(t, nx, d)
  PROVE  /\ Ordered(Append(t, 0), nx, d)
         /\ Complete(Append(t, 0), nx, d)
         /\ \A x \in d : Warned(Append(t, 0), x)
<1> DEFINE u == Append(t, 0)
<1>1. /\ u \in Seq(Nat) /\ Len(u) = Len(t) + 1 /\ Len(t) \in Nat
      /\ \A i \in 1..Len(u) : u[i] = IF i <= Len(t) THEN t[i] ELSE 0
      /\ \A i \in 1..Len(t) : i \in 1..Len(u) /\ t[i] \in Nat
      /\ Len(u) \in 1..Len(u)
  BY AppendProperties
<1> HIDE DEF u
<1>2. Ordered(u, nx, d)
  <2>1. ASSUME NEW i \in 1..Len(u), NEW j \in 1..Len(u), i < j, u[i] # 0, u[j] # 0
        PROVE  u[i] < u[j]
    <3>1. i \in 1..Len(t) /\ u[i] = t[i] /\ t[i] < nx
      BY <1>1, <2>1 DEF Ordered
    <3>2. CASE j \in 1..Len(t)
      BY <1>1, <2>1, <3>1, <3>2 DEF Ordered, InOrder
    <3>3. CASE j \notin 1..Len(t)
      <4>1. u[j] = 0
        BY <1>1, <3>3
      <4> QED
        BY <2>1, <3>1, <4>1
    <3> QED
      BY <3>2, <3>3
  <2>2. ASSUME NEW i \in 1..Len(u) PROVE u[i] < nx
    <3>1. CASE i \in 1..Len(t)
      <4>1. u[i] = t[i] /\ t[i] \in Nat /\ t[i] < nx
        BY <1>1, <3>1 DEF Ordered
      <4> QED
        BY <4>1
    <3>2. CASE i \notin 1..Len(t)
      BY <1>1, <3>2
    <3> QED
      BY <3>1, <3>2
  <2>3. ASSUME NEW x \in d PROVE x \in Nat \ {0} /\ x < nx /\ ~Holds(u, x)
    <3>1. x \in Nat \ {0} /\ x < nx /\ \A i \in 1..Len(t) : t[i] # x
      BY DEF Ordered, Holds
    <3>2. \A i \in 1..Len(u) : u[i] # x
      BY <1>1, <3>1
    <3> QED
      BY <3>1, <3>2 DEF Holds
  <2> QED
    BY <2>1, <2>2, <2>3 DEF Ordered, InOrder
<1>3. Complete(u, nx, d)
  <2>1. ASSUME NEW n \in 1..(nx - 1), Holds(t, n) PROVE Holds(u, n)
    <3>1. PICK i \in 1..Len(t) : t[i] = n
      BY <2>1 DEF Holds
    <3>2. i \in 1..Len(u) /\ u[i] = n
      BY <1>1, <3>1
    <3> QED
      BY <3>2 DEF Holds
  <2> QED
    BY <2>1 DEF Complete
<1>4. ASSUME NEW x \in d PROVE Warned(u, x)
  <2>1. u[Len(u)] = 0
    BY <1>1
  <2>2. \A j \in 1..Len(u) : u[j] \in 1..x => j < Len(u)
    BY <1>1, <2>1
  <2> QED
    BY <1>1, <2>1, <2>2 DEF Warned
<1> QED
  BY <1>2, <1>3, <1>4 DEF u

LEMMA CutKeepsOrder ==
  ASSUME NEW r \in Seq(Nat), NEW q \in Seq(Nat), NEW n \in 0..Len(q),
         NEW nx \in Nat \ {0}, NEW d,
         Ordered(r \o q, nx, d), Complete(r \o q, nx, d)
  PROVE  LET c == Cut(r, q, n)
             e == d \cup ({q[i] : i \in 1..n} \ {0})
         IN  Ordered(c, nx, e) /\ Complete(c, nx, e)
<1> DEFINE t == r \o q
           c == Cut(r, q, n)
           e == d \cup ({q[i] : i \in 1..n} \ {0})
<1>1. /\ c \in Seq(Nat)
      /\ \A i \in 1..Len(c) : \E j \in 1..Len(t) :
            c[i] = t[j] /\ j = IF i <= Len(r) THEN i ELSE i + n
      /\ \A j \in 1..Len(t) :
            \/ \E i \in 1..Len(c) : c[i] = t[j]
            \/ \E k \in 1..n : q[k] = t[j]
  BY CutMiddle
<1>2. /\ t \in Seq(Nat) /\ Len(r) \in Nat /\ n \in Nat
      /\ Len(t) = Len(r) + Len(q)
      /\ \A k \in 1..n : /\ Len(r) + k \in 1..Len(t) /\ t[Len(r) + k] = q[k]
                         /\ q[k] \in Nat
  <2>1. t \in Seq(Nat) /\ Len(r) \in Nat /\ n \in Nat /\ Len(t) = Len(r) + Len(q)
    BY ConcatProperties
  <2>2. ASSUME NEW k \in 1..n
        PROVE  Len(r) + k \in 1..Len(t) /\ t[Len(r) + k] = q[k] /\ q[k] \in Nat
    <3>1. k \in 1..Len(q) /\ Len(r) + k \in 1..Len(r) + Len(q) /\ ~(Len(r) + k <= Len(r))
          /\ (Len(r) + k) - Len(r) = k
      BY <2>1
    <3>2. t[Len(r) + k] = q[(Len(r) + k) - Len(r)]
      BY <3>1, ConcatProperties
    <3> QED
      BY <2>1, <3>1, <3>2
  <2> QED
    BY <2>1, <2>2
<1>3. Ordered(t, nx, d) /\ Complete(t, nx, d)
  OBVIOUS
<1> HIDE DEF t, c
<1>4. InOrder(c)
  <2> SUFFICES ASSUME NEW i1 \in 1..Len(c), NEW i2 \in 1..Len(c),
                      i1 < i2, c[i1] # 0, c[i2] # 0
               PROVE  c[i1] < c[i2]
    BY DEF InOrder
  <2>1. PICK j1 \in 1..Len(t) :
               c[i1] = t[j1] /\ j1 = IF i1 <= Len(r) THEN i1 ELSE i1 + n
    BY <1>1
  <2>2. PICK j2 \in 1..Len(t) :
               c[i2] = t[j2] /\ j2 = IF i2 <= Len(r) THEN i2 ELSE i2 + n
    BY <1>1
  <2>3. j1 < j2
    BY <1>2, <2>1, <2>2
  <2> QED
    BY <1>3, <2>1, <2>2, <2>3 DEF Ordered, InOrder
<1>5. \A i \in 1..Len(c) : c[i] < nx
  BY <1>1, <1>3 DEF Ordered
<1>6. ASSUME NEW x \in d PROVE x \in Nat \ {0} /\ x < nx /\ ~Holds(c, x)
  BY <1>1, <1>3 DEF Ordered, Holds
<1>7. ASSUME NEW k \in 1..n, q[k] # 0
      PROVE  q[k] \in Nat \ {0} /\ q[k] < nx /\ ~Holds(c, q[k])
  <2>1. q[k] \in Nat \ {0} /\ q[k] < nx
    BY <1>2, <1>3, <1>7 DEF Ordered
  <2>2. ASSUME NEW i \in 1..Len(c), c[i] = q[k] PROVE FALSE
    <3>1. PICK j \in 1..Len(t) : c[i] = t[j] /\ j = IF i <= Len(r) THEN i ELSE i + n
      BY <1>1
    <3>2. j # Len(r) + k
      BY <1>2, <3>1
    <3>3. t[j] = t[Len(r) + k] /\ t[j] # 0 /\ Len(r) + k \in 1..Len(t)
      BY <1>2, <1>7, <2>2, <3>1
    <3>4. t[j] \in Nat
      BY <2>1, <2>2, <3>1
    <3>5. \A a, b \in 1..Len(t) : a < b /\ t[a] # 0 /\ t[b] # 0 => t[a] < t[b]
      BY <1>3 DEF Ordered, InOrder
    <3>6. ~(j < Len(r) + k) /\ ~(Len(r) + k < j)
      BY <3>3, <3>4, <3>5
    <3>7. j \in Int /\ Len(r) + k \in Int
      BY <1>2
    <3>8. \A x, y \in Int : x < y \/ x = y \/ y < x
      OBVIOUS
    <3> QED
      BY <3>2, <3>6, <3>7, <3>8, Zenon
  <2> QED
    BY <2>1, <2>2 DEF Holds
<1>8. Ordered(c, nx, e)
  BY <1>4, <1>5, <1>6, <1>7 DEF Ordered
<1>9. Complete(c, nx, e)
  <2> SUFFICES ASSUME NEW m \in 1..(nx - 1), m \notin e PROVE Holds(c, m)
    BY DEF Complete
  <2>1. PICK j \in 1..Len(t) : t[j] = m
    BY <1>3 DEF Complete, Holds
  <2>2. ~\E k \in 1..n : q[k] = t[j]
    BY <2>1
  <2> QED
    BY <1>1, <2>1, <2>2 DEF Holds
<1> QED
  BY <1>8, <1>9 DEF c
-----------------------------------------------------------------------------
(* The steps *)

LEMMA InitIInv == LInit => IInv
<1> SUFFICES ASSUME LInit PROVE IInv
  OBVIOUS
<1> USE DEF LInit
<1>1. Trail = <<>> /\ Len(Trail) = 0
  BY DEF Trail
<1>2. Cardinality({}) = 0 /\ Cardinality(Producers) \in Nat \ {0}
  <2>1. Cardinality(Producers) # 0
    BY ProducersAssumption, FS_EmptySet
  <2> QED
    BY <2>1, ProducersAssumption, FS_EmptySet, FS_CardinalityType
<1>3. LTypeOK
  <2>1. <<>> \in Seq(Nat) /\ 1 \in Nat \ {0} /\ FALSE \in BOOLEAN
    OBVIOUS
  <2> QED
    BY <2>1 DEF LTypeOK
<1>4. Ordered(Trail, next, dropped) /\ Complete(Trail, next, dropped)
  BY <1>1 DEF Ordered, InOrder, Complete
<1>5. Stages
  BY DEF Stages
<1>6. QueueIsBounded
  <2>1. Cap \in Nat /\ Len(queue) = 0
    BY SizesAssumption
  <2> QED
    BY <1>2, <2>1 DEF QueueIsBounded
<1> QED
  BY <1>3, <1>4, <1>5, <1>6 DEF IInv, Reported

\* How many producers owe a warning.
LEMMA OwingCounts ==
  ASSUME NEW w \in SUBSET Producers
  PROVE  /\ Cardinality(w) \in Nat /\ Cardinality(Producers) \in Nat
         /\ \A p \in Producers \ w :
               /\ Cardinality(w \cup {p}) = Cardinality(w) + 1
               /\ Cardinality(w) < Cardinality(Producers)
         /\ \A p \in w : Cardinality(w \ {p}) = Cardinality(w) - 1
<1>1. IsFiniteSet(w) /\ IsFiniteSet(Producers)
  BY ProducersAssumption, FS_Subset
<1>2. /\ Cardinality(w) \in Nat /\ Cardinality(Producers) \in Nat
      /\ \A p \in w : Cardinality(w \ {p}) = Cardinality(w) - 1
  BY <1>1, FS_CardinalityType, FS_RemoveElement
<1>3. ASSUME NEW p \in Producers \ w
      PROVE  /\ Cardinality(w \cup {p}) = Cardinality(w) + 1
             /\ Cardinality(w) < Cardinality(Producers)
  <2>1. Cardinality(w \cup {p}) = Cardinality(w) + 1
    BY <1>1, FS_AddElement
  <2>2. Cardinality(w \cup {p}) <= Cardinality(Producers)
    BY <1>1, FS_Subset
  <2> QED
    BY <1>2, <2>1, <2>2
<1> QED
  BY <1>2, <1>3

\* A full queue loses two entries at least and never more than it has.
LEMMA ShedBounds ==
  ASSUME LTypeOK
  PROVE  /\ Shed \in 0..Len(queue)
         /\ Full => Shed >= 2
         /\ ~Full => Shed = 0 /\ Len(queue) < Cap
<1>1. Len(queue) \in Nat /\ Cap \in Nat /\ DropPart \in Nat \ {0} /\ Cap \div DropPart >= 2
  BY SizesAssumption DEF LTypeOK
<1>2. ASSUME NEW a \in Nat, NEW b \in Nat \ {0}
      PROVE  a \div b \in 0..a /\ b * (a \div b) <= a /\ a < b * (a \div b) + b
  OBVIOUS
<1>3. ASSUME Len(queue) >= Cap PROVE Len(queue) \div DropPart >= 2
  <2> DEFINE x == Len(queue) \div DropPart
             y == Cap \div DropPart
  <2>1. x \in Nat /\ y \in Nat /\ DropPart * y <= Len(queue) /\ Len(queue) < DropPart * x + DropPart
    BY <1>1, <1>2, <1>3
  <2> HIDE DEF x, y
  <2>2. ASSUME x < y PROVE FALSE
    <3>1. DropPart * (x + 1) <= DropPart * y
      BY <1>1, <2>1, <2>2
    <3>2. DropPart * (x + 1) = DropPart * x + DropPart
      BY <1>1, <2>1
    <3> QED
      BY <1>1, <2>1, <3>1, <3>2
  <2> QED
    BY <1>1, <2>1, <2>2 DEF x, y
<1> QED
  BY <1>1, <1>2, <1>3 DEF Shed, Full

\* The first locked block of log(), for the thread p.
LEMMA PutStep ==
  ASSUME IInv, NEW p \in Producers, p \notin owing, Put(p)
  PROVE  /\ queue' \in Seq(Nat) /\ next' \in Nat \ {0} /\ owing' \subseteq Producers
         /\ dropped' \subseteq Nat \ {0}
         /\ Ordered(Trail', next', dropped') /\ Complete(Trail', next', dropped')
         /\ Reported' /\ QueueIsBounded'
<1> DEFINE r == written \o batch
           c == Cut(r, queue, Shed)
           e == dropped \cup ({queue[i] : i \in 1..Shed} \ {0})
<1>1. /\ r \in Seq(Nat) /\ queue \in Seq(Nat) /\ next \in Nat \ {0}
      /\ Shed \in 0..Len(queue) /\ Trail = r \o queue
      /\ owing \subseteq Producers /\ dropped \subseteq Nat \ {0}
      /\ written \in Seq(Nat) /\ batch \in Seq(Nat)
  BY ShedBounds, ConcatProperties DEF IInv, LTypeOK, Trail
<1>2. /\ SubSeq(queue, Shed + 1, Len(queue)) \in Seq(Nat)
      /\ Len(SubSeq(queue, Shed + 1, Len(queue))) = Len(queue) - Shed
      /\ ~Full => SubSeq(queue, Shed + 1, Len(queue)) = queue
  <2>1. Len(queue) \in Nat /\ \A i \in (Shed + 1)..Len(queue) : queue[i] \in Nat
    BY <1>1
  <2>2. /\ SubSeq(queue, Shed + 1, Len(queue)) \in Seq(Nat)
        /\ Len(SubSeq(queue, Shed + 1, Len(queue))) = Len(queue) - Shed
    BY <1>1, <2>1, SubSeqProperties
  <2>3. ~Full => SubSeq(queue, Shed + 1, Len(queue)) = queue
    <3>1. ~Full => Shed = 0
      BY ShedBounds DEF IInv
    <3>2. SubSeq(queue, 1, Len(queue)) = queue
      BY <1>1, SubSeqFull
    <3> QED
      BY <3>1, <3>2
  <2> QED
    BY <2>2, <2>3
<1>3. Trail' = Append(c, next)
  <2>1. Trail' = r \o Append(SubSeq(queue, Shed + 1, Len(queue)), next)
    BY DEF Put, Trail
  <2>2. next \in Nat
    BY <1>1
  <2> QED
    BY <1>1, <1>2, <2>1, <2>2, AppendToLast DEF Cut
<1>4. c \in Seq(Nat) /\ Ordered(c, next, e) /\ Complete(c, next, e)
  <2>1. Ordered(r \o queue, next, dropped) /\ Complete(r \o queue, next, dropped)
    BY <1>1 DEF IInv
  <2> QED
    BY <1>1, <2>1, CutMiddle, CutKeepsOrder
<1> HIDE DEF c, e
<1>5. /\ Ordered(Trail', next', dropped') /\ Complete(Trail', next', dropped')
      /\ \A x \in e : Warned(c, x) => Warned(Trail', x)
  <2>1. next' = next + 1 /\ dropped' = e
    BY DEF Put, e
  <2> QED
    BY <1>1, <1>3, <1>4, <2>1, AppendMessage
<1>6. Reported'
  <2>1. CASE Full
    BY <2>1 DEF Put, Reported
  <2>2. CASE ~Full
    <3>1. c = Trail /\ e = dropped /\ dropped' = dropped /\ owing' = owing
      <4>1. Shed = 0
        BY <2>2, ShedBounds DEF IInv
      <4>2. c = Trail
        BY <1>1, <1>2, <2>2 DEF c, Cut
      <4>3. {queue[i] : i \in 1..Shed} = {}
        BY <4>1
      <4> QED
        BY <2>2, <4>2, <4>3 DEF e, Put
    <3>2. owing # {} \/ \A x \in dropped : Warned(Trail, x)
      BY DEF IInv, Reported
    <3> QED
      BY <1>5, <3>1, <3>2 DEF Reported
  <2> QED
    BY <2>1, <2>2
<1>7. QueueIsBounded'
  <2>1. /\ Len(queue') = Len(queue) - Shed + 1
        /\ Len(queue) \in Nat /\ Shed \in Nat /\ Cap \in Nat
    BY <1>1, <1>2, SizesAssumption, AppendProperties DEF Put
  <2>2. /\ Cardinality(owing) \in Nat /\ Cardinality(Producers) \in Nat
        /\ Cardinality(owing \cup {p}) = Cardinality(owing) + 1
        /\ Cardinality(owing) < Cardinality(Producers)
    BY <1>1, OwingCounts
  <2>3. CASE Full
    <3>1. Shed >= 2 /\ owing' = owing \cup {p}
      BY <2>3, ShedBounds DEF IInv, Put
    <3>2. Len(queue) + Cardinality(owing) < Cap + Cardinality(Producers)
      BY DEF IInv, QueueIsBounded
    <3> QED
      BY <2>1, <2>2, <3>1, <3>2 DEF QueueIsBounded
  <2>4. CASE ~Full
    <3>1. Shed = 0 /\ Len(queue) < Cap /\ owing' = owing
      BY <2>4, ShedBounds DEF IInv, Put
    <3> QED
      BY <2>1, <2>2, <3>1 DEF QueueIsBounded
  <2> QED
    BY <2>3, <2>4
<1>8. queue' \in Seq(Nat) /\ next' \in Nat \ {0} /\ owing' \subseteq Producers
  <2>1. queue' \in Seq(Nat)
    BY <1>1, <1>2, AppendProperties DEF Put
  <2> QED
    BY <1>1, <2>1 DEF Put
<1>9. dropped' \subseteq Nat \ {0}
  <2>1. \A i \in 1..Shed : queue[i] \in Nat
    BY <1>1
  <2>2. dropped' = dropped \cup ({queue[i] : i \in 1..Shed} \ {0})
    BY DEF Put
  <2> QED
    BY <1>1, <2>1, <2>2
<1> QED
  BY <1>5, <1>6, <1>7, <1>8, <1>9

LEMMA LogKeepsIInv ==
  ASSUME IInv, NEW p \in Producers, stage = "up", Log(p)
  PROVE  IInv'
<1>1. p \notin owing /\ Put(p) /\ UNCHANGED <<stage, complaint>>
  BY DEF Log
<1>2. LTypeOK'
  BY <1>1, PutStep DEF IInv, LTypeOK, Put
<1>3. Stages'
  BY <1>1 DEF IInv, Stages, Put
<1> QED
  BY <1>1, <1>2, <1>3, PutStep DEF IInv

LEMMA ComplainKeepsIInv ==
  ASSUME IInv, Complain
  PROVE  IInv'
<1>1. /\ Main \in Producers /\ Main \notin owing /\ owing = {} /\ Put(Main)
      /\ stage = "complain" /\ stage' = "join" /\ complaint' = next
  BY ProducersAssumption DEF IInv, Stages, Complain
<1>2. LTypeOK'
  <2>1. next \in Nat
    BY DEF IInv, LTypeOK
  <2> QED
    BY <1>1, <2>1, PutStep DEF IInv, LTypeOK, Put
<1>3. ASSUME writer = "done" PROVE \A i \in 1..Len(queue') : queue'[i] \in {0, complaint'}
  <2>1. queue = <<>> /\ Len(queue) = 0 /\ next \in Nat
    BY <1>1, <1>3 DEF IInv, Stages, LTypeOK
  <2>2. Shed = 0
    BY <2>1, ShedBounds DEF IInv
  <2>3. SubSeq(queue, Shed + 1, Len(queue)) = <<>>
    BY <2>1, <2>2
  <2>4. queue' = Append(<<>>, next) /\ next' = next + 1
    BY <1>1, <2>3 DEF Put
  <2>5. Len(queue') = 1 /\ queue'[1] = next
    <3>1. <<>> \in Seq(Nat) /\ Len(<<>>) = 0
      OBVIOUS
    <3> QED
      BY <2>1, <2>4, <3>1, AppendProperties
  <2> QED
    BY <1>1, <2>1, <2>4, <2>5
<1>4. Stages'
  <2>1. ~open /\ writer # "none" /\ stage' = "join" /\ UNCHANGED <<open, writer, batch>>
    BY <1>1 DEF IInv, Stages, Put
  <2>2. owing' \subseteq {Main}
    BY <1>1 DEF Put
  <2> QED
    BY <1>3, <2>1, <2>2 DEF IInv, Stages
<1> QED
  BY <1>1, <1>2, <1>4, PutStep DEF IInv

LEMMA WarnKeepsIInv ==
  ASSUME IInv, NEW p \in Producers, Warn(p)
  PROVE  IInv'
<1> USE DEF Warn
<1>1. /\ written \o batch \in Seq(Nat) /\ queue \in Seq(Nat) /\ next \in Nat \ {0}
      /\ Trail \in Seq(Nat) /\ Trail = (written \o batch) \o queue
  BY TrailType DEF IInv, LTypeOK, Trail
<1>2. Trail' = Append(Trail, 0)
  <2>1. Trail' = (written \o batch) \o Append(queue, 0)
    BY DEF Trail
  <2>2. 0 \in Nat
    OBVIOUS
  <2> QED
    BY <1>1, <2>1, <2>2, AppendToLast
<1>3. /\ Ordered(Trail', next', dropped') /\ Complete(Trail', next', dropped')
      /\ Reported'
  <2>1. Ordered(Trail, next, dropped) /\ Complete(Trail, next, dropped)
    BY DEF IInv
  <2>2. /\ Ordered(Append(Trail, 0), next, dropped)
        /\ Complete(Append(Trail, 0), next, dropped)
        /\ \A x \in dropped : Warned(Append(Trail, 0), x)
    BY <1>1, <2>1, AppendWarning
  <2> QED
    BY <1>2, <2>2 DEF Reported
<1>4. LTypeOK'
  BY <1>1, AppendProperties DEF IInv, LTypeOK
<1>5. Stages'
  <2>1. ASSUME writer = "done" PROVE \A i \in 1..Len(queue') : queue'[i] \in {0, complaint}
    <3>1. /\ \A i \in 1..Len(queue) : queue[i] \in {0, complaint}
          /\ Len(queue) \in Nat
      BY <1>1, <2>1 DEF IInv, Stages
    <3>2. /\ Len(queue') = Len(queue) + 1
          /\ \A i \in 1..Len(queue') : queue'[i] = IF i <= Len(queue) THEN queue[i] ELSE 0
      <4>1. queue \in Seq(Nat) /\ 0 \in Nat /\ queue' = Append(queue, 0)
        BY <1>1
      <4>2. /\ Len(queue') = Len(queue) + 1
            /\ \A i \in 1..Len(queue) : queue'[i] = queue[i]
            /\ queue'[Len(queue) + 1] = 0
        BY <4>1, AppendProperties
      <4> QED
        BY <3>1, <4>2
    <3> QED
      BY <3>1, <3>2
  <2>2. stage \notin {"flush", "complain", "closed"}
    BY DEF IInv, Stages
  <2> QED
    BY <2>1, <2>2 DEF IInv, Stages
<1>6. QueueIsBounded'
  <2>1. Len(queue') = Len(queue) + 1 /\ Len(queue) \in Nat
    BY <1>1, AppendProperties
  <2>2. /\ Cardinality(owing') = Cardinality(owing) - 1
        /\ Cardinality(owing) \in Nat
    BY OwingCounts DEF IInv, LTypeOK
  <2> QED
    BY <2>1, <2>2 DEF IInv, QueueIsBounded
<1> QED
  BY <1>3, <1>4, <1>5, <1>6 DEF IInv

\* A step that leaves the whole as it is.
LEMMA SameTrail ==
  ASSUME IInv, Trail' = Trail, UNCHANGED <<next, dropped, owing>>
  PROVE  /\ Ordered(Trail', next', dropped') /\ Complete(Trail', next', dropped')
         /\ Reported'
BY DEF IInv, Reported

LEMMA WriterKeepsIInv ==
  ASSUME IInv, Writer
  PROVE  IInv'
<1>1. CASE Test
  <2>1. Trail' = Trail /\ UNCHANGED <<next, dropped, owing>>
    BY <1>1 DEF Test, Trail
  <2>2. LTypeOK' /\ QueueIsBounded'
    BY <1>1 DEF IInv, LTypeOK, QueueIsBounded, Test
  <2>3. writer' = "done" => ~open /\ queue = <<>>
    BY <1>1 DEF Test, GoOn
  <2>4. Stages'
    <3>1. writer' = "done" =>
            \A i \in 1..Len(queue') : queue'[i] \in {0, complaint'}
      BY <1>1, <2>3 DEF Test
    <3> QED
      BY <1>1, <2>3, <3>1 DEF IInv, Stages, Test
  <2> QED
    BY <2>1, <2>2, <2>4, SameTrail DEF IInv
<1>2. CASE Take
  <2> DEFINE n == IF Len(queue) < BatchSize THEN Len(queue) ELSE BatchSize
  <2>1. /\ n \in 0..Len(queue) /\ queue \in Seq(Nat) /\ written \in Seq(Nat)
        /\ batch = <<>> /\ Len(queue) \in Nat
    BY <1>2, SizesAssumption DEF IInv, LTypeOK, Stages, Take
  <2>2. /\ batch' = SubSeq(queue, 1, n)
        /\ queue' = SubSeq(queue, n + 1, Len(queue))
        /\ UNCHANGED <<next, owing, dropped, open, written, stage, complaint>>
        /\ writer' = "write" /\ writer = "take"
    BY <1>2 DEF Take
  <2> HIDE DEF n
  <2>3. batch' \in Seq(Nat) /\ queue' \in Seq(Nat) /\ Len(queue') = Len(queue) - n
    <3>1. /\ \A i \in 1..n : queue[i] \in Nat
          /\ \A i \in (n + 1)..Len(queue) : queue[i] \in Nat
          /\ n \in Nat
      BY <2>1
    <3> QED
      BY <2>1, <2>2, <3>1, SubSeqProperties
  <2>4. Trail' = Trail
    <3>1. batch' \o queue' = queue
      BY <2>1, <2>2, SplitJoins
    <3>2. Trail' = written \o (batch' \o queue')
      BY <2>1, <2>2, <2>3, Associate DEF Trail
    <3>3. Trail = written \o queue
      BY <2>1, ConcatEmptySeq DEF Trail
    <3> QED
      BY <3>1, <3>2, <3>3
  <2>5. LTypeOK'
    BY <2>2, <2>3 DEF IInv, LTypeOK
  <2>6. Stages'
    BY <2>2 DEF IInv, Stages
  <2>7. QueueIsBounded'
    <3>1. Len(queue') <= Len(queue) /\ Len(queue') \in Nat
      BY <2>1, <2>3
    <3>2. Cardinality(owing) \in Nat /\ Cardinality(Producers) \in Nat /\ Cap \in Nat
      BY OwingCounts, SizesAssumption DEF IInv, LTypeOK
    <3> QED
      BY <2>1, <2>2, <3>1, <3>2 DEF IInv, QueueIsBounded
  <2> QED
    BY <2>2, <2>4, <2>5, <2>6, <2>7, SameTrail DEF IInv
<1>3. CASE WriteBatch
  <2>1. /\ written' = written \o batch /\ batch' = <<>> /\ writer' = "test"
        /\ UNCHANGED <<queue, next, owing, dropped, open, stage, complaint>>
        /\ written \o batch \in Seq(Nat) /\ queue \in Seq(Nat)
        /\ writer = "write"
    BY <1>3 DEF WriteBatch, IInv, LTypeOK
  <2>2. Trail' = Trail
    BY <2>1, ConcatEmptySeq DEF Trail
  <2>3. LTypeOK' /\ QueueIsBounded'
    BY <2>1 DEF IInv, LTypeOK, QueueIsBounded
  <2>4. Stages'
    BY <2>1 DEF IInv, Stages
  <2> QED
    BY <2>1, <2>2, <2>3, <2>4, SameTrail DEF IInv
<1> QED
  BY <1>1, <1>2, <1>3 DEF Writer

\* init, and the steps of shutdown that leave the queue alone.
LEMMA OthersKeepIInv ==
  ASSUME IInv, StartWriter \/ (owing = {} /\ Close) \/ Flushed \/ Join
  PROVE  IInv'
<1>1. UNCHANGED <<queue, next, owing, dropped, batch, written>>
  BY DEF StartWriter, Close, Flushed, Join
<1>2. Trail' = Trail
  BY <1>1 DEF Trail
<1>3. LTypeOK' /\ QueueIsBounded'
  BY <1>1 DEF IInv, LTypeOK, QueueIsBounded, StartWriter, Close, Flushed, Join
<1>4. Stages'
  <2>1. CASE StartWriter
    BY <2>1 DEF IInv, Stages, StartWriter
  <2>2. CASE owing = {} /\ Close
    BY <2>2 DEF IInv, Stages, Close
  <2>3. CASE Flushed
    BY <2>3 DEF IInv, Stages, Flushed
  <2>4. CASE Join
    BY <2>4 DEF IInv, Stages, Join
  <2> QED
    BY <2>1, <2>2, <2>3, <2>4
<1> QED
  BY <1>1, <1>2, <1>3, <1>4, SameTrail DEF IInv

LEMMA NextIInv == IInv /\ [LNext]_lvars => IInv'
<1> SUFFICES ASSUME IInv, [LNext]_lvars PROVE IInv'
  OBVIOUS
<1>1. CASE UNCHANGED lvars
  <2>1. Trail' = Trail /\ UNCHANGED <<next, dropped, owing>>
    BY <1>1 DEF lvars, Trail
  <2>2. LTypeOK' /\ QueueIsBounded' /\ Stages'
    BY <1>1 DEF lvars, IInv, LTypeOK, QueueIsBounded, Stages
  <2> QED
    BY <2>1, <2>2, SameTrail DEF IInv
<1>2. CASE LNext
  BY <1>2, LogKeepsIInv, WarnKeepsIInv, WriterKeepsIInv, OthersKeepIInv, ComplainKeepsIInv
  DEF LNext
<1> QED
  BY <1>1, <1>2
-----------------------------------------------------------------------------
LEMMA SpecIInv == LSpec => []IInv
BY InitIInv, NextIInv, PTL DEF LSpec

\* The queue of the log stays within its limit but for the warnings owed
\* (the overflow branch of log()).
THEOREM LogQueueIsBounded == LSpec => []QueueIsBounded
<1>1. IInv => QueueIsBounded BY DEF IInv
<1> QED BY SpecIInv, <1>1, PTL

\* What is written comes first in the whole.
LEMMA WrittenIsAPrefix ==
  ASSUME LTypeOK
  PROVE  /\ Len(Trail) \in Nat /\ Len(written) \in Nat
         /\ \A i \in 1..Len(written) : i \in 1..Len(Trail) /\ Trail[i] = written[i]
         /\ batch = <<>> =>
              \A i \in 1..Len(Trail) :
                 i > Len(written) => /\ i - Len(written) \in 1..Len(queue)
                                     /\ Trail[i] = queue[i - Len(written)]
<1>1. /\ written \in Seq(Nat) /\ batch \in Seq(Nat) /\ queue \in Seq(Nat)
      /\ batch \o queue \in Seq(Nat)
  BY DEF LTypeOK
<1>2. Trail = written \o (batch \o queue)
  BY <1>1, Associate DEF Trail
<1> DEFINE b == batch \o queue
<1>3. /\ Len(Trail) = Len(written) + Len(b) /\ Len(written) \in Nat /\ Len(b) \in Nat
      /\ \A i \in 1..(Len(written) + Len(b)) :
            Trail[i] = IF i <= Len(written) THEN written[i] ELSE b[i - Len(written)]
  BY <1>1, <1>2, ConcatProperties
<1>4. batch = <<>> => b = queue
  BY <1>1, ConcatEmptySeq
<1> HIDE DEF b
<1>5. \A i \in 1..Len(written) : i \in 1..Len(Trail) /\ Trail[i] = written[i]
  BY <1>3
<1>6. ASSUME batch = <<>>, NEW i \in 1..Len(Trail), i > Len(written)
      PROVE  i - Len(written) \in 1..Len(queue) /\ Trail[i] = queue[i - Len(written)]
  BY <1>3, <1>4, <1>6
<1> QED
  BY <1>3, <1>5, <1>6

\* The log shows messages in order, none twice, and no shed one (async_writer).
THEOREM LogIsInOrder == LSpec => []WrittenInOrder
<1>1. ASSUME IInv PROVE WrittenInOrder
  <2>1. /\ \A i \in 1..Len(written) : i \in 1..Len(Trail) /\ Trail[i] = written[i]
        /\ InOrder(Trail) /\ \A x \in dropped : ~Holds(Trail, x)
    BY <1>1, WrittenIsAPrefix DEF IInv, Ordered
  <2>2. InOrder(written)
    BY <2>1 DEF InOrder
  <2>3. \A d \in dropped : ~Holds(written, d)
    BY <2>1 DEF Holds
  <2> QED
    BY <2>2, <2>3 DEF WrittenInOrder
<1> QED BY SpecIInv, <1>1, PTL

\* When shutdown() returns, every message but the complaint it may have made
\* itself is in the log or was shed, and a loss is announced, unless that
\* complaint overflowed the queue after the writer had gone.
THEOREM LogLosesNothingSilently == LSpec => []LogTellsAll
<1>1. ASSUME IInv PROVE LogIsComplete
  <2> SUFFICES ASSUME stage = "closed", NEW n \in (1..(next - 1)) \ {complaint},
                      n \notin dropped
               PROVE  Holds(written, n)
    BY DEF LogIsComplete
  <2>1. /\ batch = <<>> /\ \A i \in 1..Len(queue) : queue[i] \in {0, complaint}
        /\ next \in Nat
    BY <1>1 DEF IInv, Stages, LTypeOK
  <2>2. PICK i \in 1..Len(Trail) : Trail[i] = n
    <3>1. n \in 1..(next - 1)
      BY <2>1
    <3> QED
      BY <1>1, <3>1 DEF IInv, Complete, Holds
  <2>3. i <= Len(written)
    <3>1. ASSUME i > Len(written) PROVE FALSE
      <4>1. n \in {0, complaint}
        BY <1>1, <2>1, <2>2, <3>1, WrittenIsAPrefix DEF IInv
      <4> QED
        BY <2>1, <4>1
    <3> QED
      BY <1>1, <3>1, WrittenIsAPrefix DEF IInv
  <2>4. i \in 1..Len(written) /\ written[i] = n
    BY <1>1, <2>2, <2>3, WrittenIsAPrefix DEF IInv
  <2> QED
    BY <2>4 DEF Holds
<1>2. ASSUME IInv PROVE LossIsReported
  <2> SUFFICES ASSUME stage = "closed", ~Holds(queue, 0), NEW d \in dropped
               PROVE  \E k \in 1..Len(written) :
                         /\ written[k] = 0
                         /\ \A j \in 1..Len(written) : written[j] \in 1..d => j < k
    BY DEF LossIsReported
  <2>1. batch = <<>> /\ owing = {}
    BY <1>2 DEF IInv, Stages
  <2>2. PICK k \in 1..Len(Trail) :
               Trail[k] = 0 /\ \A j \in 1..Len(Trail) : Trail[j] \in 1..d => j < k
    BY <1>2, <2>1 DEF IInv, Reported, Warned
  <2>3. k <= Len(written)
    <3>1. ASSUME k > Len(written) PROVE FALSE
      BY <1>2, <2>1, <2>2, <3>1, WrittenIsAPrefix DEF IInv, Holds
    <3> QED
      BY <1>2, <3>1, WrittenIsAPrefix DEF IInv
  <2>4. k \in 1..Len(written) /\ written[k] = 0
    BY <1>2, <2>2, <2>3, WrittenIsAPrefix DEF IInv
  <2>5. \A j \in 1..Len(written) : written[j] \in 1..d => j < k
    BY <1>2, <2>2, WrittenIsAPrefix DEF IInv
  <2> QED
    BY <2>4, <2>5
<1>3. IInv => LogTellsAll
  BY <1>1, <1>2 DEF LogTellsAll
<1> QED BY SpecIInv, <1>3, PTL
-----------------------------------------------------------------------------
(* The daemon *)

\* Where main is when it has joined the scan, the monitor and the pool.
NoScan == {"stopmonitor", "joinmonitor", "active", "stoppool", "joinpool", "reset", "shutdown"}
NoMonitor == {"active", "stoppool", "joinpool", "reset", "shutdown"}
NoPool == {"reset", "shutdown"}

Joined == /\ main \in NoScan => scan # "running"
          /\ main \in NoMonitor => monitor = "stopped"
          /\ main \in NoPool => pending = {} /\ active = {}
          /\ pool = "reset" => main = "shutdown"
          /\ main # "shutdown" => stage = "up"

\* A thread that owes the log a warning is still there.
OwingAlive == /\ owing \subseteq Producers
              /\ "scan" \in owing => scan = "running"
              /\ "monitor" \in owing => monitor \in {"running", "stopping"}
              /\ "worker" \in owing => active # {}

JInv == Joined /\ OwingAlive

\* The last SIGHUP is on its way, or the configuration it asks for is read.
HInv == /\ file \in Nat /\ fresh \in Nat /\ loaded \in Nat /\ asked \in Nat
        /\ asked <= file
        /\ "HUP" \notin arrived /\ ~reload /\ main # "read"
           => IF main = "apply" THEN fresh >= asked ELSE loaded >= asked
-----------------------------------------------------------------------------
LEMMA InitJInv == Init => JInv
BY DEF Init, LInit, JInv, Joined, OwingAlive, NoScan, NoMonitor, NoPool

\* The steps of main that touch neither the other threads nor the log.
LEMMA MainKeepsJInv ==
  ASSUME JInv,
         \/ Load \/ InitLog \/ Validate \/ InitSignals \/ DropPrivileges
         \/ StartMonitor \/ StartScan
         \/ Loop \/ Clear \/ ReadConfig \/ Apply \/ Wait
  PROVE  JInv'
<1> USE DEF JInv, Joined, OwingAlive, NoScan, NoMonitor, NoPool, At, Goto, End,
            threads, evars, lvars
<1>1. CASE Load \/ Validate \/ InitSignals \/ DropPrivileges
  BY <1>1 DEF Load, Validate, InitSignals, DropPrivileges
<1>2. CASE InitLog
  BY <1>2 DEF InitLog, StartWriter
<1>3. CASE StartMonitor \/ StartScan
  BY <1>3 DEF StartMonitor, StartScan
<1>4. CASE Loop \/ Clear \/ ReadConfig \/ Apply \/ Wait
  BY <1>4 DEF Loop, Clear, ReadConfig, Apply, Wait
<1> QED
  BY <1>1, <1>2, <1>3, <1>4

LEMMA StoppingKeepsJInv ==
  ASSUME JInv,
         \/ JoinScan \/ StopMonitor \/ JoinMonitor \/ StopWaiting \/ StopPool
         \/ JoinPool \/ Reset \/ ShutLog \/ ReturnZero
  PROVE  JInv'
<1> USE DEF JInv, Joined, OwingAlive, NoScan, NoMonitor, NoPool, At, Goto, End,
            threads, evars, lvars
<1>1. CASE JoinScan \/ JoinMonitor \/ StopWaiting \/ Reset \/ ReturnZero
  BY <1>1 DEF JoinScan, JoinMonitor, StopWaiting, Reset, ReturnZero
<1>2. CASE StopMonitor
  BY <1>2 DEF StopMonitor
<1>3. CASE StopPool
  BY <1>3 DEF StopPool, EX!BeginClose
<1>4. CASE JoinPool
  BY <1>4 DEF JoinPool, EX!EndClose
<1>5. CASE ShutLog
  <2>1. /\ main = "shutdown" /\ UNCHANGED <<main, scan, monitor, pending, active, pool>>
        /\ owing' \subseteq owing \cup {Main}
    BY <1>5 DEF ShutLog, Close, Flushed, Complain, Join, Put
  <2> QED
    BY <2>1, ThreadsAssumption
<1> QED
  BY <1>1, <1>2, <1>3, <1>4, <1>5

LEMMA OthersKeepJInv ==
  ASSUME JInv,
         \/ \E t \in Tasks : Submit(t) \/ RunTask(t)
         \/ ScanEnds \/ MonitorEnds \/ WriterStep
         \/ \E p \in Producers : LogStep(p)
         \/ Edit
         \/ \E s \in {"TERM", "HUP"} : Send(s)
  PROVE  JInv'
<1> USE DEF JInv, Joined, OwingAlive, NoScan, NoMonitor, NoPool, Others, Executor,
            threads, evars, lvars
<1>1. ASSUME NEW t \in Tasks, Submit(t) PROVE JInv'
  BY <1>1 DEF Submit, EX!Submit
<1>2. ASSUME NEW t \in Tasks, RunTask(t) PROVE JInv'
  BY <1>2 DEF RunTask, EX!Start, EX!Complete
<1>3. CASE ScanEnds \/ MonitorEnds
  BY <1>3 DEF ScanEnds, MonitorEnds
<1>4. CASE WriterStep
  BY <1>4 DEF WriterStep, Writer, Test, Take, WriteBatch
<1>5. ASSUME NEW p \in Producers, LogStep(p) PROVE JInv'
  <2>1. CASE MayLog(p) /\ Log(p)
    <3>1. /\ UNCHANGED <<main, scan, monitor, pending, active, pool, stage>>
          /\ owing' \subseteq owing \cup {p}
      BY <1>5, <2>1 DEF LogStep, Log, Put
    <3> QED
      BY <1>5, <2>1, <3>1, ThreadsAssumption DEF MayLog
  <2>2. CASE Warn(p)
    BY <1>5, <2>2 DEF LogStep, Warn
  <2> QED
    BY <1>5, <2>1, <2>2 DEF LogStep
<1>6. CASE Edit
  BY <1>6 DEF Edit
<1>7. ASSUME NEW s \in {"TERM", "HUP"}, Send(s) PROVE JInv'
  BY <1>7 DEF Send
<1> QED
  BY <1>1, <1>2, <1>3, <1>4, <1>5, <1>6, <1>7

LEMMA NextJInv == JInv /\ [Next]_vars => JInv'
<1> SUFFICES ASSUME JInv, [Next]_vars PROVE JInv'
  OBVIOUS
<1>1. CASE UNCHANGED vars
  BY <1>1 DEF vars, threads, evars, lvars, JInv, Joined, OwingAlive
<1>2. CASE Next
  BY <1>2, MainKeepsJInv, StoppingKeepsJInv, OthersKeepJInv DEF Next, MainStep
<1> QED
  BY <1>1, <1>2

LEMMA SpecJInv == Spec => []JInv
BY InitJInv, NextJInv, PTL DEF Spec

\* Nobody is left to use the pool, the monitor or the log when main lets them
\* go (graceful_shutdown_with_timeout).
THEOREM DaemonJoinsThreads == Spec => []ThreadsAreJoined
<1>1. JInv => ThreadsAreJoined
  BY ThreadsAssumption
  DEF JInv, Joined, OwingAlive, ThreadsAreJoined, NoScan, NoMonitor, NoPool
<1> QED BY SpecJInv, <1>1, PTL
-----------------------------------------------------------------------------
\* A step of the daemon is a step of the log or leaves it alone.
LEMMA LogSteps == JInv /\ [Next]_vars => [LNext]_lvars
<1> SUFFICES ASSUME JInv, [Next]_vars PROVE [LNext]_lvars
  OBVIOUS
<1>1. CASE UNCHANGED lvars
  BY <1>1
<1>2. CASE InitLog
  BY <1>2 DEF InitLog, LNext
<1>3. CASE ShutLog
  <2>1. owing = {}
    BY <1>3, ThreadsAssumption
    DEF ShutLog, At, JInv, Joined, OwingAlive, NoScan, NoMonitor, NoPool
  <2> QED
    BY <1>3, <2>1 DEF ShutLog, LNext
<1>4. CASE WriterStep
  BY <1>4 DEF WriterStep, LNext
<1>5. ASSUME NEW p \in Producers, LogStep(p) PROVE LNext
  <2>1. CASE MayLog(p) /\ Log(p)
    <3>1. main # "shutdown"
      BY <2>1, ThreadsAssumption DEF MayLog, JInv, Joined, NoScan, NoMonitor, NoPool
    <3>2. stage = "up"
      BY <3>1 DEF JInv, Joined
    <3> QED
      BY <2>1, <3>2 DEF LNext
  <2>2. CASE Warn(p)
    BY <2>2 DEF LNext
  <2> QED
    BY <1>5, <2>1, <2>2 DEF LogStep
<1>6. ASSUME \/ Load \/ Validate \/ InitSignals \/ DropPrivileges
             \/ StartMonitor \/ StartScan
             \/ Loop \/ Clear \/ ReadConfig \/ Apply \/ Wait
             \/ JoinScan \/ StopMonitor \/ JoinMonitor \/ StopWaiting \/ StopPool
             \/ JoinPool \/ Reset \/ ReturnZero
      PROVE  UNCHANGED lvars
  BY <1>6 DEF Load, Validate, InitSignals, DropPrivileges, StartMonitor, StartScan,
              Loop, Clear, ReadConfig, Apply, Wait, JoinScan, StopMonitor, JoinMonitor,
              StopWaiting, StopPool, JoinPool, Reset, ReturnZero
<1>7. ASSUME \/ \E t \in Tasks : Submit(t) \/ RunTask(t)
             \/ ScanEnds \/ MonitorEnds \/ Edit
             \/ \E s \in {"TERM", "HUP"} : Send(s)
             \/ UNCHANGED vars
      PROVE  UNCHANGED lvars
  BY <1>7 DEF Submit, RunTask, Executor, ScanEnds, MonitorEnds, Edit, Send, vars
<1> QED
  BY <1>1, <1>2, <1>3, <1>4, <1>5, <1>6, <1>7 DEF Next, MainStep

\* The daemon uses the log as the log is meant to be used: its behaviours are
\* behaviours of Logger (log() and shutdown() as main and the threads call them).
THEOREM DaemonImplementsLog == Spec => LSpec
BY SpecJInv, LogSteps, PTL DEF Spec, Init, LSpec

\* So the log of the daemon tells every message or its loss.
THEOREM DaemonLogTellsAll == Spec => []LogTellsAll /\ []WrittenInOrder
<1>1. LSpec => []LogTellsAll
  BY LogLosesNothingSilently
<1>2. LSpec => []WrittenInOrder
  BY LogIsInOrder
<1> QED BY DaemonImplementsLog, <1>1, <1>2, PTL
-----------------------------------------------------------------------------
LEMMA InitHInv == Init => HInv
BY DEF Init, HInv

LEMMA NextHInv == HInv /\ [Next]_vars => HInv'
<1> SUFFICES ASSUME HInv, [Next]_vars PROVE HInv'
  OBVIOUS
<1> USE DEF HInv, At, Goto, End, signals, flags, config
<1>1. CASE Load \/ InitLog \/ Validate \/ InitSignals \/ DropPrivileges
  BY <1>1 DEF Load, InitLog, Validate, InitSignals, DropPrivileges
<1>2. CASE StartMonitor \/ StartScan \/ Loop \/ Clear \/ ReadConfig \/ Apply
  BY <1>2 DEF StartMonitor, StartScan, Loop, Clear, ReadConfig, Apply
<1>3. CASE Wait
  BY <1>3 DEF Wait, Take1
<1>4. CASE \/ JoinScan \/ StopMonitor \/ JoinMonitor \/ StopWaiting \/ StopPool
           \/ JoinPool \/ Reset \/ ShutLog \/ ReturnZero
  BY <1>4 DEF JoinScan, StopMonitor, JoinMonitor, StopWaiting, StopPool, JoinPool, Reset,
              ShutLog, ReturnZero
<1>5. CASE \/ \E t \in Tasks : Submit(t) \/ RunTask(t)
           \/ ScanEnds \/ MonitorEnds \/ WriterStep
           \/ \E p \in Producers : LogStep(p)
  BY <1>5 DEF Submit, RunTask, Others, Executor, ScanEnds, MonitorEnds, WriterStep, LogStep
<1>6. CASE Edit
  BY <1>6 DEF Edit
<1>7. ASSUME NEW s \in {"TERM", "HUP"}, Send(s) PROVE HInv'
  <2>1. CASE asked' = asked
    <3>1. \/ UNCHANGED <<arrived, running, reload>>
          \/ Take1(s) /\ UNCHANGED arrived
          \/ arrived' = arrived \cup {s} /\ UNCHANGED <<running, reload>>
      BY <1>7 DEF Send
    <3>2. "HUP" \notin arrived' /\ ~reload' => "HUP" \notin arrived /\ ~reload
      BY <3>1 DEF Take1
    <3> QED
      BY <1>7, <2>1, <3>2 DEF Send
  <2>2. CASE asked' # asked
    <3>1. asked' = file /\ s = "HUP" /\ ("HUP" \in arrived' \/ reload')
      BY <1>7, <2>2 DEF Send, Take1
    <3> QED
      BY <1>7, <3>1 DEF Send
  <2> QED
    BY <2>1, <2>2
<1>8. CASE UNCHANGED vars
  BY <1>8 DEF vars
<1> QED
  BY <1>1, <1>2, <1>3, <1>4, <1>5, <1>6, <1>7, <1>8 DEF Next, MainStep

\* A SIGHUP is followed by a reload that reads the file after it, whatever it
\* interrupted (the main loop, reload_config and the two signal paths).
THEOREM DaemonHonoursHup == Spec => []HupIsHonoured
<1>1. HInv => HupIsHonoured
  BY DEF HInv, HupIsHonoured
<1> QED BY InitHInv, NextHInv, <1>1, PTL DEF Spec
=============================================================================
