--------------------------- MODULE MonitorProofs ---------------------------
(***************************************************************************)
(* Proofs about the monitor thread: types, and that it forgets nothing,    *)
(* for any delays, any cookies, any limit of the kernel's queue and any    *)
(* number of operations.  The argument is about one sequence, Ahead: the   *)
(* events read but not handled, then those still in the kernel's queue.    *)
(* Reading does not change it, an event appends to it, handling takes its  *)
(* head.  What the daemon owes is in Ahead, or in one of its two maps.     *)
(***************************************************************************)
EXTENDS Monitor, SequenceTheorems, TLAPS

-----------------------------------------------------------------------------
(* Sequences of events *)

FileChanged == On("file", "changed", None)
FileDeleted == On("file", "deleted", None)
FileMoved == On("file", "movedFrom", None)
CopyRemoved == On("copy", "deleted", None)
CopyLeft(c) == On("copy", "movedFrom", c)
CopyCame(c) == On("copy", "movedTo", c)
\* The events there really are.
Real == {FileChanged, FileDeleted, FileMoved, CopyRemoved, Overflow}
        \cup {CopyLeft(c) : c \in Cookies} \cup {CopyCame(c) : c \in Cookies \cup {None}}

In(s, e) == \E i \in 1..Len(s) : s[i] = e
NoDelete(s) == ~In(s, FileDeleted)
ChangedLast(s) == \E i \in 1..Len(s) : s[i] = FileChanged /\ \A j \in i..Len(s) : s[j] # FileDeleted

\* t is s with e behind it, as far as one event matters that is equal to e.
Then(s, e, t) == /\ \A x : In(t, x) <=> In(s, x) \/ x = e
                 /\ ChangedLast(t) <=> e = FileChanged \/ (ChangedLast(s) /\ e # FileDeleted)

LEMMA TwoEvents == FileChanged # FileDeleted
BY DEF FileChanged, FileDeleted, On

LEMMA AppendIsThen ==
  ASSUME NEW S, NEW s \in Seq(S), NEW e \in S
  PROVE  Then(s, e, Append(s, e))
<1> DEFINE t == Append(s, e)
<1>1. /\ Len(s) \in Nat /\ Len(t) = Len(s) + 1 /\ t[Len(s) + 1] = e
      /\ \A i \in 1..Len(s) : t[i] = s[i]
  BY AppendProperties
<1> HIDE DEF t
<1>2. \A x : In(t, x) <=> In(s, x) \/ x = e
  <2>1. 1..Len(t) = 1..Len(s) \cup {Len(t)} /\ t[Len(t)] = e
    BY <1>1
  <2> QED
    BY <1>1, <2>1 DEF In
<1>3. ASSUME e = FileChanged PROVE ChangedLast(t)
  <2>1. Len(t) \in 1..Len(t) /\ Len(t)..Len(t) = {Len(t)} /\ t[Len(t)] = e
    BY <1>1
  <2> QED
    BY <1>3, <2>1, TwoEvents DEF ChangedLast
<1>4. ASSUME e # FileChanged PROVE ChangedLast(t) => ChangedLast(s) /\ e # FileDeleted
  <2> SUFFICES ASSUME NEW i \in 1..Len(t), t[i] = FileChanged,
                      \A j \in i..Len(t) : t[j] # FileDeleted
               PROVE  ChangedLast(s) /\ e # FileDeleted
    BY DEF ChangedLast
  <2>1. i \in 1..Len(s) /\ Len(t) \in i..Len(t) /\ \A j \in i..Len(s) : j \in i..Len(t) /\ t[j] = s[j]
    BY <1>1, <1>4
  <2> QED
    BY <1>1, <2>1 DEF ChangedLast
<1>5. ASSUME ChangedLast(s), e # FileDeleted PROVE ChangedLast(t)
  <2>1. PICK i \in 1..Len(s) : s[i] = FileChanged /\ \A j \in i..Len(s) : s[j] # FileDeleted
    BY <1>5 DEF ChangedLast
  <2>2. i \in 1..Len(t) /\ t[i] = FileChanged
    BY <1>1, <2>1
  <2>3. ASSUME NEW j \in i..Len(t) PROVE t[j] # FileDeleted
    <3>1. (j \in i..Len(s) /\ j \in 1..Len(s)) \/ j = Len(s) + 1
      BY <1>1
    <3> QED
      BY <1>1, <1>5, <2>1, <3>1
  <2> QED
    BY <2>2, <2>3 DEF ChangedLast
<1> QED
  BY <1>2, <1>3, <1>4, <1>5 DEF Then, t

LEMMA AgainIsThen ==
  ASSUME NEW S, NEW s \in Seq(S), s # <<>>
  PROVE  Then(s, s[Len(s)], s)
<1> DEFINE e == s[Len(s)]
<1>1. Len(s) \in 1..Len(s)
  BY EmptySeq, LenProperties
<1>2. In(s, e)
  BY <1>1 DEF In
<1>3. e = FileChanged => ChangedLast(s)
  <2>1. Len(s)..Len(s) = {Len(s)}
    BY <1>1
  <2> QED
    BY <1>1, <2>1, TwoEvents DEF ChangedLast
<1>4. ChangedLast(s) => e # FileDeleted
  <2>1. \A i \in 1..Len(s) : Len(s) \in i..Len(s)
    BY <1>1
  <2> QED
    BY <2>1 DEF ChangedLast
<1> QED
  BY <1>2, <1>3, <1>4 DEF Then

\* The first event of s is handled, t is what is left.
LEMMA HeadAndTail ==
  ASSUME NEW S, NEW s \in Seq(S), s # <<>>
  PROVE  /\ \A x : In(s, x) <=> Head(s) = x \/ In(Tail(s), x)
         /\ ChangedLast(s) <=> ChangedLast(Tail(s)) \/ (Head(s) = FileChanged /\ NoDelete(Tail(s)))
<1> DEFINE t == Tail(s)
<1>1. /\ Len(s) \in Nat /\ Len(s) # 0 /\ Len(t) = Len(s) - 1 /\ Head(s) = s[1]
      /\ \A i \in 1..Len(t) : t[i] = s[i + 1]
  BY HeadTailProperties, LenProperties, EmptySeq
<1> HIDE DEF t
<1>2. \A x : In(s, x) <=> Head(s) = x \/ In(t, x)
  <2>1. ASSUME NEW x, NEW i \in 1..Len(s), s[i] = x PROVE Head(s) = x \/ In(t, x)
    <3>1. i = 1 \/ (i - 1 \in 1..Len(t) /\ t[i - 1] = s[(i - 1) + 1] /\ (i - 1) + 1 = i)
      BY <1>1
    <3> QED
      BY <1>1, <2>1, <3>1 DEF In
  <2>2. ASSUME NEW x, NEW i \in 1..Len(t), t[i] = x PROVE In(s, x)
    <3>1. i + 1 \in 1..Len(s)
      BY <1>1
    <3> QED
      BY <1>1, <2>2, <3>1 DEF In
  <2>3. 1 \in 1..Len(s)
    BY <1>1
  <2> QED
    BY <1>1, <2>1, <2>2, <2>3 DEF In
<1>3. ASSUME ChangedLast(s) PROVE ChangedLast(t) \/ (Head(s) = FileChanged /\ NoDelete(t))
  <2>1. PICK i \in 1..Len(s) : s[i] = FileChanged /\ \A j \in i..Len(s) : s[j] # FileDeleted
    BY <1>3 DEF ChangedLast
  <2>2. CASE i = 1
    <3>1. \A j \in 1..Len(t) : j + 1 \in i..Len(s)
      BY <1>1, <2>2
    <3> QED
      BY <1>1, <2>1, <2>2, <3>1 DEF NoDelete, In
  <2>3. CASE i # 1
    <3>1. i - 1 \in 1..Len(t) /\ t[i - 1] = s[i]
      BY <1>1, <2>3
    <3>2. ASSUME NEW j \in (i - 1)..Len(t) PROVE t[j] # FileDeleted
      <4>1. j \in 1..Len(t) /\ j + 1 \in i..Len(s)
        BY <1>1, <2>3
      <4> QED
        BY <1>1, <2>1, <4>1
    <3> QED
      BY <2>1, <3>1, <3>2 DEF ChangedLast
  <2> QED
    BY <2>2, <2>3
<1>4. ASSUME ChangedLast(t) PROVE ChangedLast(s)
  <2>1. PICK i \in 1..Len(t) : t[i] = FileChanged /\ \A j \in i..Len(t) : t[j] # FileDeleted
    BY <1>4 DEF ChangedLast
  <2>2. i + 1 \in 1..Len(s) /\ s[i + 1] = FileChanged
    BY <1>1, <2>1
  <2>3. ASSUME NEW j \in (i + 1)..Len(s) PROVE s[j] # FileDeleted
    <3>1. j - 1 \in i..Len(t) /\ j - 1 \in 1..Len(t) /\ (j - 1) + 1 = j
      BY <1>1
    <3> QED
      BY <1>1, <2>1, <3>1
  <2> QED
    BY <2>2, <2>3 DEF ChangedLast
<1>5. ASSUME Head(s) = FileChanged, NoDelete(t) PROVE ChangedLast(s)
  <2>1. 1 \in 1..Len(s) /\ s[1] = FileChanged
    BY <1>1, <1>5
  <2>2. ASSUME NEW j \in 1..Len(s), s[j] = FileDeleted PROVE FALSE
    <3>1. j # 1
      BY <1>1, <1>5, <2>2, TwoEvents
    <3>2. In(t, FileDeleted)
      <4>1. j - 1 \in 1..Len(t) /\ (j - 1) + 1 = j
        BY <1>1, <3>1
      <4> QED
        BY <1>1, <2>2, <4>1 DEF In
    <3> QED
      BY <1>5, <3>2 DEF NoDelete
  <2> QED
    BY <2>1, <2>2 DEF ChangedLast
<1> QED
  BY <1>2, <1>3, <1>4, <1>5 DEF t

LEMMA NothingInEmpty == NoDelete(<<>>) /\ ~ChangedLast(<<>>) /\ \A x : ~In(<<>>, x)
BY DEF NoDelete, ChangedLast, In
-----------------------------------------------------------------------------
(* The kernel's queue *)

Queue(q) == /\ q \in Seq(Real)
            /\ Len(q) <= MaxEvents + 1
            /\ ~In(q, Overflow) => Len(q) <= MaxEvents

LEMMA InIsToSet ==
  ASSUME NEW S, NEW s \in Seq(S), NEW e
  PROVE  In(s, e) <=> e \in ToSet(s)
BY DEF In, ToSet

LEMMA RealEvents == Real \subseteq Event /\ Overflow \in Real
BY DEF Real, Event, Kinds, On, Overflow, FileChanged, FileDeleted, FileMoved, CopyRemoved,
       CopyLeft, CopyCame

\* What Push makes of a queue.
LEMMA Pushed ==
  ASSUME NEW q, Queue(q), NEW e \in Real, e # Overflow
  PROVE  /\ Queue(Push(q, e))
         /\ ~Dropped(q, e) => \/ Push(q, e) = Append(q, e)
                              \/ Push(q, e) = q /\ q # <<>> /\ q[Len(q)] = e
         /\ ~Dropped(q, e) => (In(Push(q, e), Overflow) <=> In(q, Overflow))
<1>1. q \in Seq(Real) /\ Overflow \in Real /\ Len(q) \in Nat /\ MaxEvents \in Nat
  BY RealEvents, MonitorAssumption DEF Queue
<1>2. CASE Dropped(q, e)
  <2>1. Push(q, e) = IF In(q, Overflow) THEN q ELSE Append(q, Overflow)
    BY <1>1, <1>2, InIsToSet DEF Push
  <2>2. CASE In(q, Overflow)
    BY <1>2, <2>1, <2>2
  <2>3. CASE ~In(q, Overflow)
    <3>1. /\ Append(q, Overflow) \in Seq(Real) /\ Len(Append(q, Overflow)) = Len(q) + 1
          /\ Then(q, Overflow, Append(q, Overflow))
      BY <1>1, AppendProperties, AppendIsThen
    <3>2. In(Append(q, Overflow), Overflow) /\ Len(q) <= MaxEvents
      BY <3>1, <2>3 DEF Then, Queue
    <3> QED
      BY <1>1, <1>2, <2>1, <2>3, <3>1, <3>2 DEF Queue
  <2> QED
    BY <2>2, <2>3
<1>3. CASE ~Dropped(q, e) /\ Merged(q, e)
  BY <1>3 DEF Push, Merged, Last
<1>4. CASE ~Dropped(q, e) /\ ~Merged(q, e)
  <2>1. Push(q, e) = Append(q, e) /\ Len(q) < MaxEvents
    BY <1>1, <1>4 DEF Push, Dropped
  <2>2. Append(q, e) \in Seq(Real) /\ Len(Append(q, e)) = Len(q) + 1 /\ Then(q, e, Append(q, e))
    BY <1>1, AppendProperties, AppendIsThen
  <2>3. In(Append(q, e), Overflow) <=> In(q, Overflow)
    BY <2>2 DEF Then
  <2> QED
    BY <1>1, <1>4, <2>1, <2>2, <2>3 DEF Queue
<1> QED
  BY <1>2, <1>3, <1>4

\* ... behind the events the monitor has read but not handled.
LEMMA PushedBehind ==
  ASSUME NEW q, Queue(q), NEW e \in Real, e # Overflow, NEW b \in Seq(Real), ~Dropped(q, e)
  PROVE  b \o q \in Seq(Real) /\ Then(b \o q, e, b \o Push(q, e))
<1>1. q \in Seq(Real) /\ b \o q \in Seq(Real)
  BY ConcatProperties DEF Queue
<1>2. CASE Push(q, e) = Append(q, e)
  <2>1. <<e>> \in Seq(Real)
    OBVIOUS
  <2>2. b \o Append(q, e) = Append(b \o q, e)
    BY <1>1, <2>1, AppendIsConcat, ConcatAssociative
  <2> QED
    BY <1>1, <1>2, <2>2, AppendIsThen
<1>3. CASE Push(q, e) = q /\ q # <<>> /\ q[Len(q)] = e
  <2> DEFINE s == b \o q
  <2>1. /\ Len(q) \in Nat \ {0} /\ Len(b) \in Nat /\ Len(s) = Len(b) + Len(q)
        /\ s[Len(s)] = IF Len(s) <= Len(b) THEN b[Len(s)] ELSE q[Len(s) - Len(b)]
    <3>1. /\ Len(q) \in Nat \ {0} /\ Len(b) \in Nat /\ Len(s) = Len(b) + Len(q)
      BY <1>1, <1>3, ConcatProperties, LenProperties, EmptySeq
    <3>2. Len(s) \in 1..Len(b) + Len(q)
      BY <3>1
    <3> QED
      BY <1>1, <3>1, <3>2, ConcatProperties
  <2>2. s[Len(s)] = e /\ s # <<>>
    <3>1. ~(Len(s) <= Len(b)) /\ Len(s) - Len(b) = Len(q)
      BY <2>1
    <3>2. s # <<>>
      BY <1>1, <1>3, ConcatEqualIffEmpty
    <3> QED
      BY <1>3, <2>1, <3>1, <3>2
  <2>3. s \in Seq(Real)
    BY <1>1
  <2> HIDE DEF s
  <2>4. Then(s, e, s)
    BY <2>2, <2>3, AgainIsThen
  <2> QED
    BY <1>1, <1>3, <2>4 DEF s
<1> QED
  BY <1>2, <1>3, Pushed

LEMMA NamedEvents ==
  ASSUME NEW s \in Seq(Real)
  PROVE  /\ Named(s) \in Seq(Real)
         /\ ~In(s, Overflow) => Named(s) = s
<1>1. CASE ~In(s, Overflow)
  BY <1>1, InIsToSet DEF Named
<1>2. CASE In(s, Overflow)
  <2> DEFINE i == CHOOSE k \in DOMAIN s : s[k] = Overflow
  <2>1. Named(s) = RemoveAt(s, i)
    BY <1>2, InIsToSet DEF Named
  <2>2. i \in 1..Len(s)
    BY <1>2 DEF In
  <2> HIDE DEF i
  <2>3. SubSeq(s, 1, i - 1) \in Seq(Real) /\ SubSeq(s, i + 1, Len(s)) \in Seq(Real)
    <3>1. Len(s) \in Nat /\ i \in Nat
      BY <2>2
    <3>2. \A k \in 1..i - 1 : s[k] \in Real
      BY <2>2, <3>1, ElementOfSeq
    <3>3. \A k \in i + 1..Len(s) : s[k] \in Real
      BY <2>2, <3>1, ElementOfSeq
    <3> QED
      BY <3>1, <3>2, <3>3, <2>2, SubSeqProperties
  <2> QED
    BY <1>2, <2>1, <2>3, ConcatProperties DEF RemoveAt
<1> QED
  BY <1>1, <1>2
-----------------------------------------------------------------------------
(* Types *)

TypeInv == TypeOK /\ Queue(inotify) /\ batch \in Seq(Real)

LEMMA RealSeqs ==
  ASSUME NEW s \in Seq(Real) PROVE s \in Seq(Event)
<1>1. Len(s) \in Nat /\ s = [i \in 1..Len(s) |-> s[i]] /\ \A i \in 1..Len(s) : s[i] \in Event
  BY RealEvents, LenProperties, ElementOfSeq
<1> QED
  BY <1>1, RealEvents

Ahead == batch \o inotify
FewLosses == {"missed", "lost"}
OverflowSeen == In(inotify, Overflow) => "lost" \in losses

LEMMA Emitted ==
  ASSUME TypeInv, OverflowSeen, NEW e \in Real, e # Overflow, Emit(e), batch' = batch
  PROVE  /\ Queue(inotify')
         /\ losses' \subseteq FewLosses /\ losses \subseteq losses'
         /\ OverflowSeen'
         /\ losses' = {} => Then(Ahead, e, Ahead')
<1>1. Queue(inotify) /\ batch \in Seq(Real) /\ losses \subseteq FewLosses
  BY DEF TypeInv, TypeOK, FewLosses
<1> USE DEF FewLosses
<1>2. CASE watch = "none"
  BY <1>1, <1>2 DEF Emit, Enqueue, OverflowSeen
<1>3. CASE watch # "none" /\ Dropped(inotify, e)
  BY <1>1, <1>3, Pushed DEF Emit, Enqueue, OverflowSeen
<1>4. CASE watch # "none" /\ ~Dropped(inotify, e)
  <2>1. inotify' = Push(inotify, e) /\ losses' = losses
    BY <1>4 DEF Emit, Enqueue
  <2>2. Queue(inotify') /\ (In(inotify', Overflow) <=> In(inotify, Overflow))
    BY <1>1, <1>4, <2>1, Pushed
  <2>3. Then(Ahead, e, Ahead')
    BY <1>1, <1>4, <2>1, PushedBehind DEF Ahead
  <2> QED
    BY <1>1, <2>1, <2>2, <2>3 DEF OverflowSeen
<1> QED
  BY <1>2, <1>3, <1>4

LEMMA EmittedBoth ==
  ASSUME TypeInv, OverflowSeen, NEW d \in Real, d # Overflow, NEW e \in Real, e # Overflow,
         EmitBoth(d, e), batch' = batch
  PROVE  /\ Queue(inotify')
         /\ losses' \subseteq FewLosses /\ losses \subseteq losses'
         /\ OverflowSeen'
         /\ losses' = {} => \E s : Then(Ahead, d, s) /\ Then(s, e, Ahead')
<1> DEFINE q == Push(inotify, d)
<1>1. Queue(inotify) /\ batch \in Seq(Real) /\ losses \subseteq FewLosses
  BY DEF TypeInv, TypeOK, FewLosses
<1>2. Queue(q) /\ Queue(Push(q, e))
  BY <1>1, Pushed
<1>3. /\ ~Dropped(inotify, d) => (In(q, Overflow) <=> In(inotify, Overflow))
      /\ ~Dropped(inotify, d) => Then(Ahead, d, batch \o q)
  BY <1>1, Pushed, PushedBehind DEF Ahead
<1> HIDE DEF q
<1>4. /\ ~Dropped(q, e) => (In(Push(q, e), Overflow) <=> In(q, Overflow))
      /\ ~Dropped(q, e) => Then(batch \o q, e, batch \o Push(q, e))
  BY <1>1, <1>2, Pushed, PushedBehind
<1> USE DEF FewLosses
<1>5. CASE watch = "none"
  BY <1>1, <1>5 DEF EmitBoth, Enqueue, OverflowSeen
<1>6. CASE watch # "none"
  <2>1. /\ inotify' = Push(q, e)
        /\ losses' = IF Dropped(inotify, d) \/ Dropped(q, e) THEN losses \cup {"lost"} ELSE losses
    BY <1>6 DEF EmitBoth, Enqueue, q
  <2>2. CASE Dropped(inotify, d) \/ Dropped(q, e)
    BY <1>1, <1>2, <2>1, <2>2 DEF OverflowSeen
  <2>3. CASE ~(Dropped(inotify, d) \/ Dropped(q, e))
    <3>1. Then(Ahead, d, batch \o q) /\ Then(batch \o q, e, Ahead')
      BY <1>3, <1>4, <2>1, <2>3 DEF Ahead
    <3> QED
      BY <1>1, <1>2, <1>3, <1>4, <2>1, <2>3, <3>1 DEF OverflowSeen
  <2> QED
    BY <2>2, <2>3
<1> QED
  BY <1>5, <1>6

LEMMA EventHandled ==
  ASSUME TypeInv, batch # <<>>, batch' = Tail(batch), inotify' = inotify
  PROVE  /\ batch' \in Seq(Real)
         /\ Head(batch) \in Real
         /\ \A x : In(Ahead, x) <=> Head(batch) = x \/ In(Ahead', x)
         /\ ChangedLast(Ahead) <=> ChangedLast(Ahead') \/ (Head(batch) = FileChanged /\ NoDelete(Ahead'))
<1>1. inotify \in Seq(Real) /\ batch \in Seq(Real) /\ Tail(batch) \in Seq(Real) /\ Head(batch) \in Real
  BY HeadTailProperties DEF TypeInv, Queue
<1>2. Ahead \in Seq(Real) /\ Ahead # <<>>
  BY <1>1, ConcatProperties, ConcatEqualIffEmpty DEF Ahead
<1>3. Head(Ahead) = Head(batch) /\ Tail(Ahead) = Ahead'
  <2> DEFINE t == Tail(batch) \o inotify
  <2>1. /\ Len(batch) \in Nat \ {0} /\ Len(inotify) \in Nat
        /\ Len(Ahead) = Len(batch) + Len(inotify) /\ Len(Tail(batch)) = Len(batch) - 1
        /\ \A i \in 1..Len(Tail(batch)) : Tail(batch)[i] = batch[i + 1]
        /\ Head(batch) = batch[1] /\ Head(Ahead) = Ahead[1]
        /\ Len(t) = Len(Tail(batch)) + Len(inotify)
        /\ t \in Seq(Real) /\ Tail(Ahead) \in Seq(Real) /\ Len(Tail(Ahead)) = Len(Ahead) - 1
        /\ \A i \in 1..Len(Tail(Ahead)) : Tail(Ahead)[i] = Ahead[i + 1]
    BY <1>1, <1>2, ConcatProperties, HeadTailProperties, LenProperties, EmptySeq DEF Ahead
  <2>2. \A i \in 1..Len(batch) + Len(inotify) :
           Ahead[i] = IF i <= Len(batch) THEN batch[i] ELSE inotify[i - Len(batch)]
    BY <1>1, ConcatProperties DEF Ahead
  <2>3. \A i \in 1..Len(Tail(batch)) + Len(inotify) :
           t[i] = IF i <= Len(Tail(batch)) THEN Tail(batch)[i] ELSE inotify[i - Len(Tail(batch))]
    BY <1>1, ConcatProperties
  <2> HIDE DEF t
  <2>4. Head(Ahead) = Head(batch)
    <3>1. 1 \in 1..Len(batch) + Len(inotify) /\ 1 <= Len(batch)
      BY <2>1
    <3> QED
      BY <2>1, <2>2, <3>1
  <2>5. ASSUME NEW i \in 1..Len(t) PROVE t[i] = Tail(Ahead)[i]
    <3>1. i \in 1..Len(Tail(Ahead)) /\ i + 1 \in 1..Len(batch) + Len(inotify)
          /\ i \in 1..Len(Tail(batch)) + Len(inotify)
          /\ (i <= Len(Tail(batch)) <=> i + 1 <= Len(batch))
          /\ i - Len(Tail(batch)) = (i + 1) - Len(batch)
          /\ (i <= Len(Tail(batch)) => i \in 1..Len(Tail(batch)))
      BY <2>1
    <3> QED
      BY <2>1, <2>2, <2>3, <3>1
  <2>6. t = Tail(Ahead)
    BY <2>1, <2>5, SeqEqual
  <2> QED
    BY <2>4, <2>6 DEF t, Ahead
<1> QED
  BY <1>1, <1>2, <1>3, HeadAndTail

LEMMA RestOfQueue ==
  ASSUME NEW S, NEW s \in Seq(S), NEW n \in 1..Len(s)
  PROVE  /\ SubSeq(s, n + 1, Len(s)) \in Seq(S)
         /\ Len(SubSeq(s, n + 1, Len(s))) = Len(s) - n
         /\ \A i \in 1..Len(s) - n : SubSeq(s, n + 1, Len(s))[i] = s[n + i]
<1>1. PICK l \in Nat : l = Len(s)
  BY LenProperties
<1>2. PICK m \in Nat : m = n + 1
  BY <1>1
<1>3. n \in Nat /\ n <= l /\ m \in Int /\ l \in Int
  BY <1>1, <1>2
<1>4. \A i \in m..l : s[i] \in S
  <2>1. \A i \in m..l : i \in 1..Len(s)
    BY <1>1, <1>2, <1>3
  <2> QED
    BY <2>1, ElementOfSeq
<1> DEFINE r == SubSeq(s, m, l)
<1>5. /\ r \in Seq(S)
      /\ Len(r) = IF m <= l THEN l - m + 1 ELSE 0
      /\ \A i \in 1..l - m + 1 : r[i] = s[m + i - 1]
  BY <1>3, <1>4, SubSeqProperties
<1>6. r = SubSeq(s, n + 1, Len(s))
  BY <1>1, <1>2
<1> HIDE DEF r
<1>7. (IF m <= l THEN l - m + 1 ELSE 0) = l - n /\ l - m + 1 = l - n
  BY <1>2, <1>3
<1>8. \A i \in 1..l - n : m + i - 1 = n + i
  BY <1>2, <1>3
<1>9. Len(r) = l - n /\ \A i \in 1..l - n : r[i] = s[n + i]
  BY <1>5, <1>7, <1>8
<1> QED
  BY <1>1, <1>5, <1>6, <1>9

LEMMA BatchRead ==
  ASSUME TypeInv, OverflowSeen, ReadBatch
  PROVE  /\ batch' \in Seq(Real) /\ Queue(inotify')
         /\ OverflowSeen'
         /\ batch = <<>> /\ losses = {} => Ahead' = Ahead
<1>1. PICK n \in 1..Len(inotify) : /\ batch' = Named(SubSeq(inotify, 1, n))
                                   /\ inotify' = SubSeq(inotify, n + 1, Len(inotify))
  BY DEF ReadBatch
<1> DEFINE b == SubSeq(inotify, 1, n)
<1>2. /\ inotify \in Seq(Real) /\ Len(inotify) \in Nat /\ n \in Nat /\ MaxEvents \in Nat
      /\ Len(inotify) <= MaxEvents + 1 /\ \A i \in 1..Len(inotify) : inotify[i] \in Real
      /\ losses' = losses
  BY MonitorAssumption, ElementOfSeq, LenProperties DEF TypeInv, Queue, ReadBatch, history
<1>3. b \in Seq(Real) /\ Len(b) = n /\ \A i \in 1..n : b[i] = inotify[i]
  <2>1. 1 \in Int /\ n \in Int /\ 1 <= n /\ n - 1 + 1 = n /\ \A i \in 1..n : i \in 1..Len(inotify) /\ 1 + i - 1 = i
    BY <1>2
  <2>2. \A i \in 1..n : inotify[i] \in Real
    BY <1>2, <2>1
  <2>3. /\ b \in Seq(Real)
        /\ Len(b) = IF 1 <= n THEN n - 1 + 1 ELSE 0
        /\ \A i \in 1..n - 1 + 1 : b[i] = inotify[1 + i - 1]
    BY <2>1, <2>2, SubSeqProperties
  <2> QED
    BY <2>1, <2>3
<1>4. /\ inotify' \in Seq(Real) /\ Len(inotify') = Len(inotify) - n
      /\ \A i \in 1..Len(inotify) - n : inotify'[i] = inotify[n + i]
  BY <1>1, <1>2, RestOfQueue
<1>5. Queue(inotify')
  BY <1>2, <1>4 DEF Queue
<1>6. In(inotify', Overflow) => In(inotify, Overflow)
  <2>1. \A i \in 1..Len(inotify') : n + i \in 1..Len(inotify) /\ inotify'[i] = inotify[n + i]
    BY <1>2, <1>4
  <2> QED
    BY <2>1 DEF In
<1>7. In(b, Overflow) => In(inotify, Overflow)
  <2>1. \A i \in 1..Len(b) : i \in 1..Len(inotify) /\ b[i] = inotify[i]
    BY <1>2, <1>3
  <2> QED
    BY <2>1 DEF In
<1>8. b \o inotify' = inotify
  <2>1. 1 \in 1..Len(inotify) + 1 /\ n \in 1 - 1..Len(inotify) /\ Len(inotify) \in n..Len(inotify)
    BY <1>2
  <2>2. b \o SubSeq(inotify, n + 1, Len(inotify)) = SubSeq(inotify, 1, Len(inotify))
    BY <1>2, <2>1, ConcatAdjacentSubSeq
  <2> QED
    BY <1>1, <1>2, <2>2, SubSeqFull
<1> HIDE DEF b
<1>9. ASSUME batch = <<>>, losses = {} PROVE Ahead' = Ahead
  <2>1. batch' = b
    BY <1>1, <1>3, <1>7, <1>9, NamedEvents DEF OverflowSeen, b
  <2> QED
    BY <1>2, <1>8, <1>9, <2>1, ConcatEmptySeq DEF Ahead
<1> QED
  BY <1>1, <1>2, <1>3, <1>5, <1>6, <1>9, NamedEvents DEF OverflowSeen, b

OtherTypes ==
    /\ file \in BOOLEAN /\ copy \in BOOLEAN /\ older \in BOOLEAN
    /\ watch \in {"none", "kernel", "mapped"}
    /\ scanned \in BOOLEAN /\ running \in BOOLEAN
    /\ mon \in {"select", "read", "handle", "cookies", "debounce", "stopped"}
    /\ due \in 0..Delay \cup {None}
    /\ sinceCheck \in 0..CheckEvery
    /\ cookies \in [Cookies -> 0..(CookieTicks + 1) \cup {None}]
    /\ owed \subseteq {"start", "compress", "delete", "copy"}
    /\ losses \subseteq FewLosses
    /\ ops \in 0..MaxOps

LEMMA SplitTypes == TypeInv <=> OtherTypes /\ Queue(inotify) /\ batch \in Seq(Real)
BY RealSeqs DEF TypeInv, TypeOK, OtherTypes, FewLosses, Queue

LEMMA SplitTypesNext ==
  ASSUME OtherTypes', Queue(inotify'), batch' \in Seq(Real) PROVE TypeInv'
BY RealSeqs DEF TypeInv, TypeOK, OtherTypes, FewLosses, Queue

LEMMA InitTypes == Init => TypeInv /\ OverflowSeen
<1> SUFFICES ASSUME Init PROVE TypeInv /\ OverflowSeen
  OBVIOUS
<1>1. inotify = <<>> /\ batch = <<>> /\ Len(<<>>) = 0 /\ ~In(<<>>, Overflow) /\ <<>> \in Seq(Real) /\ <<>> \in Seq(Event)
  BY NothingInEmpty, EmptySeq DEF Init
<1>2. Queue(inotify)
  BY <1>1, MonitorAssumption DEF Queue
<1>3. OtherTypes
  <2>1. owed \subseteq {"start", "compress", "delete", "copy"}
    BY DEF Init
  <2>2. cookies \in [Cookies -> 0..(CookieTicks + 1) \cup {None}] /\ due \in 0..Delay \cup {None}
    BY DEF Init
  <2>3. /\ file \in BOOLEAN /\ copy \in BOOLEAN /\ older \in BOOLEAN /\ watch = "none"
        /\ scanned = FALSE /\ running = TRUE /\ mon = "select" /\ sinceCheck = 0 /\ ops = 0
        /\ losses \subseteq {"missed"}
    BY DEF Init
  <2>4. 0 \in 0..CheckEvery /\ 0 \in 0..MaxOps
    BY MonitorAssumption
  <2> QED
    BY <2>1, <2>2, <2>3, <2>4 DEF OtherTypes, FewLosses
<1> QED
  BY <1>1, <1>2, <1>3, SplitTypes DEF OverflowSeen

LEMMA UsersKeepTypes ==
  ASSUME TypeInv, OverflowSeen, Users PROVE TypeInv' /\ OverflowSeen'
<1>1. OtherTypes /\ Queue(inotify) /\ batch \in Seq(Real)
  BY SplitTypes
<1>2. ASSUME NEW e \in Real, e # Overflow, Emit(e), batch' = batch, Operate \/ ops' = ops, ByOthers,
             file' \in BOOLEAN, copy' \in BOOLEAN, older' \in BOOLEAN, owed' \subseteq {"start", "compress", "delete", "copy"}
      PROVE  TypeInv' /\ OverflowSeen'
  <2>1. Queue(inotify') /\ losses' \subseteq FewLosses /\ OverflowSeen'
    BY <1>2, Emitted
  <2>2. ops' \in 0..MaxOps
    BY <1>1, <1>2, MonitorAssumption DEF OtherTypes, Operate
  <2>3. OtherTypes'
    BY <1>1, <1>2, <2>1, <2>2 DEF OtherTypes, ByOthers, threads, maps
  <2> QED
    BY <1>1, <1>2, <2>1, <2>3, SplitTypesNext
<1>3. /\ FileChanged \in Real /\ FileDeleted \in Real /\ FileMoved \in Real /\ CopyRemoved \in Real
      /\ CopyCame(None) \in Real
      /\ \A c \in Cookies : CopyLeft(c) \in Real /\ CopyCame(c) \in Real
      /\ FileChanged # Overflow /\ FileDeleted # Overflow /\ FileMoved # Overflow
      /\ CopyRemoved # Overflow /\ \A c : CopyLeft(c) # Overflow /\ CopyCame(c) # Overflow
  BY DEF Real, FileChanged, FileDeleted, FileMoved, CopyRemoved, CopyLeft, CopyCame, On, Overflow
<1>4. CASE Change \/ Modify
  <2>1. Emit(FileChanged) /\ ByOthers /\ batch' = batch /\ file' = TRUE /\ copy' = copy
    BY <1>4 DEF Change, Modify, NewContent, FileChanged, ByOthers
  <2>2. older' \in BOOLEAN /\ (Operate \/ ops' = ops)
    BY <1>1, <1>4 DEF Change, Modify, OtherTypes
  <2>3. owed' \subseteq {"start", "compress", "delete", "copy"}
    BY <1>4 DEF Change, Modify, NewContent
  <2> QED
    BY <1>1, <1>2, <1>3, <2>1, <2>2, <2>3 DEF OtherTypes
<1>5. CASE Delete
  <2>1. Emit(FileDeleted)
    BY <1>5 DEF Delete, Vanish, FileDeleted
  <2> QED
    BY <1>1, <1>2, <1>3, <1>5, <2>1 DEF Delete, Vanish, OtherTypes, ByOthers
<1>6. CASE MoveAway
  <2>1. Emit(FileMoved)
    BY <1>6 DEF MoveAway, Vanish, FileMoved
  <2> QED
    BY <1>1, <1>2, <1>3, <1>6, <2>1 DEF MoveAway, Vanish, OtherTypes, ByOthers
<1>7. CASE DeleteCopy
  <2>1. Emit(CopyRemoved)
    BY <1>7 DEF DeleteCopy, LoseCopy, CopyRemoved
  <2> QED
    BY <1>1, <1>2, <1>3, <1>7, <2>1 DEF DeleteCopy, LoseCopy, OtherTypes, ByOthers
<1>8. CASE MoveCopyAway
  <2>1. PICK c \in Cookies : LoseCopy(CopyLeft(c))
    BY <1>8 DEF MoveCopyAway, CopyLeft
  <2>2. Emit(CopyLeft(c)) /\ CopyLeft(c) \in Real /\ CopyLeft(c) # Overflow
    BY <1>3, <2>1 DEF LoseCopy
  <2> QED
    BY <1>1, <1>2, <2>1, <2>2 DEF LoseCopy, OtherTypes, ByOthers
<1>9. CASE RenameCopy
  <2>1. PICK c \in Cookies : EmitBoth(CopyLeft(c), CopyCame(c))
    BY <1>9 DEF RenameCopy, CopyLeft, CopyCame
  <2>2. Operate /\ ByOthers /\ copy' = FALSE /\ older' = FALSE /\ UNCHANGED <<file, owed>> /\ batch' = batch
    BY <1>9 DEF RenameCopy, ByOthers
  <2>3. Queue(inotify') /\ losses' \subseteq FewLosses /\ OverflowSeen'
    BY <1>3, <2>1, <2>2, EmittedBoth
  <2>4. ops' \in 0..MaxOps
    BY <1>1, <2>2, MonitorAssumption DEF OtherTypes, Operate
  <2>5. OtherTypes'
    BY <1>1, <2>2, <2>3, <2>4 DEF OtherTypes, ByOthers, threads, maps
  <2> QED
    BY <1>1, <2>2, <2>3, <2>5, SplitTypesNext
<1>10. CASE Publish
  <2>1. Emit(CopyCame(None))
    BY <1>10 DEF Publish, CopyCame
  <2> QED
    BY <1>1, <1>2, <1>3, <1>10, <2>1 DEF Publish, OtherTypes, ByOthers
<1> QED
  BY <1>4, <1>5, <1>6, <1>7, <1>8, <1>9, <1>10 DEF Users
LEMMA ThreadsKeepTypes ==
  ASSUME TypeInv, OverflowSeen, AddWatch \/ MapWatch \/ Scan \/ Stop \/ Tick
  PROVE  TypeInv' /\ OverflowSeen'
<1>1. OtherTypes /\ Queue(inotify) /\ batch \in Seq(Real)
  BY SplitTypes
<1>2. ASSUME inotify' = inotify, batch' = batch, OtherTypes',
             "lost" \in losses => "lost" \in losses'
      PROVE  TypeInv' /\ OverflowSeen'
  BY <1>1, <1>2, SplitTypesNext DEF OverflowSeen
<1>3. CASE AddWatch \/ MapWatch
  <2>1. OtherTypes'
    BY <1>1, <1>3 DEF AddWatch, MapWatch, OtherTypes, world, maps, history
  <2> QED
    BY <1>2, <1>3, <2>1 DEF AddWatch, MapWatch, world, history
<1>4. CASE Scan
  <2>1. OtherTypes'
    BY <1>1, <1>4 DEF Scan, Passed, OtherTypes, world, maps, FewLosses
  <2>2. "lost" \in losses => "lost" \in losses'
    BY <1>4 DEF Scan, Passed
  <2> QED
    BY <1>2, <1>4, <2>1, <2>2 DEF Scan, world
<1>5. CASE Stop
  <2>1. OtherTypes'
    BY <1>1, <1>5 DEF Stop, OtherTypes, world, maps, history
  <2> QED
    BY <1>2, <1>5, <2>1 DEF Stop, world, history
<1>6. CASE Tick
  <2>1. due' \in 0..Delay \cup {None}
    BY <1>1, <1>6, MonitorAssumption DEF Tick, OtherTypes
  <2>2. sinceCheck' \in 0..CheckEvery
    BY <1>1, <1>6, MonitorAssumption DEF Tick, OtherTypes, Older
  <2>3. cookies' \in [Cookies -> 0..(CookieTicks + 1) \cup {None}]
    <3>1. \A c \in Cookies : (IF cookies[c] = None THEN None ELSE Older(cookies[c], CookieTicks + 1))
                             \in 0..(CookieTicks + 1) \cup {None}
      <4> SUFFICES ASSUME NEW c \in Cookies, cookies[c] # None
                   PROVE  Older(cookies[c], CookieTicks + 1) \in 0..(CookieTicks + 1)
        OBVIOUS
      <4>1. cookies[c] \in 0..(CookieTicks + 1)
        BY <1>1 DEF OtherTypes
      <4> QED
        BY <4>1, MonitorAssumption DEF Older
    <3> QED
      BY <1>6, <3>1 DEF Tick
  <2>4. OtherTypes'
    BY <1>1, <1>6, <2>1, <2>2, <2>3 DEF Tick, OtherTypes, world, threads
  <2> QED
    BY <1>2, <1>6, <2>4 DEF Tick, world
<1> QED
  BY <1>3, <1>4, <1>5, <1>6

LEMMA QueueingKeepsTypes ==
  ASSUME OtherTypes, QueueCompress \/ QueueDelete \/ UNCHANGED <<owed, losses>>
  PROVE  /\ owed' \subseteq {"start", "compress", "delete", "copy"}
         /\ losses' \subseteq FewLosses
         /\ losses \subseteq losses'
BY DEF OtherTypes, QueueCompress, QueueDelete, FewLosses

LEMMA MonitorKeepsTypes ==
  ASSUME TypeInv, OverflowSeen, MonitorThread PROVE TypeInv' /\ OverflowSeen'
<1>1. OtherTypes /\ Queue(inotify) /\ batch \in Seq(Real)
  BY SplitTypes
<1>2. ASSUME inotify' = inotify, batch' \in Seq(Real), OtherTypes', losses \subseteq losses'
      PROVE  TypeInv' /\ OverflowSeen'
  BY <1>1, <1>2, SplitTypesNext DEF OverflowSeen
<1>3. CASE Select \/ EndOfBatch
  <2>1. OtherTypes'
    BY <1>1, <1>3 DEF Select, EndOfBatch, Goto, OtherTypes, world, threads, maps, history
  <2> QED
    BY <1>1, <1>2, <1>3, <2>1 DEF Select, EndOfBatch, world, history
<1>4. CASE ReadBatch
  <2>1. OtherTypes'
    BY <1>1, <1>4 DEF ReadBatch, Goto, OtherTypes, threads, maps, history
  <2> QED
    BY <1>4, <2>1, BatchRead, SplitTypesNext
<1>5. ASSUME batch # <<>>, batch' = Tail(batch), UNCHANGED <<world, threads, mon, sinceCheck>>,
             due' \in 0..Delay \cup {None},
             cookies' \in [Cookies -> 0..(CookieTicks + 1) \cup {None}],
             owed' \subseteq {"start", "compress", "delete", "copy"},
             losses' \subseteq FewLosses, losses \subseteq losses'
      PROVE  TypeInv' /\ OverflowSeen'
  <2>1. OtherTypes'
    BY <1>1, <1>5 DEF OtherTypes, world, threads
  <2>2. batch' \in Seq(Real)
    BY <1>1, <1>5, HeadTailProperties
  <2> QED
    BY <1>2, <1>5, <2>1, <2>2 DEF world
<1>6. /\ due \in 0..Delay \cup {None} /\ Deadline \in 0..Delay
      /\ cookies \in [Cookies -> 0..(CookieTicks + 1) \cup {None}] /\ 0 \in 0..(CookieTicks + 1)
      /\ owed \subseteq {"start", "compress", "delete", "copy"} /\ losses \subseteq FewLosses
  BY <1>1, MonitorAssumption DEF OtherTypes, Deadline
<1>7. CASE UnknownWatch \/ UnknownPath
  <2>1. losses' \subseteq FewLosses /\ losses \subseteq losses'
    BY <1>6, <1>7 DEF UnknownWatch, UnknownPath, FewLosses
  <2> QED
    BY <1>5, <1>6, <1>7, <2>1 DEF UnknownWatch, UnknownPath, maps
<1>8. CASE Changed
  BY <1>5, <1>6, <1>8 DEF Changed, Event1
<1>9. CASE Deleted
  BY <1>1, <1>5, <1>6, <1>9, QueueingKeepsTypes DEF Deleted, Event1
<1>10. CASE MovedFrom
  BY <1>1, <1>5, <1>6, <1>10, QueueingKeepsTypes DEF MovedFrom, Event1, maps
<1>11. CASE CopyDeleted
  BY <1>1, <1>5, <1>6, <1>11, QueueingKeepsTypes DEF CopyDeleted, Event1, maps
<1>12. CASE CopyMovedFrom
  <2>1. cookies' \in [Cookies -> 0..(CookieTicks + 1) \cup {None}]
    BY <1>6, <1>12 DEF CopyMovedFrom
  <2> QED
    BY <1>5, <1>6, <1>12, <2>1 DEF CopyMovedFrom, Event1, history
<1>13. CASE CopyMovedTo
  <2>1. cookies' \in [Cookies -> 0..(CookieTicks + 1) \cup {None}]
    BY <1>6, <1>13 DEF CopyMovedTo
  <2> QED
    BY <1>5, <1>6, <1>13, <2>1 DEF CopyMovedTo, Event1, history
<1>14. CASE CleanCookies
  <2>1. cookies' \in [Cookies -> 0..(CookieTicks + 1) \cup {None}]
    BY <1>6, <1>14 DEF CleanCookies
  <2>2. /\ owed' \subseteq {"start", "compress", "delete", "copy"}
        /\ losses' \subseteq FewLosses /\ losses \subseteq losses'
    BY <1>1, <1>14, QueueingKeepsTypes DEF CleanCookies, Expiry, Hand
  <2>3. OtherTypes'
    BY <1>1, <1>14, <2>1, <2>2 DEF CleanCookies, Goto, OtherTypes, world, threads
  <2> QED
    BY <1>1, <1>2, <1>14, <2>2, <2>3 DEF CleanCookies, world
<1>15. CASE CheckDebounce
  <2>1. sinceCheck' \in 0..CheckEvery /\ due' \in 0..Delay \cup {None}
    BY <1>1, <1>15, MonitorAssumption DEF CheckDebounce, LastCheck, OtherTypes
  <2>2. /\ owed' \subseteq {"start", "compress", "delete", "copy"}
        /\ losses' \subseteq FewLosses /\ losses \subseteq losses'
    BY <1>1, <1>15, QueueingKeepsTypes DEF CheckDebounce, Hand
  <2>3. OtherTypes'
    BY <1>1, <1>15, <2>1, <2>2 DEF CheckDebounce, Goto, NextTurn, OtherTypes, world, threads
  <2> QED
    BY <1>1, <1>2, <1>15, <2>2, <2>3 DEF CheckDebounce, world
<1> QED
  BY <1>3, <1>4, <1>7, <1>8, <1>9, <1>10, <1>11, <1>12, <1>13, <1>14, <1>15 DEF MonitorThread

LEMMA NextKeepsTypes ==
  ASSUME TypeInv, OverflowSeen, [Next]_vars PROVE TypeInv' /\ OverflowSeen'
<1>1. CASE Next
  BY <1>1, UsersKeepTypes, ThreadsKeepTypes, MonitorKeepsTypes DEF Next
<1>2. CASE UNCHANGED vars
  BY <1>2 DEF vars, TypeInv, TypeOK, OverflowSeen
<1> QED
  BY <1>1, <1>2

\* The variables of the monitor keep their types; in particular its queue stays
\* within what the kernel grants (Monitor::run and the kernel's queue).
THEOREM MonitorTypeCorrect == Spec => []TypeOK
<1>1. TypeInv /\ OverflowSeen => TypeOK
  BY DEF TypeInv
<1> QED
  BY <1>1, InitTypes, NextKeepsTypes, PTL DEF Spec
LEMMA InEither ==
  ASSUME NEW S, NEW s \in Seq(S), NEW t \in Seq(S), NEW x
  PROVE  In(s \o t, x) => In(s, x) \/ In(t, x)
<1>1. Len(s) \in Nat /\ Len(t) \in Nat /\ Len(s \o t) = Len(s) + Len(t)
  BY ConcatProperties, LenProperties
<1> SUFFICES ASSUME NEW i \in 1..Len(s) + Len(t), (s \o t)[i] = x PROVE In(s, x) \/ In(t, x)
  BY <1>1 DEF In
<1>2. x = IF i <= Len(s) THEN s[i] ELSE t[i - Len(s)]
  BY ConcatProperties
<1>3. CASE i <= Len(s)
  BY <1>1, <1>2, <1>3 DEF In
<1>4. CASE ~(i <= Len(s))
  <2>1. i - Len(s) \in 1..Len(t)
    BY <1>1, <1>4
  <2> QED
    BY <1>2, <1>4, <2>1 DEF In
<1> QED
  BY <1>3, <1>4
-----------------------------------------------------------------------------
(* What is owed is ahead *)

\* The removal of the original, its change, the loss of its copy, each as what
\* is still ahead of the monitor thread when nothing was lost.
RemovalAhead == In(Ahead, FileDeleted) \/ In(Ahead, FileMoved)
ChangeAhead == ChangedLast(Ahead) \/ (NoDelete(Ahead) /\ due # None)
LossAhead == \/ In(Ahead, CopyRemoved)
             \/ \E c \in Cookies : /\ cookies[c] # None \/ In(Ahead, CopyLeft(c))
                                   /\ ~In(Ahead, CopyCame(c))

Debts == /\ file => "delete" \notin owed
         /\ ~file => owed \subseteq {"delete"}
         /\ "copy" \in owed => ~copy
Found == file /\ ~scanned /\ ~Current
Noticed == /\ "delete" \in owed => RemovalAhead
           /\ "start" \in owed => Found
           /\ "compress" \in owed => ChangeAhead
           /\ "copy" \in owed => LossAhead

IInv == /\ TypeInv /\ OverflowSeen
        /\ mon # "handle" => batch = <<>>
        /\ Debts
        /\ losses = {} => Noticed

LEMMA EventsDiffer ==
  /\ FileChanged \in Real /\ FileDeleted \in Real /\ FileMoved \in Real /\ CopyRemoved \in Real
  /\ FileChanged # Overflow /\ FileDeleted # Overflow /\ FileMoved # Overflow /\ CopyRemoved # Overflow
  /\ FileChanged # FileDeleted /\ FileMoved # FileDeleted /\ CopyRemoved # FileDeleted
  /\ FileMoved # FileChanged /\ CopyRemoved # FileChanged
  /\ \A c : /\ CopyLeft(c) \notin {Overflow, FileDeleted, FileChanged, FileMoved, CopyRemoved}
            /\ CopyCame(c) \notin {Overflow, FileDeleted, FileChanged, FileMoved, CopyRemoved}
  /\ \A c, d : /\ CopyCame(c) # CopyLeft(d)
               /\ CopyCame(c) = CopyCame(d) => c = d
               /\ CopyLeft(c) = CopyLeft(d) => c = d
  /\ \A c \in Cookies : CopyLeft(c) \in Real /\ CopyCame(c) \in Real
  /\ CopyCame(None) \in Real
BY DEF Real, FileChanged, FileDeleted, FileMoved, CopyRemoved, CopyLeft, CopyCame, On, Overflow

LEMMA CopiesDiffer ==
  /\ \A c : /\ CopyCame(c) # FileMoved /\ CopyCame(c) # CopyRemoved
            /\ CopyCame(c) # FileDeleted /\ CopyCame(c) # FileChanged
            /\ CopyLeft(c) # FileMoved /\ CopyLeft(c) # FileDeleted
  /\ CopyRemoved # FileMoved /\ CopyRemoved # FileDeleted
BY EventsDiffer DEF CopyRemoved, FileMoved, On

\* An event behind the others takes nothing away that is ahead.
LEMMA StillAhead ==
  ASSUME NEW e, Then(Ahead, e, Ahead'), UNCHANGED maps
  PROVE  /\ RemovalAhead => RemovalAhead'
         /\ e # FileDeleted /\ ChangeAhead => ChangeAhead'
         /\ (\A c \in Cookies : e # CopyCame(c)) /\ LossAhead => LossAhead'
<1>1. /\ \A x : In(Ahead', x) <=> In(Ahead, x) \/ x = e
      /\ ChangedLast(Ahead') <=> e = FileChanged \/ (ChangedLast(Ahead) /\ e # FileDeleted)
      /\ due' = due /\ cookies' = cookies
  BY DEF Then, maps
<1>2. RemovalAhead => RemovalAhead'
  BY <1>1 DEF RemovalAhead
<1>3. e # FileDeleted /\ ChangeAhead => ChangeAhead'
  BY <1>1 DEF ChangeAhead, NoDelete
<1>4. ASSUME \A c \in Cookies : e # CopyCame(c), LossAhead PROVE LossAhead'
  BY <1>1, <1>4 DEF LossAhead
<1> QED
  BY <1>2, <1>3, <1>4

LEMMA UsersKeepNoticed ==
  ASSUME IInv, Users PROVE IInv'
<1>1. TypeInv /\ OverflowSeen /\ (mon # "handle" => batch = <<>>) /\ Debts
  BY DEF IInv
<1>2. TypeInv' /\ OverflowSeen'
  BY <1>1, UsersKeepTypes
<1>3. UNCHANGED <<threads, mon, batch, maps>>
  BY DEF Users, Change, Modify, NewContent, Delete, MoveAway, Vanish, DeleteCopy, MoveCopyAway, LoseCopy, RenameCopy,
         Publish, ByOthers
<1> SUFFICES Debts' /\ (losses' = {} => Noticed')
  BY <1>1, <1>2, <1>3 DEF IInv
<1>4. ASSUME NEW e \in Real, e # Overflow, Emit(e)
      PROVE  losses' = {} => Then(Ahead, e, Ahead') /\ Noticed
  <2>1. losses \subseteq losses' /\ (losses' = {} => Then(Ahead, e, Ahead'))
    BY <1>1, <1>3, <1>4, Emitted
  <2> QED
    BY <2>1 DEF IInv
<1>5. /\ \A x, e : Then(Ahead, e, Ahead') => In(Ahead', e)
      /\ Then(Ahead, FileChanged, Ahead') => ChangedLast(Ahead')
      /\ UNCHANGED maps /\ scanned' = scanned /\ cookies' = cookies
  BY <1>3 DEF Then, maps, threads
<1>6. CASE Change \/ Modify
  <2>1. Emit(FileChanged) /\ file' = TRUE /\ owed' = {"compress"} \cup (owed \cap {"copy"}) /\ copy' = copy
    BY <1>6 DEF Change, Modify, NewContent, FileChanged
  <2>2. Debts'
    BY <1>1, <2>1 DEF Debts
  <2>3. ASSUME losses' = {} PROVE Noticed'
    <3>1. Then(Ahead, FileChanged, Ahead') /\ Noticed
      BY <1>4, <2>1, <2>3, EventsDiffer
    <3>2. ChangeAhead'
      BY <1>5, <3>1 DEF ChangeAhead
    <3>3. LossAhead => LossAhead'
      BY <1>5, <3>1, StillAhead, CopiesDiffer
    <3> QED
      BY <2>1, <3>1, <3>2, <3>3 DEF Noticed, Found, Current
  <2> QED
    BY <2>2, <2>3
<1>7. CASE Delete \/ MoveAway
  <2>1. /\ Emit(FileDeleted) \/ Emit(FileMoved)
        /\ file' = FALSE /\ owed' = {"delete"} /\ copy' = copy
    BY <1>7 DEF Delete, MoveAway, Vanish, FileDeleted, FileMoved
  <2>2. Debts'
    BY <2>1 DEF Debts
  <2>3. ASSUME losses' = {} PROVE Noticed'
    <3>1. Then(Ahead, FileDeleted, Ahead') \/ Then(Ahead, FileMoved, Ahead')
      BY <1>4, <2>1, <2>3, EventsDiffer
    <3>2. RemovalAhead'
      BY <1>5, <3>1 DEF RemovalAhead
    <3> QED
      BY <2>1, <3>2 DEF Noticed, Found, Current
  <2> QED
    BY <2>2, <2>3
<1>8. CASE DeleteCopy
  <2>1. /\ Emit(CopyRemoved) /\ file' = file /\ copy' = FALSE
        /\ owed' = IF file THEN owed \cup {"copy"} ELSE owed
    BY <1>8 DEF DeleteCopy, LoseCopy, CopyRemoved
  <2>2. Debts'
    BY <1>1, <2>1 DEF Debts
  <2>3. ASSUME losses' = {} PROVE Noticed'
    <3>1. Then(Ahead, CopyRemoved, Ahead') /\ Noticed
      BY <1>4, <2>1, <2>3, EventsDiffer
    <3>2. LossAhead'
      BY <1>5, <3>1 DEF LossAhead
    <3>3. (RemovalAhead => RemovalAhead') /\ (ChangeAhead => ChangeAhead')
      BY <1>5, <3>1, StillAhead, EventsDiffer
    <3> QED
      BY <1>5, <2>1, <3>1, <3>2, <3>3 DEF Noticed, Found, Current
  <2> QED
    BY <2>2, <2>3
<1>9. CASE MoveCopyAway
  <2>1. PICK c \in Cookies : Free(c) /\ LoseCopy(CopyLeft(c))
    BY <1>9 DEF MoveCopyAway, CopyLeft
  <2>2. /\ Emit(CopyLeft(c)) /\ file' = file /\ copy' = FALSE
        /\ owed' = IF file THEN owed \cup {"copy"} ELSE owed
    BY <2>1 DEF LoseCopy
  <2>3. Debts'
    BY <1>1, <2>2 DEF Debts
  <2>4. ASSUME losses' = {} PROVE Noticed'
    <3>1. Then(Ahead, CopyLeft(c), Ahead') /\ Noticed
      BY <1>4, <2>2, <2>4, EventsDiffer
    <3>2. ~In(Ahead', CopyCame(c))
      <4>1. ~In(batch, CopyCame(c)) /\ ~In(inotify, CopyCame(c))
        BY <1>1, <2>1, InIsToSet DEF Free, CopyCame, On, TypeInv, Queue
      <4>2. ~In(Ahead, CopyCame(c))
        BY <1>1, <4>1, InEither DEF TypeInv, Queue, Ahead
      <4> QED
        BY <3>1, <4>2, EventsDiffer DEF Then
    <3>3. LossAhead'
      <4>1. In(Ahead', CopyLeft(c))
        BY <1>5, <3>1
      <4> QED
        BY <3>2, <4>1 DEF LossAhead
    <3>4. (RemovalAhead => RemovalAhead') /\ (ChangeAhead => ChangeAhead')
      BY <1>5, <3>1, StillAhead, EventsDiffer
    <3> QED
      BY <1>5, <2>2, <3>1, <3>3, <3>4 DEF Noticed, Found, Current
  <2> QED
    BY <2>3, <2>4
<1>10. CASE RenameCopy
  <2>1. PICK c \in Cookies : EmitBoth(CopyLeft(c), CopyCame(c))
    BY <1>10 DEF RenameCopy, CopyLeft, CopyCame
  <2>2. file' = file /\ copy = TRUE /\ copy' = FALSE /\ owed' = owed /\ "copy" \notin owed
    BY <1>1, <1>10 DEF RenameCopy, Debts, TypeInv, TypeOK
  <2>3. Debts'
    BY <1>1, <2>2 DEF Debts
  <2>4. ASSUME losses' = {} PROVE Noticed'
    <3>1. /\ losses \subseteq losses'
          /\ losses' = {} => \E s : Then(Ahead, CopyLeft(c), s) /\ Then(s, CopyCame(c), Ahead')
      BY <1>1, <1>3, <2>1, EmittedBoth, EventsDiffer
    <3>2. PICK s : Then(Ahead, CopyLeft(c), s) /\ Then(s, CopyCame(c), Ahead')
      BY <2>4, <3>1
    <3>3. Noticed
      BY <2>4, <3>1 DEF IInv
    <3>4. /\ \A x : In(Ahead, x) => In(Ahead', x)
          /\ In(Ahead', FileDeleted) => In(Ahead, FileDeleted)
          /\ ChangedLast(Ahead) => ChangedLast(Ahead')
      BY <3>2, EventsDiffer DEF Then
    <3>5. (RemovalAhead => RemovalAhead') /\ (ChangeAhead => ChangeAhead')
      BY <1>3, <3>4 DEF RemovalAhead, ChangeAhead, NoDelete, maps
    <3> QED
      BY <1>5, <2>2, <3>3, <3>5 DEF Noticed, Found, Current
  <2> QED
    BY <2>3, <2>4
<1>11. CASE Publish
  <2>1. /\ Emit(CopyCame(None)) /\ file' = file /\ copy' = TRUE /\ file
        /\ owed' = owed \ {"copy"} /\ "start" \notin owed
    BY <1>11 DEF Publish, CopyCame
  <2>2. Debts'
    BY <1>1, <2>1 DEF Debts
  <2>3. ASSUME losses' = {} PROVE Noticed'
    <3>1. Then(Ahead, CopyCame(None), Ahead') /\ Noticed
      BY <1>4, <2>1, <2>3, EventsDiffer
    <3>2. (RemovalAhead => RemovalAhead') /\ (ChangeAhead => ChangeAhead')
      BY <1>5, <3>1, StillAhead, CopiesDiffer
    <3> QED
      BY <1>5, <2>1, <3>1, <3>2 DEF Noticed, Found, Current
  <2> QED
    BY <2>2, <2>3
<1> QED
  BY <1>6, <1>7, <1>8, <1>9, <1>10, <1>11 DEF Users

LEMMA ThreadsKeepNoticed ==
  ASSUME IInv, AddWatch \/ MapWatch \/ Scan \/ Stop \/ Tick PROVE IInv'
<1>1. TypeInv /\ OverflowSeen /\ (mon # "handle" => batch = <<>>) /\ Debts
  BY DEF IInv
<1>2. TypeInv' /\ OverflowSeen'
  BY <1>1, ThreadsKeepTypes
<1>3. /\ UNCHANGED <<file, copy, older, inotify, batch, mon>> /\ Ahead' = Ahead
  BY DEF AddWatch, MapWatch, Scan, Stop, Tick, world, Ahead
<1>4. CASE AddWatch \/ MapWatch \/ Stop
  <2>1. UNCHANGED <<scanned, due, cookies, owed, losses>>
    BY <1>4 DEF AddWatch, MapWatch, Stop, maps, history
  <2>2. Debts' /\ (Noticed => Noticed')
    BY <1>1, <1>3, <2>1 DEF Debts, Noticed, Found, Current, RemovalAhead, ChangeAhead, LossAhead
  <2> QED
    BY <1>1, <1>2, <1>3, <2>1, <2>2 DEF IInv
<1>5. CASE Scan
  <2>1. UNCHANGED <<due, cookies, older>> /\ Passed
    BY <1>5 DEF Scan, maps, world
  <2>2. CASE Outdated /\ owed' = owed \cap {"delete"}
    <3>1. owed' = {}
      BY <1>1, <2>2 DEF Debts, Outdated
    <3> QED
      BY <1>1, <1>2, <1>3, <3>1 DEF IInv, Debts, Noticed, Found, Current
  <2>3. CASE losses' # {} /\ owed' = owed
    BY <1>1, <1>2, <1>3, <2>3 DEF IInv, Debts
  <2>4. CASE ~Outdated /\ UNCHANGED <<owed, losses>>
    <3>1. Debts' /\ (Noticed => Noticed')
      BY <1>1, <1>3, <2>1, <2>4 DEF Outdated, Debts, Noticed, Found, Current, RemovalAhead, ChangeAhead,
        LossAhead
    <3> QED
      BY <1>1, <1>2, <1>3, <2>4, <3>1 DEF IInv
  <2> QED
    BY <2>1, <2>2, <2>3, <2>4 DEF Passed
<1>6. CASE Tick
  <2>1. UNCHANGED <<scanned, owed, losses>>
    BY <1>6 DEF Tick, threads
  <2>2. due # None => due' # None
    <3>1. due \in 0..Delay \cup {None}
      BY <1>1 DEF TypeInv, TypeOK
    <3> QED
      BY <1>6, <3>1, NoneAssumption, MonitorAssumption DEF Tick
  <2>3. ASSUME NEW c \in Cookies, cookies[c] # None PROVE cookies'[c] # None
    <3>1. cookies[c] \in 0..(CookieTicks + 1) /\ CookieTicks \in Nat
      BY <1>1, <2>3, MonitorAssumption DEF TypeInv, TypeOK
    <3>2. cookies'[c] = Older(cookies[c], CookieTicks + 1)
      BY <1>6, <2>3 DEF Tick
    <3>3. Older(cookies[c], CookieTicks + 1) \in Nat
      BY <3>1 DEF Older
    <3> QED
      BY <3>2, <3>3, NoneAssumption
  <2>4. Debts' /\ (Noticed => Noticed')
    BY <1>1, <1>3, <2>1, <2>2, <2>3 DEF Debts, Noticed, Found, Current, RemovalAhead,
        ChangeAhead, LossAhead
  <2> QED
    BY <1>1, <1>2, <1>3, <2>1, <2>4 DEF IInv
<1> QED
  BY <1>4, <1>5, <1>6

\* A task that was handed over settles what it is for, or was refused.
LEMMA HandedOver ==
  /\ QueueCompress => /\ losses' = {} => losses = {} /\ owed' = owed \cap {"delete"}
                      /\ owed' \subseteq owed
  /\ QueueDelete => /\ losses' = {} => losses = {} /\ owed' = owed \ {"delete"}
                    /\ owed' \subseteq owed
BY DEF QueueCompress, QueueDelete

LEMMA MonitorKeepsNoticed ==
  ASSUME IInv, MonitorThread PROVE IInv'
<1>1. TypeInv /\ OverflowSeen /\ (mon # "handle" => batch = <<>>) /\ Debts
  BY DEF IInv
<1>2. TypeInv' /\ OverflowSeen'
  BY <1>1, MonitorKeepsTypes
<1>3. /\ UNCHANGED <<file, copy, older, scanned>>
      /\ owed' \subseteq owed
  BY HandedOver DEF MonitorThread, Select, ReadBatch, UnknownWatch, UnknownPath, Changed, Deleted, MovedFrom, CopyDeleted,
     CopyMovedFrom, CopyMovedTo, EndOfBatch, CleanCookies, CheckDebounce, Event1, Expiry, Hand,
     world, threads, history
<1>4. Debts'
  BY <1>1, <1>3 DEF Debts
<1> SUFFICES (mon' # "handle" => batch' = <<>>) /\ (losses' = {} => Noticed')
  BY <1>2, <1>4 DEF IInv
<1>5. CASE Select \/ EndOfBatch
  <2>1. UNCHANGED <<inotify, due, cookies, owed, losses>> /\ batch' = batch /\ batch = <<>>
    BY <1>1, <1>5 DEF Select, EndOfBatch, world, maps, history
  <2>2. Noticed => Noticed'
    BY <1>3, <2>1 DEF Noticed, Found, Current, RemovalAhead, ChangeAhead, LossAhead, Ahead
  <2> QED
    BY <2>1, <2>2 DEF IInv
<1>6. CASE ReadBatch
  <2>1. /\ UNCHANGED <<due, cookies, owed, losses>> /\ mon' = "handle" /\ batch = <<>>
        /\ losses = {} => Ahead' = Ahead
    BY <1>1, <1>6, BatchRead DEF ReadBatch, Goto, maps, history
  <2>2. Ahead' = Ahead /\ Noticed => Noticed'
    BY <1>3, <2>1 DEF Noticed, Found, Current, RemovalAhead, ChangeAhead, LossAhead
  <2> QED
    BY <2>1, <2>2 DEF IInv
<1>7. CASE UnknownWatch \/ UnknownPath
  <2>1. losses' # {} /\ mon = "handle" /\ mon' = mon
    BY <1>7 DEF UnknownWatch, UnknownPath
  <2> QED
    BY <2>1
<1>8. ASSUME NEW what, NEW kind, Event1(what, kind)
      PROVE  /\ mon' = "handle" /\ Head(batch).on = what /\ Head(batch).kind = kind
             /\ Head(batch) \in Real
             /\ \A x : In(Ahead, x) <=> Head(batch) = x \/ In(Ahead', x)
             /\ ChangedLast(Ahead) <=>
                  ChangedLast(Ahead') \/ (Head(batch) = FileChanged /\ NoDelete(Ahead'))
  BY <1>1, <1>8, EventHandled DEF Event1, world
<1>9. /\ \A e \in Real : e.on = "file" /\ e.kind = "changed" => e = FileChanged
      /\ \A e \in Real : e.on = "file" /\ e.kind = "deleted" => e = FileDeleted
      /\ \A e \in Real : e.on = "file" /\ e.kind = "movedFrom" => e = FileMoved
      /\ \A e \in Real : e.on = "copy" /\ e.kind = "deleted" => e = CopyRemoved
      /\ \A e \in Real : e.on = "copy" /\ e.kind = "movedFrom" =>
            e.cookie \in Cookies /\ e = CopyLeft(e.cookie)
      /\ \A e \in Real : e.on = "copy" /\ e.kind = "movedTo" => e = CopyCame(e.cookie)
  BY DEF Real, FileChanged, FileDeleted, FileMoved, CopyRemoved, CopyLeft, CopyCame, On, Overflow
<1>10. CASE Changed
  <2>1. /\ mon' = "handle" /\ Head(batch) = FileChanged /\ due' # None
        /\ UNCHANGED <<cookies, owed, losses>>
    <3>1. Deadline # None
      BY <1>1, NoneAssumption, MonitorAssumption DEF Deadline, TypeInv, TypeOK
    <3> QED
      BY <1>8, <1>9, <1>10, <3>1 DEF Changed
  <2>2. /\ \A x : In(Ahead, x) <=> FileChanged = x \/ In(Ahead', x)
        /\ ChangedLast(Ahead) => ChangedLast(Ahead') \/ NoDelete(Ahead')
    BY <1>8, <1>10, <2>1 DEF Changed
  <2>3. (RemovalAhead => RemovalAhead') /\ (ChangeAhead => ChangeAhead') /\ (LossAhead => LossAhead')
    BY <2>1, <2>2, EventsDiffer DEF RemovalAhead, ChangeAhead, LossAhead, NoDelete
  <2> QED
    BY <1>3, <2>1, <2>3 DEF IInv, Noticed, Found, Current
<1>11. CASE Deleted
  <2>1. /\ mon' = "handle" /\ Head(batch) = FileDeleted /\ cookies' = cookies
        /\ losses' = {} => losses = {} /\ owed' = owed \ {"delete"}
    BY <1>8, <1>9, <1>11, HandedOver DEF Deleted
  <2>2. /\ \A x : In(Ahead, x) <=> FileDeleted = x \/ In(Ahead', x)
        /\ ChangedLast(Ahead) => ChangedLast(Ahead')
    BY <1>8, <1>11, <2>1, EventsDiffer DEF Deleted
  <2>3. ChangeAhead => ChangeAhead'
    BY <2>1, <2>2, EventsDiffer DEF ChangeAhead, NoDelete
  <2>4. LossAhead => LossAhead'
    <3>1. /\ In(Ahead, CopyRemoved) => In(Ahead', CopyRemoved)
          /\ \A c : In(Ahead, CopyLeft(c)) => In(Ahead', CopyLeft(c))
          /\ \A c : In(Ahead', CopyCame(c)) => In(Ahead, CopyCame(c))
      BY <2>2, CopiesDiffer
    <3> QED
      BY <2>1, <3>1 DEF LossAhead
  <2> QED
    BY <1>3, <2>1, <2>3, <2>4 DEF IInv, Noticed, Found, Current
<1>12. CASE MovedFrom
  <2>1. /\ mon' = "handle" /\ Head(batch) = FileMoved /\ due' = due /\ cookies' = cookies
        /\ losses' = {} => losses = {} /\ owed' = owed \ {"delete"}
    BY <1>8, <1>9, <1>12, HandedOver DEF MovedFrom, maps
  <2>2. /\ \A x : In(Ahead, x) <=> FileMoved = x \/ In(Ahead', x)
        /\ ChangedLast(Ahead) => ChangedLast(Ahead')
    BY <1>8, <1>12, <2>1, EventsDiffer DEF MovedFrom
  <2>3. ChangeAhead => ChangeAhead'
    BY <2>1, <2>2, EventsDiffer DEF ChangeAhead, NoDelete
  <2>4. LossAhead => LossAhead'
    <3>1. /\ In(Ahead, CopyRemoved) => In(Ahead', CopyRemoved)
          /\ \A c : In(Ahead, CopyLeft(c)) => In(Ahead', CopyLeft(c))
          /\ \A c : In(Ahead', CopyCame(c)) => In(Ahead, CopyCame(c))
      BY <2>2, CopiesDiffer
    <3> QED
      BY <2>1, <3>1 DEF LossAhead
  <2> QED
    BY <1>3, <2>1, <2>3, <2>4 DEF IInv, Noticed, Found, Current
<1>13. CASE CopyDeleted
  <2>1. /\ mon' = "handle" /\ Head(batch) = CopyRemoved /\ due' = due /\ cookies' = cookies
        /\ losses' = {} => losses = {} /\ owed' = owed \cap {"delete"}
    BY <1>8, <1>9, <1>13, HandedOver DEF CopyDeleted, maps
  <2>2. RemovalAhead => RemovalAhead'
    BY <1>8, <1>13, <2>1, EventsDiffer DEF CopyDeleted, RemovalAhead, CopyRemoved, FileDeleted, FileMoved, On
  <2> QED
    BY <2>1, <2>2 DEF IInv, Noticed, Found, Current
<1>14. CASE CopyMovedFrom
  <2>1. /\ mon' = "handle" /\ UNCHANGED <<due, owed, losses>>
        /\ cookies' = [cookies EXCEPT ![Head(batch).cookie] = 0]
        /\ Head(batch) \in Real /\ Head(batch).on = "copy" /\ Head(batch).kind = "movedFrom"
    BY <1>8, <1>14 DEF CopyMovedFrom, history
  <2>2. PICK d \in Cookies : Head(batch) = CopyLeft(d) /\ Head(batch).cookie = d
    BY <1>9, <2>1
  <2>3. /\ \A x : In(Ahead, x) <=> CopyLeft(d) = x \/ In(Ahead', x)
        /\ ChangedLast(Ahead) => ChangedLast(Ahead')
    BY <1>8, <1>14, <2>2, EventsDiffer DEF CopyMovedFrom
  <2>4. \A c \in Cookies : cookies'[c] = IF c = d THEN 0 ELSE cookies[c]
    BY <1>1, <2>1, <2>2 DEF TypeInv, TypeOK
  <2>5. (RemovalAhead => RemovalAhead') /\ (ChangeAhead => ChangeAhead')
    BY <2>1, <2>3, EventsDiffer DEF RemovalAhead, ChangeAhead, NoDelete
  <2>6. LossAhead => LossAhead'
    <3>1. In(Ahead, CopyRemoved) => In(Ahead', CopyRemoved)
      BY <2>3, EventsDiffer
    <3>2. ASSUME NEW c \in Cookies, cookies[c] # None \/ In(Ahead, CopyLeft(c)), ~In(Ahead, CopyCame(c))
          PROVE  (cookies'[c] # None \/ In(Ahead', CopyLeft(c))) /\ ~In(Ahead', CopyCame(c))
      BY <2>3, <2>4, <3>2, EventsDiffer, NoneAssumption
    <3> QED
      BY <3>1, <3>2 DEF LossAhead
  <2> QED
    BY <1>3, <2>1, <2>5, <2>6 DEF IInv, Noticed, Found, Current
<1>15. CASE CopyMovedTo
  <2>1. /\ mon' = "handle" /\ UNCHANGED <<due, owed, losses>>
        /\ cookies' = [c \in Cookies |-> IF c = Head(batch).cookie THEN None ELSE cookies[c]]
        /\ Head(batch) \in Real /\ Head(batch).on = "copy" /\ Head(batch).kind = "movedTo"
    BY <1>8, <1>15 DEF CopyMovedTo, history
  <2>2. PICK d : Head(batch) = CopyCame(d) /\ Head(batch).cookie = d
    BY <1>9, <2>1
  <2>3. /\ \A x : In(Ahead, x) <=> CopyCame(d) = x \/ In(Ahead', x)
        /\ ChangedLast(Ahead) => ChangedLast(Ahead')
    BY <1>8, <1>15, <2>2, EventsDiffer DEF CopyMovedTo
  <2>4. (RemovalAhead => RemovalAhead') /\ (ChangeAhead => ChangeAhead')
    BY <2>1, <2>3, CopiesDiffer DEF RemovalAhead, ChangeAhead, NoDelete
  <2>5. LossAhead => LossAhead'
    <3>1. In(Ahead, CopyRemoved) => In(Ahead', CopyRemoved)
      BY <2>3, CopiesDiffer
    <3>2. ASSUME NEW c \in Cookies, cookies[c] # None \/ In(Ahead, CopyLeft(c)), ~In(Ahead, CopyCame(c))
          PROVE  (cookies'[c] # None \/ In(Ahead', CopyLeft(c))) /\ ~In(Ahead', CopyCame(c))
      <4>1. c # d /\ cookies'[c] = cookies[c]
        BY <2>1, <2>2, <2>3, <3>2
      <4>2. In(Ahead, CopyLeft(c)) => In(Ahead', CopyLeft(c))
        BY <2>3, EventsDiffer
      <4> QED
        BY <2>3, <3>2, <4>1, <4>2
    <3> QED
      BY <3>1, <3>2 DEF LossAhead
  <2> QED
    BY <1>3, <2>1, <2>4, <2>5 DEF IInv, Noticed, Found, Current
<1>16. CASE CleanCookies
  <2>1. /\ UNCHANGED <<inotify, due>> /\ batch' = batch /\ batch = <<>> /\ Ahead' = Ahead
        /\ cookies' = [c \in Cookies |-> IF c \in Expired THEN None ELSE cookies[c]]
    BY <1>1, <1>16 DEF CleanCookies, world, Ahead
  <2>2. CASE Expired = {}
    <3>1. UNCHANGED <<owed, losses>> /\ \A c \in Cookies : cookies'[c] = cookies[c]
      BY <1>16, <2>1, <2>2 DEF CleanCookies, Expiry, Hand
    <3> QED
      BY <1>3, <2>1, <3>1 DEF IInv, Noticed, Found, Current, RemovalAhead, ChangeAhead, LossAhead
  <2>3. CASE Expired # {}
    <3>1. losses' = {} => losses = {} /\ owed' = owed \cap {"delete"}
      BY <1>16, <2>3, HandedOver DEF CleanCookies, Expiry, Hand
    <3> QED
      BY <2>1, <3>1 DEF IInv, Noticed, Found, Current, RemovalAhead
  <2> QED
    BY <2>2, <2>3
<1>17. CASE CheckDebounce
  <2>1. UNCHANGED <<inotify, cookies>> /\ batch' = batch /\ batch = <<>> /\ Ahead' = Ahead
    BY <1>1, <1>17 DEF CheckDebounce, world, Ahead
  <2>2. CASE ~Ripe
    <3>1. UNCHANGED <<owed, losses, due>>
      BY <1>17, <2>2 DEF CheckDebounce, Hand
    <3> QED
      BY <1>3, <2>1, <3>1 DEF IInv, Noticed, Found, Current, RemovalAhead, ChangeAhead, LossAhead
  <2>3. CASE Ripe
    <3>1. losses' = {} => losses = {} /\ owed' = owed \cap {"delete"}
      BY <1>17, <2>3, HandedOver DEF CheckDebounce, Hand
    <3> QED
      BY <2>1, <3>1 DEF IInv, Noticed, Found, Current, RemovalAhead
  <2> QED
    BY <2>2, <2>3
<1> QED
  BY <1>5, <1>6, <1>7, <1>10, <1>11, <1>12, <1>13, <1>14, <1>15, <1>16, <1>17 DEF MonitorThread
-----------------------------------------------------------------------------
LEMMA InitIInv == Init => IInv
<1> SUFFICES ASSUME Init PROVE IInv
  OBVIOUS
<1>1. TypeInv /\ OverflowSeen
  BY InitTypes
<1>2. batch = <<>> /\ ~scanned /\ (copy => file)
  BY DEF Init
<1>3. /\ owed = {} \/ (owed = {"start"} /\ file)
      /\ losses = {} => ~("start" \in owed /\ Current)
  BY DEF Init
<1>4. Debts /\ (losses = {} => Noticed)
  BY <1>2, <1>3 DEF Debts, Noticed, Found, Current
<1> QED
  BY <1>1, <1>2, <1>4 DEF IInv

LEMMA NextIInv == ASSUME IInv, [Next]_vars PROVE IInv'
<1>1. CASE Next
  BY <1>1, UsersKeepNoticed, ThreadsKeepNoticed, MonitorKeepsNoticed DEF Next
<1>2. CASE UNCHANGED vars
  BY <1>2 DEF vars, IInv, TypeInv, TypeOK, OverflowSeen, Debts, Noticed, Found, Current,
        RemovalAhead, ChangeAhead,
              LossAhead, Ahead
<1> QED
  BY <1>1, <1>2

\* A monitor that has nothing left to look at has handed over what was outdated
\* at its start, every change, every removal and every loss of a copy, whatever
\* users do and whatever the delays are, unless one of the named causes lost it:
\* an overflow, a refusal, a failing call, or a change before the watch was
\* mapped for which the scan found nothing to do (Monitor::run, process_event,
\* scan_existing_files).
THEOREM NothingIsForgotten == Spec => []NothingForgotten
<1>1. IInv => NothingForgotten
  <2> SUFFICES ASSUME IInv, Settled, losses = {} PROVE owed = {}
    BY DEF NothingForgotten
  <2>1. /\ batch = <<>> /\ inotify = <<>> /\ due = None /\ scanned
        /\ \A c \in Cookies : cookies[c] = None
    BY DEF IInv, Settled
  <2>2. Ahead = <<>>
    BY <2>1, ConcatEmptySeq, EmptySeq DEF Ahead
  <2>3. ~RemovalAhead /\ ~ChangeAhead /\ ~LossAhead
    BY <2>1, <2>2, NothingInEmpty DEF RemovalAhead, ChangeAhead, LossAhead
  <2> QED
    BY <2>1, <2>3 DEF IInv, Noticed, Found, Current, TypeInv, TypeOK
<1> QED
  BY <1>1, InitIInv, NextIInv, PTL DEF Spec
=============================================================================
