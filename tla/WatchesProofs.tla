---------------------------- MODULE WatchesProofs ----------------------------
(***************************************************************************)
(* Proofs about the watches.  No watch is left outside the configured      *)
(* paths by a reload that runs while the watch thread has nothing more to  *)
(* do (CInv), and no configured directory is missed for another cause than *)
(* the named ones (RInv).  Both rest on descriptors: each belongs to one   *)
(* directory, and what is known of it is known under the name of that      *)
(* directory (DInv).  Of paths the proofs need that "lies at or below" is  *)
(* transitive, that what a path lies below is a chain, and that from a     *)
(* directory to all that is below it the way leads through its entries.    *)
(***************************************************************************)
EXTENDS Watches, SequenceTheorems, WellFoundedInduction, NaturalsInduction, TLAPS

\* What is in the map, or is about to be.
Known == map \cup {pending[a] : a \in Actors}

Descriptors ==
  /\ \A e \in Known : e.wd < nextWd
  /\ \A d \in Dirs : wd[d] < nextWd
  /\ \A d \in Dirs : wd[d] # 0 => \A e \in Known : e.wd = wd[d] => e.dir = d
  /\ \A d, e \in Dirs : wd[d] # 0 /\ wd[d] = wd[e] => d = e

DInv == TypeOK /\ Descriptors

\* A directory that is configured, or below a path that is on its way out, or
\* below one that ended in a slash.
Claimed(d) == (\E p \in targets \cup toRemove : Under(d, p.dir)) \/ d \in left

\* There is an entry for the descriptor, and of a claimed directory.
Traced(w) == \E e \in Known : e.wd = w /\ Claimed(e.dir)

Claims == /\ \A a \in Actors : \A i \in todo[a] : Claimed(i.dir)
          /\ \A a \in Actors : pending[a] # NoEntry => Claimed(pending[a].dir)
          /\ \A d \in Dirs : wd[d] # 0 => Traced(wd[d])
          /\ \A w \in away : w # 0 /\ Traced(w)

LeftGoesDown == \A d \in left, c \in Dirs : Under(c, d) => c \in left

\* Where a reload is.
Reloading == /\ reload # "adding" => ~Busy("main")
             /\ reload = "idle" => toRemove = {}

CInv == DInv /\ Reloading /\ LeftGoesDown /\ (~raced => Claims)
-----------------------------------------------------------------------------
(* Paths *)

LEMMA PrefixChars ==
  ASSUME NEW p \in Seq(Chars), NEW d \in Seq(Chars), IsPrefix(Append(p, Slash), d)
  PROVE  /\ Len(p) < Len(d) /\ d[Len(p) + 1] = Slash
         /\ \A i \in 1..Len(p) : d[i] = p[i]
<1> DEFINE q == Append(p, Slash)
           n == Len(p) + 1
<1>1. /\ q \in Seq(Chars) /\ Len(q) = n /\ n \in Nat /\ n >= 1 /\ Len(d) \in Nat
      /\ q[n] = Slash /\ \A i \in 1..Len(p) : q[i] = p[i]
  BY DirsAssumption, AppendProperties
<1>2. n <= Len(d) /\ SubSeq(q, 1, n) = SubSeq(d, 1, n)
  BY <1>1 DEF IsPrefix
<1>3. ASSUME NEW s \in Seq(Chars), n <= Len(s)
      PROVE  \A i \in 1..n : SubSeq(s, 1, n)[i] = s[i]
  <2>1. \A i \in 1..n : s[i] \in Chars
    BY <1>1, <1>3
  <2>2. \A i \in 1..(n - 1 + 1) : SubSeq(s, 1, n)[i] = s[1 + i - 1]
    BY <1>1, <2>1, SubSeqProperties
  <2> QED
    BY <1>1, <2>2
<1> HIDE DEF q, n
<1>4. \A i \in 1..n : q[i] = d[i]
  BY <1>1, <1>2, <1>3
<1> QED
  BY <1>1, <1>2, <1>4 DEF n

LEMMA CharsPrefix ==
  ASSUME NEW p \in Seq(Chars), NEW d \in Seq(Chars),
         Len(p) < Len(d), d[Len(p) + 1] = Slash,
         \A i \in 1..Len(p) : d[i] = p[i]
  PROVE  IsPrefix(Append(p, Slash), d)
<1> DEFINE q == Append(p, Slash)
           n == Len(p) + 1
<1>1. /\ q \in Seq(Chars) /\ Len(q) = n /\ n \in Nat /\ n >= 1 /\ Len(d) \in Nat
      /\ q[n] = Slash /\ \A i \in 1..Len(p) : q[i] = p[i]
      /\ n <= Len(d)
  BY DirsAssumption, AppendProperties
<1>2. \A i \in 1..n : q[i] = d[i]
  BY <1>1
<1>3. ASSUME NEW s \in Seq(Chars), n <= Len(s)
      PROVE  /\ SubSeq(s, 1, n) \in Seq(Chars) /\ Len(SubSeq(s, 1, n)) = n
             /\ \A i \in 1..n : SubSeq(s, 1, n)[i] = s[i]
  <2>1. \A i \in 1..n : s[i] \in Chars
    BY <1>1, <1>3
  <2>2. /\ SubSeq(s, 1, n) \in Seq(Chars)
        /\ Len(SubSeq(s, 1, n)) = IF 1 <= n THEN n - 1 + 1 ELSE 0
        /\ \A i \in 1..(n - 1 + 1) : SubSeq(s, 1, n)[i] = s[1 + i - 1]
    BY <1>1, <2>1, SubSeqProperties
  <2> QED
    BY <1>1, <2>2
<1> HIDE DEF q, n
<1>4. SubSeq(q, 1, n) = SubSeq(d, 1, n)
  <2>1. n <= Len(q)
    BY <1>1
  <2>2. /\ SubSeq(q, 1, n) \in Seq(Chars) /\ SubSeq(d, 1, n) \in Seq(Chars)
        /\ Len(SubSeq(q, 1, n)) = Len(SubSeq(d, 1, n))
        /\ Len(SubSeq(q, 1, n)) = n
        /\ \A i \in 1..n : SubSeq(q, 1, n)[i] = SubSeq(d, 1, n)[i]
    BY <1>1, <1>2, <1>3, <2>1
  <2> QED
    BY <2>2, SeqEqual
<1> QED
  BY <1>1, <1>4 DEF IsPrefix, q

LEMMA UnderTransitive ==
  ASSUME NEW c \in Dirs, NEW d \in Dirs, NEW p \in Dirs, Under(c, d), Under(d, p)
  PROVE  Under(c, p)
<1>1. c \in Seq(Chars) /\ d \in Seq(Chars) /\ p \in Seq(Chars)
  BY DirsAssumption
<1>2. CASE c = d \/ d = p
  BY <1>2
<1>3. CASE IsPrefix(Append(d, Slash), c) /\ IsPrefix(Append(p, Slash), d)
  <2>1. /\ Len(d) < Len(c) /\ \A i \in 1..Len(d) : c[i] = d[i]
    BY <1>1, <1>3, PrefixChars
  <2>2. /\ Len(p) < Len(d) /\ d[Len(p) + 1] = Slash
        /\ \A i \in 1..Len(p) : d[i] = p[i]
    BY <1>1, <1>3, PrefixChars
  <2>3. Len(c) \in Nat /\ Len(d) \in Nat /\ Len(p) \in Nat
    BY <1>1
  <2>4. /\ Len(p) < Len(c) /\ c[Len(p) + 1] = Slash
        /\ \A i \in 1..Len(p) : c[i] = p[i]
    BY <2>1, <2>2, <2>3
  <2>5. IsPrefix(Append(p, Slash), c)
    BY <1>1, <2>4, CharsPrefix
  <2> QED
    BY <2>5 DEF Under
<1> QED
  BY <1>2, <1>3 DEF Under
-----------------------------------------------------------------------------
(* Types *)

LEMMA ItemTypes ==
  /\ \A P \in SUBSET Name : Bases(P) \in SUBSET Item
  /\ \A S \in SUBSET Dirs : Subitems(S) \in SUBSET Item
<1>1. ASSUME NEW P \in SUBSET Name, NEW i \in Bases(P) PROVE i \in Item
  <2>1. PICK p \in P : i = [dir |-> p.dir, slash |-> p.slash, base |-> TRUE]
    BY DEF Bases
  <2> QED
    BY <2>1 DEF Item, Name
<1>2. ASSUME NEW S \in SUBSET Dirs, NEW i \in Subitems(S) PROVE i \in Item
  <2>1. PICK c \in S : i = [dir |-> c, slash |-> FALSE, base |-> FALSE]
    BY DEF Subitems
  <2> QED
    BY <2>1 DEF Item
<1> QED
  BY <1>1, <1>2

LEMMA OverlookedTypes ==
  ASSUME NEW d, NEW S PROVE Overlooked(d, S) \in SUBSET Dirs
BY DEF Overlooked, Below

LEMMA InitTypes == Init => TypeOK
<1> SUFFICES ASSUME Init PROVE TypeOK
  OBVIOUS
<1>1. targets \in SUBSET Name /\ exists \in SUBSET Dirs
  BY DirsAssumption, TargetsAssumption DEF Init
<1>2. todo \in [Actors -> SUBSET Item]
  BY <1>1, ItemTypes DEF Init
<1>3. wd \in [Dirs -> Nat] /\ pending \in [Actors -> Entry \cup {NoEntry}]
  BY DEF Init
<1>4. /\ map \subseteq Entry /\ toRemove \in SUBSET Name /\ excused \in SUBSET Dirs
      /\ away \subseteq Nat /\ left \in SUBSET Dirs
  BY DEF Init
<1>5. /\ nextWd \in Nat \ {0} /\ reload \in {"idle", "adding", "removing"}
      /\ reloads \in Nat /\ changes \in Nat /\ failures \in Nat
  <2>1. nextWd = 1 /\ reload = "idle" /\ reloads = 0 /\ changes = 0 /\ failures = 0
    BY DEF Init
  <2> QED
    BY <2>1
<1>6. raced \in BOOLEAN
  BY DEF Init
<1> QED
  BY <1>1, <1>2, <1>3, <1>4, <1>5, <1>6 DEF TypeOK

\* A directory is listed, whole or in part.
LEMMA ListingTypes ==
  ASSUME TypeOK, NEW a \in Actors, pending[a] # NoEntry,
         NEW S \in SUBSET Children(pending[a].dir), EnterAndList(a, S)
  PROVE  /\ map' \subseteq Entry /\ pending' \in [Actors -> Entry \cup {NoEntry}]
         /\ todo' \in [Actors -> SUBSET Item] /\ excused' \in SUBSET Dirs
         /\ pending[a] \in Entry /\ pending[a].dir \in Dirs
<1>1. pending[a] \in Entry /\ pending[a].dir \in Dirs
  BY DEF TypeOK, Entry
<1>2. Subitems(S) \in SUBSET Item
  <2>1. S \in SUBSET Dirs
    BY DEF Children, TypeOK
  <2> QED
    BY <2>1, ItemTypes
<1>3. map' \subseteq Entry
  BY <1>1 DEF TypeOK, EnterAndList
<1>4. pending' \in [Actors -> Entry \cup {NoEntry}]
  BY DEF TypeOK, EnterAndList
<1>5. todo' \in [Actors -> SUBSET Item]
  BY <1>2 DEF TypeOK, EnterAndList
<1>6. excused' \in SUBSET Dirs
  BY OverlookedTypes DEF TypeOK, EnterAndList
<1> QED
  BY <1>1, <1>3, <1>4, <1>5, <1>6

\* The two ways in which a listing ends.
LEMMA Listing ==
  ASSUME NEW a \in Actors, Enter(a) \/ ListingFails(a)
  PROVE  pending[a] # NoEntry /\ \E S \in SUBSET Children(pending[a].dir) : EnterAndList(a, S)
BY DEF Enter, ListingFails

LEMMA NextTypes == TypeOK /\ [Next]_vars => TypeOK'
<1> SUFFICES ASSUME TypeOK, [Next]_vars PROVE TypeOK'
  OBVIOUS
<1>1. ASSUME NEW a \in Actors, NEW i \in todo[a],
             Vanished(a, i) \/ AddWatch(a, i) \/ AddFails(a, i)
      PROVE  TypeOK'
  <2>1. i \in Item /\ i.dir \in Dirs /\ i.slash \in BOOLEAN
    BY DEF TypeOK, Item
  <2>2. CASE Vanished(a, i)
    BY <2>2 DEF TypeOK, Vanished, kernel, conf, history
  <2>3. CASE AddWatch(a, i)
    <3> DEFINE w == IF wd[i.dir] # 0 THEN wd[i.dir] ELSE nextWd
               e == [wd |-> w, dir |-> i.dir, slash |-> i.slash]
    <3>1. w \in Nat /\ e \in Entry
      BY <2>1 DEF TypeOK, Entry
    <3>2. /\ todo' = [todo EXCEPT ![a] = todo[a] \ {i}]
          /\ wd' = [wd EXCEPT ![i.dir] = w]
          /\ pending' = [pending EXCEPT ![a] = e]
          /\ nextWd' = IF w = nextWd THEN nextWd + 1 ELSE nextWd
          /\ UNCHANGED <<exists, away, map, targets, reload, toRemove, excused, left, raced,
                         reloads, changes, failures>>
      BY <2>3 DEF AddWatch, conf, history
    <3>3. nextWd' \in Nat \ {0}
      BY <3>2 DEF TypeOK
    <3> HIDE DEF w, e
    <3> QED
      BY <2>1, <3>1, <3>2, <3>3 DEF TypeOK
  <2>4. CASE AddFails(a, i)
    <3>1. PICK S \in SUBSET Children(i.dir) :
             /\ todo' = [todo EXCEPT ![a] = (@ \ {i}) \cup Subitems(S)]
             /\ excused' = excused \cup {i.dir} \cup Overlooked(i.dir, S)
      BY <2>4 DEF AddFails
    <3>2. S \in SUBSET Dirs
      BY <3>1 DEF Children, TypeOK
    <3>3. Subitems(S) \in SUBSET Item
      BY <3>2, ItemTypes
    <3>4. todo' \in [Actors -> SUBSET Item]
      BY <3>1, <3>3 DEF TypeOK
    <3>5. excused' \in SUBSET Dirs
      BY <2>1, <3>1, OverlookedTypes DEF TypeOK
    <3> QED
      BY <2>4, <3>4, <3>5 DEF TypeOK, AddFails, kernel, conf, history
  <2> QED
    BY <1>1, <2>2, <2>3, <2>4
<1>2. ASSUME NEW a \in Actors, Enter(a) \/ ListingFails(a) PROVE TypeOK'
  <2>1. PICK S \in SUBSET Children(pending[a].dir) : EnterAndList(a, S)
    BY <1>2, Listing
  <2>2. pending[a] # NoEntry
    BY <1>2, Listing
  <2>3. /\ map' \subseteq Entry /\ pending' \in [Actors -> Entry \cup {NoEntry}]
        /\ todo' \in [Actors -> SUBSET Item] /\ excused' \in SUBSET Dirs
    BY <2>1, <2>2, ListingTypes
  <2>4. failures' \in Nat
    BY <1>2 DEF Enter, ListingFails, TypeOK
  <2> QED
    BY <2>1, <2>3, <2>4 DEF TypeOK, EnterAndList, kernel, conf, history
<1>3. ASSUME NEW T \in TargetSets, BeginReload(T) PROVE TypeOK'
  <2>1. T \in SUBSET Name /\ "main" \in Actors
    BY TargetsAssumption DEF Actors
  <2>2. Bases(T \ targets) \in SUBSET Item /\ targets \ T \in SUBSET Name
    BY <2>1, ItemTypes DEF TypeOK
  <2>3. todo' \in [Actors -> SUBSET Item]
    BY <1>3, <2>1, <2>2 DEF TypeOK, BeginReload
  <2>4. targets' \in SUBSET Name /\ toRemove' \in SUBSET Name
    BY <1>3, <2>1, <2>2 DEF BeginReload
  <2>5. excused' \in SUBSET Dirs
    BY <1>3 DEF TypeOK, BeginReload
  <2>6. reloads' \in Nat /\ reload' \in {"idle", "adding", "removing"}
    BY <1>3 DEF TypeOK, BeginReload
  <2> QED
    BY <1>3, <2>3, <2>4, <2>5, <2>6 DEF TypeOK, BeginReload, kernel, history
<1>4. CASE AllAdded \/ EndReload
  BY <1>4 DEF TypeOK, AllAdded, EndReload, acts, kernel, history
<1>5. ASSUME NEW p \in toRemove, RemoveWatch(p) PROVE TypeOK'
  <2>1. wd' \in [Dirs -> Nat] /\ away' \subseteq Nat
    BY <1>5 DEF TypeOK, RemoveWatch
  <2>2. left' \in SUBSET Dirs /\ excused' \in SUBSET Dirs /\ raced' \in BOOLEAN
    BY <1>5 DEF TypeOK, RemoveWatch, Removal, Below, Busy
  <2> QED
    BY <1>5, <2>1, <2>2 DEF TypeOK, RemoveWatch, Removal, acts
<1>6. ASSUME NEW d \in Dirs, MakeDir(d) \/ RemoveDir(d) \/ MoveDir(d) PROVE TypeOK'
  <2>1. exists' \in SUBSET Dirs /\ excused' \in SUBSET Dirs
    BY <1>6 DEF TypeOK, MakeDir, RemoveDir, MoveDir
  <2>2. wd' \in [Dirs -> Nat]
    BY <1>6 DEF TypeOK, MakeDir, RemoveDir, MoveDir
  <2>3. away' \subseteq Nat
    <3>1. \A e \in Below(d) : wd[e] \in Nat
      BY DEF TypeOK, Below
    <3>2. {wd[e] : e \in Below(d)} \subseteq Nat /\ away \subseteq Nat
      BY <3>1 DEF TypeOK
    <3>3. away' = away \/ away' = away \cup ({wd[e] : e \in Below(d)} \ {0})
      BY <1>6 DEF MakeDir, RemoveDir, MoveDir
    <3> QED
      BY <3>2, <3>3
  <2>4. Changing
    BY <1>6 DEF MakeDir, RemoveDir, MoveDir
  <2> QED
    BY <2>1, <2>2, <2>3, <2>4 DEF TypeOK, Changing, acts, conf, history
<1>7. CASE UNCHANGED vars
  BY <1>7 DEF TypeOK, vars
<1> QED
  BY <1>1, <1>2, <1>3, <1>4, <1>5, <1>6, <1>7 DEF Next
-----------------------------------------------------------------------------
(* The descriptors *)

LEMMA InitDescriptors == Init => Descriptors
<1> SUFFICES ASSUME Init PROVE Descriptors
  OBVIOUS
<1>1. \A e \in Known : e.wd = 0
  BY DEF Init, Known, NoEntry
<1>2. \A d \in Dirs : wd[d] = 0
  BY DEF Init
<1>3. nextWd = 1
  BY DEF Init
<1> QED
  BY <1>1, <1>2, <1>3 DEF Descriptors

\* Entries that are forgotten and watches that go do no harm.
LEMMA FewerDescriptors ==
  ASSUME TypeOK, Descriptors, Known' \subseteq Known \cup {NoEntry}, nextWd' = nextWd,
         \A d \in Dirs : wd'[d] \in {wd[d], 0}
  PROVE  Descriptors'
<1>1. NoEntry.wd = 0 /\ nextWd \in Nat \ {0}
  BY DEF NoEntry, TypeOK
<1>2. \A e \in Known' : e.wd < nextWd'
  BY <1>1 DEF Descriptors
<1>3. \A d \in Dirs : wd'[d] < nextWd'
  BY <1>1 DEF Descriptors
<1>4. ASSUME NEW d \in Dirs, wd'[d] # 0, NEW e \in Known', e.wd = wd'[d] PROVE e.dir = d
  <2>1. wd'[d] = wd[d] /\ wd[d] # 0
    BY <1>4
  <2>2. e # NoEntry
    BY <1>1, <1>4
  <2>3. e \in Known /\ e.wd = wd[d]
    BY <1>4, <2>1, <2>2
  <2> QED
    BY <2>1, <2>3 DEF Descriptors
<1>5. ASSUME NEW d \in Dirs, NEW e \in Dirs, wd'[d] # 0, wd'[d] = wd'[e] PROVE d = e
  BY <1>5 DEF Descriptors
<1> QED
  BY <1>2, <1>3, <1>4, <1>5 DEF Descriptors

LEMMA NextDescriptors == DInv /\ [Next]_vars => Descriptors'
<1> SUFFICES ASSUME TypeOK, Descriptors, [Next]_vars PROVE Descriptors'
  BY DEF DInv
<1>1. ASSUME NEW a \in Actors, NEW i \in todo[a], AddWatch(a, i) PROVE Descriptors'
  <2> DEFINE w == IF wd[i.dir] # 0 THEN wd[i.dir] ELSE nextWd
             n == [wd |-> w, dir |-> i.dir, slash |-> i.slash]
  <2>1. i.dir \in Dirs
    BY DEF TypeOK, Item
  <2>2. /\ map' = map
        /\ wd' = [wd EXCEPT ![i.dir] = w]
        /\ pending' = [pending EXCEPT ![a] = n]
        /\ nextWd' = IF w = nextWd THEN nextWd + 1 ELSE nextWd
    BY <1>1 DEF AddWatch
  <2>3. nextWd \in Nat /\ nextWd # 0 /\ w \in Nat /\ w # 0 /\ w <= nextWd
    BY <2>1 DEF TypeOK, Descriptors
  <2>4. \A e \in Known : e.wd \in Nat /\ e.wd < nextWd
    BY DEF TypeOK, Known, Entry, NoEntry, Descriptors
  <2>5. \A d \in Dirs : wd[d] \in Nat /\ wd[d] < nextWd
    BY DEF TypeOK, Descriptors
  <2>6. nextWd' \in Nat /\ nextWd <= nextWd' /\ w < nextWd'
    BY <2>2, <2>3
  <2>7. n.wd = w /\ n.dir = i.dir
    OBVIOUS
  <2>8. /\ \A d \in Dirs \ {i.dir} : wd[d] # w /\ wd'[d] = wd[d]
        /\ wd'[i.dir] = w
        /\ \A e \in Known : e.wd = w => e.dir = i.dir
    <3>1. CASE wd[i.dir] # 0
      BY <2>1, <2>2, <3>1 DEF Descriptors, TypeOK
    <3>2. CASE wd[i.dir] = 0
      <4>1. w = nextWd
        BY <3>2
      <4>2. \A d \in Dirs : wd[d] # w
        BY <2>3, <2>5, <4>1
      <4>3. \A e \in Known : e.wd # w
        BY <2>3, <2>4, <4>1
      <4> HIDE DEF w
      <4> QED
        BY <2>1, <2>2, <4>2, <4>3 DEF TypeOK
    <3> QED
      BY <3>1, <3>2
  <2> HIDE DEF w, n
  <2>9. Known' \subseteq Known \cup {n}
    BY <2>2 DEF Known, TypeOK
  <2>10. \A e \in Known' : e.wd < nextWd'
    <3>1. \A e \in Known : e.wd < nextWd'
      BY <2>3, <2>4, <2>6
    <3> QED
      BY <2>6, <2>7, <2>9, <3>1
  <2>11. \A d \in Dirs : wd'[d] < nextWd'
    <3>1. \A d \in Dirs : wd[d] < nextWd'
      BY <2>3, <2>5, <2>6
    <3> QED
      BY <2>6, <2>8, <3>1
  <2>12. ASSUME NEW d \in Dirs, wd'[d] # 0, NEW e \in Known', e.wd = wd'[d] PROVE e.dir = d
    <3>1. CASE d = i.dir
      BY <2>7, <2>8, <2>9, <2>12, <3>1
    <3>2. CASE d # i.dir
      <4>1. wd'[d] = wd[d] /\ wd[d] # w
        BY <2>8, <3>2
      <4>2. e \in Known
        BY <2>7, <2>9, <2>12, <4>1
      <4> QED
        BY <2>12, <4>1, <4>2 DEF Descriptors
    <3> QED
      BY <3>1, <3>2
  <2>13. ASSUME NEW d \in Dirs, NEW e \in Dirs, wd'[d] # 0, wd'[d] = wd'[e] PROVE d = e
    BY <2>8, <2>13 DEF Descriptors
  <2> QED
    BY <2>10, <2>11, <2>12, <2>13 DEF Descriptors
<1>2. ASSUME NEW a \in Actors, Enter(a) \/ ListingFails(a) PROVE Descriptors'
  <2>1. PICK S \in SUBSET Children(pending[a].dir) : EnterAndList(a, S)
    BY <1>2, Listing
  <2>2. Known' \subseteq Known \cup {NoEntry}
    BY <2>1 DEF Known, EnterAndList, TypeOK
  <2> QED
    BY <2>1, <2>2, FewerDescriptors DEF EnterAndList, kernel
<1>3. ASSUME NEW p \in toRemove, RemoveWatch(p) PROVE Descriptors'
  <2>1. Known' \subseteq Known
    BY <1>3 DEF Known, RemoveWatch, Removal, acts
  <2>2. nextWd' = nextWd /\ \A d \in Dirs : wd'[d] \in {wd[d], 0}
    BY <1>3 DEF RemoveWatch, Removal
  <2> QED
    BY <2>1, <2>2, FewerDescriptors
<1>4. ASSUME NEW d \in Dirs, MakeDir(d) \/ RemoveDir(d) \/ MoveDir(d) PROVE Descriptors'
  <2>1. map' = map /\ pending' = pending /\ nextWd' = nextWd
    BY <1>4 DEF MakeDir, RemoveDir, MoveDir, Changing, acts
  <2>2. \A e \in Dirs : wd'[e] \in {wd[e], 0}
    BY <1>4 DEF MakeDir, RemoveDir, MoveDir, TypeOK
  <2> QED
    BY <2>1, <2>2, FewerDescriptors DEF Known
<1>5. CASE UNCHANGED <<wd, nextWd, map, pending>>
  BY <1>5, FewerDescriptors DEF Known
<1>6. \/ UNCHANGED <<wd, nextWd, map, pending>>
      \/ \E a \in Actors : Enter(a) \/ ListingFails(a) \/ \E i \in todo[a] : AddWatch(a, i)
      \/ \E p \in toRemove : RemoveWatch(p)
      \/ \E d \in Dirs : MakeDir(d) \/ RemoveDir(d) \/ MoveDir(d)
  BY DEF Next, Vanished, AddFails, BeginReload, AllAdded, EndReload, vars, kernel, acts
<1> QED
  BY <1>1, <1>2, <1>3, <1>4, <1>5, <1>6

LEMMA NextDInv == DInv /\ [Next]_vars => DInv'
BY NextTypes, NextDescriptors DEF DInv
-----------------------------------------------------------------------------
(* The claims *)

LEMMA InitClaims == Init => Reloading /\ LeftGoesDown /\ Claims
<1> SUFFICES ASSUME Init PROVE Reloading /\ LeftGoesDown /\ Claims
  OBVIOUS
<1>1. Reloading
  BY DEF Init, Reloading, Busy, Actors
<1>2. ASSUME NEW a \in Actors, NEW i \in todo[a] PROVE Claimed(i.dir)
  <2>1. i \in Bases(targets)
    BY <1>2 DEF Init
  <2>2. PICK p \in targets : i = [dir |-> p.dir, slash |-> p.slash, base |-> TRUE]
    BY <2>1 DEF Bases
  <2> QED
    BY <2>2 DEF Claimed, Under
<1> QED
  BY <1>1, <1>2 DEF Init, Claims, LeftGoesDown

LEMMA NextReloading == TypeOK /\ Reloading /\ [Next]_vars => Reloading'
<1> SUFFICES ASSUME TypeOK, Reloading, [Next]_vars PROVE Reloading'
  OBVIOUS
<1>0. "main" \in Actors
  BY DEF Actors
<1>1. ASSUME NEW a \in Actors, NEW i \in todo[a],
             Vanished(a, i) \/ AddWatch(a, i) \/ AddFails(a, i)
      PROVE  Reloading'
  <2>1. a = "main" => reload = "adding"
    BY <1>1 DEF Reloading, Busy
  <2> QED
    BY <1>0, <1>1, <2>1 DEF Reloading, Busy, Vanished, AddWatch, AddFails, TypeOK, conf
<1>2. ASSUME NEW a \in Actors, Enter(a) \/ ListingFails(a) PROVE Reloading'
  <2>1. PICK S \in SUBSET Children(pending[a].dir) : EnterAndList(a, S)
    BY <1>2, Listing
  <2>2. a = "main" => reload = "adding"
    BY <1>2, Listing DEF Reloading, Busy
  <2> QED
    BY <1>0, <2>1, <2>2 DEF Reloading, Busy, EnterAndList, TypeOK, conf
<1>3. ASSUME NEW T \in TargetSets, BeginReload(T) PROVE Reloading'
  BY <1>3 DEF Reloading, BeginReload
<1>4. CASE AllAdded
  BY <1>4 DEF Reloading, AllAdded, acts, Busy
<1>5. ASSUME NEW p \in toRemove, RemoveWatch(p) PROVE Reloading'
  BY <1>5 DEF Reloading, RemoveWatch, Removal, acts, Busy
<1>6. CASE EndReload
  BY <1>6 DEF Reloading, EndReload, acts, Busy
<1>7. ASSUME NEW d \in Dirs, MakeDir(d) \/ RemoveDir(d) \/ MoveDir(d) PROVE Reloading'
  BY <1>7 DEF Reloading, MakeDir, RemoveDir, MoveDir, Changing, acts, conf, Busy
<1>8. CASE UNCHANGED vars
  BY <1>8 DEF Reloading, vars, Busy
<1> QED
  BY <1>1, <1>2, <1>3, <1>4, <1>5, <1>6, <1>7, <1>8 DEF Next

LEMMA NextLeft == TypeOK /\ LeftGoesDown /\ [Next]_vars => LeftGoesDown'
<1> SUFFICES ASSUME TypeOK, LeftGoesDown, [Next]_vars PROVE LeftGoesDown'
  OBVIOUS
<1>1. ASSUME NEW p \in toRemove, RemoveWatch(p) PROVE LeftGoesDown'
  <2>1. p.dir \in Dirs
    BY DEF TypeOK, Name
  <2>2. \A d \in Below(p.dir), c \in Dirs : Under(c, d) => c \in Below(p.dir)
    BY <2>1, UnderTransitive DEF Below
  <2>3. left' = left \cup IF p.slash THEN Below(p.dir) ELSE {}
    BY <1>1 DEF RemoveWatch, Removal
  <2> QED
    BY <2>2, <2>3 DEF LeftGoesDown
<1>2. CASE left' = left
  BY <1>2 DEF LeftGoesDown
<1>3. left' = left \/ \E p \in toRemove : RemoveWatch(p)
  BY DEF Next, Vanished, AddWatch, AddFails, Enter, ListingFails, EnterAndList, BeginReload, AllAdded,
         EndReload, MakeDir, RemoveDir, MoveDir, Changing, vars, history
<1> QED
  BY <1>1, <1>2, <1>3

\* What lies in a claimed directory is claimed.
LEMMA ClaimsGoDown ==
  ASSUME TypeOK, LeftGoesDown, NEW d \in Dirs, Claimed(d),
         NEW S \in SUBSET Children(d), NEW i \in Subitems(S)
  PROVE  Claimed(i.dir)
<1>1. PICK c \in S : i = [dir |-> c, slash |-> FALSE, base |-> FALSE]
  BY DEF Subitems
<1>2. i.dir \in Dirs /\ Under(i.dir, d)
  BY <1>1 DEF TypeOK, Children, IsChild
<1>3. \A p \in targets \cup toRemove : p.dir \in Dirs
  BY DEF TypeOK, Name
<1> QED
  BY <1>2, <1>3, UnderTransitive DEF Claimed, LeftGoesDown

LEMMA WalkKeepsClaims ==
  ASSUME DInv, LeftGoesDown, Claims, NEW a \in Actors,
         \/ Enter(a) \/ ListingFails(a)
         \/ \E i \in todo[a] : Vanished(a, i) \/ AddWatch(a, i) \/ AddFails(a, i)
  PROVE  Claims'
<1>0. TypeOK /\ away' = away
  BY DEF DInv, Enter, ListingFails, EnterAndList, Vanished, AddWatch, AddFails, kernel
<1>1. \A d : Claimed(d)' <=> Claimed(d)
  BY DEF Claimed, Enter, ListingFails, EnterAndList, Vanished, AddWatch, AddFails, conf, history
<1>2. ASSUME NEW i \in todo[a], Vanished(a, i) PROVE Claims'
  <2>1. UNCHANGED <<wd, away, map, pending>> /\ \A b \in Actors : todo'[b] \subseteq todo[b]
    BY <1>0, <1>2 DEF Vanished, TypeOK, kernel
  <2>2. \A w : Traced(w) => Traced(w)'
    BY <1>1, <2>1 DEF Traced, Known
  <2> QED
    BY <1>1, <2>1, <2>2 DEF Claims
<1>3. ASSUME NEW i \in todo[a], AddWatch(a, i) PROVE Claims'
  <2> DEFINE w == IF wd[i.dir] # 0 THEN wd[i.dir] ELSE nextWd
             n == [wd |-> w, dir |-> i.dir, slash |-> i.slash]
  <2>1. /\ todo' = [todo EXCEPT ![a] = todo[a] \ {i}]
        /\ wd' = [wd EXCEPT ![i.dir] = w]
        /\ pending' = [pending EXCEPT ![a] = n]
        /\ map' = map /\ pending[a] = NoEntry
    BY <1>3 DEF AddWatch, Visit
  <2>2. i.dir \in Dirs /\ Claimed(i.dir)
    BY <1>0 DEF TypeOK, Item, Claims
  <2>3. n.wd = w /\ n.dir = i.dir
    OBVIOUS
  <2> HIDE DEF w, n
  <2>4. \A b \in Actors : \A j \in todo'[b] : Claimed(j.dir)'
    BY <1>0, <1>1, <2>1 DEF Claims, TypeOK
  <2>5. \A b \in Actors : pending'[b] # NoEntry => Claimed(pending[b].dir)'
    BY <1>0, <1>1, <2>1, <2>2, <2>3 DEF Claims, TypeOK
  <2>6. n \in Known' /\ \A e \in Known : e # NoEntry => e \in Known'
    BY <1>0, <2>1 DEF Known, TypeOK
  <2>7. \A v : v # 0 /\ Traced(v) => Traced(v)'
    BY <1>1, <2>6 DEF Traced, NoEntry
  <2>8. \E e \in Known' : e.wd = w /\ Claimed(e.dir)'
    BY <1>1, <2>2, <2>3, <2>6
  <2>9. \A d \in Dirs : wd'[d] = wd[d] \/ wd'[d] = w
    BY <1>0, <2>1, <2>2 DEF TypeOK
  <2>10. ASSUME NEW d \in Dirs, wd'[d] # 0 PROVE Traced(wd[d])'
    <3>1. CASE wd'[d] = wd[d]
      <4>1. PICK e \in Known : e.wd = wd[d] /\ Claimed(e.dir)
        BY <2>10, <3>1 DEF Claims, Traced
      <4>2. e \in Known' /\ e.wd = wd'[d] /\ Claimed(e.dir)'
        BY <1>1, <2>6, <2>10, <3>1, <4>1 DEF NoEntry
      <4> QED
        BY <4>2 DEF Traced
    <3>2. CASE wd'[d] = w
      BY <2>8, <3>2 DEF Traced
    <3> QED
      BY <2>9, <3>1, <3>2
  <2>11. \A v \in away' : v # 0 /\ Traced(v)'
    BY <1>0, <2>7 DEF Claims
  <2> QED
    BY <2>4, <2>5, <2>10, <2>11 DEF Claims
<1>4. ASSUME NEW i \in todo[a], AddFails(a, i) PROVE Claims'
  <2>1. i.dir \in Dirs /\ Claimed(i.dir)
    BY <1>0 DEF TypeOK, Item, Claims
  <2>2. PICK S \in SUBSET Children(i.dir) : todo' = [todo EXCEPT ![a] = (@ \ {i}) \cup Subitems(S)]
    BY <1>4 DEF AddFails
  <2>3. \A j \in Subitems(S) : Claimed(j.dir)
    BY <1>0, <2>1, ClaimsGoDown
  <2>4. \A b \in Actors : \A j \in todo'[b] : Claimed(j.dir)
    BY <1>0, <2>2, <2>3 DEF Claims, TypeOK
  <2>5. UNCHANGED <<wd, away, map, pending>>
    BY <1>4 DEF AddFails, kernel
  <2>6. \A w : Traced(w) => Traced(w)'
    BY <1>1, <2>5 DEF Traced, Known
  <2> QED
    BY <1>1, <2>4, <2>5, <2>6 DEF Claims
<1>5. CASE Enter(a) \/ ListingFails(a)
  <2>1. PICK S \in SUBSET Children(pending[a].dir) : EnterAndList(a, S)
    BY <1>5, Listing
  <2>2. pending[a] # NoEntry
    BY <1>5, Listing
  <2>3. pending[a].dir \in Dirs /\ Claimed(pending[a].dir)
    BY <1>0, <2>1, <2>2, ListingTypes DEF Claims
  <2>4. \A j \in Subitems(S) : Claimed(j.dir)
    BY <1>0, <2>3, ClaimsGoDown
  <2>5. /\ map' = {e \in map : e.wd # pending[a].wd} \cup {pending[a]}
        /\ pending' = [pending EXCEPT ![a] = NoEntry]
        /\ todo' = [todo EXCEPT ![a] = @ \cup Subitems(S)]
        /\ wd' = wd
    BY <2>1 DEF EnterAndList, kernel
  <2>6. \A b \in Actors : \A j \in todo'[b] : Claimed(j.dir)'
    BY <1>0, <1>1, <2>4, <2>5 DEF Claims, TypeOK
  <2>7. \A b \in Actors : pending'[b] # NoEntry => Claimed(pending[b].dir)'
    BY <1>0, <1>1, <2>5 DEF Claims, TypeOK
  <2>8. /\ pending[a] \in Known'
        /\ \A e \in Known : e \in Known' \/ e.wd = pending[a].wd
    BY <1>0, <2>5 DEF Known, TypeOK
  <2>9. \A w : Traced(w) => Traced(w)'
    BY <1>1, <2>3, <2>8 DEF Traced
  <2> QED
    BY <1>0, <2>5, <2>6, <2>7, <2>9 DEF Claims
<1> QED
  BY <1>2, <1>3, <1>4, <1>5

LEMMA ReloadKeepsClaims ==
  ASSUME DInv, Reloading, ~raced => Claims, ~raced',
         \/ \E T \in TargetSets : BeginReload(T)
         \/ \E p \in toRemove : RemoveWatch(p)
  PROVE  Claims'
<1>0. TypeOK
  BY DEF DInv
<1>1. ASSUME NEW T \in TargetSets, BeginReload(T) PROVE Claims'
  <2>1. /\ Claims /\ toRemove = {} /\ toRemove' = targets \ T /\ targets' = T
        /\ UNCHANGED <<wd, away, map, pending, left>>
        /\ todo' = [todo EXCEPT !["main"] = Bases(T \ targets)]
    BY <1>1 DEF BeginReload, Reloading, kernel, history
  <2>2. \A d : Claimed(d) => Claimed(d)'
    BY <2>1 DEF Claimed
  <2>3. ASSUME NEW i \in Bases(T \ targets) PROVE Claimed(i.dir)'
    <3>1. PICK p \in T \ targets : i = [dir |-> p.dir, slash |-> p.slash, base |-> TRUE]
      BY DEF Bases
    <3>2. p \in targets' /\ Under(i.dir, p.dir)
      BY <2>1, <3>1 DEF Under
    <3> QED
      BY <3>2 DEF Claimed
  <2>4. \A a \in Actors : \A i \in todo'[a] : Claimed(i.dir)'
    BY <1>0, <2>1, <2>2, <2>3 DEF Claims, TypeOK, Actors
  <2>5. \A w : Traced(w) => Traced(w)'
    BY <2>1, <2>2 DEF Traced, Known
  <2> QED
    BY <2>1, <2>2, <2>4, <2>5 DEF Claims
<1>2. ASSUME NEW p \in toRemove, RemoveWatch(p) PROVE Claims'
  <2>1. /\ Claims
        /\ \A a \in Actors : todo[a] = {} /\ pending[a] = NoEntry
    BY <1>2 DEF RemoveWatch, Removal, Reloading, Busy, Actors
  <2> DEFINE W == {e.wd : e \in Gone(p)}
  <2>2. /\ toRemove' = toRemove \ {p} /\ UNCHANGED <<targets, todo, pending>>
        /\ wd' = [d \in Dirs |-> IF wd[d] \in W THEN 0 ELSE wd[d]]
        /\ away' = away \ W
        /\ map' = map \ Gone(p)
        /\ left' = left \cup IF p.slash THEN Below(p.dir) ELSE {}
    BY <1>2 DEF RemoveWatch, Removal, acts
  <2>3. ASSUME NEW w, w # 0, w \notin W, Traced(w) PROVE Traced(w)'
    <3>1. PICK e \in Known : e.wd = w /\ Claimed(e.dir)
      BY <2>3 DEF Traced
    <3>2. e # NoEntry
      BY <2>3, <3>1 DEF NoEntry
    <3>3. e \in map /\ e.dir \in Dirs
      BY <1>0, <2>1, <3>2 DEF Known, TypeOK, Entry
    <3>4. e \notin Gone(p)
      BY <2>3, <3>1
    <3>5. e \in Known'
      BY <2>2, <3>3, <3>4 DEF Known
    <3>6. Claimed(e.dir)'
      <4>1. CASE e.dir \in left
        BY <2>2, <4>1 DEF Claimed
      <4>2. ASSUME NEW q \in targets \cup toRemove, Under(e.dir, q.dir), q # p
            PROVE  Claimed(e.dir)'
        BY <2>2, <4>2 DEF Claimed
      <4>3. CASE Under(e.dir, p.dir)
        <5>1. p.slash
          BY <3>3, <3>4, <4>3 DEF Gone
        <5>2. e.dir \in left'
          BY <2>2, <3>3, <4>3, <5>1 DEF Below
        <5> QED
          BY <5>2 DEF Claimed
      <4> QED
        BY <3>1, <4>1, <4>2, <4>3 DEF Claimed
    <3> QED
      BY <3>1, <3>5, <3>6 DEF Traced
  <2> HIDE DEF W
  <2>4. ASSUME NEW d \in Dirs, wd'[d] # 0 PROVE Traced(wd[d])'
    <3>1. wd'[d] = wd[d] /\ wd[d] \notin W
      BY <2>2, <2>4
    <3>2. Traced(wd[d])
      BY <2>1, <2>4, <3>1 DEF Claims
    <3> QED
      BY <2>3, <2>4, <3>1, <3>2
  <2>5. \A w \in away' : w # 0 /\ Traced(w)'
    BY <2>1, <2>2, <2>3 DEF Claims
  <2> QED
    BY <2>1, <2>2, <2>4, <2>5 DEF Claims
<1> QED
  BY <1>1, <1>2

LEMMA OthersKeepClaims ==
  ASSUME DInv, Claims,
         \/ AllAdded \/ EndReload
         \/ \E d \in Dirs : MakeDir(d) \/ RemoveDir(d) \/ MoveDir(d)
         \/ UNCHANGED vars
  PROVE  Claims'
<1>0. TypeOK
  BY DEF DInv
<1>1. UNCHANGED <<targets, toRemove, todo, pending, map, left>>
  BY DEF AllAdded, EndReload, MakeDir, RemoveDir, MoveDir, Changing, vars, acts, conf, history, kernel
<1>2. \A d \in Dirs : wd'[d] = wd[d] \/ wd'[d] = 0
  BY <1>0 DEF AllAdded, EndReload, MakeDir, RemoveDir, MoveDir, vars, kernel, TypeOK
<1>3. \A w \in away' : w \in away \/ \E d \in Dirs : wd[d] = w /\ w # 0
  BY DEF AllAdded, EndReload, MakeDir, RemoveDir, MoveDir, Below, vars, kernel
<1>4. \A d : Claimed(d) <=> Claimed(d)'
  BY <1>1 DEF Claimed
<1>5. \A w : Traced(w) => Traced(w)'
  BY <1>1, <1>4 DEF Traced, Known
<1>6. \A d \in Dirs : wd'[d] # 0 => Traced(wd[d])'
  BY <1>2, <1>5 DEF Claims
<1>7. \A w \in away' : w # 0 /\ Traced(w)'
  BY <1>3, <1>5 DEF Claims
<1> QED
  BY <1>1, <1>4, <1>6, <1>7 DEF Claims

LEMMA NextCInv == CInv /\ [Next]_vars => CInv'
<1> SUFFICES ASSUME CInv, [Next]_vars, ~raced' PROVE Claims'
  BY NextDInv, NextReloading, NextLeft DEF CInv, DInv
<1>1. raced' = raced \/ \E p \in toRemove : RemoveWatch(p)
  BY DEF Next, Vanished, AddWatch, AddFails, Enter, ListingFails, EnterAndList, BeginReload, AllAdded,
         EndReload, MakeDir, RemoveDir, MoveDir, Changing, vars, history
<1> QED
  BY <1>1, WalkKeepsClaims, ReloadKeepsClaims, OthersKeepClaims DEF CInv, Next

\* The variables keep their types.
THEOREM WatchTypeCorrect == Spec => []TypeOK
BY InitTypes, NextTypes, PTL DEF Spec

\* However the tree and the paths look: at rest, every watch is on a directory
\* of a configured path, or on one that was when it was moved, except below
\* removed paths that ended in a slash, and if no path was removed while the
\* watch thread was still adding (reload_config and remove_watch_recursive).
THEOREM NoStrayWatches == Spec => []OnlyScopeIsWatched
<1>1. Init => CInv
  BY InitTypes, InitDescriptors, InitClaims DEF CInv, DInv
<1>2. CInv => OnlyScopeIsWatched
  <2> SUFFICES ASSUME CInv, Quiet, ~raced
               PROVE  /\ \A d \in Dirs \ left : wd[d] # 0 => InScope(d)
                      /\ \A w \in away : \E e \in map : e.wd = w /\ (InScope(e.dir) \/ e.dir \in left)
    BY DEF OnlyScopeIsWatched
  <2>1. Claims /\ Descriptors /\ toRemove = {} /\ \A a \in Actors : pending[a] = NoEntry
    BY DEF CInv, DInv, Quiet, Reloading, Busy
  <2>2. ASSUME NEW w, w # 0, Traced(w)
        PROVE  \E e \in map : e.wd = w /\ (InScope(e.dir) \/ e.dir \in left)
    <3>1. PICK e \in Known : e.wd = w /\ Claimed(e.dir)
      BY <2>2 DEF Traced
    <3>2. e \in map
      BY <2>1, <2>2, <3>1 DEF Known, NoEntry
    <3>3. InScope(e.dir) \/ e.dir \in left
      BY <2>1, <3>1 DEF Claimed, InScope
    <3> QED
      BY <3>1, <3>2, <3>3
  <2>3. ASSUME NEW d \in Dirs \ left, wd[d] # 0 PROVE InScope(d)
    <3>1. PICK e \in map : e.wd = wd[d] /\ (InScope(e.dir) \/ e.dir \in left)
      BY <2>1, <2>2, <2>3 DEF Claims
    <3>2. e.dir = d
      BY <2>1, <2>3, <3>1 DEF Descriptors, Known
    <3> QED
      BY <2>3, <3>1, <3>2
  <2> QED
    BY <2>1, <2>2, <2>3 DEF Claims
<1> QED BY <1>1, <1>2, NextCInv, PTL DEF Spec
-----------------------------------------------------------------------------
(* The tree of directories *)

Tree == \A d \in exists, p \in Dirs : Under(d, p) => p \in exists

LEMMA Least ==
  ASSUME NEW S, S # {}, NEW f \in [S -> Nat]
  PROVE  \E c \in S : \A x \in S : f[c] <= f[x]
<1> DEFINE N == {f[x] : x \in S}
<1>1. N \subseteq Nat /\ N # {}
  OBVIOUS
<1>2. PICK n \in N : \A m \in N : ~(<<m, n>> \in OpToRel(<, Nat))
  BY <1>1, NatLessThanWellFounded, WFMin
<1>3. PICK c \in S : n = f[c]
  BY <1>2
<1>4. ASSUME NEW x \in S PROVE f[c] <= f[x]
  <2>1. f[x] \in Nat /\ f[c] \in Nat
    OBVIOUS
  <2>2. ~(<<f[x], n>> \in OpToRel(<, Nat))
    BY <1>2
  <2> QED
    BY <1>3, <2>1, <2>2 DEF OpToRel
<1> QED
  BY <1>4

LEMMA Shorter ==
  ASSUME NEW d \in Dirs, NEW p \in Dirs, Under(d, p)
  PROVE  d = p \/ (Len(p) \in Nat /\ Len(d) \in Nat /\ Len(p) < Len(d))
BY DirsAssumption, PrefixChars DEF Under

\* What a directory lies below is a chain.
LEMMA Chain ==
  ASSUME NEW d \in Dirs, NEW p \in Dirs, NEW q \in Dirs, Under(d, p), Under(d, q),
         Len(q) <= Len(p)
  PROVE  Under(p, q)
<1>1. /\ d \in Seq(Chars) /\ p \in Seq(Chars) /\ q \in Seq(Chars)
      /\ Len(d) \in Nat /\ Len(p) \in Nat /\ Len(q) \in Nat
  BY DirsAssumption
<1>2. CASE d = p
  BY <1>2
<1>3. CASE d = q
  <2>1. d = p \/ Len(p) < Len(d)
    BY Shorter
  <2> QED
    BY <1>1, <1>3, <2>1 DEF Under
<1>4. CASE d # p /\ d # q
  <2>1. /\ Len(p) < Len(d) /\ \A i \in 1..Len(p) : d[i] = p[i]
        /\ Len(q) < Len(d) /\ d[Len(q) + 1] = Slash /\ \A i \in 1..Len(q) : d[i] = q[i]
    BY <1>1, <1>4, PrefixChars DEF Under
  <2>2. CASE Len(q) = Len(p)
    <3>1. \A i \in 1..Len(p) : p[i] = q[i]
      BY <2>1, <2>2
    <3>2. p = q
      BY <1>1, <2>2, <3>1, SeqEqual
    <3> QED
      BY <3>2 DEF Under
  <2>3. CASE Len(q) # Len(p)
    <3>1. /\ Len(q) < Len(p) /\ Len(q) + 1 \in 1..Len(p)
          /\ \A i \in 1..Len(q) : i \in 1..Len(p)
      BY <1>1, <2>3
    <3>2. p[Len(q) + 1] = Slash /\ \A i \in 1..Len(q) : p[i] = q[i]
      BY <2>1, <3>1
    <3> QED
      BY <1>1, <3>1, <3>2, CharsPrefix DEF Under
  <2> QED
    BY <2>2, <2>3
<1> QED
  BY <1>2, <1>3, <1>4

\* What lies strictly below a directory lies at or below one of its entries.
LEMMA EntryOnTheWay ==
  ASSUME TypeOK, Tree, NEW e \in exists, NEW d \in Dirs, Under(e, d), e # d
  PROVE  \E c \in Children(d) : Under(e, c)
<1> DEFINE S == {x \in Dirs : Under(e, x) /\ Under(x, d) /\ x # d}
           f == [x \in S |-> Len(x)]
<1>1. e \in S /\ S \subseteq Dirs
  BY DEF TypeOK, Under
<1>2. f \in [S -> Nat]
  BY DirsAssumption
<1>3. PICK c \in S : \A x \in S : Len(c) <= Len(x)
  <2>1. \E c \in S : \A x \in S : f[c] <= f[x]
    BY <1>1, <1>2, Least
  <2> QED
    BY <2>1
<1>4. c \in exists /\ c \in Dirs
  BY <1>1 DEF Tree
<1>5. ASSUME NEW x \in Dirs, Under(c, x), Under(x, d) PROVE x \in {c, d}
  <2>1. x = d \/ x \in S
    BY <1>3, <1>4, <1>5, UnderTransitive DEF TypeOK
  <2>2. x \in S => x = c
    <3>1. x = c \/ (Len(x) \in Nat /\ Len(c) \in Nat /\ Len(x) < Len(c))
      BY <1>4, <1>5, Shorter
    <3> QED
      BY <1>3, <3>1
  <2> QED
    BY <2>1, <2>2
<1>6. c \in Children(d)
  BY <1>4, <1>5 DEF Children, IsChild
<1> QED
  BY <1>3, <1>6

LEMMA NextTree == ASSUME TypeOK, Tree, [Next]_vars PROVE Tree'
<1>1. ASSUME NEW d \in Dirs, MakeDir(d) PROVE Tree'
  <2>1. /\ exists' = exists \cup {d}
        /\ \A p \in Dirs : IsChild(d, p) => p \in exists
    BY <1>1 DEF MakeDir
  <2>2. ASSUME NEW q \in Dirs, Under(d, q), q # d PROVE q \in exists
    <3> DEFINE S == {x \in Dirs : Under(d, x) /\ x # d}
               f == [x \in S |-> Len(d) - Len(x)]
    <3>1. q \in S
      BY <2>2
    <3>2. \A x \in S : Len(x) \in Nat /\ Len(d) \in Nat /\ Len(x) < Len(d)
      BY Shorter
    <3>3. f \in [S -> Nat]
      BY <3>2
    <3>4. PICK p \in S : \A x \in S : f[p] <= f[x]
      BY <3>1, <3>3, Least
    <3>5. \A x \in S : Len(x) <= Len(p)
      BY <3>2, <3>4
    <3>6. ASSUME NEW x \in Dirs, Under(d, x), Under(x, p) PROVE x \in {d, p}
      <4>1. x = p \/ (Len(p) \in Nat /\ Len(x) \in Nat /\ Len(p) < Len(x))
        BY <3>6, Shorter
      <4>2. x = d \/ Len(x) <= Len(p)
        BY <3>5, <3>6
      <4> QED
        BY <4>1, <4>2
    <3>7. p \in exists
      BY <2>1, <3>6 DEF IsChild
    <3>8. Under(p, q)
      BY <2>2, <3>1, <3>5, Chain
    <3> QED
      BY <3>7, <3>8 DEF Tree
  <2> QED
    BY <2>1, <2>2 DEF Tree
<1>2. ASSUME NEW d \in Dirs, RemoveDir(d) PROVE Tree'
  <2>1. exists' = exists \ {d} /\ Children(d) = {}
    BY <1>2 DEF RemoveDir
  <2>2. \A e \in exists : Under(e, d) => e = d
    BY <2>1, EntryOnTheWay
  <2> QED
    BY <2>1, <2>2 DEF Tree
<1>3. ASSUME NEW d \in Dirs, MoveDir(d) PROVE Tree'
  <2>1. exists' = exists \ Below(d)
    BY <1>3 DEF MoveDir
  <2>2. ASSUME NEW e \in exists', NEW p \in Dirs, Under(e, p) PROVE p \in exists'
    <3>1. e \in exists /\ e \in Dirs /\ ~Under(e, d)
      BY <2>1 DEF TypeOK, Below
    <3>2. p \in exists
      BY <2>2, <3>1 DEF Tree
    <3>3. ~Under(p, d)
      BY <2>2, <3>1, UnderTransitive
    <3> QED
      BY <2>1, <3>2, <3>3 DEF Below
  <2> QED
    BY <2>2 DEF Tree
<1>4. exists' = exists \/ \E d \in Dirs : MakeDir(d) \/ RemoveDir(d) \/ MoveDir(d)
  BY DEF Next, Vanished, AddWatch, AddFails, Enter, ListingFails, EnterAndList, BeginReload, AllAdded,
         RemoveWatch, Removal, EndReload, vars
<1> QED
  BY <1>1, <1>2, <1>3, <1>4 DEF Tree
-----------------------------------------------------------------------------
(* What is configured is reached *)

Entering(d) == wd[d] # 0 /\ \E a \in Actors : pending[a].wd = wd[d] /\ pending[a].dir = d
ToVisit(d) == \E a \in Actors :
                 \/ \E i \in todo[a] : Under(d, i.dir)
                 \/ pending[a] # NoEntry /\ d # pending[a].dir /\ Under(d, pending[a].dir)

\* Every directory that has to be watched is, or is about to be entered in the
\* map, or lies at or below something a walk has still to visit.
Reached(d) == Watched(d) \/ Entering(d) \/ ToVisit(d)
RInv == /\ DInv /\ Tree /\ Reloading
        /\ \A d \in exists \ excused : InScope(d) => Reached(d)

LEMMA InitRInv == Init => RInv
<1> SUFFICES ASSUME Init PROVE RInv
  OBVIOUS
<1>1. DInv /\ Reloading
  BY InitTypes, InitDescriptors, InitClaims DEF DInv
<1>2. Tree
  BY ParentsAssumption DEF Init, Tree
<1>3. ASSUME NEW d \in exists, InScope(d) PROVE ToVisit(d)
  <2>1. PICK p \in targets : Under(d, p.dir)
    BY <1>3 DEF InScope
  <2>2. [dir |-> p.dir, slash |-> p.slash, base |-> TRUE] \in todo["watcher"] /\ "watcher" \in Actors
    BY DEF Init, Bases, Actors
  <2> QED
    BY <2>1, <2>2 DEF ToVisit
<1> QED
  BY <1>1, <1>2, <1>3 DEF RInv, Reached

\* What lies below a directory and was not overlooked lies below what is listed.
LEMMA ListedOnTheWay ==
  ASSUME TypeOK, Tree, NEW d \in exists, NEW p \in Dirs, Under(d, p), d # p,
         NEW S \in SUBSET Children(p), d \notin Overlooked(p, S)
  PROVE  \E j \in Subitems(S) : Under(d, j.dir)
<1>1. PICK c \in Children(p) : Under(d, c)
  BY EntryOnTheWay
<1>2. c \in S
  BY <1>1 DEF Overlooked, Below, TypeOK
<1>3. [dir |-> c, slash |-> FALSE, base |-> FALSE] \in Subitems(S)
  BY <1>2 DEF Subitems
<1> QED
  BY <1>1, <1>3

LEMMA AddReaches ==
  ASSUME DInv, NEW a \in Actors, NEW i \in todo[a], AddWatch(a, i),
         NEW d \in Dirs, Reached(d)
  PROVE  Reached(d)'
<1> DEFINE w == IF wd[i.dir] # 0 THEN wd[i.dir] ELSE nextWd
           n == [wd |-> w, dir |-> i.dir, slash |-> i.slash]
<1>0. TypeOK
  BY DEF DInv
<1>1. /\ todo' = [todo EXCEPT ![a] = @ \ {i}] /\ map' = map
      /\ wd' = [wd EXCEPT ![i.dir] = w]
      /\ pending' = [pending EXCEPT ![a] = n]
      /\ pending[a] = NoEntry /\ i.dir \in Dirs /\ w # 0
  BY <1>0 DEF AddWatch, Visit, TypeOK, Item
<1>2. n.wd = w /\ n.dir = i.dir
  OBVIOUS
<1> HIDE DEF w, n
<1>3. /\ wd'[i.dir] = w /\ \A e \in Dirs \ {i.dir} : wd'[e] = wd[e]
      /\ pending'[a] = n /\ n # NoEntry
      /\ \A b \in Actors : pending[b] # NoEntry => pending'[b] = pending[b]
  BY <1>0, <1>1, <1>2 DEF TypeOK, NoEntry
<1>4. CASE d = i.dir
  <2>1. Entering(d)'
    BY <1>1, <1>2, <1>3, <1>4 DEF Entering
  <2> QED
    BY <2>1 DEF Reached
<1>5. CASE d # i.dir /\ Under(d, i.dir)
  <2>1. ToVisit(d)'
    BY <1>2, <1>3, <1>5 DEF ToVisit
  <2> QED
    BY <2>1 DEF Reached
<1>6. CASE ~Under(d, i.dir)
  <2>1. d # i.dir /\ wd'[d] = wd[d]
    BY <1>3, <1>6 DEF Under
  <2>2. Watched(d) => Watched(d)'
    BY <1>1, <2>1 DEF Watched
  <2>3. Entering(d) => Entering(d)'
    <3> SUFFICES ASSUME wd[d] # 0, NEW b \in Actors, pending[b].wd = wd[d], pending[b].dir = d
                 PROVE  Entering(d)'
      BY DEF Entering
    <3>1. pending[b] # NoEntry
      BY DEF NoEntry
    <3> QED
      BY <1>3, <2>1, <3>1 DEF Entering
  <2>4. ToVisit(d) => ToVisit(d)'
    <3>1. ASSUME NEW b \in Actors, NEW j \in todo[b], Under(d, j.dir) PROVE ToVisit(d)'
      <4>1. j \in todo'[b]
        BY <1>0, <1>1, <1>6, <3>1 DEF TypeOK
      <4> QED
        BY <3>1, <4>1 DEF ToVisit
    <3>2. ASSUME NEW b \in Actors, pending[b] # NoEntry, d # pending[b].dir, Under(d, pending[b].dir)
          PROVE  ToVisit(d)'
      BY <1>3, <3>2 DEF ToVisit
    <3> QED
      BY <3>1, <3>2 DEF ToVisit
  <2> QED
    BY <2>2, <2>3, <2>4 DEF Reached
<1> QED
  BY <1>4, <1>5, <1>6

LEMMA ListReaches ==
  ASSUME DInv, Tree, NEW a \in Actors, pending[a] # NoEntry,
         NEW S \in SUBSET Children(pending[a].dir), EnterAndList(a, S),
         NEW d \in exists, d \notin excused', Reached(d)
  PROVE  Reached(d)'
<1>0. TypeOK /\ Descriptors /\ d \in Dirs
  BY DEF DInv, TypeOK
<1>1. /\ map' = {e \in map : e.wd # pending[a].wd} \cup {pending[a]} /\ wd' = wd
      /\ pending' = [pending EXCEPT ![a] = NoEntry]
      /\ todo' = [todo EXCEPT ![a] = @ \cup Subitems(S)]
      /\ d \notin Overlooked(pending[a].dir, S)
  BY DEF EnterAndList, kernel
<1>2. pending[a].dir \in Dirs
  BY <1>0, ListingTypes
<1>3. /\ todo'[a] = todo[a] \cup Subitems(S)
      /\ \A b \in Actors : todo[b] \subseteq todo'[b]
      /\ \A b \in Actors \ {a} : pending'[b] = pending[b]
  BY <1>0, <1>1 DEF TypeOK
<1>4. Watched(d) => Watched(d)'
  <2> SUFFICES ASSUME wd[d] # 0, NEW e \in map, e.wd = wd[d], e.dir = d PROVE Watched(d)'
    BY DEF Watched
  <2>1. CASE e.wd # pending[a].wd
    BY <1>1, <2>1 DEF Watched
  <2>2. CASE e.wd = pending[a].wd
    <3>1. pending[a] \in Known
      BY DEF Known
    <3>2. pending[a].dir = d
      BY <1>0, <2>2, <3>1 DEF Descriptors
    <3> QED
      BY <1>1, <2>2, <3>2 DEF Watched
  <2> QED
    BY <2>1, <2>2
<1>5. Entering(d) => Watched(d)' \/ Entering(d)'
  BY <1>1, <1>3 DEF Entering, Watched
<1>6. ToVisit(d) => ToVisit(d)'
  <2>1. ASSUME NEW b \in Actors, NEW j \in todo[b], Under(d, j.dir) PROVE ToVisit(d)'
    BY <1>3, <2>1 DEF ToVisit
  <2>2. ASSUME NEW b \in Actors \ {a}, pending[b] # NoEntry, d # pending[b].dir, Under(d, pending[b].dir)
        PROVE  ToVisit(d)'
    BY <1>3, <2>2 DEF ToVisit
  <2>3. ASSUME d # pending[a].dir, Under(d, pending[a].dir) PROVE ToVisit(d)'
    <3>1. PICK j \in Subitems(S) : Under(d, j.dir)
      BY <1>0, <1>1, <1>2, <2>3, ListedOnTheWay
    <3> QED
      BY <1>3, <3>1 DEF ToVisit
  <2> QED
    BY <2>1, <2>2, <2>3 DEF ToVisit
<1> QED
  BY <1>4, <1>5, <1>6 DEF Reached

LEMMA WalkReaches ==
  ASSUME RInv, NEW a \in Actors,
         \/ Enter(a) \/ ListingFails(a)
         \/ \E i \in todo[a] : Vanished(a, i) \/ AddWatch(a, i) \/ AddFails(a, i),
         NEW d \in exists \ excused, d \notin excused', Reached(d)
  PROVE  Reached(d)'
<1>1. DInv /\ TypeOK /\ Tree /\ d \in Dirs /\ d \in exists
  BY DEF RInv, DInv, TypeOK
<1>2. ASSUME NEW i \in todo[a], Vanished(a, i) PROVE Reached(d)'
  <2>1. /\ todo' = [todo EXCEPT ![a] = @ \ {i}] /\ UNCHANGED <<wd, map, pending>>
        /\ i.dir \notin exists /\ i.dir \in Dirs
    BY <1>1, <1>2 DEF Vanished, TypeOK, Item, kernel
  <2>2. ~Under(d, i.dir)
    BY <1>1, <2>1 DEF Tree
  <2>3. ToVisit(d) => ToVisit(d)'
    BY <1>1, <2>1, <2>2 DEF ToVisit, TypeOK
  <2> QED
    BY <2>1, <2>3 DEF Reached, Watched, Entering
<1>3. ASSUME NEW i \in todo[a], AddWatch(a, i) PROVE Reached(d)'
  BY <1>1, <1>3, AddReaches
<1>4. ASSUME NEW i \in todo[a], AddFails(a, i) PROVE Reached(d)'
  <2>1. PICK S \in SUBSET Children(i.dir) :
           /\ todo' = [todo EXCEPT ![a] = (@ \ {i}) \cup Subitems(S)]
           /\ excused' = excused \cup {i.dir} \cup Overlooked(i.dir, S)
    BY <1>4 DEF AddFails
  <2>2. UNCHANGED <<wd, map, pending>> /\ i.dir \in Dirs
    BY <1>1, <1>4 DEF AddFails, TypeOK, Item, kernel
  <2>3. CASE Under(d, i.dir)
    <3>1. d # i.dir /\ d \notin Overlooked(i.dir, S)
      BY <2>1
    <3>2. PICK j \in Subitems(S) : Under(d, j.dir)
      BY <1>1, <2>1, <2>2, <2>3, <3>1, ListedOnTheWay
    <3>3. j \in todo'[a]
      BY <1>1, <2>1, <3>2 DEF TypeOK
    <3>4. ToVisit(d)'
      BY <3>2, <3>3 DEF ToVisit
    <3> QED
      BY <3>4 DEF Reached
  <2>4. CASE ~Under(d, i.dir)
    <3>1. \A b \in Actors : \A j \in todo[b] : Under(d, j.dir) => j \in todo'[b]
      BY <1>1, <2>1, <2>4 DEF TypeOK
    <3>2. ToVisit(d) => ToVisit(d)'
      BY <2>2, <3>1 DEF ToVisit
    <3> QED
      BY <2>2, <3>2 DEF Reached, Watched, Entering
  <2> QED
    BY <2>3, <2>4
<1>5. CASE Enter(a) \/ ListingFails(a)
  <2>1. PICK S \in SUBSET Children(pending[a].dir) : EnterAndList(a, S)
    BY <1>5, Listing
  <2>2. pending[a] # NoEntry
    BY <1>5, Listing
  <2> QED
    BY <1>1, <2>1, <2>2, ListReaches
<1> QED
  BY <1>2, <1>3, <1>4, <1>5

LEMMA ReloadReaches ==
  ASSUME RInv, NEW T \in TargetSets, BeginReload(T),
         NEW d \in exists, d \notin excused', InScope(d)'
  PROVE  Reached(d)'
<1>1. /\ TypeOK /\ Reloading /\ targets' = T /\ UNCHANGED <<wd, map, pending>>
      /\ todo' = [todo EXCEPT !["main"] = Bases(T \ targets)]
      /\ excused' = excused \ UNION {Below(p.dir) \cap exists : p \in T \ targets}
      /\ "main" \in Actors /\ d \in Dirs /\ todo["main"] = {}
  BY DEF RInv, DInv, BeginReload, Actors, Reloading, Busy, TypeOK, kernel
<1>2. PICK p \in T : Under(d, p.dir)
  BY <1>1 DEF InScope
<1>3. ASSUME NEW q \in T \ targets, Under(d, q.dir) PROVE Reached(d)'
  <2>1. [dir |-> q.dir, slash |-> q.slash, base |-> TRUE] \in todo'["main"]
    BY <1>1, <1>3 DEF Bases, TypeOK
  <2>2. ToVisit(d)'
    BY <1>1, <1>3, <2>1 DEF ToVisit
  <2> QED
    BY <2>2 DEF Reached
<1>4. CASE p \in targets /\ ~\E q \in T \ targets : Under(d, q.dir)
  <2>1. d \notin excused /\ InScope(d)
    BY <1>1, <1>2, <1>4 DEF InScope, Below
  <2>2. Reached(d)
    BY <2>1 DEF RInv
  <2>3. \A a \in Actors : todo[a] \subseteq todo'[a]
    BY <1>1 DEF TypeOK
  <2>4. ToVisit(d) => ToVisit(d)'
    BY <1>1, <2>3 DEF ToVisit
  <2> QED
    BY <1>1, <2>2, <2>4 DEF Reached, Watched, Entering
<1> QED
  BY <1>2, <1>3, <1>4

LEMMA RemovalReaches ==
  ASSUME RInv, NEW p \in toRemove, RemoveWatch(p),
         NEW d \in exists, d \notin excused', InScope(d)
  PROVE  Reached(d)'
<1> DEFINE W == {e.wd : e \in Gone(p)}
<1>1. TypeOK /\ Descriptors /\ d \in Dirs
  BY DEF RInv, DInv, TypeOK
<1>2. /\ UNCHANGED <<targets, todo, pending>>
      /\ wd' = [e \in Dirs |-> IF wd[e] \in W THEN 0 ELSE wd[e]]
      /\ map' = map \ Gone(p)
      /\ excused' = excused \cup {e \in Below(p.dir) : InScope(e)}
  BY DEF RemoveWatch, Removal, acts
<1>3. d \notin excused /\ ~Under(d, p.dir)
  BY <1>1, <1>2 DEF Below
<1>4. Reached(d)
  BY <1>3 DEF RInv
<1>5. \A e \in Gone(p) : e \in Known /\ Under(e.dir, p.dir)
  BY DEF Gone, Known, Under
<1>6. wd[d] # 0 => wd[d] \notin W
  BY <1>1, <1>3, <1>5 DEF Descriptors
<1> HIDE DEF W
<1>7. wd[d] # 0 => wd'[d] = wd[d]
  BY <1>1, <1>2, <1>6
<1>8. Watched(d) => Watched(d)'
  <2> SUFFICES ASSUME wd[d] # 0, NEW e \in map, e.wd = wd[d], e.dir = d PROVE Watched(d)'
    BY DEF Watched
  <2>1. e \in map'
    BY <1>2, <1>3, <1>5
  <2> QED
    BY <1>7, <2>1 DEF Watched
<1>9. Entering(d) => Entering(d)'
  BY <1>2, <1>7 DEF Entering
<1>10. ToVisit(d) => ToVisit(d)'
  BY <1>2 DEF ToVisit
<1> QED
  BY <1>4, <1>8, <1>9, <1>10 DEF Reached

LEMMA NextRInv == RInv /\ [Next]_vars => RInv'
<1> SUFFICES ASSUME RInv, [Next]_vars, NEW d \in exists', d \notin excused', InScope(d)'
             PROVE  Reached(d)'
  BY NextDInv, NextReloading, NextTree DEF RInv, DInv
<1>1. TypeOK /\ TypeOK' /\ d \in Dirs
  BY NextTypes DEF RInv, DInv, TypeOK
<1>2. CASE \E a \in Actors : \/ \E i \in todo[a] : Vanished(a, i) \/ AddWatch(a, i) \/ AddFails(a, i)
                             \/ Enter(a) \/ ListingFails(a)
  <2>1. d \in exists /\ d \notin excused /\ InScope(d)
    BY <1>2 DEF Vanished, AddWatch, AddFails, Enter, ListingFails, EnterAndList, InScope, conf
  <2>2. Reached(d)
    BY <2>1 DEF RInv
  <2> QED
    BY <1>2, <2>1, <2>2, WalkReaches
<1>3. CASE \E T \in TargetSets : BeginReload(T)
  BY <1>3, ReloadReaches DEF BeginReload
<1>4. CASE \E p \in toRemove : RemoveWatch(p)
  <2>1. PICK p \in toRemove : RemoveWatch(p)
    BY <1>4
  <2>2. d \in exists /\ InScope(d)
    BY <2>1 DEF RemoveWatch, Removal, InScope
  <2> QED
    BY <2>1, <2>2, RemovalReaches
<1>5. CASE AllAdded \/ EndReload \/ UNCHANGED vars
  <2>1. UNCHANGED <<exists, excused, targets, wd, map, todo, pending>>
    BY <1>5 DEF AllAdded, EndReload, vars, acts, kernel
  <2>2. Reached(d)
    BY <2>1 DEF RInv, InScope
  <2> QED
    BY <2>1, <2>2 DEF Reached, Watched, Entering, ToVisit
<1>6. ASSUME NEW e \in Dirs, MakeDir(e) \/ RemoveDir(e) \/ MoveDir(e) PROVE Reached(d)'
  <2>1. UNCHANGED <<targets, map, todo, pending>>
    BY <1>6 DEF MakeDir, RemoveDir, MoveDir, Changing, acts, conf
  <2>2. d \in exists /\ d \notin excused /\ wd'[d] = wd[d]
    <3>1. CASE MakeDir(e)
      BY <3>1 DEF MakeDir
    <3>2. CASE RemoveDir(e)
      BY <1>1, <3>2 DEF RemoveDir, TypeOK
    <3>3. CASE MoveDir(e)
      BY <1>1, <3>3 DEF MoveDir, Below
    <3> QED
      BY <1>6, <3>1, <3>2, <3>3
  <2>3. Reached(d)
    BY <2>1, <2>2 DEF RInv, InScope
  <2> QED
    BY <2>1, <2>2, <2>3 DEF Reached, Watched, Entering, ToVisit
<1> QED
  BY <1>2, <1>3, <1>4, <1>5, <1>6 DEF Next

\* When the threads have come to rest, every directory of a configured path is
\* watched and its events find their path, for any tree, any paths and any
\* reloads, except those whose miss has a named cause (add_watch_recursive,
\* reload_config and remove_watch_recursive beside the watch thread).
THEOREM ConfiguredIsWatched == Spec => []ScopeIsWatched
<1>1. RInv => ScopeIsWatched
  <2> SUFFICES ASSUME RInv, Quiet, NEW d \in exists \ excused, InScope(d) PROVE Watched(d)
    BY DEF ScopeIsWatched
  <2>1. \A a \in Actors : todo[a] = {} /\ pending[a] = NoEntry
    BY DEF Quiet, Busy
  <2>2. ~ToVisit(d)
    BY <2>1 DEF ToVisit
  <2>3. ~Entering(d)
    BY <2>1 DEF Entering, NoEntry
  <2> QED
    BY <2>2, <2>3 DEF RInv, Reached
<1> QED
  BY <1>1, InitRInv, NextRInv, PTL DEF Spec
=============================================================================
